---------------------------- MODULE ESNodeProofs -----------------------------
(***************************************************************************)
(* A node of the Reuters engine, for buffers and records of every size,    *)
(* any finite set of connections and every interleaving of its threads:    *)
(*  - the slot that the engine goes on using after it has taken an event   *)
(*    is not written before the engine takes the next one;                 *)
(*  - the outputmap has only subscribers in it, although descriptors are   *)
(*    used again;                                                          *)
(*  - the engine processes what passes of the events that came in, in      *)
(*    order, and the client puts the records together that were sent,      *)
(*    unless one came in more than two pieces;                             *)
(*  - what a subscriber receives is a run of the results of the operator   *)
(*    it asked for, unless a buffer was made empty while the engine was    *)
(*    adding to it.                                                        *)
(***************************************************************************)
EXTENDS ESNode, SequenceTheorems, WellFoundedInduction, FiniteSetTheorems, TLAPS

BufferOK ==
  /\ buf \in [curr : 0..BufferSize, end : 0..BufferSize, slot : [Slot -> Int]]
  /\ buf.curr < BufferSize \/ epc = "wrap"
  /\ buf.end < BufferSize \/ fpc \in {"wrap", "wraprecv"}
  /\ arrived \in Nat

\* The thread of a FileSource does not run before the query is opened.
NotStarted == plan.root = "file" /\ epc = "open" => fpc = "off"

\* The slot in hand is the one before _curr: the one that full() keeps free.
HandIsBehind ==
  hand # NULL =>
    /\ hand \in Slot
    /\ (hand + 1) % BufferSize = buf.curr % BufferSize
    /\ buf.slot[hand] = held

IInv == BufferOK /\ HandIsBehind /\ NotStarted

\* The remainder is a slot, and taking it twice changes nothing.
LEMMA Remainder ==
  ASSUME NEW i \in 0..BufferSize
  PROVE  i % BufferSize \in Slot /\ (i % BufferSize) % BufferSize = i % BufferSize
<1>1. CASE i = BufferSize
  <2>1. i % BufferSize = 0
    BY <1>1, SizeAssumption
  <2>2. 0 % BufferSize = 0
    BY SizeAssumption
  <2> QED BY <2>1, <2>2, SizeAssumption DEF Slot
<1>2. CASE i < BufferSize
  <2>1. i % BufferSize = i
    BY <1>2, SizeAssumption
  <2> QED BY <1>2, <2>1, SizeAssumption DEF Slot
<1> QED BY <1>1, <1>2, SizeAssumption

\* What the bytes of an event say is a number.
LEMMA EventType == ASSUME NEW bytes PROVE Event(bytes) \in Int
<1>1. CASE \E m \in 1..plan.events : bytes = Frame(m)
  <2>1. PICK m \in 1..plan.events : bytes = Frame(m)
    BY <1>1
  <2>2. bytes[1] = <<m, 1>>
    BY <2>1, NodeAssumption DEF Frame
  <2> QED BY <1>1, <2>2 DEF Event
<1>2. CASE ~\E m \in 1..plan.events : bytes = Frame(m)
  BY <1>2 DEF Event
<1> QED BY <1>1, <1>2

\* At the start the buffer is empty and the engine has taken nothing.
LEMMA InitIInv == Init => IInv
BY SizeAssumption DEF Init, NewBuffer, Slot, IInv, BufferOK, HandIsBehind, NotStarted

\* Adding an event writes a slot other than the one in hand.
LEMMA AddStep ==
  ASSUME IInv, NEW e \in Int, NEW next \in {"wrap", "wraprecv"},
         fpc \in {"read", "assemble"}, FillerAdds(e, next), UNCHANGED <<plan, engineVars>>,
         arrived' \in Nat
  PROVE  IInv'
<1> USE DEF IInv
<1>1. /\ ~Full(buf) /\ fpc' = next
      /\ buf' = [[buf EXCEPT !.slot[buf.end] = e] EXCEPT !.end = @ + 1]
      /\ hand' = hand /\ held' = held /\ epc' = epc /\ plan' = plan
  BY DEF FillerAdds, Copied, EndMoved, engineVars
<1>2. buf.end \in Slot /\ buf.end \in Nat /\ buf.end < BufferSize
  BY SizeAssumption DEF BufferOK, Slot
<1>3. /\ buf'.curr = buf.curr /\ buf'.end = buf.end + 1
      /\ buf'.slot = [buf.slot EXCEPT ![buf.end] = e]
      /\ buf' \in [curr : 0..BufferSize, end : 0..BufferSize, slot : [Slot -> Int]]
  <2> DEFINE written == [buf.slot EXCEPT ![buf.end] = e]
  <2>1. buf' = [buf EXCEPT !.slot = written, !.end = buf.end + 1]
    BY <1>1 DEF BufferOK
  <2>2. written \in [Slot -> Int]
    BY <1>2 DEF BufferOK
  <2>3. buf.end + 1 \in 0..BufferSize
    BY <1>2, SizeAssumption
  <2> HIDE DEF written
  <2>4. /\ buf'.curr = buf.curr /\ buf'.end = buf.end + 1 /\ buf'.slot = written
        /\ buf' \in [curr : 0..BufferSize, end : 0..BufferSize, slot : [Slot -> Int]]
    BY <2>1, <2>2, <2>3 DEF BufferOK
  <2> QED BY <2>4 DEF written
<1>4. BufferOK'
  BY <1>1, <1>3 DEF BufferOK
<1>5. HandIsBehind'
  <2> SUFFICES ASSUME hand # NULL PROVE HandIsBehind'
    BY <1>1 DEF HandIsBehind
  <2>1. hand # buf.end
    BY <1>1 DEF HandIsBehind, Full
  <2>2. buf'.slot[hand] = buf.slot[hand]
    BY <1>2, <1>3, <2>1 DEF HandIsBehind, BufferOK
  <2> QED BY <1>1, <1>3, <2>2 DEF HandIsBehind
<1>6. NotStarted'
  BY <1>1 DEF NotStarted
<1> QED BY <1>4, <1>5, <1>6

\* The filler's index wraps.
LEMMA EndWrapsStep == ASSUME IInv, EndWraps PROVE IInv'
<1> USE DEF IInv
<1>1. /\ buf' = [buf EXCEPT !.end = @ % BufferSize]
      /\ UNCHANGED <<plan, arrived, hand, held, epc>> /\ fpc \in {"wrap", "wraprecv"}
  BY DEF EndWraps, EndWrapped, engineVars
<1>2. buf.end % BufferSize \in Slot
  BY Remainder DEF BufferOK
<1>3. /\ buf'.curr = buf.curr /\ buf'.slot = buf.slot
      /\ buf'.end = buf.end % BufferSize
      /\ buf' \in [curr : 0..BufferSize, end : 0..BufferSize, slot : [Slot -> Int]]
  BY <1>1, <1>2, SizeAssumption DEF BufferOK, Slot
<1>4. BufferOK'
  <2>1. buf'.end < BufferSize
    BY <1>2, <1>3, SizeAssumption DEF Slot
  <2> QED BY <1>1, <1>3, <2>1 DEF BufferOK
<1>5. HandIsBehind'
  BY <1>1, <1>3 DEF HandIsBehind
<1>6. NotStarted'
  BY <1>1 DEF NotStarted
<1> QED BY <1>4, <1>5, <1>6

\* Steps that leave the buffer and the hand alone.
LEMMA QuietStep ==
  ASSUME IInv, UNCHANGED <<plan, buf, hand, held>>, arrived' \in Nat,
         epc' = epc \/ (epc # "wrap" /\ epc' # "open"),
         fpc' = fpc \/ (fpc \notin {"off", "wrap", "wraprecv"})
                    \/ (fpc = "off" /\ epc' # "open")
  PROVE  IInv'
BY DEF IInv, BufferOK, HandIsBehind, NotStarted

\* The filler.
LEMMA FillerStep == ASSUME IInv, Filler PROVE IInv'
<1> USE DEF IInv
<1>1. CASE EndWraps
  BY <1>1, EndWrapsStep
<1>2. CASE ReadLine
  <2>1. /\ FillerAdds(arrived + 1, "wrap") /\ arrived' = arrived + 1
        /\ fpc = "read" /\ UNCHANGED <<plan, engineVars>>
    BY <1>2 DEF ReadLine
  <2>2. arrived + 1 \in Int /\ arrived' \in Nat
    BY <2>1 DEF BufferOK
  <2> QED BY <2>1, <2>2, AddStep
<1>3. CASE Assemble
  <2>1. PICK bytes : FillerAdds(Event(bytes), "wraprecv")
    BY <1>3 DEF Assemble
  <2>2. fpc = "assemble" /\ arrived' = arrived /\ UNCHANGED <<plan, engineVars>>
    BY <1>3 DEF Assemble
  <2>3. arrived' \in Nat
    BY <2>2 DEF BufferOK
  <2>4. Event(bytes) \in Int
    BY EventType
  <2> QED BY <2>1, <2>2, <2>3, <2>4, AddStep
<1>4. CASE Recv
  <2>1. PICK n \in 1..MaxRecv : arrived' = arrived + n
    BY <1>4 DEF Recv
  <2>2. arrived' \in Nat
    BY <2>1 DEF BufferOK
  <2>3. UNCHANGED <<plan, buf, hand, held, epc>>
        /\ fpc \notin {"off", "wrap", "wraprecv"}
    BY <1>4 DEF Recv, engineVars
  <2> QED BY <2>2, <2>3, QuietStep
<1>5. CASE FileEnds \/ RecvEnds \/ Overrun \/ KeepRest
  <2>1. /\ UNCHANGED <<plan, buf, hand, held, epc, arrived>>
        /\ fpc' = fpc \/ fpc \notin {"off", "wrap", "wraprecv"}
    BY <1>5 DEF FileEnds, RecvEnds, Overrun, KeepRest, engineVars, fillVars
  <2>2. arrived' \in Nat
    BY <2>1 DEF BufferOK
  <2> QED BY <2>1, <2>2, QuietStep
<1> QED BY <1>1, <1>2, <1>3, <1>4, <1>5 DEF Filler

\* Taking an event.
LEMMA TakeStep == ASSUME IInv, Take PROVE IInv'
<1> USE DEF IInv
<1>1. /\ epc = "take" /\ epc' = "wrap" /\ UNCHANGED <<fpc, arrived>>
      /\ hand' = buf.curr /\ held' = buf.slot[buf.curr]
      /\ buf' = [buf EXCEPT !.curr = @ + 1]
  BY DEF Take, EngineStep, CurrMoved, fillVars
<1>2. buf.curr \in Slot /\ buf.curr + 1 \in 0..BufferSize
  BY <1>1, SizeAssumption DEF BufferOK, Slot
<1>3. /\ buf'.curr = buf.curr + 1 /\ buf'.slot = buf.slot /\ buf'.end = buf.end
      /\ buf' \in [curr : 0..BufferSize, end : 0..BufferSize, slot : [Slot -> Int]]
  BY <1>1, <1>2 DEF BufferOK
<1>4. BufferOK'
  BY <1>1, <1>3 DEF BufferOK
<1>5. HandIsBehind'
  BY <1>1, <1>2, <1>3 DEF HandIsBehind
<1>6. NotStarted'
  BY <1>1 DEF NotStarted
<1> QED BY <1>4, <1>5, <1>6

\* The engine's index wraps.
LEMMA TakeWrapsStep == ASSUME IInv, TakeWraps PROVE IInv'
<1> USE DEF IInv
<1>1. /\ buf' = [buf EXCEPT !.curr = @ % BufferSize]
      /\ UNCHANGED <<arrived, fpc, hand, held>> /\ epc' = "offer"
  BY DEF TakeWraps, EngineStep, CurrWrapped, fillVars
<1>2. buf.curr % BufferSize \in Slot
      /\ (buf.curr % BufferSize) % BufferSize = buf.curr % BufferSize
  BY Remainder DEF BufferOK
<1>3. buf.curr % BufferSize \in 0..BufferSize /\ buf.curr % BufferSize < BufferSize
  BY <1>2, SizeAssumption DEF Slot
<1>4. /\ buf'.curr = buf.curr % BufferSize /\ buf'.slot = buf.slot /\ buf'.end = buf.end
      /\ BufferOK'
  <2> DEFINE c == buf.curr % BufferSize
  <2>1. buf' = [buf EXCEPT !.curr = c] /\ c \in 0..BufferSize /\ c < BufferSize
    BY <1>1, <1>3
  <2> HIDE DEF c
  <2>2. /\ buf'.curr = c /\ buf'.slot = buf.slot /\ buf'.end = buf.end
        /\ BufferOK'
    BY <1>1, <2>1 DEF BufferOK
  <2> QED BY <2>2 DEF c
<1>5. HandIsBehind'
  BY <1>1, <1>2, <1>4 DEF HandIsBehind
<1>6. NotStarted'
  BY <1>1 DEF NotStarted
<1> QED BY <1>4, <1>5, <1>6

\* The engine is done with the event.
LEMMA DoneStep == ASSUME IInv, RootDone \/ FilterChild PROVE IInv'
<1>1. /\ hand' = NULL /\ epc = "done" /\ epc' = "poll" /\ UNCHANGED <<buf, fpc, arrived>>
  BY DEF RootDone, FilterChild, EngineStep, fillVars
<1> QED BY <1>1 DEF IInv, BufferOK, HandIsBehind, NotStarted

\* The engine.
LEMMA EngineInv == ASSUME IInv, Engine PROVE IInv'
<1>1. CASE Take \/ TakeWraps \/ RootDone \/ FilterChild
  BY <1>1, TakeStep, TakeWrapsStep, DoneStep
<1>2. CASE OpenRoot \/ AddOperator
  <2>1. /\ UNCHANGED <<plan, buf, hand, held, arrived>> /\ epc # "wrap" /\ epc' # "open"
        /\ fpc' = fpc \/ (plan.root = "file" /\ epc = "open")
    BY <1>2 DEF OpenRoot, AddOperator, fillVars
  <2>2. arrived' \in Nat
    BY <2>1 DEF IInv, BufferOK
  <2>3. fpc' = fpc \/ fpc = "off"
    BY <2>1 DEF IInv, NotStarted
  <2> QED BY <2>1, <2>2, <2>3, QuietStep
<1>3. CASE \/ EngineHasNext \/ MayTake \/ ReturnsNothing \/ EngineCrashes \/ NotOffered
           \/ Offered \/ OfferCrashes \/ SockCopy \/ SockLoad \/ SockStore \/ SockWraps
  <2>1. UNCHANGED <<plan, buf, hand, held, arrived, fpc>> /\ epc # "wrap" /\ epc' # "open"
    BY <1>3 DEF EngineHasNext, MayTake, ReturnsNothing, EngineCrashes, NotOffered,
       Offered, OfferCrashes, SockCopy, SockLoad, SockStore, SockWraps, EngineStep, fillVars
  <2>2. arrived' \in Nat
    BY <2>1 DEF IInv, BufferOK
  <2> QED BY <2>1, <2>2, QuietStep
<1> QED BY <1>1, <1>2, <1>3 DEF Engine

\* The other threads and the subscribers touch neither the buffer nor the hand.
LEMMA OthersStep ==
  ASSUME IInv, Server \/ Writer \/ \E c \in Conn : Connect(c) \/ Ask(c) \/ Read(c) \/ Leave(c)
  PROVE  IInv'
<1>1. CASE Server
  <2>1. UNCHANGED <<plan, buf, fillVars, engineVars>>
    BY <1>1 DEF Server, Accept, RecvRequest, HangUp, SubscribeLock, SetFlag, SetCrashes,
       SetBuffer, Insert, CleanLock, CloseFlag, CloseCrashes, ResetCurr, ResetEnd,
       CleanUnlock, ServerStep
  <2> QED BY <2>1 DEF IInv, BufferOK, HandIsBehind, NotStarted, fillVars, engineVars
<1>2. CASE Writer
  <2>1. UNCHANGED <<plan, buf, fillVars, engineVars>>
    BY <1>2 DEF Writer, HasNewData, WriterLocksOut, WriterLocksOps, WriterTakes,
       WriterWraps, Send, SendLost, SendKills, SentAll, WriterUnlocks, WriterStep
  <2> QED BY <2>1 DEF IInv, BufferOK, HandIsBehind, NotStarted, fillVars, engineVars
<1>3. CASE \E c \in Conn : Connect(c) \/ Ask(c) \/ Read(c) \/ Leave(c)
  <2>1. UNCHANGED <<plan, buf, fillVars, engineVars>>
    BY <1>3 DEF Connect, Ask, Read, Leave, SubscriberStep
  <2> QED BY <2>1 DEF IInv, BufferOK, HandIsBehind, NotStarted, fillVars, engineVars
<1> QED BY <1>1, <1>2, <1>3

\* The invariant.
THEOREM NodeInvariance == Spec => []IInv
<1>1. ASSUME IInv, [Next]_vars PROVE IInv'
  <2>1. CASE Next
    BY <1>1, <2>1, FillerStep, EngineInv, OthersStep DEF Next
  <2>2. CASE UNCHANGED vars
    BY <1>1, <2>2 DEF vars, IInv, BufferOK, HandIsBehind, NotStarted, fillVars, engineVars
  <2> QED BY <1>1, <2>1, <2>2
<1> QED BY <1>1, InitIInv, PTL DEF Spec

\* However large the buffer is and whatever the threads do, the event in the
\* engine's hand stays what it was when the engine took it, without a lock.
THEOREM HandIsSafe == Spec => []EventInHand
<1>1. IInv => EventInHand
  BY DEF IInv, HandIsBehind, EventInHand
<1> QED BY <1>1, NodeInvariance, PTL

\* Induction over a set of numbers.
LEMMA SetInduction ==
  ASSUME NEW T \in SUBSET Nat, 0 \in T, \A n \in T : n + 1 \in T
  PROVE  T = Nat
<1> SUFFICES ASSUME Nat \ T # {} PROVE FALSE
  OBVIOUS
<1> DEFINE R == {p \in Nat \X Nat : p[1] < p[2]}
<1>1. IsWellFoundedOn(R, Nat)
  BY NatLessThanWellFounded DEF OpToRel
<1>2. \A x, y \in Nat : x < y => <<x, y>> \in R
  OBVIOUS
<1> HIDE DEF R
<1>3. PICK x \in Nat \ T : \A y \in Nat \ T : ~ (<<y, x>> \in R)
  BY <1>1, WFMin
<1>4. x # 0 /\ x - 1 \in Nat /\ x - 1 < x /\ (x - 1) + 1 = x
  BY <1>3
<1>5. x - 1 \in T
  BY <1>2, <1>3, <1>4
<1> QED BY <1>3, <1>4, <1>5

-----------------------------------------------------------------------------
(* Choosing from a sequence.                                               *)

\* f[i] is what is chosen from the first i elements of s.
IsOnly(f, s, S) ==
  f = [i \in 0..Len(s) |->
         IF i = 0 THEN <<>> ELSE IF s[i] \in S THEN Append(f[i - 1], s[i]) ELSE f[i - 1]]

\* There is a function that chooses from each beginning, ...
LEMMA OnlyExists ==
  ASSUME NEW B, NEW s \in Seq(B), NEW S
  PROVE  \E f : IsOnly(f, s, S)
<1> DEFINE More(t, i) == IF s[i] \in S THEN Append(t, s[i]) ELSE t
           Is(f, i) == f[i] = IF i = 0 THEN <<>> ELSE More(f[i - 1], i)
           T == {n \in Nat : \E f : \A i \in 0..n : Is(f, i)}
<1> HIDE DEF More
<1>1. 0 \in T
  <2> DEFINE f == [i \in 0..0 |-> <<>>]
  <2>1. \A i \in 0..0 : Is(f, i)
    OBVIOUS
  <2> QED BY <2>1
<1>2. ASSUME NEW n \in T PROVE n + 1 \in T
  <2>1. PICK f : \A i \in 0..n : Is(f, i)
    OBVIOUS
  <2> DEFINE top == More(f[n], n + 1)
             g == [i \in 0..(n + 1) |-> IF i = n + 1 THEN top ELSE f[i]]
  <2>2. g[n + 1] = top /\ \A i \in 0..n : g[i] = f[i]
    <3> HIDE DEF top
    <3> QED OBVIOUS
  <2> HIDE DEF g
  <2>3. ASSUME NEW i \in 0..n PROVE Is(g, i)
    <3>1. i = 0 \/ i - 1 \in 0..n
      OBVIOUS
    <3> QED BY <2>1, <2>2, <3>1
  <2>4. Is(g, n + 1)
    <3>1. (n + 1) - 1 = n /\ n + 1 # 0 /\ n \in 0..n
      OBVIOUS
    <3> QED BY <2>2, <3>1
  <2>5. \A i \in 0..(n + 1) : Is(g, i)
    <3>1. \A i \in 0..(n + 1) : i \in 0..n \/ i = n + 1
      OBVIOUS
    <3> QED BY <2>3, <2>4, <3>1
  <2> QED BY <2>5
<1>3. Len(s) \in T
  <2> HIDE DEF T
  <2>1. T \subseteq Nat /\ Len(s) \in Nat
    BY DEF T
  <2> QED BY <1>1, <1>2, <2>1, SetInduction
<1>4. PICK f : \A i \in 0..Len(s) : Is(f, i)
  BY <1>3
<1> DEFINE g == [i \in 0..Len(s) |-> f[i]]
           h == [i \in 0..Len(s) |-> IF i = 0 THEN <<>> ELSE More(g[i - 1], i)]
<1>5. ASSUME NEW i \in 0..Len(s) PROVE h[i] = f[i]
  <2>1. i = 0 \/ i - 1 \in 0..Len(s)
    OBVIOUS
  <2> QED BY <1>4, <2>1
<1>6. g = h
  BY <1>5
<1> HIDE DEF g
<1>7. IsOnly(g, s, S)
  BY <1>6 DEF IsOnly, More
<1> QED BY <1>7

\* ... Only is its last value, ...
LEMMA OnlyIs ==
  ASSUME NEW B, NEW s \in Seq(B), NEW S
  PROVE  \E f : IsOnly(f, s, S) /\ Only(s, S) = f[Len(s)]
<1> DEFINE f == CHOOSE f : IsOnly(f, s, S)
<1>1. IsOnly(f, s, S)
  BY OnlyExists
<1>2. Only(s, S) = f[Len(s)]
  BY DEF Only, IsOnly
<1> QED BY <1>1, <1>2

\* ... and each element is added or left out.
LEMMA OnlyStep ==
  ASSUME NEW B, NEW s \in Seq(B), NEW S, NEW f, IsOnly(f, s, S)
  PROVE  /\ f[0] = <<>>
         /\ \A i \in 1..Len(s) : f[i] = IF s[i] \in S THEN Append(f[i - 1], s[i]) ELSE f[i - 1]
<1>1. 0 \in 0..Len(s) /\ \A i \in 1..Len(s) : i \in 0..Len(s) /\ i # 0
  OBVIOUS
<1>2. \A i \in 0..Len(s) :
        f[i] = IF i = 0 THEN <<>> ELSE IF s[i] \in S THEN Append(f[i - 1], s[i]) ELSE f[i - 1]
  BY Zenon DEF IsOnly
<1> QED BY <1>1, <1>2

\* From nothing, nothing is chosen.
LEMMA OnlyEmpty == ASSUME NEW S PROVE Only(<<>>, S) = <<>>
<1>1. <<>> \in Seq({}) /\ Len(<<>>) = 0
  OBVIOUS
<1> DEFINE e == <<>>
<1> HIDE DEF e
<1>2. e \in Seq({}) /\ Len(e) = 0
  BY <1>1 DEF e
<1>3. PICK f : IsOnly(f, e, S) /\ Only(e, S) = f[Len(e)]
  BY <1>2, OnlyIs
<1>4. \A i \in 0..Len(e) :
        f[i] = IF i = 0 THEN <<>> ELSE IF e[i] \in S THEN Append(f[i - 1], e[i]) ELSE f[i - 1]
  BY <1>3, Zenon DEF IsOnly
<1>5. 0 \in 0..Len(e)
  BY <1>2
<1> QED BY <1>2, <1>3, <1>4, <1>5 DEF e

\* The last element is added or left out.
LEMMA OnlyAppend ==
  ASSUME NEW B, NEW s \in Seq(B), NEW x \in B, NEW S
  PROVE  Only(Append(s, x), S) = IF x \in S THEN Append(Only(s, S), x) ELSE Only(s, S)
<1> DEFINE t == Append(s, x)
<1>1. t \in Seq(B) /\ Len(t) = Len(s) + 1 /\ t[Len(t)] = x /\ Len(s) \in Nat
  OBVIOUS
<1>2. \A i \in 1..Len(s) : t[i] = s[i]
  OBVIOUS
<1> HIDE DEF t
<1>3. PICK f : IsOnly(f, s, S) /\ Only(s, S) = f[Len(s)]
  BY OnlyIs
<1>4. PICK g : IsOnly(g, t, S) /\ Only(t, S) = g[Len(t)]
  BY <1>1, OnlyIs
<1>5. /\ f[0] = <<>>
      /\ \A i \in 1..Len(s) : f[i] = IF s[i] \in S THEN Append(f[i - 1], s[i]) ELSE f[i - 1]
  BY <1>3, OnlyStep
<1>6. /\ g[0] = <<>>
      /\ \A i \in 1..Len(t) : g[i] = IF t[i] \in S THEN Append(g[i - 1], t[i]) ELSE g[i - 1]
  BY <1>1, <1>4, OnlyStep
<1> DEFINE T == {n \in Nat : n <= Len(s) => f[n] = g[n]}
<1>7. 0 \in T
  BY <1>5, <1>6
<1>8. ASSUME NEW n \in T PROVE n + 1 \in T
  <2> SUFFICES ASSUME n + 1 <= Len(s) PROVE f[n + 1] = g[n + 1]
    OBVIOUS
  <2>1. n + 1 \in 1..Len(s) /\ n + 1 \in 1..Len(t) /\ (n + 1) - 1 = n /\ f[n] = g[n]
    BY <1>1
  <2> QED BY <1>2, <1>5, <1>6, <2>1
<1>9. Len(s) \in T
  <2> HIDE DEF T
  <2>1. T \subseteq Nat
    BY DEF T
  <2> QED BY <1>1, <1>7, <1>8, <2>1, SetInduction
<1>10. f[Len(s)] = g[Len(s)]
  BY <1>1, <1>9
<1>11. Len(t) \in 1..Len(t) /\ Len(t) - 1 = Len(s)
  BY <1>1
<1>12. g[Len(t)] = IF x \in S THEN Append(g[Len(s)], x) ELSE g[Len(s)]
  BY <1>1, <1>6, <1>11
<1> QED BY <1>3, <1>4, <1>10, <1>12 DEF t

\* Induction over the sequences on which Only(_, S) has property Q is stated for the
\* properties that are needed: what is chosen, ...
LEMMA OnlyType ==
  ASSUME NEW B, NEW s \in Seq(B), NEW S
  PROVE  /\ Only(s, S) \in Seq(B \cap S)
         /\ \A i \in 1..Len(Only(s, S)) : \E j \in 1..Len(s) : s[j] = Only(s, S)[i]
<1> DEFINE Q(u) == /\ Only(u, S) \in Seq(B \cap S)
                   /\ \A i \in 1..Len(Only(u, S)) : \E j \in 1..Len(u) : u[j] = Only(u, S)[i]
           T == {n \in Nat : \A u \in Seq(B) : Len(u) = n => Q(u)}
<1>1. 0 \in T
  <2> SUFFICES ASSUME NEW u \in Seq(B), Len(u) = 0 PROVE Q(u)
    OBVIOUS
  <2>1. u = <<>>
    BY EmptySeq
  <2>2. Only(u, S) = <<>>
    BY <2>1, OnlyEmpty
  <2> QED BY <2>2
<1>2. ASSUME NEW n \in T PROVE n + 1 \in T
  <2> SUFFICES ASSUME NEW u \in Seq(B), Len(u) = n + 1 PROVE Q(u)
    OBVIOUS
  <2>1. u # <<>>
    OBVIOUS
  <2>2. PICK v \in Seq(B), x \in B : u = Append(v, x)
    BY <2>1, SequenceEmptyOrAppend
  <2>3. Len(v) = n /\ u[n + 1] = x /\ \A j \in 1..n : u[j] = v[j]
    BY <2>2
  <2>4. Q(v)
    BY <2>3
  <2> DEFINE o == Only(v, S)
  <2>5. Only(u, S) = IF x \in S THEN Append(o, x) ELSE o
    BY <2>2, OnlyAppend
  <2>6. o \in Seq(B \cap S) /\ \A i \in 1..Len(o) : \E j \in 1..n : v[j] = o[i]
    BY <2>3, <2>4
  <2> HIDE DEF o
  <2>7. \A i \in 1..Len(o) : \E j \in 1..(n + 1) : u[j] = o[i]
    <3> SUFFICES ASSUME NEW i \in 1..Len(o) PROVE \E j \in 1..(n + 1) : u[j] = o[i]
      OBVIOUS
    <3>1. PICK j \in 1..n : v[j] = o[i]
      BY <2>6
    <3>2. j \in 1..(n + 1) /\ u[j] = o[i]
      BY <2>3, <3>1
    <3> QED BY <3>2
  <2>8. CASE x \in S
    <3>1. Only(u, S) = Append(o, x) /\ x \in B \cap S
      BY <2>5, <2>8
    <3>2. Append(o, x) \in Seq(B \cap S) /\ Len(Append(o, x)) = Len(o) + 1
          /\ Append(o, x)[Len(o) + 1] = x
          /\ \A i \in 1..Len(o) : Append(o, x)[i] = o[i]
      BY <2>6, <3>1
    <3>3. ASSUME NEW i \in 1..(Len(o) + 1) PROVE \E j \in 1..(n + 1) : u[j] = Append(o, x)[i]
      <4>1. CASE i = Len(o) + 1
        <5>1. n + 1 \in 1..(n + 1)
          OBVIOUS
        <5> QED BY <2>3, <3>2, <4>1, <5>1
      <4>2. CASE i \in 1..Len(o)
        BY <2>7, <3>2, <4>2
      <4>3. Len(o) \in Nat
        BY <2>6
      <4> QED BY <4>1, <4>2, <4>3
    <3> QED BY <3>1, <3>2, <3>3
  <2>9. CASE x \notin S
    BY <2>5, <2>6, <2>7, <2>9
  <2> QED BY <2>8, <2>9
<1>3. Len(s) \in T
  <2> HIDE DEF T
  <2>1. T \subseteq Nat /\ Len(s) \in Nat
    BY DEF T
  <2> QED BY <1>1, <1>2, <2>1, SetInduction
<1> QED BY <1>3

-----------------------------------------------------------------------------
(* Who has subscribed to what.                                             *)

ServerPoints ==
  {"select", "subscribe", "setlock", "alloc", "insert", "clean", "closelock",
   "resetcurr", "resetend", "unlock", "down"}

ConnType ==
  /\ fd \in [Conn -> Nat \cup {NULL}]
  /\ cst \in [Conn -> {"none", "connected", "asked", "gone", "closed"}]
  /\ asked \in [Conn -> [op : Op \cup {NULL}, unread : BOOLEAN]]
  /\ outputmap \in Seq(Op \X Nat)
  /\ spc \in ServerPoints
  /\ spc \notin {"select", "down"} => peer \in Conn

\* A connection asks once it is there, and is closed once the server knows that its
\* client has left, just before its descriptor becomes free.
ConnState(c) ==
  /\ cst[c] \in {"none", "connected"} => asked[c].op = NULL
  /\ asked[c].unread => asked[c].op # NULL
  /\ cst[c] = "closed" /\ fd[c] # NULL => spc = "clean" /\ peer = c

\* The descriptors in use are different.
DistinctFds == \A c, d \in Conn : fd[c] = fd[d] /\ fd[c] # NULL => c = d

\* The connection that is being subscribed is open.
Subscribing ==
  spc \in {"subscribe", "setlock", "alloc", "insert"} =>
    fd[peer] # NULL /\ cst[peer] # "closed" /\ ServerOp # NULL

SubInv ==
  /\ ConnType /\ DistinctFds /\ Subscribing /\ OnlySubscribers
  /\ \A c \in Conn : ConnState(c)

\* What is no number or operator.
LEMMA Numbers == NULL \notin Nat /\ NULL \notin Op /\ IsFiniteSet(Conn)
BY NodeAssumption DEF Op

\* A set of numbers that is not empty has a least element.
LEMMA LeastExists ==
  ASSUME NEW S \in SUBSET Nat, S # {}
  PROVE  \E x \in S : \A y \in S : x <= y
<1> DEFINE R == {p \in Nat \X Nat : p[1] < p[2]}
<1>1. IsWellFoundedOn(R, Nat)
  BY NatLessThanWellFounded DEF OpToRel
<1>2. \A x, y \in Nat : x < y => <<x, y>> \in R
  OBVIOUS
<1> HIDE DEF R
<1>3. \E x \in S : \A y \in S : ~ (<<y, x>> \in R)
  BY <1>1, WFMin, Zenon
<1>4. PICK x \in S : \A y \in S : ~ (<<y, x>> \in R)
  BY <1>3
<1>5. ASSUME NEW y \in S PROVE x <= y
  <2>1. ~ (y < x)
    BY <1>2, <1>4
  <2> QED BY <2>1
<1> QED BY <1>5

\* There is always a descriptor that no other connection has.
LEMMA NewFdIs ==
  ASSUME ConnType, NEW c \in Conn, fd[c] = NULL
  PROVE  NewFd \in Nat /\ NewFd # NULL /\ \A d \in Conn : fd[d] # NewFd
<1> DEFINE N == Cardinality(Conn)
           F == {n \in 1..N : \A d \in Conn : fd[d] # n}
           Others == Conn \ {c}
           Used == {fd[d] : d \in Others}
<1>1. IsFiniteSet(Conn) /\ N \in Nat
  BY Numbers, FS_CardinalityType
<1>2. IsFiniteSet(Others) /\ Cardinality(Others) = N - 1
  BY <1>1, FS_RemoveElement
<1>3. IsFiniteSet(Used) /\ Cardinality(Used) <= N - 1
  <2> DEFINE g == [d \in Others |-> fd[d]]
  <2>1. g \in Surjection(Others, Used)
    BY DEF Surjection
  <2> HIDE DEF g
  <2>2. IsFiniteSet(Used) /\ Cardinality(Used) <= Cardinality(Others)
    BY <1>2, <2>1, FS_Surjection
  <2> QED BY <1>2, <2>2
<1>4. IsFiniteSet(1..N) /\ Cardinality(1..N) = N
  BY <1>1, FS_Interval
<1>5. F # {}
  <2> SUFFICES ASSUME F = {} PROVE FALSE
    OBVIOUS
  <2>1. 1..N \subseteq Used
    <3> SUFFICES ASSUME NEW n \in 1..N PROVE n \in Used
      OBVIOUS
    <3>1. PICK d \in Conn : fd[d] = n
      OBVIOUS
    <3>2. d # c
      BY <3>1, Numbers
    <3> QED BY <3>1, <3>2
  <2>2. Cardinality(1..N) <= Cardinality(Used)
    BY <1>3, <2>1, FS_Subset
  <2>3. Cardinality(Used) \in Nat
    BY <1>3, FS_CardinalityType
  <2> QED BY <1>1, <1>3, <1>4, <2>2, <2>3
<1>6. F \subseteq Nat
  OBVIOUS
<1>7. PICK least \in F : \A y \in F : least <= y
  BY <1>5, <1>6, LeastExists
<1>8. NewFd \in F
  <2>1. NewFd = CHOOSE x \in F : \A y \in F : x <= y
    BY DEF NewFd, Min
  <2> HIDE DEF F
  <2> QED BY <1>7, <2>1
<1> QED BY <1>6, <1>8, Numbers

\* What the clean-up leaves in the map is what has another descriptor.
LEMMA ErasedIs ==
  ASSUME outputmap \in Seq(Op \X Nat), NEW f
  PROVE  /\ Erased(f) \in Seq(Op \X Nat)
         /\ \A i \in 1..Len(Erased(f)) :
              Erased(f)[i][2] # f /\ \E j \in 1..Len(outputmap) : outputmap[j] = Erased(f)[i]
<1> DEFINE S == Op \X (Nat \ {f})
           e == Erased(f)
<1>1. e = Only(outputmap, S)
  BY DEF Erased
<1>2. e \in Seq((Op \X Nat) \cap S) /\ \A i \in 1..Len(e) : \E j \in 1..Len(outputmap) : outputmap[j] = e[i]
  <2> DEFINE B == Op \X Nat
  <2> HIDE DEF B, S
  <2>1. outputmap \in Seq(B)
    BY DEF B
  <2>2. /\ Only(outputmap, S) \in Seq(B \cap S)
        /\ \A i \in 1..Len(Only(outputmap, S)) :
             \E j \in 1..Len(outputmap) : outputmap[j] = Only(outputmap, S)[i]
    BY <2>1, OnlyType
  <2> QED BY <1>1, <2>2 DEF B
<1> HIDE DEF e
<1>3. \A i \in 1..Len(e) : e[i] \in (Op \X Nat) \cap S
  BY <1>2, ElementOfSeq
<1>4. e \in Seq(Op \X Nat)
  BY <1>2
<1> QED BY <1>2, <1>3, <1>4 DEF e

\* Nobody has connected at first.
LEMMA InitSub == Init => SubInv
BY Numbers DEF Init, SubInv, ConnType, DistinctFds, Subscribing, OnlySubscribers, ConnState,
   ServerPoints

subVars == <<fd, cst, asked, outputmap, spc, peer>>

\* Steps that concern neither the connections nor the outputmap.
LEMMA SubQuiet == ASSUME SubInv, UNCHANGED subVars PROVE SubInv'
BY DEF subVars, SubInv, ConnType, DistinctFds, Subscribing, OnlySubscribers, ConnState, ServerOp

\* The filler, the engine and the client writer.
LEMMA InsideSub == ASSUME Filler \/ Engine \/ Writer PROVE UNCHANGED subVars
<1>1. CASE Filler
  BY <1>1 DEF Filler, EndWraps, ReadLine, FileEnds, Recv, RecvEnds, Assemble, Overrun, KeepRest,
     subVars, connVars, mapVars, serverVars
<1>2. CASE Engine
  BY <1>2 DEF Engine, OpenRoot, AddOperator, EngineHasNext, MayTake, ReturnsNothing, EngineCrashes,
     Take, TakeWraps, NotOffered, Offered, OfferCrashes, SockCopy, SockLoad, SockStore, SockWraps,
     RootDone, FilterChild, EngineStep, subVars, connVars, mapVars, serverVars
<1>3. CASE Writer
  BY <1>3 DEF Writer, HasNewData, WriterLocksOut, WriterLocksOps, WriterTakes,
     WriterWraps, Send, SendLost, SendKills, SentAll, WriterUnlocks, WriterStep,
     subVars, connVars, serverVars
<1> QED BY <1>1, <1>2, <1>3

\* The subscribers.
LEMMA ClientSub ==
  ASSUME SubInv, NEW c \in Conn, Connect(c) \/ Ask(c) \/ Read(c) \/ Leave(c)
  PROVE  SubInv'
<1>0. /\ ConnType /\ DistinctFds /\ Subscribing /\ OnlySubscribers
      /\ \A d \in Conn : ConnState(d)
  BY DEF SubInv
<1>1. UNCHANGED <<fd, outputmap, spc, peer>> /\ \E v : cst' = [cst EXCEPT ![c] = v]
  BY DEF Connect, Ask, Read, Leave, SubscriberStep, mapVars, serverVars
<1>2. \A d \in Conn \ {c} : cst'[d] = cst[d] /\ asked'[d] = asked[d]
  BY <1>0 DEF Connect, Ask, Read, Leave, SubscriberStep, ConnType
<1>3. /\ cst[c] \in {"none", "connected", "asked"} /\ cst'[c] \in {"connected", "asked", "gone"}
      /\ cst' \in [Conn -> {"none", "connected", "asked", "gone", "closed"}]
  BY <1>0 DEF Connect, Ask, Read, Leave, SubscriberStep, ConnType
<1>4. /\ asked' \in [Conn -> [op : Op \cup {NULL}, unread : BOOLEAN]]
      /\ \/ asked'[c] = asked[c] /\ (cst'[c] = "connected" => cst[c] = "none")
         \/ asked[c].op = NULL /\ asked'[c].op \in Op /\ cst'[c] = "asked"
  <2>1. CASE Ask(c)
    <3>1. PICK o \in Ops : asked' = [asked EXCEPT ![c] = [op |-> o, unread |-> TRUE]]
      BY <2>1 DEF Ask
    <3>2. o \in Op /\ cst[c] = "connected" /\ cst' = [cst EXCEPT ![c] = "asked"]
      BY <2>1, <3>1 DEF Ask, Ops, Op, SubscriberStep
    <3> QED BY <1>0, <3>1, <3>2 DEF ConnType, ConnState
  <2>2. CASE Connect(c) \/ Read(c) \/ Leave(c)
    BY <1>0, <2>2 DEF Connect, Read, Leave, SubscriberStep, ConnType
  <2> QED BY <2>1, <2>2
<1>5. ConnType' /\ DistinctFds'
  BY <1>0, <1>1, <1>3, <1>4 DEF ConnType, DistinctFds
<1>6. Subscribing'
  <2> SUFFICES ASSUME spc \in {"subscribe", "setlock", "alloc", "insert"}
               PROVE  fd[peer] # NULL /\ cst'[peer] # "closed" /\ asked'[peer].op # NULL
    BY <1>1 DEF Subscribing, ServerOp
  <2>1. peer \in Conn /\ fd[peer] # NULL /\ cst[peer] # "closed" /\ asked[peer].op # NULL
    BY <1>0 DEF Subscribing, ConnType, ServerOp
  <2> QED BY <1>2, <1>3, <1>4, <2>1, Numbers
<1>7. OnlySubscribers'
  <2> SUFFICES ASSUME NEW i \in DOMAIN outputmap
               PROVE  \E d \in Conn : /\ fd[d] = outputmap[i][2] /\ asked'[d].op = outputmap[i][1]
                                      /\ cst'[d] = "closed" => peer = d /\ spc = "clean"
    BY <1>1 DEF OnlySubscribers
  <2>1. PICK d \in Conn : /\ fd[d] = outputmap[i][2] /\ asked[d].op = outputmap[i][1]
                          /\ cst[d] = "closed" => peer = d /\ spc = "clean"
    BY <1>0 DEF OnlySubscribers
  <2>2. outputmap[i] \in Op \X Nat
    BY <1>0 DEF ConnType
  <2>3. asked[d].op # NULL
    BY <2>1, <2>2, Numbers
  <2>4. CASE d = c
    BY <1>3, <1>4, <2>1, <2>3, <2>4
  <2>5. CASE d # c
    BY <1>2, <2>1, <2>5
  <2> QED BY <2>4, <2>5
<1>8. ASSUME NEW d \in Conn PROVE ConnState(d)'
  <2>1. CASE d = c
    BY <1>0, <1>1, <1>3, <1>4, <2>1, Numbers DEF ConnState
  <2>2. CASE d # c
    BY <1>0, <1>1, <1>2, <2>2 DEF ConnState
  <2> QED BY <2>1, <2>2
<1> QED BY <1>5, <1>6, <1>7, <1>8 DEF SubInv

\* Steps of the server that leave the connections and the map alone.
LEMMA ServerQuietSub ==
  ASSUME SubInv, UNCHANGED <<fd, cst, asked, outputmap>>, spc # "clean",
         spc' \in ServerPoints \ {"clean"},
         spc' \notin {"select", "down"} => spc # "select" /\ spc # "down" /\ peer' = peer,
         spc' \in {"subscribe", "setlock", "alloc", "insert"} =>
           spc \in {"subscribe", "setlock", "alloc", "insert"}
  PROVE  SubInv'
<1>0. /\ ConnType /\ DistinctFds /\ Subscribing /\ OnlySubscribers
      /\ \A d \in Conn : ConnState(d)
  BY DEF SubInv
<1>1. ConnType' /\ DistinctFds'
  BY <1>0 DEF ConnType, DistinctFds
<1>2. Subscribing'
  BY <1>0 DEF Subscribing, ServerOp
<1>3. OnlySubscribers'
  BY <1>0 DEF OnlySubscribers
<1>4. ASSUME NEW d \in Conn PROVE ConnState(d)'
  BY <1>0 DEF ConnState
<1> QED BY <1>1, <1>2, <1>3, <1>4 DEF SubInv

\* A new connection gets a descriptor that is free, ...
LEMMA AcceptSub == ASSUME SubInv, NEW c \in Conn, Accept(c) PROVE SubInv'
<1>0. /\ ConnType /\ DistinctFds /\ Subscribing /\ OnlySubscribers
      /\ \A d \in Conn : ConnState(d)
  BY DEF SubInv
<1>1. /\ UNCHANGED <<cst, asked, outputmap, spc, peer>> /\ spc = "select"
      /\ fd[c] = NULL /\ cst[c] # "closed" /\ fd' = [fd EXCEPT ![c] = NewFd]
  BY DEF Accept, ServerStep, mapVars
<1>2. NewFd \in Nat /\ NewFd # NULL /\ \A d \in Conn : fd[d] # NewFd
  BY <1>0, <1>1, NewFdIs
<1> DEFINE n == NewFd
<1>3. fd'[c] = n /\ \A d \in Conn \ {c} : fd'[d] = fd[d]
  BY <1>0, <1>1 DEF ConnType
<1>4. ConnType'
  BY <1>0, <1>1, <1>2 DEF ConnType
<1>5. DistinctFds'
  BY <1>0, <1>2, <1>3 DEF DistinctFds
<1>6. Subscribing'
  BY <1>1 DEF Subscribing
<1>7. OnlySubscribers'
  <2> SUFFICES ASSUME NEW i \in DOMAIN outputmap
               PROVE  \E d \in Conn : /\ fd'[d] = outputmap[i][2] /\ asked[d].op = outputmap[i][1]
                                      /\ cst[d] = "closed" => peer = d /\ spc = "clean"
    BY <1>1 DEF OnlySubscribers
  <2>1. PICK d \in Conn : /\ fd[d] = outputmap[i][2] /\ asked[d].op = outputmap[i][1]
                          /\ cst[d] = "closed" => peer = d /\ spc = "clean"
    BY <1>0 DEF OnlySubscribers
  <2>2. outputmap[i] \in Op \X Nat
    BY <1>0 DEF ConnType
  <2>3. d # c
    BY <1>1, <2>1, <2>2, Numbers
  <2> QED BY <1>3, <2>1, <2>3
<1>8. ASSUME NEW d \in Conn PROVE ConnState(d)'
  BY <1>0, <1>1, <1>3 DEF ConnState
<1> QED BY <1>4, <1>5, <1>6, <1>7, <1>8 DEF SubInv

\* ... its request is read, ...
LEMMA RequestSub == ASSUME SubInv, NEW c \in Conn, RecvRequest(c) PROVE SubInv'
<1>0. /\ ConnType /\ DistinctFds /\ Subscribing /\ OnlySubscribers
      /\ \A d \in Conn : ConnState(d)
  BY DEF SubInv
<1>1. /\ UNCHANGED <<cst, fd, outputmap>> /\ spc = "select" /\ spc' = "subscribe" /\ peer' = c
      /\ fd[c] # NULL /\ asked[c].unread /\ asked' = [asked EXCEPT ![c].unread = FALSE]
  BY DEF RecvRequest, ServerStep, mapVars
<1>2. /\ asked' \in [Conn -> [op : Op \cup {NULL}, unread : BOOLEAN]]
      /\ \A d \in Conn : asked'[d].op = asked[d].op /\ (asked'[d].unread => asked[d].unread)
  BY <1>0, <1>1 DEF ConnType
<1>3. ConnType' /\ DistinctFds'
  BY <1>0, <1>1, <1>2 DEF ConnType, DistinctFds, ServerPoints
<1>4. \A d \in Conn : fd[d] # NULL => cst[d] # "closed"
  BY <1>0, <1>1 DEF ConnState
<1>5. Subscribing'
  BY <1>0, <1>1, <1>2, <1>4 DEF Subscribing, ServerOp, ConnState
<1>6. OnlySubscribers'
  <2> SUFFICES ASSUME NEW i \in DOMAIN outputmap
               PROVE  \E d \in Conn : /\ fd[d] = outputmap[i][2] /\ asked'[d].op = outputmap[i][1]
                                      /\ cst[d] # "closed"
    BY <1>1 DEF OnlySubscribers
  <2>1. PICK d \in Conn : /\ fd[d] = outputmap[i][2] /\ asked[d].op = outputmap[i][1]
                          /\ cst[d] = "closed" => peer = d /\ spc = "clean"
    BY <1>0 DEF OnlySubscribers
  <2> QED BY <1>1, <1>2, <2>1
<1>7. ASSUME NEW d \in Conn PROVE ConnState(d)'
  BY <1>0, <1>1, <1>2, <1>4 DEF ConnState
<1> QED BY <1>3, <1>5, <1>6, <1>7 DEF SubInv

\* ... its entry goes into the outputmap, ...
LEMMA InsertSub == ASSUME SubInv, Insert PROVE SubInv'
<1>0. /\ ConnType /\ DistinctFds /\ Subscribing /\ OnlySubscribers
      /\ \A d \in Conn : ConnState(d)
  BY DEF SubInv
<1> DEFINE o == ServerOp
           f == fd[peer]
           e == <<o, f>>
<1>1. /\ UNCHANGED <<cst, fd, asked>> /\ spc = "insert" /\ spc' = "select"
      /\ outputmap' = Append(outputmap, e)
  BY DEF Insert, ServerStep, connVars
<1>2. peer \in Conn /\ f # NULL /\ cst[peer] # "closed" /\ o # NULL
  BY <1>0, <1>1 DEF ConnType, Subscribing
<1>3. asked[peer].op = o /\ fd[peer] = f /\ e[1] = o /\ e[2] = f
  BY DEF ServerOp
<1>4. e \in Op \X Nat
  BY <1>0, <1>2, <1>3 DEF ConnType
<1> HIDE DEF e
<1>5. /\ outputmap' \in Seq(Op \X Nat)
      /\ \A i \in DOMAIN outputmap' :
           outputmap'[i] = e \/ (i \in DOMAIN outputmap /\ outputmap'[i] = outputmap[i])
  BY <1>0, <1>1, <1>4 DEF ConnType
<1>6. ConnType' /\ DistinctFds' /\ Subscribing'
  BY <1>0, <1>1, <1>5 DEF ConnType, DistinctFds, Subscribing, ServerPoints
<1>7. OnlySubscribers'
  <2> SUFFICES ASSUME NEW i \in DOMAIN outputmap'
               PROVE  \E d \in Conn : /\ fd[d] = outputmap'[i][2] /\ asked[d].op = outputmap'[i][1]
                                      /\ cst[d] # "closed"
    BY <1>1 DEF OnlySubscribers
  <2>1. CASE outputmap'[i] = e
    BY <1>2, <1>3, <2>1
  <2>2. CASE i \in DOMAIN outputmap /\ outputmap'[i] = outputmap[i]
    BY <1>0, <1>1, <2>2 DEF OnlySubscribers
  <2> QED BY <1>5, <2>1, <2>2
<1>8. ASSUME NEW d \in Conn PROVE ConnState(d)'
  BY <1>0, <1>1 DEF ConnState
<1> QED BY <1>6, <1>7, <1>8 DEF SubInv

\* ... it is closed, ...
LEMMA HangUpSub == ASSUME SubInv, NEW c \in Conn, HangUp(c) PROVE SubInv'
<1>0. /\ ConnType /\ DistinctFds /\ Subscribing /\ OnlySubscribers
      /\ \A d \in Conn : ConnState(d)
  BY DEF SubInv
<1>1. /\ UNCHANGED <<fd, asked, outputmap>> /\ spc = "select" /\ spc' = "clean" /\ peer' = c
      /\ cst[c] = "gone" /\ cst' = [cst EXCEPT ![c] = "closed"]
  BY DEF HangUp, ServerStep, mapVars
<1>2. cst'[c] = "closed" /\ \A d \in Conn \ {c} : cst'[d] = cst[d]
  BY <1>0, <1>1 DEF ConnType
<1>3. ConnType' /\ DistinctFds' /\ Subscribing'
  BY <1>0, <1>1 DEF ConnType, DistinctFds, Subscribing, ServerPoints
<1>4. OnlySubscribers'
  <2> SUFFICES ASSUME NEW i \in DOMAIN outputmap
               PROVE  \E d \in Conn : /\ fd[d] = outputmap[i][2] /\ asked[d].op = outputmap[i][1]
                                      /\ cst'[d] = "closed" => d = c
    BY <1>1 DEF OnlySubscribers
  <2>1. PICK d \in Conn : /\ fd[d] = outputmap[i][2] /\ asked[d].op = outputmap[i][1]
                          /\ cst[d] = "closed" => peer = d /\ spc = "clean"
    BY <1>0 DEF OnlySubscribers
  <2> QED BY <1>1, <1>2, <2>1
<1>5. ASSUME NEW d \in Conn PROVE ConnState(d)'
  BY <1>0, <1>1, <1>2 DEF ConnState
<1> QED BY <1>3, <1>4, <1>5 DEF SubInv

\* ... and its entries go.
LEMMA CleanSub == ASSUME SubInv, CleanLock PROVE SubInv'
<1>0. /\ ConnType /\ DistinctFds /\ Subscribing /\ OnlySubscribers
      /\ \A d \in Conn : ConnState(d)
  BY DEF SubInv
<1> DEFINE f == fd[peer]
<1>1. /\ UNCHANGED <<cst, asked, peer>> /\ spc = "clean" /\ spc' \in {"closelock", "unlock"}
      /\ outputmap' = Erased(f) /\ fd' = [fd EXCEPT ![peer] = NULL]
  BY DEF CleanLock, ServerStep
<1>2. peer \in Conn
  BY <1>0, <1>1 DEF ConnType
<1>3. fd'[peer] = NULL /\ \A d \in Conn \ {peer} : fd'[d] = fd[d]
  BY <1>0, <1>1, <1>2 DEF ConnType
<1>4. /\ outputmap' \in Seq(Op \X Nat)
      /\ \A i \in 1..Len(outputmap') :
           outputmap'[i][2] # f /\ \E j \in 1..Len(outputmap) : outputmap[j] = outputmap'[i]
  BY <1>0, <1>1, ErasedIs DEF ConnType
<1>5. ConnType'
  BY <1>0, <1>1, <1>2, <1>4 DEF ConnType, ServerPoints
<1>6. DistinctFds'
  BY <1>0, <1>3 DEF DistinctFds
<1>7. Subscribing'
  BY <1>1 DEF Subscribing
<1>8. OnlySubscribers'
  <2> SUFFICES ASSUME NEW i \in DOMAIN outputmap'
               PROVE  \E d \in Conn : /\ fd'[d] = outputmap'[i][2] /\ asked[d].op = outputmap'[i][1]
                                      /\ cst[d] # "closed"
    BY <1>1 DEF OnlySubscribers
  <2>1. i \in 1..Len(outputmap') /\ DOMAIN outputmap = 1..Len(outputmap)
    BY <1>0, <1>4 DEF ConnType
  <2>2. PICK j \in 1..Len(outputmap) : outputmap[j] = outputmap'[i]
    BY <1>4, <2>1
  <2>3. PICK d \in Conn : /\ fd[d] = outputmap[j][2] /\ asked[d].op = outputmap[j][1]
                          /\ cst[d] = "closed" => peer = d /\ spc = "clean"
    BY <1>0, <2>1 DEF OnlySubscribers
  <2>4. d # peer
    BY <1>4, <2>1, <2>2, <2>3
  <2> QED BY <1>3, <2>2, <2>3, <2>4
<1>9. ASSUME NEW d \in Conn PROVE ConnState(d)'
  BY <1>0, <1>1, <1>3 DEF ConnState
<1> QED BY <1>5, <1>6, <1>7, <1>8, <1>9 DEF SubInv

\* Every step of the server.
LEMMA ServerSub == ASSUME SubInv, Server PROVE SubInv'
<1>1. CASE \E c \in Conn : Accept(c) \/ RecvRequest(c) \/ HangUp(c)
  BY <1>1, AcceptSub, RequestSub, HangUpSub
<1>2. CASE Insert \/ CleanLock
  BY <1>2, InsertSub, CleanSub
<1>3. CASE SubscribeLock \/ SetFlag \/ SetCrashes \/ SetBuffer
  <2>1. /\ UNCHANGED <<fd, cst, asked, outputmap>> /\ spc \in {"subscribe", "setlock", "alloc"}
        /\ spc' \in {"setlock", "alloc", "insert", "down"} /\ peer' = peer
    BY <1>3 DEF SubscribeLock, SetFlag, SetCrashes, SetBuffer, ServerStep, connVars, mapVars
  <2> QED BY <2>1, ServerQuietSub DEF ServerPoints
<1>4. CASE CloseFlag \/ CloseCrashes \/ ResetCurr \/ ResetEnd \/ CleanUnlock
  <2>1. /\ UNCHANGED <<fd, cst, asked, outputmap>>
        /\ spc \in {"closelock", "resetcurr", "resetend", "unlock"}
        /\ spc' \in {"resetcurr", "resetend", "unlock", "select", "down"}
        /\ spc' # "select" => peer' = peer
    BY <1>4 DEF CloseFlag, CloseCrashes, ResetCurr, ResetEnd, CleanUnlock, ServerStep, connVars,
       mapVars
  <2> QED BY <2>1, ServerQuietSub DEF ServerPoints
<1> QED BY <1>1, <1>2, <1>3, <1>4 DEF Server

\* Who has subscribed is known, while connections come and go.
THEOREM SubscriberInvariance == Spec => []SubInv
<1>1. ASSUME SubInv, [Next]_vars PROVE SubInv'
  <2>1. CASE Filler \/ Engine \/ Writer
    BY <1>1, <2>1, InsideSub, SubQuiet
  <2>2. CASE Server
    BY <1>1, <2>2, ServerSub
  <2>3. CASE \E c \in Conn : Connect(c) \/ Ask(c) \/ Read(c) \/ Leave(c)
    BY <1>1, <2>3, ClientSub
  <2>4. CASE UNCHANGED vars
    BY <1>1, <2>4, SubQuiet DEF vars, subVars, connVars, mapVars, serverVars
  <2> QED BY <1>1, <2>1, <2>2, <2>3, <2>4 DEF Next
<1> QED BY <1>1, InitSub, PTL DEF Spec

\* However connections come and go and descriptors are used again, an event for an
\* operator goes only to connections that asked for it.
THEOREM SubscribersOnly == Spec => []OnlySubscribers
<1>1. SubInv => OnlySubscribers
  BY DEF SubInv
<1> QED BY <1>1, SubscriberInvariance, PTL

-----------------------------------------------------------------------------
(* Rings.                                                                  *)

Ring == [curr : 0..BufferSize, end : 0..BufferSize, slot : [Slot -> Int]]

\* The remainder of an index that has gone around once at most.
Wrapped(i) == IF i >= BufferSize THEN i - BufferSize ELSE i

\* The way from index x forward to index y.
Dist(x, y) ==
  IF Wrapped(y) >= Wrapped(x) THEN Wrapped(y) - Wrapped(x)
  ELSE Wrapped(y) - Wrapped(x) + BufferSize

\* How many events wait in a ring, and the i-th of them.
Waiting(b) == Dist(b.curr, b.end)

Ith(b, i) == b.slot[Wrapped(Wrapped(b.curr) + i - 1)]

\* What waits in a ring is the end of s.
Holds(b, s) ==
  /\ Waiting(b) <= Len(s)
  /\ \A i \in 1..Waiting(b) : Ith(b, i) = s[Len(s) - Waiting(b) + i]

\* The remainder, without division.
LEMMA WrappedIs ==
  ASSUME NEW i \in 0..BufferSize
  PROVE  i % BufferSize = Wrapped(i) /\ Wrapped(i) \in Slot /\ Wrapped(Wrapped(i)) = Wrapped(i)
<1>1. CASE i = BufferSize
  BY <1>1, SizeAssumption DEF Wrapped, Slot
<1>2. CASE i < BufferSize
  <2>1. i % BufferSize = i
    BY <1>2, SizeAssumption
  <2> QED BY <1>2, <2>1, SizeAssumption DEF Wrapped, Slot
<1> QED BY <1>1, <1>2, SizeAssumption

\* Ways around the ring.
LEMMA Distances ==
  ASSUME NEW x \in 0..BufferSize, NEW y \in 0..BufferSize
  PROVE  /\ Dist(x, y) \in 0..(BufferSize - 1)
         /\ y < BufferSize => Wrapped(Wrapped(x) + Dist(x, y)) = y
         /\ y < BufferSize /\ Dist(x, y) < BufferSize - 1 => Dist(x, y + 1) = Dist(x, y) + 1
         /\ x < BufferSize /\ Dist(x, y) > 0 => Dist(x + 1, y) = Dist(x, y) - 1
         /\ \A i \in 1..Dist(x, y) :
              /\ Wrapped(Wrapped(x) + i - 1) \in Slot
              /\ y < BufferSize => Wrapped(Wrapped(x) + i - 1) # y
         /\ \A i \in 1..(BufferSize - 1) :
              x < BufferSize => Wrapped(Wrapped(x + 1) + i - 1) = Wrapped(Wrapped(x) + i)
<1>1. BufferSize \in Nat /\ BufferSize > 0 /\ x \in Nat /\ y \in Nat /\ x <= BufferSize /\ y <= BufferSize
  BY SizeAssumption
<1>2. Dist(x, y) \in 0..(BufferSize - 1)
  BY <1>1 DEF Dist, Wrapped
<1>3. y < BufferSize => Wrapped(Wrapped(x) + Dist(x, y)) = y
  BY <1>1 DEF Dist, Wrapped
<1>4. y < BufferSize /\ Dist(x, y) < BufferSize - 1 => Dist(x, y + 1) = Dist(x, y) + 1
  BY <1>1 DEF Dist, Wrapped
<1>5. x < BufferSize /\ Dist(x, y) > 0 => Dist(x + 1, y) = Dist(x, y) - 1
  BY <1>1 DEF Dist, Wrapped
<1>6. ASSUME NEW i \in 1..Dist(x, y)
      PROVE  /\ Wrapped(Wrapped(x) + i - 1) \in Slot
             /\ y < BufferSize => Wrapped(Wrapped(x) + i - 1) # y
  <2>1. i \in Nat /\ i >= 1 /\ i <= Dist(x, y)
    BY <1>2
  <2> QED BY <1>1, <2>1 DEF Dist, Wrapped, Slot
<1>7. ASSUME NEW i \in 1..(BufferSize - 1), x < BufferSize
      PROVE  Wrapped(Wrapped(x + 1) + i - 1) = Wrapped(Wrapped(x) + i)
  BY <1>1, <1>7 DEF Wrapped
<1> QED BY <1>2, <1>3, <1>4, <1>5, <1>6, <1>7

\* A ring holds less than its size.
LEMMA WaitingType ==
  ASSUME NEW b \in Ring
  PROVE  Waiting(b) \in 0..(BufferSize - 1)
BY Distances DEF Ring, Waiting

\* What hasNext tells, ...
LEMMA HasNextIs ==
  ASSUME NEW b \in Ring, b.curr < BufferSize
  PROVE  HasNext(b) <=> Waiting(b) > 0
<1>1. b.end % BufferSize = Wrapped(b.end) /\ b.curr = Wrapped(b.curr)
  <2>1. b.end \in 0..BufferSize /\ b.curr \in Int /\ BufferSize \in Int
    BY SizeAssumption DEF Ring
  <2> QED BY <2>1, WrappedIs DEF Wrapped
<1>2. Wrapped(b.end) \in 0..(BufferSize - 1) /\ Wrapped(b.curr) \in 0..(BufferSize - 1)
  BY WrappedIs DEF Ring, Slot
<1> QED BY <1>1, <1>2, SizeAssumption DEF HasNext, Waiting, Dist, Wrapped

\* ... and what full tells.
LEMMA FullIs ==
  ASSUME NEW b \in Ring, b.end < BufferSize
  PROVE  Full(b) <=> Waiting(b) = BufferSize - 1
<1>1. b.end + 1 \in 0..BufferSize /\ b.curr \in 0..BufferSize /\ b.end \in 0..BufferSize
  BY SizeAssumption DEF Ring
<1>2. (b.end + 1) % BufferSize = Wrapped(b.end + 1) /\ b.curr % BufferSize = Wrapped(b.curr)
  BY <1>1, WrappedIs
<1>3. Full(b) <=> Wrapped(b.end + 1) = Wrapped(b.curr)
  BY <1>2 DEF Full
<1> QED BY <1>1, <1>3, SizeAssumption DEF Waiting, Dist, Wrapped

\* Copying a value writes the free slot after those that wait.
LEMMA CopyKeeps ==
  ASSUME NEW b \in Ring, b.end < BufferSize, Waiting(b) < BufferSize - 1, NEW v \in Int,
         NEW s
  PROVE  /\ Copied(b, v) \in Ring /\ Copied(b, v).end = b.end /\ Copied(b, v).curr = b.curr
         /\ Waiting(Copied(b, v)) = Waiting(b)
         /\ Copied(b, v).slot[b.end] = v
         /\ \A j \in Slot : j # b.end => Copied(b, v).slot[j] = b.slot[j]
         /\ \A j \in Slot : (j + 1) % BufferSize = b.curr % BufferSize => j # b.end
         /\ Holds(b, s) => Holds(Copied(b, v), s)
<1> DEFINE c == Copied(b, v)
           slots == [b.slot EXCEPT ![b.end] = v]
<1>1. b.end \in Slot /\ b.curr \in 0..BufferSize /\ b.slot \in [Slot -> Int]
  BY SizeAssumption DEF Ring, Slot
<1>2. slots \in [Slot -> Int] /\ slots[b.end] = v /\ \A j \in Slot : j # b.end => slots[j] = b.slot[j]
  BY <1>1
<1>3. c.curr = b.curr /\ c.end = b.end /\ c.slot = slots /\ c \in Ring
  <2> HIDE DEF slots
  <2>1. c = [b EXCEPT !.slot = slots]
    BY DEF Copied, slots, Ring
  <2> QED BY <1>2, <2>1 DEF Ring
<1> HIDE DEF c, slots
<1>4. Waiting(c) = Waiting(b)
  BY <1>3 DEF Waiting
<1>5. ASSUME NEW j \in Slot, (j + 1) % BufferSize = b.curr % BufferSize
      PROVE  j # b.end
  <2>1. Waiting(b) # BufferSize - 1
    BY WaitingType, SizeAssumption
  <2>2. ~Full(b)
    BY <2>1, FullIs
  <2> QED BY <1>5, <2>2 DEF Full
<1>6. ASSUME NEW i \in 1..Waiting(b)
      PROVE  Ith(c, i) = Ith(b, i)
  <2> DEFINE p == Wrapped(Wrapped(b.curr) + i - 1)
  <2>1. p \in Slot /\ p # b.end
    BY <1>1, Distances DEF Waiting, Ring
  <2> HIDE DEF p
  <2>2. Ith(c, i) = slots[p] /\ Ith(b, i) = b.slot[p]
    BY <1>3 DEF Ith, p
  <2> QED BY <1>2, <2>1, <2>2
<1>7. Holds(b, s) => Holds(c, s)
  BY <1>4, <1>6 DEF Holds
<1> QED BY <1>2, <1>3, <1>4, <1>5, <1>7 DEF c

\* Moving the end makes the value in the slot there wait.
LEMMA MoveAdds ==
  ASSUME NEW b \in Ring, b.end < BufferSize, Waiting(b) < BufferSize - 1, NEW s \in Seq(Int),
         Holds(b, s)
  PROVE  /\ EndMoved(b) \in Ring /\ EndMoved(b).curr = b.curr /\ EndMoved(b).slot = b.slot
         /\ EndMoved(b).end = b.end + 1
         /\ Waiting(EndMoved(b)) = Waiting(b) + 1
         /\ Holds(EndMoved(b), Append(s, b.slot[b.end]))
<1> DEFINE c == EndMoved(b)
           n == Waiting(b)
           v == b.slot[b.end]
           t == Append(s, v)
           L == Len(s)
<1>1. b.end \in Slot /\ b.curr \in 0..BufferSize /\ b.slot \in [Slot -> Int] /\ b.end + 1 \in 0..BufferSize
  BY SizeAssumption DEF Ring, Slot
<1>2. c.curr = b.curr /\ c.end = b.end + 1 /\ c.slot = b.slot /\ c \in Ring
  BY <1>1 DEF EndMoved, Ring
<1> HIDE DEF c
<1>3. Waiting(c) = n + 1
  BY <1>1, <1>2, Distances DEF Waiting, Ring
<1>4. n \in 0..(BufferSize - 1) /\ n <= L /\ L \in Nat
  BY WaitingType DEF Holds
<1>5. v \in Int
  BY <1>1
<1>6. t \in Seq(Int) /\ Len(t) = L + 1 /\ t[L + 1] = v /\ \A i \in 1..L : t[i] = s[i]
  BY <1>5
<1>7. ASSUME NEW i \in 1..(n + 1)
      PROVE  Ith(c, i) = t[(L + 1) - (n + 1) + i]
  <2>1. Ith(c, i) = Ith(b, i)
    BY <1>2 DEF Ith
  <2>2. CASE i = n + 1
    <3>1. Wrapped(Wrapped(b.curr) + i - 1) = b.end
      <4>1. Wrapped(Wrapped(b.curr) + n) = b.end
        BY <1>1, Distances DEF Waiting, Ring
      <4>2. Wrapped(b.curr) + i - 1 = Wrapped(b.curr) + n
        <5>1. Wrapped(b.curr) \in Int
          BY <1>1, WrappedIs DEF Slot
        <5> HIDE DEF n
        <5> QED BY <1>4, <2>2, <5>1
      <4> QED BY <4>1, <4>2
    <3>2. (L + 1) - (n + 1) + i = L + 1
      BY <1>4, <2>2
    <3> QED BY <1>6, <2>1, <3>1, <3>2 DEF Ith
  <2>3. CASE i \in 1..n
    <3>1. (L + 1) - (n + 1) + i = L - n + i /\ L - n + i \in 1..L
      BY <1>4, <2>3
    <3>2. Ith(b, i) = s[L - n + i]
      BY <2>3 DEF Holds
    <3> QED BY <1>6, <2>1, <3>1, <3>2
  <2>4. i \in 1..n \/ i = n + 1
    BY <1>4
  <2> QED BY <2>2, <2>3, <2>4
<1>8. Holds(c, t)
  <2> HIDE DEF t, n, L
  <2>1. n + 1 <= L + 1
    BY <1>4
  <2> QED BY <1>3, <1>6, <1>7, <2>1 DEF Holds
<1> QED BY <1>2, <1>3, <1>8 DEF c

\* Taking the first.
LEMMA TakeFirst ==
  ASSUME NEW b \in Ring, b.curr < BufferSize, Waiting(b) > 0, NEW s \in Seq(Int), Holds(b, s)
  PROVE  /\ CurrMoved(b) \in Ring /\ CurrMoved(b).curr = b.curr + 1
         /\ CurrMoved(b).end = b.end /\ CurrMoved(b).slot = b.slot
         /\ Waiting(CurrMoved(b)) = Waiting(b) - 1
         /\ Holds(CurrMoved(b), s)
         /\ b.slot[b.curr] = s[Len(s) - Waiting(CurrMoved(b))]
<1> DEFINE c == CurrMoved(b)
           n == Waiting(b)
           L == Len(s)
<1>1. b.curr \in Slot /\ b.end \in 0..BufferSize /\ b.slot \in [Slot -> Int] /\ b.curr + 1 \in 0..BufferSize
  BY SizeAssumption DEF Ring, Slot
<1>2. c.curr = b.curr + 1 /\ c.end = b.end /\ c.slot = b.slot /\ c \in Ring
  BY <1>1 DEF CurrMoved, Ring
<1> HIDE DEF c
<1>3. Waiting(c) = n - 1
  BY <1>1, <1>2, Distances DEF Waiting, Ring
<1>4. n \in 1..(BufferSize - 1) /\ n <= L /\ L \in Nat
  BY WaitingType DEF Holds
<1>5. ASSUME NEW i \in 1..(n - 1) PROVE Ith(c, i) = s[L - (n - 1) + i]
  <2>1. Wrapped(Wrapped(c.curr) + i - 1) = Wrapped(Wrapped(b.curr) + (i + 1) - 1)
    <3>1. i \in 1..(BufferSize - 1) /\ b.curr \in 0..BufferSize
      <4>1. i \in 1..(BufferSize - 1)
        <5> HIDE DEF n
        <5> QED BY <1>4, SizeAssumption
      <4> QED BY <4>1 DEF Ring
    <3>2. Wrapped(Wrapped(b.curr + 1) + i - 1) = Wrapped(Wrapped(b.curr) + i)
      BY <1>1, <3>1, Distances
    <3>3. Wrapped(b.curr) + (i + 1) - 1 = Wrapped(b.curr) + i
      BY <3>1, WrappedIs DEF Slot
    <3> QED BY <1>2, <3>2, <3>3
  <2>2. Ith(c, i) = Ith(b, i + 1)
    BY <1>2, <2>1 DEF Ith
  <2>3. i + 1 \in 1..n /\ L - n + (i + 1) = L - (n - 1) + i
    BY <1>4
  <2>4. Ith(b, i + 1) = s[L - n + (i + 1)]
    BY <2>3 DEF Holds
  <2> QED BY <2>2, <2>3, <2>4
<1>6. Holds(c, s)
  <2> HIDE DEF n, L
  <2>1. n - 1 <= L
    BY <1>4
  <2> QED BY <1>3, <1>5, <2>1 DEF Holds, L
<1>7. b.slot[b.curr] = s[L - (n - 1)]
  <2>1. Wrapped(Wrapped(b.curr) + 1 - 1) = b.curr
    BY <1>1, SizeAssumption DEF Wrapped, Slot
  <2>2. 1 \in 1..n /\ L - n + 1 = L - (n - 1)
    BY <1>4
  <2>3. Ith(b, 1) = s[L - n + 1]
    BY <2>2 DEF Holds
  <2> QED BY <2>1, <2>2, <2>3 DEF Ith
<1> QED BY <1>2, <1>3, <1>6, <1>7 DEF c

\* Taking the remainder of an index changes nothing that can be seen.
LEMMA EndWrapKeeps ==
  ASSUME NEW b \in Ring, NEW s
  PROVE  /\ EndWrapped(b) \in Ring /\ EndWrapped(b).slot = b.slot
         /\ EndWrapped(b).curr = b.curr /\ EndWrapped(b).end < BufferSize
         /\ Waiting(EndWrapped(b)) = Waiting(b)
         /\ Holds(b, s) => Holds(EndWrapped(b), s)
<1> DEFINE c == EndWrapped(b)
           e == Wrapped(b.end)
<1>1. e \in Slot /\ Wrapped(e) = e /\ b.end % BufferSize = e
  BY WrappedIs DEF Ring
<1>2. c = [b EXCEPT !.end = e]
  BY <1>1 DEF EndWrapped, Ring
<1> HIDE DEF c, e
<1>3. c.end = e /\ c.curr = b.curr /\ c.slot = b.slot /\ c \in Ring /\ e < BufferSize
  BY <1>1, <1>2, SizeAssumption DEF Ring, Slot
<1>4. Wrapped(c.end) = Wrapped(b.end)
  BY <1>1, <1>3 DEF e
<1>5. Waiting(c) = Waiting(b)
  BY <1>3, <1>4 DEF Waiting, Dist
<1>6. \A i : Ith(c, i) = Ith(b, i)
  BY <1>3 DEF Ith
<1>7. Holds(b, s) => Holds(c, s)
  BY <1>5, <1>6 DEF Holds
<1> QED BY <1>3, <1>5, <1>7 DEF c

\* The index at the front goes around.
LEMMA CurrWrapKeeps ==
  ASSUME NEW b \in Ring, NEW s
  PROVE  /\ CurrWrapped(b) \in Ring /\ CurrWrapped(b).slot = b.slot
         /\ CurrWrapped(b).end = b.end /\ CurrWrapped(b).curr < BufferSize
         /\ CurrWrapped(b).curr % BufferSize = b.curr % BufferSize
         /\ Waiting(CurrWrapped(b)) = Waiting(b)
         /\ Holds(b, s) => Holds(CurrWrapped(b), s)
<1> DEFINE c == CurrWrapped(b)
           e == Wrapped(b.curr)
<1>1. e \in Slot /\ Wrapped(e) = e /\ b.curr % BufferSize = e
  BY WrappedIs DEF Ring
<1>2. c = [b EXCEPT !.curr = e]
  BY <1>1 DEF CurrWrapped, Ring
<1> HIDE DEF c, e
<1>3. c.curr = e /\ c.end = b.end /\ c.slot = b.slot /\ c \in Ring /\ e < BufferSize
  BY <1>1, <1>2, SizeAssumption DEF Ring, Slot
<1>4. Wrapped(c.curr) = Wrapped(b.curr)
  BY <1>1, <1>3 DEF e
<1>5. Waiting(c) = Waiting(b)
  BY <1>3, <1>4 DEF Waiting, Dist
<1>6. \A i : Ith(c, i) = Ith(b, i)
  BY <1>3, <1>4 DEF Ith
<1>7. Holds(b, s) => Holds(c, s)
  BY <1>5, <1>6 DEF Holds
<1>8. c.curr % BufferSize = b.curr % BufferSize
  <2>1. c.curr \in 0..BufferSize
    BY <1>3 DEF Ring
  <2> QED BY <1>1, <1>3, <2>1, WrappedIs
<1> QED BY <1>3, <1>5, <1>7, <1>8 DEF c

-----------------------------------------------------------------------------
(* Beginnings of sequences.                                                *)

\* The first k elements.
LEMMA FirstK ==
  ASSUME NEW B, NEW s \in Seq(B), NEW k \in 0..Len(s)
  PROVE  /\ SubSeq(s, 1, k) \in Seq(B) /\ Len(SubSeq(s, 1, k)) = k
         /\ \A i \in 1..k : SubSeq(s, 1, k)[i] = s[i]
<1>1. Len(s) \in Nat /\ k \in Nat /\ k <= Len(s)
  OBVIOUS
<1>2. \A i \in 1..k : s[i] \in B /\ 1 + i - 1 = i
  BY <1>1, ElementOfSeq
<1> QED BY <1>1, <1>2

\* Adding to the end leaves them alone.
LEMMA FirstAppend ==
  ASSUME NEW B, NEW s \in Seq(B), NEW x \in B, NEW k \in 0..Len(s)
  PROVE  SubSeq(Append(s, x), 1, k) = SubSeq(s, 1, k)
<1>1. Append(s, x) \in Seq(B) /\ k \in 0..Len(Append(s, x)) /\ \A i \in 1..k : Append(s, x)[i] = s[i]
  OBVIOUS
<1> DEFINE a == SubSeq(Append(s, x), 1, k)
           b == SubSeq(s, 1, k)
<1>2. a \in Seq(B) /\ Len(a) = k /\ \A i \in 1..k : a[i] = Append(s, x)[i]
  BY <1>1, FirstK
<1>3. b \in Seq(B) /\ Len(b) = k /\ \A i \in 1..k : b[i] = s[i]
  BY FirstK
<1> HIDE DEF a, b
<1>4. a = b
  BY <1>1, <1>2, <1>3, SeqEqual
<1> QED BY <1>4 DEF a, b

\* One element more.
LEMMA FirstNext ==
  ASSUME NEW B, NEW s \in Seq(B), NEW k \in 1..Len(s)
  PROVE  SubSeq(s, 1, k) = Append(SubSeq(s, 1, k - 1), s[k])
<1>0. Len(s) \in Nat /\ k \in Nat /\ k - 1 \in Nat /\ k \in 0..Len(s) /\ k - 1 \in 0..Len(s) /\ s[k] \in B
  OBVIOUS
<1> DEFINE a == SubSeq(s, 1, k)
           b == SubSeq(s, 1, k - 1)
           x == s[k]
           c == Append(b, x)
<1>1. a \in Seq(B) /\ Len(a) = k /\ \A i \in 1..k : a[i] = s[i]
  BY <1>0, FirstK
<1>2. b \in Seq(B) /\ Len(b) = k - 1 /\ \A i \in 1..(k - 1) : b[i] = s[i]
  BY <1>0, FirstK
<1> HIDE DEF a, b
<1>3. c \in Seq(B) /\ Len(c) = k /\ c[k] = x /\ \A i \in 1..(k - 1) : c[i] = b[i]
  BY <1>0, <1>2
<1> HIDE DEF c
<1>4. \A i \in 1..k : i \in 1..(k - 1) \/ i = k
  OBVIOUS
<1>5. \A i \in 1..k : a[i] = c[i]
  BY <1>1, <1>2, <1>3, <1>4
<1>6. a = c
  BY <1>1, <1>3, <1>5, SeqEqual
<1> QED BY <1>6 DEF a, b, c

\* A prefix, element by element.
LEMMA PrefixIs ==
  ASSUME NEW B, NEW s \in Seq(B), NEW t \in Seq(B)
  PROVE  IsPrefix(s, t) <=> Len(s) <= Len(t) /\ \A i \in 1..Len(s) : s[i] = t[i]
<1>0. Len(s) \in Nat /\ Len(t) \in Nat
  OBVIOUS
<1>1. SubSeq(s, 1, Len(s)) = s
  OBVIOUS
<1>2. CASE Len(s) <= Len(t)
  <2> DEFINE u == SubSeq(t, 1, Len(s))
  <2>1. Len(s) \in 0..Len(t)
    BY <1>0, <1>2
  <2>2. u \in Seq(B) /\ Len(u) = Len(s) /\ \A i \in 1..Len(s) : u[i] = t[i]
    BY <2>1, FirstK
  <2>3. IsPrefix(s, t) <=> s = u
    BY <1>1, <1>2 DEF IsPrefix
  <2> HIDE DEF u
  <2>4. s = u <=> \A i \in 1..Len(s) : s[i] = u[i]
    BY <2>2, SeqEqual
  <2> QED BY <1>2, <2>2, <2>3, <2>4
<1>3. CASE ~ (Len(s) <= Len(t))
  BY <1>3 DEF IsPrefix
<1> QED BY <1>2, <1>3

\* A beginning of a beginning, ...
LEMMA PrefixTrans ==
  ASSUME NEW B, NEW s \in Seq(B), NEW t \in Seq(B), NEW u \in Seq(B), IsPrefix(s, t), IsPrefix(t, u)
  PROVE  IsPrefix(s, u)
<1>1. Len(s) <= Len(t) /\ \A i \in 1..Len(s) : s[i] = t[i]
  BY PrefixIs
<1>2. Len(t) <= Len(u) /\ \A i \in 1..Len(t) : t[i] = u[i]
  BY PrefixIs
<1>3. Len(s) <= Len(u) /\ \A i \in 1..Len(s) : i \in 1..Len(t) /\ s[i] = u[i]
  BY <1>1, <1>2
<1> QED BY <1>3, PrefixIs

\* ... the whole, ...
LEMMA PrefixSelf ==
  ASSUME NEW B, NEW s \in Seq(B)
  PROVE  IsPrefix(s, s)
<1>1. Len(s) <= Len(s)
  OBVIOUS
<1> QED BY <1>1 DEF IsPrefix

\* ... all but the last ...
LEMMA PrefixAppend ==
  ASSUME NEW B, NEW s \in Seq(B), NEW x \in B
  PROVE  IsPrefix(s, Append(s, x))
<1>1. Append(s, x) \in Seq(B) /\ Len(s) <= Len(Append(s, x)) /\ \A i \in 1..Len(s) : s[i] = Append(s, x)[i]
  OBVIOUS
<1> QED BY <1>1, PrefixIs

\* ... and the first k are beginnings.
LEMMA PrefixFirst ==
  ASSUME NEW B, NEW s \in Seq(B), NEW k \in 0..Len(s)
  PROVE  IsPrefix(SubSeq(s, 1, k), s)
<1>1. SubSeq(s, 1, k) \in Seq(B) /\ Len(SubSeq(s, 1, k)) = k /\ \A i \in 1..k : SubSeq(s, 1, k)[i] = s[i]
  BY FirstK
<1>2. k <= Len(s)
  OBVIOUS
<1> QED BY <1>1, <1>2, PrefixIs

\* What is chosen from a beginning is a beginning of what is chosen.
LEMMA OnlyPrefix ==
  ASSUME NEW B, NEW s \in Seq(B), NEW S, NEW k \in 0..Len(s)
  PROVE  IsPrefix(Only(SubSeq(s, 1, k), S), Only(s, S))
<1> DEFINE T == {n \in Nat : \A u \in Seq(B) : Len(u) = n =>
                   \A j \in 0..n : IsPrefix(Only(SubSeq(u, 1, j), S), Only(u, S))}
<1>1. 0 \in T
  <2> SUFFICES ASSUME NEW u \in Seq(B), Len(u) = 0, NEW j \in 0..0
               PROVE  IsPrefix(Only(SubSeq(u, 1, j), S), Only(u, S))
    OBVIOUS
  <2>1. SubSeq(u, 1, j) = u
    OBVIOUS
  <2>2. Only(u, S) \in Seq(B \cap S)
    BY OnlyType
  <2> QED BY <2>1, <2>2, PrefixSelf
<1>2. ASSUME NEW n \in T PROVE n + 1 \in T
  <2> SUFFICES ASSUME NEW u \in Seq(B), Len(u) = n + 1, NEW j \in 0..(n + 1)
               PROVE  IsPrefix(Only(SubSeq(u, 1, j), S), Only(u, S))
    OBVIOUS
  <2>0. n \in Nat
    OBVIOUS
  <2>1. u # <<>>
    BY <2>0
  <2>2. PICK v \in Seq(B), x \in B : u = Append(v, x)
    BY <2>1, SequenceEmptyOrAppend
  <2>3. Len(v) = n
    BY <2>2
  <2>4. Only(v, S) \in Seq(B \cap S) /\ Only(u, S) \in Seq(B \cap S)
    BY OnlyType
  <2>5. IsPrefix(Only(v, S), Only(u, S))
    <3>1. CASE x \in S
      <4>1. Only(u, S) = Append(Only(v, S), x) /\ x \in B \cap S
        BY <2>2, <3>1, OnlyAppend
      <4> QED BY <2>4, <4>1, PrefixAppend
    <3>2. CASE x \notin S
      <4>1. Only(u, S) = Only(v, S)
        BY <2>2, <3>2, OnlyAppend
      <4> QED BY <2>4, <4>1, PrefixSelf
    <3> QED BY <3>1, <3>2
  <2>6. CASE j = n + 1
    <3>1. SubSeq(u, 1, j) = u
      BY <2>6
    <3> QED BY <2>4, <3>1, PrefixSelf
  <2>7. CASE j \in 0..n
    <3>1. SubSeq(u, 1, j) = SubSeq(v, 1, j)
      BY <2>2, <2>3, <2>7, FirstAppend
    <3>2. IsPrefix(Only(SubSeq(v, 1, j), S), Only(v, S))
      BY <2>3, <2>7
    <3>3. Only(SubSeq(v, 1, j), S) \in Seq(B \cap S)
      <4>1. SubSeq(v, 1, j) \in Seq(B)
        BY <2>3, <2>7, FirstK
      <4> QED BY <4>1, OnlyType
    <3>4. IsPrefix(Only(SubSeq(v, 1, j), S), Only(u, S))
      BY <2>4, <2>5, <3>2, <3>3, PrefixTrans
    <3> QED BY <3>1, <3>4
  <2> QED BY <2>0, <2>6, <2>7
<1>3. Len(s) \in T
  <2> HIDE DEF T
  <2>1. T \subseteq Nat /\ Len(s) \in Nat
    BY DEF T
  <2> QED BY <1>1, <1>2, <2>1, SetInduction
<1> QED BY <1>3

-----------------------------------------------------------------------------
(* The engine gets what the filler put in.                                 *)

\* Points at which the engine has an event to deal with.
Busy == {"offer", "copy", "load", "store", "mod", "done"}

\* How many events the engine has taken, ...
Taken == Len(filled) - Waiting(buf)

\* ... those it is done with, ...
Handled == SubSeq(filled, 1, IF hand = NULL THEN Taken ELSE Taken - 1)

\* ... and whether the filter has one that its root has not returned.
PassedOn == nextflag \/ (eop = 1 /\ epc \in Busy)

EngineState ==
  /\ eop = 0 \/ (eop = 1 /\ plan.filtered)
  /\ nextflag \in BOOLEAN /\ teptr \in Int
  /\ nextflag => plan.filtered /\ (epc = "poll" \/ (epc = "check" /\ eop = 1))
  /\ epc = "check" /\ eop = 1 => nextflag
  /\ epc \in {"take", "wrap"} => eop = 0
  /\ epc \in {"check", "take"} /\ eop = 0 => Waiting(buf) > 0
  /\ hand # NULL <=> eop = 0 /\ epc \in Busy \cup {"wrap"}

TakenInv ==
  /\ Holds(buf, filled)
  /\ hand # NULL => Taken >= 1 /\ held = filled[Taken]

ProcessedInv ==
  IF plan.filtered
  THEN Only(Handled, Passes) = IF PassedOn THEN Append(processed, teptr) ELSE processed
  ELSE processed = Handled

OrderInv ==
  /\ filled \in Seq(Int) /\ processed \in Seq(Int)
  /\ up => EngineState /\ TakenInv /\ ProcessedInv
  /\ IsPrefix(processed, Stream(Root))

\* The engine has taken no more than was put in.
LEMMA TakenType ==
  ASSUME IInv, filled \in Seq(Int), Holds(buf, filled)
  PROVE  /\ Taken \in 0..Len(filled) /\ Waiting(buf) \in Nat
         /\ hand # NULL /\ Taken >= 1 => Taken - 1 \in 0..Len(filled)
         /\ Len(filled) \in Nat /\ buf \in Ring
<1>1. buf \in Ring
  BY DEF IInv, BufferOK, Ring
<1>2. Waiting(buf) \in 0..(BufferSize - 1) /\ Waiting(buf) <= Len(filled) /\ Len(filled) \in Nat
  BY <1>1, WaitingType DEF Holds
<1> QED BY <1>1, <1>2, SizeAssumption DEF Taken

\* Whatever is processed is a beginning of what passes.
LEMMA PrefixFollows ==
  IInv /\ filled \in Seq(Int) /\ processed \in Seq(Int) /\ EngineState /\ TakenInv /\ ProcessedInv
    => IsPrefix(processed, Stream(Root))
<1> SUFFICES ASSUME IInv, filled \in Seq(Int), processed \in Seq(Int), EngineState, TakenInv,
                    ProcessedInv
             PROVE  IsPrefix(processed, Stream(Root))
  OBVIOUS
<1> DEFINE k == IF hand = NULL THEN Taken ELSE Taken - 1
<1>1. k \in 0..Len(filled)
  BY TakenType DEF TakenInv
<1>2. Handled = SubSeq(filled, 1, k)
  BY DEF Handled
<1> HIDE DEF k
<1>3. CASE ~plan.filtered
  <2>1. processed = SubSeq(filled, 1, k) /\ Stream(Root) = filled
    BY <1>2, <1>3 DEF ProcessedInv, Stream, Root
  <2> QED BY <1>1, <2>1, PrefixFirst
<1>4. CASE plan.filtered
  <2> DEFINE a == Only(Handled, Passes)
             b == Only(filled, Passes)
  <2>1. Stream(Root) = b
    BY <1>4 DEF Stream, Root
  <2>2. IsPrefix(a, b)
    BY <1>1, <1>2, OnlyPrefix
  <2>3. a \in Seq(Int) /\ b \in Seq(Int)
    <3>1. Handled \in Seq(Int)
      BY <1>1, <1>2, FirstK
    <3>2. a \in Seq(Int \cap Passes) /\ b \in Seq(Int \cap Passes)
      BY <3>1, OnlyType
    <3> HIDE DEF a, b
    <3> QED BY <3>2
  <2>4. a = processed \/ a = Append(processed, teptr)
    BY <1>4 DEF ProcessedInv
  <2> HIDE DEF a, b
  <2>5. IsPrefix(processed, a)
    <3>1. CASE a = processed
      BY <3>1, PrefixSelf
    <3>2. CASE a = Append(processed, teptr)
      <4>1. teptr \in Int
        BY DEF EngineState
      <4> QED BY <3>2, <4>1, PrefixAppend
    <3> QED BY <2>4, <3>1, <3>2
  <2>6. IsPrefix(processed, b)
    BY <2>2, <2>3, <2>5, PrefixTrans
  <2> QED BY <2>1, <2>6
<1> QED BY <1>3, <1>4

\* Nothing has been put in at first.
LEMMA InitOrder == Init => OrderInv
<1> SUFFICES ASSUME Init PROVE OrderInv
  OBVIOUS
<1>1. IInv
  BY InitIInv
<1>2. /\ filled = <<>> /\ processed = <<>> /\ hand = NULL /\ nextflag = FALSE /\ eop = 0 /\ epc = "open"
      /\ teptr = 0 /\ buf = NewBuffer
  BY DEF Init
<1>3. filled \in Seq(Int) /\ processed \in Seq(Int) /\ Len(filled) = 0
  BY <1>2
<1>4. Waiting(buf) = 0
  BY <1>2, SizeAssumption DEF NewBuffer, Waiting, Dist, Wrapped
<1>5. EngineState
  <2>1. eop = 0 /\ epc \notin Busy \cup {"wrap", "check", "take"} /\ hand = NULL /\ teptr \in Int
    BY <1>2 DEF Busy
  <2> QED BY <1>2, <2>1 DEF EngineState
<1>6. TakenInv
  BY <1>2, <1>3, <1>4 DEF TakenInv, Holds
<1>7. Handled = <<>>
  BY <1>2, <1>3, <1>4 DEF Handled, Taken
<1>8. ProcessedInv
  <2>1. Only(Handled, Passes) = <<>>
    BY <1>7, OnlyEmpty
  <2> QED BY <1>2, <1>7, <2>1 DEF ProcessedInv, PassedOn
<1> QED BY <1>1, <1>3, <1>5, <1>6, <1>8, PrefixFollows DEF OrderInv

\* From the three parts after a step to the whole.
LEMMA OrderFollows ==
  ASSUME IInv', filled' \in Seq(Int), processed' \in Seq(Int), EngineState', TakenInv', ProcessedInv'
  PROVE  OrderInv'
<1>1. (IInv /\ filled \in Seq(Int) /\ processed \in Seq(Int) /\ EngineState /\ TakenInv
         /\ ProcessedInv => IsPrefix(processed, Stream(Root)))'
  BY PrefixFollows, PTL
<1> QED BY <1>1 DEF OrderInv

engineOrderVars == <<plan, buf, filled, hand, held, teptr, processed>>

\* Steps of the engine between two events.
LEMMA QuietOrder ==
  ASSUME IInv, IInv', OrderInv, up, UNCHANGED engineOrderVars, EngineState', PassedOn' = PassedOn
  PROVE  OrderInv'
<1>1. EngineState /\ TakenInv /\ ProcessedInv /\ filled \in Seq(Int) /\ processed \in Seq(Int)
  BY DEF OrderInv
<1>2. filled' \in Seq(Int) /\ processed' \in Seq(Int)
  BY <1>1 DEF engineOrderVars
<1>3. TakenInv'
  BY <1>1 DEF TakenInv, Holds, Waiting, Ith, Taken, engineOrderVars
<1>4. ProcessedInv'
  BY <1>1 DEF ProcessedInv, Handled, Taken, engineOrderVars
<1> QED BY <1>2, <1>3, <1>4, OrderFollows

\* A node that goes down.
LEMMA DownOrder ==
  ASSUME OrderInv, up' = FALSE, UNCHANGED <<plan, filled, processed>>
  PROVE  OrderInv'
BY DEF OrderInv, Stream, Root

\* The filler adds an event.
LEMMA AddOrder ==
  ASSUME IInv, IInv', OrderInv, up, NEW e \in Int, NEW next, FillerAdds(e, next),
         fpc \in {"read", "assemble"}, UNCHANGED <<plan, engineVars>>
  PROVE  OrderInv'
<1>0. EngineState /\ TakenInv /\ ProcessedInv /\ filled \in Seq(Int) /\ processed \in Seq(Int)
  BY DEF OrderInv
<1>1. /\ buf' = EndMoved(Copied(buf, e)) /\ filled' = Append(filled, e) /\ ~Full(buf)
      /\ UNCHANGED <<plan, epc, eop, hand, held, teptr, nextflag, processed>>
  BY DEF FillerAdds, engineVars
<1>2. buf \in Ring /\ buf.end < BufferSize
  BY DEF IInv, BufferOK, Ring
<1>3. Waiting(buf) < BufferSize - 1
  BY <1>1, <1>2, FullIs, WaitingType, SizeAssumption
<1> DEFINE b == Copied(buf, e)
<1>4. /\ b \in Ring /\ b.end < BufferSize /\ b.slot[b.end] = e
      /\ Waiting(b) = Waiting(buf) /\ Holds(b, filled)
  <2>1. /\ b \in Ring /\ b.end = buf.end /\ b.curr = buf.curr
        /\ Waiting(b) = Waiting(buf) /\ b.slot[buf.end] = e
        /\ Holds(buf, filled) => Holds(b, filled)
    BY <1>2, <1>3, CopyKeeps
  <2> HIDE DEF b
  <2> QED BY <1>0, <1>2, <2>1 DEF TakenInv
<1> HIDE DEF b
<1>5. Waiting(EndMoved(b)) = Waiting(b) + 1 /\ Holds(EndMoved(b), Append(filled, b.slot[b.end]))
  BY <1>0, <1>3, <1>4, MoveAdds
<1>6. Waiting(buf') = Waiting(buf) + 1 /\ Holds(buf', filled')
  BY <1>1, <1>4, <1>5 DEF b
<1>7. /\ filled' \in Seq(Int) /\ Len(filled') = Len(filled) + 1
      /\ \A i \in 1..Len(filled) : filled'[i] = filled[i]
  BY <1>0, <1>1
<1>8. /\ Taken \in 0..Len(filled) /\ Waiting(buf) \in Nat /\ Len(filled) \in Nat
      /\ hand # NULL /\ Taken >= 1 => Taken - 1 \in 0..Len(filled)
  BY <1>0, TakenType DEF TakenInv
<1>9. Taken' = Taken
  BY <1>6, <1>7, <1>8 DEF Taken
<1>10. EngineState'
  BY <1>0, <1>1, <1>6, <1>8 DEF EngineState
<1>11. TakenInv'
  <2> SUFFICES ASSUME hand # NULL PROVE Taken >= 1 /\ held = filled'[Taken]
    BY <1>1, <1>6, <1>9 DEF TakenInv
  <2>1. Taken >= 1 /\ held = filled[Taken]
    BY <1>0 DEF TakenInv
  <2> QED BY <1>7, <1>8, <2>1
<1>12. ProcessedInv'
  <2> DEFINE k == IF hand = NULL THEN Taken ELSE Taken - 1
  <2>1. k \in 0..Len(filled)
    BY <1>0, <1>8 DEF TakenInv
  <2>2. Handled = SubSeq(filled, 1, k)
    BY DEF Handled
  <2>3. Handled' = SubSeq(filled', 1, k)
    BY <1>1, <1>9 DEF Handled
  <2> HIDE DEF k
  <2>4. Handled' = Handled
    BY <1>0, <1>1, <2>1, <2>2, <2>3, FirstAppend
  <2> QED BY <1>0, <1>1, <2>4 DEF ProcessedInv, PassedOn
<1> QED BY <1>1, <1>0, <1>7, <1>10, <1>11, <1>12, OrderFollows

\* A remainder is taken, by the filler or the engine.
LEMMA WrapOrder ==
  ASSUME IInv, IInv', OrderInv, up, buf' \in {EndWrapped(buf), CurrWrapped(buf)},
         UNCHANGED <<plan, filled, hand, held, teptr, processed, nextflag, eop>>,
         epc' = epc \/ (epc = "wrap" /\ epc' = "offer")
  PROVE  OrderInv'
<1>0. EngineState /\ TakenInv /\ ProcessedInv /\ filled \in Seq(Int) /\ processed \in Seq(Int)
  BY DEF OrderInv
<1>1. buf \in Ring
  BY DEF IInv, BufferOK, Ring
<1>2. Waiting(buf') = Waiting(buf) /\ Holds(buf', filled)
  BY <1>0, <1>1, EndWrapKeeps, CurrWrapKeeps DEF TakenInv
<1>3. Taken' = Taken /\ Handled' = Handled
  BY <1>2 DEF Taken, Handled
<1>4. EngineState'
  BY <1>0, <1>2 DEF EngineState, Busy
<1>5. TakenInv'
  BY <1>0, <1>2, <1>3 DEF TakenInv
<1>6. PassedOn' = PassedOn
  BY <1>0 DEF PassedOn, EngineState, Busy
<1>7. ProcessedInv'
  BY <1>0, <1>3, <1>6 DEF ProcessedInv
<1>8. filled' \in Seq(Int) /\ processed' \in Seq(Int)
  BY <1>0
<1> QED BY <1>4, <1>5, <1>7, <1>8, OrderFollows

\* The engine takes an event.
LEMMA TakeOrder == ASSUME IInv, IInv', OrderInv, Take PROVE OrderInv'
<1>1. /\ up /\ epc = "take" /\ epc' = "wrap" /\ buf' = CurrMoved(buf)
      /\ hand' = buf.curr /\ held' = buf.slot[buf.curr]
      /\ UNCHANGED <<plan, filled, teptr, processed, nextflag, eop>>
  BY DEF Take, EngineStep, fillVars
<1>2. EngineState /\ TakenInv /\ ProcessedInv /\ filled \in Seq(Int) /\ processed \in Seq(Int)
  BY <1>1 DEF OrderInv
<1>3. buf \in Ring /\ buf.curr < BufferSize /\ buf.curr \in Int
  BY <1>1 DEF IInv, BufferOK, Ring
<1>4. eop = 0 /\ Waiting(buf) > 0 /\ hand = NULL /\ ~nextflag
  BY <1>2, <1>1 DEF EngineState, Busy
<1>5. /\ Waiting(buf') = Waiting(buf) - 1 /\ Holds(buf', filled)
      /\ held' = filled[Len(filled) - Waiting(buf')]
  BY <1>2, <1>1, <1>3, <1>4, TakeFirst DEF TakenInv
<1>6. Taken \in 0..Len(filled) /\ Waiting(buf) \in Nat /\ Len(filled) \in Nat
  BY <1>2, TakenType DEF TakenInv
<1>7. Taken' = Taken + 1 /\ hand' # NULL
  BY <1>1, <1>3, <1>5, <1>6, NodeAssumption DEF Taken
<1>8. TakenInv'
  <2>1. Holds(buf', filled') /\ Taken' >= 1
    BY <1>1, <1>5, <1>6, <1>7
  <2>2. held' = filled'[Taken']
    BY <1>1, <1>5 DEF Taken
  <2> QED BY <2>1, <2>2 DEF TakenInv
<1>9. Handled' = Handled
  <2>1. Taken' - 1 = Taken
    BY <1>6, <1>7
  <2> QED BY <1>1, <1>4, <1>7, <2>1 DEF Handled
<1>10. ~PassedOn /\ ~PassedOn'
  BY <1>1, <1>4 DEF PassedOn, Busy
<1>11. ProcessedInv'
  BY <1>2, <1>1, <1>9, <1>10 DEF ProcessedInv
<1>12. EngineState'
  BY <1>2, <1>1, <1>4, <1>7 DEF EngineState, Busy
<1>13. filled' \in Seq(Int) /\ processed' \in Seq(Int)
  BY <1>2, <1>1
<1> QED BY <1>8, <1>11, <1>12, <1>13, OrderFollows

\* The event in hand, once it is done with.
LEMMA HandledNext ==
  ASSUME IInv, EngineState, TakenInv, filled \in Seq(Int), hand # NULL,
         UNCHANGED <<buf, filled>>, hand' = NULL
  PROVE  Handled' = Append(Handled, held) /\ Handled \in Seq(Int) /\ held \in Int
<1>1. Taken >= 1 /\ held = filled[Taken] /\ Taken \in 0..Len(filled) /\ Len(filled) \in Nat
  BY TakenType DEF TakenInv
<1>2. Taken' = Taken
  BY DEF Taken
<1>3. Handled = SubSeq(filled, 1, Taken - 1) /\ Handled' = SubSeq(filled, 1, Taken)
  BY <1>2 DEF Handled
<1> DEFINE k == Taken
<1>4. k \in 1..Len(filled) /\ k - 1 \in 0..Len(filled)
  BY <1>1
<1> HIDE DEF k
<1>5. SubSeq(filled, 1, k) = Append(SubSeq(filled, 1, k - 1), filled[k]) /\ filled[k] \in Int
  BY <1>4, FirstNext
<1>6. SubSeq(filled, 1, k - 1) \in Seq(Int)
  BY <1>4, FirstK
<1> QED BY <1>1, <1>3, <1>5, <1>6 DEF k

\* What the current operator returns.
LEMMA CurrentIs ==
  ASSUME IInv, EngineState, epc \in Busy
  PROVE  Current = IF eop = 0 THEN held ELSE teptr
BY DEF EngineState, Current, IInv, HandIsBehind

\* The root's event is printed.
LEMMA DoneOrder == ASSUME IInv, IInv', OrderInv, RootDone PROVE OrderInv'
<1>1. /\ up /\ epc = "done" /\ epc' = "poll" /\ eop = Root
      /\ processed' = Append(processed, Current) /\ hand' = NULL
      /\ UNCHANGED <<plan, buf, filled, teptr, nextflag, eop>>
  BY DEF RootDone, EngineStep, fillVars
<1>2. EngineState /\ TakenInv /\ ProcessedInv /\ filled \in Seq(Int) /\ processed \in Seq(Int)
  BY <1>1 DEF OrderInv
<1>3. ~nextflag /\ epc \in Busy /\ epc' \notin Busy \cup {"wrap", "check", "take"}
  BY <1>2, <1>1 DEF EngineState, Busy
<1>4. Taken' = Taken /\ Waiting(buf') = Waiting(buf)
  BY <1>1 DEF Taken
<1>5. EngineState'
  BY <1>2, <1>1, <1>3 DEF EngineState
<1>6. TakenInv'
  BY <1>2, <1>1 DEF TakenInv
<1>7. ~PassedOn'
  BY <1>1, <1>3 DEF PassedOn
<1>8. CASE ~plan.filtered
  <2>1. eop = 0 /\ hand # NULL /\ Current = held
    BY <1>2, <1>1, <1>3, <1>8, CurrentIs DEF Root, EngineState
  <2>2. Handled' = Append(Handled, held) /\ Handled \in Seq(Int) /\ held \in Int
    BY <1>2, <1>1, <2>1, HandledNext
  <2>3. ProcessedInv'
    BY <1>2, <1>1, <1>8, <2>1, <2>2 DEF ProcessedInv
  <2>4. filled' \in Seq(Int) /\ processed' \in Seq(Int)
    BY <1>2, <1>1, <2>1, <2>2
  <2> QED BY <1>5, <1>6, <2>3, <2>4, OrderFollows
<1>9. CASE plan.filtered
  <2>1. eop = 1 /\ hand = NULL /\ Current = teptr /\ PassedOn /\ teptr \in Int
    BY <1>2, <1>1, <1>3, <1>9, CurrentIs DEF Root, EngineState, PassedOn
  <2>2. Handled' = Handled
    BY <1>1, <1>4, <2>1 DEF Handled
  <2>3. ProcessedInv'
    BY <1>2, <1>1, <1>7, <1>9, <2>1, <2>2 DEF ProcessedInv
  <2>4. filled' \in Seq(Int) /\ processed' \in Seq(Int)
    BY <1>2, <1>1, <2>1
  <2> QED BY <1>5, <1>6, <2>3, <2>4, OrderFollows
<1> QED BY <1>8, <1>9

\* The child's event goes through the filter.
LEMMA FilterOrder == ASSUME IInv, IInv', OrderInv, FilterChild PROVE OrderInv'
<1>1. /\ up /\ epc = "done" /\ epc' = "poll" /\ eop # Root
      /\ nextflag' = (Current \in Passes)
      /\ teptr' = IF Current \in Passes THEN Current ELSE teptr
      /\ hand' = NULL
      /\ UNCHANGED <<plan, buf, filled, processed, eop>>
  BY DEF FilterChild, EngineStep, fillVars
<1>2. EngineState /\ TakenInv /\ ProcessedInv /\ filled \in Seq(Int) /\ processed \in Seq(Int)
  BY <1>1 DEF OrderInv
<1>3. epc \in Busy /\ epc' \notin Busy \cup {"wrap", "check", "take"}
  BY <1>1 DEF Busy
<1>4. plan.filtered /\ eop = 0 /\ hand # NULL /\ ~nextflag /\ ~PassedOn /\ Current = held
  BY <1>2, <1>1, <1>3, CurrentIs DEF Root, EngineState, PassedOn
<1>5. Handled' = Append(Handled, held) /\ Handled \in Seq(Int) /\ held \in Int
  BY <1>2, <1>1, <1>4, HandledNext
<1>6. EngineState'
  <2>1. nextflag' \in BOOLEAN /\ teptr' \in Int
    BY <1>2, <1>1, <1>4, <1>5 DEF EngineState
  <2> QED BY <1>2, <1>1, <1>3, <1>4, <2>1 DEF EngineState
<1>7. TakenInv'
  BY <1>2, <1>1 DEF TakenInv
<1>8. PassedOn' <=> held \in Passes
  <2>1. nextflag' = (held \in Passes)
    BY <1>1, <1>4
  <2>2. epc' \notin Busy
    BY <1>3
  <2> QED BY <2>1, <2>2 DEF PassedOn
<1>9. ProcessedInv'
  <2>1. Only(Handled, Passes) = processed
    BY <1>2, <1>4 DEF ProcessedInv
  <2>2. Only(Handled', Passes) = IF held \in Passes THEN Append(processed, held) ELSE processed
    BY <1>5, <2>1, OnlyAppend
  <2>3. Only(Handled', Passes) = IF PassedOn' THEN Append(processed, teptr') ELSE processed
    BY <1>1, <1>4, <1>8, <2>2
  <2> QED BY <1>1, <1>4, <2>3 DEF ProcessedInv
<1>10. filled' \in Seq(Int) /\ processed' \in Seq(Int)
  BY <1>2, <1>1
<1> QED BY <1>6, <1>7, <1>9, <1>10, OrderFollows

\* The other steps of the engine.
LEMMA BetweenOrder ==
  ASSUME IInv, IInv', OrderInv,
         \/ OpenRoot \/ AddOperator \/ EngineHasNext \/ MayTake \/ ReturnsNothing
         \/ NotOffered \/ Offered \/ SockCopy \/ SockLoad \/ SockStore \/ SockWraps
  PROVE  OrderInv'
<1>1. up /\ UNCHANGED engineOrderVars
  BY DEF OpenRoot, AddOperator, EngineHasNext, MayTake, ReturnsNothing, NotOffered, Offered,
     SockCopy, SockLoad, SockStore, SockWraps, EngineStep, fillVars, engineOrderVars
<1>2. EngineState /\ IInv
  BY <1>1 DEF OrderInv
<1>3. EngineState' /\ PassedOn' = PassedOn
  <2>1. CASE OpenRoot \/ AddOperator
    <3>1. /\ epc \in {"open", "add"} /\ epc' \in {"add", "poll"} /\ nextflag' = nextflag
          /\ eop' = 0 \/ (eop' = eop) \/ (eop' = 1 /\ Root # eop)
      BY <2>1 DEF OpenRoot, AddOperator
    <3>2. eop' = 0 \/ (eop' = 1 /\ plan.filtered)
      BY <1>2, <3>1 DEF EngineState, Root
    <3> QED BY <1>2, <1>1, <3>1, <3>2 DEF EngineState, PassedOn, engineOrderVars, Busy
  <2>2. CASE EngineHasNext
    <3>1. /\ epc = "poll" /\ epc' = "check" /\ nextflag' = nextflag
          /\ (nextflag /\ eop' = 1) \/ (~nextflag /\ HasNext(buf) /\ eop' = 0)
      BY <2>2 DEF EngineHasNext, EngineStep
    <3>2. buf \in Ring /\ buf.curr < BufferSize
      BY <1>2, <3>1 DEF IInv, BufferOK, Ring
    <3>3. HasNext(buf) => Waiting(buf') > 0
      BY <1>1, <3>2, HasNextIs DEF engineOrderVars
    <3> QED BY <1>2, <1>1, <3>1, <3>3 DEF EngineState, PassedOn, engineOrderVars, Busy
  <2>3. CASE MayTake
    <3>1. /\ epc = "check" /\ epc' = (IF eop = 0 THEN "take" ELSE "offer") /\ eop' = eop
          /\ nextflag' = (nextflag /\ eop = 0)
      BY <2>3 DEF MayTake, EngineStep
    <3>2. CASE eop = 0
      <4>1. ~nextflag /\ ~nextflag' /\ epc' = "take" /\ Waiting(buf) > 0 /\ hand = NULL
        BY <1>2, <3>1, <3>2 DEF EngineState, Busy
      <4> QED BY <1>2, <1>1, <3>1, <3>2, <4>1 DEF EngineState, PassedOn, engineOrderVars, Busy
    <3>3. CASE eop = 1
      <4>0. nextflag /\ plan.filtered /\ hand = NULL
        BY <1>2, <3>1, <3>3 DEF EngineState
      <4>1. ~nextflag' /\ epc' = "offer"
        <5>1. eop # 0
          BY <3>3
        <5> QED BY <3>1, <5>1
      <4> QED BY <4>0, <1>2, <1>1, <3>1, <3>3, <4>1 DEF EngineState, PassedOn, engineOrderVars, Busy
    <3> QED BY <1>2, <3>2, <3>3 DEF EngineState
  <2>4. CASE ReturnsNothing
    <3>1. epc = "check" /\ epc' = "poll" /\ eop' = eop /\ nextflag' = nextflag
      BY <2>4 DEF ReturnsNothing, EngineStep
    <3> QED BY <1>2, <1>1, <3>1 DEF EngineState, PassedOn, engineOrderVars, Busy
  <2>5. CASE NotOffered \/ Offered \/ SockCopy \/ SockLoad \/ SockStore \/ SockWraps
    <3>1. epc \in Busy /\ epc' \in Busy /\ eop' = eop /\ nextflag' = nextflag
      BY <2>5 DEF NotOffered, Offered, SockCopy, SockLoad, SockStore, SockWraps, EngineStep, Busy
    <3>2. epc' \notin {"poll", "check", "take", "wrap"} /\ epc \notin {"poll", "check", "take", "wrap"}
      BY <3>1 DEF Busy
    <3> QED BY <1>2, <1>1, <3>1, <3>2 DEF EngineState, PassedOn, engineOrderVars
  <2> QED BY <2>1, <2>2, <2>3, <2>4, <2>5
<1> QED BY <1>1, <1>3, QuietOrder

\* Steps that change nothing of the engine's and the filler's.
LEMMA StillOrder ==
  ASSUME IInv, IInv', OrderInv, UNCHANGED <<plan, buf, fillVars, engineVars>>, up' => up
  PROVE  OrderInv'
<1>1. UNCHANGED <<plan, buf, filled, hand, held, teptr, processed, epc, eop, nextflag>>
  BY DEF fillVars, engineVars
<1>2. CASE up'
  <2>1. EngineState /\ TakenInv /\ ProcessedInv /\ filled \in Seq(Int) /\ processed \in Seq(Int)
    BY <1>2 DEF OrderInv
  <2>2. Waiting(buf') = Waiting(buf) /\ Taken' = Taken /\ Handled' = Handled
        /\ (PassedOn' <=> PassedOn)
    BY <1>1 DEF Taken, Handled, PassedOn
  <2>3. EngineState'
    BY <1>1, <2>1, <2>2 DEF EngineState
  <2>4. TakenInv'
    BY <1>1, <2>1, <2>2 DEF TakenInv
  <2>5. ProcessedInv'
    BY <1>1, <2>1, <2>2 DEF ProcessedInv
  <2> QED BY <1>1, <2>1, <2>3, <2>4, <2>5, OrderFollows
<1>3. CASE ~up'
  BY <1>1, <1>3 DEF OrderInv, Stream, Root
<1> QED BY <1>2, <1>3

\* Steps of the filler that leave the buffer alone.
LEMMA FillerOrder ==
  ASSUME IInv, IInv', OrderInv, UNCHANGED <<plan, up, buf, filled, engineVars>>
  PROVE  OrderInv'
<1>1. UNCHANGED <<plan, buf, filled, hand, held, teptr, processed, epc, eop, nextflag>>
  BY DEF engineVars
<1>2. CASE up
  <2>1. UNCHANGED engineOrderVars
    BY <1>1 DEF engineOrderVars
  <2>2. EngineState'
    BY <1>1, <1>2 DEF OrderInv, EngineState, Waiting
  <2>3. PassedOn' = PassedOn
    BY <1>1 DEF PassedOn
  <2> QED BY <1>2, <2>1, <2>2, <2>3, QuietOrder
<1>3. CASE ~up
  BY <1>1, <1>3 DEF OrderInv, Stream, Root
<1> QED BY <1>2, <1>3

\* Every step.
LEMMA OrderStep == IInv /\ IInv' /\ OrderInv /\ [Next]_vars => OrderInv'
<1> SUFFICES ASSUME IInv, IInv', OrderInv, [Next]_vars PROVE OrderInv'
  OBVIOUS
<1>1. CASE UNCHANGED vars
  BY <1>1, StillOrder DEF vars
<1>2. CASE Filler
  <2>1. CASE EndWraps
    <3>1. /\ up /\ buf' = EndWrapped(buf)
          /\ UNCHANGED <<plan, filled, hand, held, teptr, processed, nextflag, eop, epc>>
      BY <2>1 DEF EndWraps, engineVars
    <3> QED BY <3>1, WrapOrder
  <2>2. CASE ReadLine
    <3>1. up /\ fpc = "read" /\ FillerAdds(arrived + 1, "wrap") /\ UNCHANGED <<plan, engineVars>>
      BY <2>2 DEF ReadLine
    <3>2. arrived + 1 \in Int
      BY DEF IInv, BufferOK
    <3> QED BY <3>1, <3>2, AddOrder
  <2>3. CASE Assemble
    <3> DEFINE e == Event(SubSeq(values, 1, offset) \o SubSeq(inbuf, 1, RecLen - offset))
    <3>1. up /\ fpc = "assemble" /\ FillerAdds(e, "wraprecv") /\ UNCHANGED <<plan, engineVars>>
      BY <2>3 DEF Assemble
    <3>2. e \in Int
      BY EventType
    <3> HIDE DEF e
    <3> QED BY <3>1, <3>2, AddOrder
  <2>4. CASE Overrun
    <3>1. up' = FALSE /\ UNCHANGED <<plan, filled, processed>>
      BY <2>4 DEF Overrun, Crash, fillVars, engineVars
    <3> QED BY <3>1, DownOrder
  <2>5. CASE FileEnds \/ Recv \/ RecvEnds \/ KeepRest
    <3>1. UNCHANGED <<plan, up, buf, filled, engineVars>>
      BY <2>5 DEF FileEnds, Recv, RecvEnds, KeepRest
    <3> QED BY <3>1, FillerOrder
  <2> QED BY <1>2, <2>1, <2>2, <2>3, <2>4, <2>5 DEF Filler
<1>3. CASE Engine
  <2>1. CASE Take
    BY <2>1, TakeOrder
  <2>2. CASE TakeWraps
    <3>1. /\ up /\ buf' = CurrWrapped(buf) /\ epc = "wrap" /\ epc' = "offer"
          /\ UNCHANGED <<plan, filled, hand, held, teptr, processed, nextflag, eop>>
      BY <2>2 DEF TakeWraps, EngineStep, fillVars
    <3> QED BY <3>1, WrapOrder
  <2>3. CASE EngineCrashes \/ OfferCrashes
    <3>1. up' = FALSE /\ UNCHANGED <<plan, filled, processed>>
      BY <2>3 DEF EngineCrashes, OfferCrashes, EngineStep, Crash, fillVars
    <3> QED BY <3>1, DownOrder
  <2>4. CASE RootDone
    BY <2>4, DoneOrder
  <2>5. CASE FilterChild
    BY <2>5, FilterOrder
  <2>6. CASE \/ OpenRoot \/ AddOperator \/ EngineHasNext \/ MayTake \/ ReturnsNothing
             \/ NotOffered \/ Offered \/ SockCopy \/ SockLoad \/ SockStore \/ SockWraps
    BY <2>6, BetweenOrder
  <2> QED BY <1>3, <2>1, <2>2, <2>3, <2>4, <2>5, <2>6 DEF Engine
<1>4. CASE Server
  <2>1. up /\ UNCHANGED <<plan, buf, fillVars, engineVars>>
    BY <1>4 DEF Server, Accept, RecvRequest, HangUp, SubscribeLock, SetFlag, SetCrashes,
       SetBuffer, Insert, CleanLock, CloseFlag, CloseCrashes, ResetCurr, ResetEnd,
       CleanUnlock, ServerStep
  <2> QED BY <2>1, StillOrder
<1>5. CASE Writer
  <2>1. up /\ UNCHANGED <<plan, buf, fillVars, engineVars>>
    BY <1>5 DEF Writer, HasNewData, WriterLocksOut, WriterLocksOps, WriterTakes,
       WriterWraps, Send, SendLost, SendKills, SentAll, WriterUnlocks, WriterStep
  <2> QED BY <2>1, StillOrder
<1>6. ASSUME NEW c \in Conn, Connect(c) \/ Ask(c) \/ Read(c) \/ Leave(c) PROVE OrderInv'
  <2>1. up /\ UNCHANGED <<plan, buf, fillVars, engineVars>>
    BY <1>6 DEF Connect, Ask, Read, Leave, SubscriberStep
  <2> QED BY <2>1, StillOrder
<1> QED BY <1>1, <1>2, <1>3, <1>4, <1>5, <1>6 DEF Next

\* What the engine has taken of what the filler put in, and what became of it: the
\* invariant behind the order of events.
THEOREM OrderInvariance == Spec => []OrderInv
<1>1. Spec => []IInv
  BY NodeInvariance
<1> QED BY <1>1, InitOrder, OrderStep, PTL DEF Spec

-----------------------------------------------------------------------------
(* The filler: the file or the stream of the other node.                   *)

\* Quotient and remainder.
LEMMA DivMod ==
  ASSUME NEW d \in Nat \ {0}, NEW q \in Nat, NEW r \in 0..(d - 1)
  PROVE  (d * q + r) \div d = q /\ (d * q + r) % d = r
<1>1. d * q \in Nat /\ d * q + r \in Nat
  OBVIOUS
<1>2. (d * q + r) \div d \in Nat /\ (d * q + r) % d \in 0..(d - 1)
  OBVIOUS
<1>3. d * q + r = d * ((d * q + r) \div d) + ((d * q + r) % d)
  OBVIOUS
<1> QED OBVIOUS

\* Products are in the order of their factors.
LEMMA Times ==
  ASSUME NEW d \in Nat \ {0}, NEW p \in Nat, NEW q \in Nat, d * p <= q * d
  PROVE  p <= q
<1> SUFFICES ASSUME p >= q + 1 PROVE FALSE
  OBVIOUS
<1>1. d * p >= d * (q + 1)
  OBVIOUS
<1>2. d * (q + 1) = q * d + d
  OBVIOUS
<1> QED BY <1>1, <1>2

\* The record and the place of a byte.
LEMMA ByteIs ==
  ASSUME NEW q \in Nat, NEW r \in 1..RecLen
  PROVE  Byte(RecLen * q + r) = <<q + 1, r>>
<1>1. RecLen \in Nat \ {0}
  BY NodeAssumption
<1>2. r - 1 \in 0..(RecLen - 1) /\ RecLen * q \in Nat
  BY <1>1
<1> DEFINE i == RecLen * q + (r - 1)
<1>3. i \div RecLen = q /\ i % RecLen = r - 1
  BY <1>1, <1>2, DivMod
<1>4. (RecLen * q + r) - 1 = i
  BY <1>1, <1>2
<1> HIDE DEF i
<1>5. Byte(RecLen * q + r) = <<(i \div RecLen) + 1, (i % RecLen) + 1>>
  BY <1>4 DEF Byte
<1> QED BY <1>3, <1>5

\* The bytes of the stream, record by record: how far the client has got.
Bytes == RecLen * Len(filled)

FileInv == arrived = Len(filled) /\ fpc \in {"off", "read", "wrap", "ended"}

ClientInv ==
  /\ fpc \in {"recv", "assemble", "wraprecv", "ended"}
  /\ offset \in 0..(RecLen - 1) /\ inbuf \in Seq(Int \X Int)
  /\ values \in [1..RecLen -> Int \X Int]
  /\ arrived = Bytes + offset + Len(inbuf) /\ arrived <= plan.events * RecLen
  /\ \A i \in 1..offset : values[i] = Byte(Bytes + i)
  /\ \A i \in 1..Len(inbuf) : inbuf[i] = Byte(Bytes + offset + i)
  /\ fpc = "recv" => inbuf = <<>>
  /\ fpc \in {"assemble", "wraprecv"} /\ offset > 0 => inbuf # <<>>

FillInv ==
  /\ plan \in Plans /\ filled \in Seq(Int)
  /\ ~torn => /\ \A i \in 1..Len(filled) : filled[i] = i
              /\ IF plan.root = "file" THEN FileInv ELSE ClientInv

\* The filler at first.
LEMMA FillInitially == Init => FillInv
<1> SUFFICES ASSUME Init PROVE FillInv
  OBVIOUS
<1>1. /\ plan \in Plans /\ fpc = (IF plan.root = "file" THEN "off" ELSE "recv")
      /\ arrived = 0 /\ inbuf = <<>> /\ offset = 0 /\ filled = <<>>
      /\ values = [i \in 1..RecLen |-> <<0, 0>>]
  BY DEF Init
<1>2. Len(filled) = 0 /\ Len(inbuf) = 0 /\ filled \in Seq(Int) /\ inbuf \in Seq(Int \X Int)
  BY <1>1
<1>3. RecLen \in Nat /\ RecLen > 0 /\ plan.events \in Nat
  BY <1>1, NodeAssumption
<1>4. Bytes = 0 /\ 0 <= plan.events * RecLen
  BY <1>2, <1>3 DEF Bytes
<1>5. values \in [1..RecLen -> Int \X Int]
  BY <1>1
<1>6. plan.root = "file" => FileInv
  BY <1>1, <1>2 DEF FileInv
<1>7. plan.root # "file" => ClientInv
  BY <1>1, <1>2, <1>3, <1>4, <1>5 DEF ClientInv
<1> QED BY <1>1, <1>2, <1>6, <1>7 DEF FillInv

\* The next number follows.
LEMMA Numbered ==
  ASSUME NEW s \in Seq(Int), \A i \in 1..Len(s) : s[i] = i
  PROVE  LET t == Append(s, Len(s) + 1)
         IN  t \in Seq(Int) /\ Len(t) = Len(s) + 1 /\ \A i \in 1..Len(t) : t[i] = i
<1> DEFINE t == Append(s, Len(s) + 1)
<1>1. t \in Seq(Int) /\ Len(t) = Len(s) + 1 /\ t[Len(s) + 1] = Len(s) + 1 /\ Len(s) \in Nat
      /\ \A i \in 1..Len(s) : t[i] = s[i]
  OBVIOUS
<1> HIDE DEF t
<1>2. \A i \in 1..Len(t) : t[i] = i
  <2>1. \A i \in 1..Len(t) : i \in 1..Len(s) \/ i = Len(s) + 1
    BY <1>1
  <2> QED BY <1>1, <2>1
<1> QED BY <1>1, <1>2 DEF t

\* The next event of a file.
LEMMA LineFill == ASSUME IInv, FillInv, ReadLine PROVE FillInv'
<1>1. /\ fpc = "read" /\ fpc' = "wrap" /\ arrived' = arrived + 1
      /\ filled' = Append(filled, arrived + 1) /\ UNCHANGED <<plan, torn>>
  BY DEF ReadLine, FillerAdds
<1>2. plan \in Plans /\ filled \in Seq(Int) /\ Len(filled) \in Nat /\ arrived \in Nat
  BY DEF FillInv, IInv, BufferOK
<1>3. filled' \in Seq(Int)
  BY <1>1, <1>2
<1>4. CASE ~torn
  <2>1. plan.root = "file" /\ arrived = Len(filled) /\ \A i \in 1..Len(filled) : filled[i] = i
    BY <1>1, <1>4 DEF FillInv, FileInv, ClientInv
  <2>2. filled' = Append(filled, Len(filled) + 1)
    BY <1>1, <2>1
  <2>3. Len(filled') = Len(filled) + 1 /\ \A i \in 1..Len(filled') : filled'[i] = i
    BY <1>2, <2>1, <2>2, Numbered
  <2>4. FileInv'
    BY <1>1, <2>1, <2>3 DEF FileInv
  <2> QED BY <1>1, <1>2, <1>3, <2>1, <2>3, <2>4 DEF FillInv
<1>5. CASE torn
  BY <1>1, <1>2, <1>3, <1>5 DEF FillInv
<1> QED BY <1>4, <1>5

\* A step of the filler that adds nothing, where the file or the client goes on.
LEMMA NothingFilled ==
  ASSUME FillInv, UNCHANGED <<plan, filled>>, torn' = torn,
         ~torn /\ plan.root = "file" /\ FileInv => FileInv',
         ~torn /\ plan.root # "file" /\ ClientInv => ClientInv'
  PROVE  FillInv'
BY DEF FillInv

\* The index goes around.
LEMMA WrapFill == ASSUME FillInv, EndWraps PROVE FillInv'
<1>1. /\ UNCHANGED <<plan, filled, torn, arrived, offset, inbuf, values>>
      /\ \/ fpc = "wrap" /\ fpc' = "read"
         \/ fpc = "wraprecv" /\ fpc' = "assemble"
  BY DEF EndWraps
<1>2. FileInv => FileInv'
  BY <1>1 DEF FileInv
<1>3. ClientInv => ClientInv'
  BY <1>1 DEF ClientInv, Bytes
<1> QED BY <1>1, <1>2, <1>3, NothingFilled

\* The file or the stream ends.
LEMMA EndFill == ASSUME FillInv, FileEnds \/ RecvEnds \/ Overrun PROVE FillInv'
<1>1. /\ UNCHANGED <<plan, filled, torn, arrived, offset, inbuf, values>>
      /\ fpc' \in {fpc, "ended"}
  BY DEF FileEnds, RecvEnds, Overrun, fillVars
<1>2. FileInv => FileInv'
  BY <1>1 DEF FileInv
<1>3. ClientInv => ClientInv'
  BY <1>1 DEF ClientInv, Bytes
<1> QED BY <1>1, <1>2, <1>3, NothingFilled

\* The file is opened.
LEMMA OpenFill == ASSUME FillInv, OpenRoot PROVE FillInv'
<1>1. /\ UNCHANGED <<plan, filled, torn, arrived, offset, inbuf, values>>
      /\ fpc' = IF plan.root = "file" THEN "read" ELSE fpc
  BY DEF OpenRoot
<1>2. FileInv /\ plan.root = "file" => FileInv'
  BY <1>1 DEF FileInv
<1>3. ClientInv /\ plan.root # "file" => ClientInv'
  BY <1>1 DEF ClientInv, Bytes
<1> QED BY <1>1, <1>2, <1>3, NothingFilled

\* Who is not the filler.
LEMMA OthersFill == ASSUME FillInv, UNCHANGED <<plan, fillVars>> PROVE FillInv'
<1>1. UNCHANGED <<plan, filled, torn, arrived, offset, inbuf, values, fpc>>
  BY DEF fillVars
<1> QED BY <1>1 DEF FillInv, FileInv, ClientInv, Bytes

\* More bytes of the stream.
LEMMA RecvFill == ASSUME IInv, FillInv, Recv PROVE FillInv'
<1>1. PICK n \in 1..MaxRecv :
        /\ arrived + n <= plan.events * RecLen
        /\ inbuf' = [i \in 1..n |-> Byte(arrived + i)]
        /\ arrived' = arrived + n
  BY DEF Recv
<1>2. fpc = "recv" /\ fpc' = "assemble" /\ UNCHANGED <<plan, filled, torn, offset, values>>
  BY DEF Recv
<1>3. ~FileInv
  BY <1>2 DEF FileInv
<1>4. ASSUME ClientInv PROVE ClientInv'
  <2>1. arrived = Bytes + offset + Len(inbuf) /\ inbuf = <<>> /\ offset \in 0..(RecLen - 1)
    BY <1>2, <1>4 DEF ClientInv
  <2>2. RecLen \in Nat /\ Len(filled) \in Nat /\ n \in Nat /\ n >= 1 /\ Bytes \in Nat
    <3>1. RecLen \in Nat /\ Len(filled) \in Nat
      BY NodeAssumption DEF FillInv
    <3> QED BY <3>1 DEF Bytes
  <2>3. arrived = Bytes + offset /\ offset \in Nat
    BY <2>1, <2>2
  <2>4. \A i \in 1..n : Byte(arrived + i) \in Int \X Int
    <3> SUFFICES ASSUME NEW i \in 1..n PROVE Byte(arrived + i) \in Int \X Int
      OBVIOUS
    <3>1. (arrived + i) - 1 \in Int
      BY <2>2, <2>3
    <3> DEFINE j == (arrived + i) - 1
    <3>2. j \div RecLen \in Int /\ j % RecLen \in Int
      <4>1. RecLen > 0
        BY NodeAssumption
      <4> HIDE DEF j
      <4>2. j \in Int
        BY <3>1 DEF j
      <4> QED BY <2>2, <4>1, <4>2
    <3> HIDE DEF j
    <3> QED BY <3>2 DEF Byte, j
  <2>5. /\ inbuf' \in Seq(Int \X Int) /\ Len(inbuf') = n
        /\ \A i \in 1..n : inbuf'[i] = Byte(arrived + i)
    BY <1>1, <2>2, <2>4
  <2>6. Bytes' = Bytes
    BY <1>2 DEF Bytes
  <2>7. arrived' = Bytes' + offset' + Len(inbuf') /\ arrived' <= plan'.events * RecLen
    BY <1>1, <1>2, <2>2, <2>3, <2>5, <2>6
  <2>8. \A i \in 1..Len(inbuf') : inbuf'[i] = Byte(Bytes' + offset' + i)
    BY <1>2, <2>3, <2>5, <2>6
  <2>9. \A i \in 1..offset' : values'[i] = Byte(Bytes' + i)
    BY <1>2, <1>4, <2>6 DEF ClientInv
  <2>10. inbuf' # <<>>
    BY <2>2, <2>5
  <2> QED BY <1>2, <1>4, <2>5, <2>7, <2>8, <2>9, <2>10 DEF ClientInv
<1> QED BY <1>2, <1>3, <1>4, NothingFilled

\* What is left of a record is kept, at the start.
LEMMA RestFill == ASSUME IInv, FillInv, KeepRest PROVE FillInv'
<1>1. /\ fpc = "assemble" /\ fpc' = "recv" /\ Len(inbuf) + offset < RecLen
      /\ offset' = Len(inbuf) /\ inbuf' = <<>>
      /\ values' = inbuf \o SubSeq(values, Len(inbuf) + 1, RecLen)
      /\ torn' = (torn \/ (offset > 0 /\ inbuf # <<>>))
      /\ UNCHANGED <<plan, filled, arrived>>
  BY DEF KeepRest
<1>2. plan' \in Plans /\ filled' \in Seq(Int)
  BY <1>1 DEF FillInv
<1> SUFFICES ASSUME ~torn'
             PROVE  /\ \A i \in 1..Len(filled') : filled'[i] = i
                    /\ IF plan'.root = "file" THEN FileInv' ELSE ClientInv'
  BY <1>2 DEF FillInv
<1>3. ~torn /\ ~ (offset > 0 /\ inbuf # <<>>)
  BY <1>1
<1>4. plan.root # "file" /\ ClientInv /\ \A i \in 1..Len(filled) : filled[i] = i
  BY <1>1, <1>3 DEF FillInv, FileInv
<1>5. offset = 0 /\ RecLen \in Nat /\ Bytes \in Int
  <2>1. offset \in 0..(RecLen - 1) /\ (offset > 0 => inbuf # <<>>)
    BY <1>1, <1>4 DEF ClientInv
  <2>2. RecLen \in Nat /\ Len(filled) \in Nat
    BY NodeAssumption DEF FillInv
  <2> QED BY <1>3, <2>1, <2>2 DEF Bytes
<1> DEFINE k == Len(inbuf)
           rest == SubSeq(values, k + 1, RecLen)
<1>6. k \in 0..(RecLen - 1) /\ inbuf \in Seq(Int \X Int) /\ values \in [1..RecLen -> Int \X Int]
  BY <1>1, <1>4, <1>5 DEF ClientInv
<1>7. values \in Seq(Int \X Int) /\ Len(values) = RecLen
  BY <1>5, <1>6
<1>8. rest \in Seq(Int \X Int) /\ Len(rest) = RecLen - k
  <2> HIDE DEF k
  <2>1. k + 1 \in 1..RecLen
    BY <1>5, <1>6
  <2>2. rest = [i \in 1..(RecLen - k) |-> values[k + i]]
    BY <1>5, <1>6, <1>7, <2>1
  <2>3. \A i \in 1..(RecLen - k) : values[k + i] \in Int \X Int
    BY <1>5, <1>6
  <2> QED BY <1>5, <1>6, <2>2, <2>3
<1> HIDE DEF rest
<1>9. /\ values' \in Seq(Int \X Int) /\ Len(values') = RecLen
      /\ \A i \in 1..k : values'[i] = inbuf[i]
  BY <1>1, <1>5, <1>6, <1>8 DEF rest
<1>10. values' \in [1..RecLen -> Int \X Int]
  BY <1>9
<1>11. Bytes' = Bytes
  BY <1>1 DEF Bytes
<1>12. \A i \in 1..offset' : values'[i] = Byte(Bytes' + i)
  <2>1. \A i \in 1..k : inbuf[i] = Byte(Bytes + 0 + i)
    BY <1>4, <1>5 DEF ClientInv
  <2>2. \A i \in 1..k : Bytes + 0 + i = Bytes + i
    BY <1>5
  <2> QED BY <1>1, <1>9, <1>11, <2>1, <2>2
<1>13. arrived' = Bytes' + offset' + Len(inbuf') /\ arrived' <= plan'.events * RecLen
  <2>1. arrived = Bytes + 0 + k /\ arrived <= plan.events * RecLen
    BY <1>4, <1>5 DEF ClientInv
  <2>2. Len(inbuf') = 0 /\ offset' = k
    BY <1>1
  <2> HIDE DEF k
  <2> QED BY <1>1, <1>5, <1>6, <1>11, <2>1, <2>2
<1>14. offset' \in 0..(RecLen - 1) /\ inbuf' \in Seq(Int \X Int) /\ Len(inbuf') = 0
  BY <1>1, <1>6
<1>15. ClientInv'
  <2>1. \A i \in 1..Len(inbuf') : inbuf'[i] = Byte(Bytes' + offset' + i)
    BY <1>14
  <2> QED BY <1>1, <1>10, <1>12, <1>13, <1>14, <2>1 DEF ClientInv
<1> QED BY <1>1, <1>4, <1>15

\* Sequences one after the other.
LEMMA Joined ==
  ASSUME NEW B, NEW s \in Seq(B), NEW t \in Seq(B)
  PROVE  /\ s \o t \in Seq(B) /\ Len(s \o t) = Len(s) + Len(t)
         /\ \A i \in 1..Len(s) : (s \o t)[i] = s[i]
         /\ \A j \in 1..Len(t) : (s \o t)[Len(s) + j] = t[j]
OBVIOUS

\* The record is the next one of the stream.
LEMMA AssembleFill == ASSUME IInv, FillInv, Assemble PROVE FillInv'
<1> DEFINE L == Len(filled)
           m == RecLen - offset
           kept == SubSeq(values, 1, offset)
           new == SubSeq(inbuf, 1, m)
           bytes == kept \o new
<1>1. /\ fpc = "assemble" /\ fpc' = "wraprecv" /\ Len(inbuf) + offset >= RecLen
      /\ values' = bytes /\ filled' = Append(filled, Event(bytes))
      /\ inbuf' = SubSeq(inbuf, m + 1, Len(inbuf)) /\ offset' = 0
      /\ UNCHANGED <<plan, arrived, torn>>
  BY DEF Assemble, FillerAdds, Missing
<1> HIDE DEF bytes
<1>2. plan \in Plans /\ filled \in Seq(Int) /\ L \in Nat
  BY DEF FillInv
<1>3. plan' \in Plans /\ filled' \in Seq(Int)
  BY <1>1, <1>2, EventType
<1> SUFFICES ASSUME ~torn'
             PROVE  /\ \A i \in 1..Len(filled') : filled'[i] = i
                    /\ IF plan'.root = "file" THEN FileInv' ELSE ClientInv'
  BY <1>3 DEF FillInv
<1>4. plan.root # "file" /\ ClientInv /\ \A i \in 1..L : filled[i] = i
  BY <1>1 DEF FillInv, FileInv
<1>5. RecLen \in Nat /\ RecLen > 0 /\ plan.events \in Nat
  BY <1>2, NodeAssumption
<1> DEFINE n == Len(inbuf)
<1>6. /\ offset \in 0..(RecLen - 1) /\ inbuf \in Seq(Int \X Int)
      /\ values \in [1..RecLen -> Int \X Int]
      /\ arrived = Bytes + offset + n /\ arrived <= plan.events * RecLen
  BY <1>4 DEF ClientInv
<1>7. Bytes = RecLen * L /\ Bytes \in Nat
  BY <1>2, <1>5 DEF Bytes
<1>8. m \in 1..RecLen /\ m <= n /\ n \in Nat /\ offset \in Nat /\ offset + m = RecLen
  <2>1. n \in Nat
    BY <1>6
  <2> HIDE DEF n
  <2>2. n + offset >= RecLen
    BY <1>1 DEF n
  <2> QED BY <1>5, <1>6, <2>1, <2>2
<1>9. values \in Seq(Int \X Int) /\ Len(values) = RecLen
  BY <1>5, <1>6
<1>10. /\ kept \in Seq(Int \X Int) /\ Len(kept) = offset
       /\ \A i \in 1..offset : kept[i] = values[i]
  <2>1. offset \in 0..Len(values)
    BY <1>5, <1>6, <1>9
  <2> QED BY <1>9, <2>1, FirstK
<1>11. new \in Seq(Int \X Int) /\ Len(new) = m /\ \A i \in 1..m : new[i] = inbuf[i]
  <2>1. m \in 0..Len(inbuf)
    <3> HIDE DEF m
    <3> QED BY <1>8
  <2> HIDE DEF m
  <2> QED BY <1>6, <2>1, FirstK
<1> HIDE DEF kept, new
<1>12. /\ bytes \in Seq(Int \X Int) /\ Len(bytes) = RecLen
       /\ \A i \in 1..offset : bytes[i] = kept[i]
       /\ \A i \in 1..m : bytes[offset + i] = new[i]
  <2>1. /\ bytes \in Seq(Int \X Int) /\ Len(bytes) = Len(kept) + Len(new)
        /\ \A i \in 1..Len(kept) : bytes[i] = kept[i]
        /\ \A j \in 1..Len(new) : bytes[Len(kept) + j] = new[j]
    <3> DEFINE B == Int \X Int
    <3>1. kept \in Seq(B) /\ new \in Seq(B)
      BY <1>10, <1>11
    <3> HIDE DEF B
    <3>2. /\ bytes \in Seq(B) /\ Len(bytes) = Len(kept) + Len(new)
          /\ \A i \in 1..Len(kept) : bytes[i] = kept[i]
          /\ \A j \in 1..Len(new) : bytes[Len(kept) + j] = new[j]
      BY <3>1, Joined DEF bytes
    <3> QED BY <3>2 DEF B
  <2> HIDE DEF m
  <2> QED BY <1>8, <1>10, <1>11, <2>1
<1>13. ASSUME NEW i \in 1..RecLen PROVE bytes[i] = <<L + 1, i>>
  <2>1. Byte(RecLen * L + i) = <<L + 1, i>>
    BY <1>2, ByteIs
  <2>2. CASE i <= offset
    <3>1. i \in 1..offset
      BY <1>8, <2>2
    <3>2. values[i] = Byte(Bytes + i)
      BY <1>4, <3>1 DEF ClientInv
    <3> QED BY <1>7, <1>10, <1>12, <2>1, <3>1, <3>2
  <2>3. CASE i > offset
    <3> DEFINE j == i - offset
    <3>1. j \in 1..m /\ j \in 1..n /\ offset + j = i
      <4> HIDE DEF n
      <4> QED BY <1>5, <1>8, <2>3
    <3> HIDE DEF j
    <3>2. inbuf[j] = Byte(Bytes + offset + j)
      BY <1>4, <3>1 DEF ClientInv
    <3>3. Bytes + offset + j = RecLen * L + i
      <4>1. Bytes + offset + j = Bytes + i
        <5>1. j \in Int /\ offset \in Int /\ Bytes \in Int /\ offset + j = i
          BY <1>7, <1>8, <3>1
        <5> QED BY <5>1
      <4> QED BY <1>7, <4>1
    <3>4. bytes[i] = inbuf[j]
      <4>1. bytes[offset + j] = new[j]
        BY <1>12, <3>1
      <4> QED BY <1>11, <3>1, <4>1
    <3> QED BY <2>1, <3>2, <3>3, <3>4
  <2> QED BY <1>8, <2>2, <2>3
<1>14. bytes = Frame(L + 1)
  <2>1. bytes = [i \in 1..RecLen |-> bytes[i]]
    BY <1>5, <1>12
  <2> QED BY <1>13, <2>1 DEF Frame
<1>15. L + 1 \in 1..plan.events
  <2>1. RecLen * (L + 1) = Bytes + RecLen
    BY <1>2, <1>5, <1>7
  <2>2. Bytes + RecLen <= Bytes + offset + n
    <3> HIDE DEF n
    <3> QED BY <1>5, <1>7, <1>8
  <2>3. Bytes + offset + n <= plan.events * RecLen
    BY <1>6
  <2>4. RecLen * (L + 1) <= plan.events * RecLen
    <3> HIDE DEF n, L
    <3>1. plan.events * RecLen \in Int
      BY <1>5
    <3> QED BY <1>5, <1>7, <1>8, <2>1, <2>2, <2>3, <3>1
  <2>5. L + 1 \in Nat /\ RecLen \in Nat \ {0}
    BY <1>2, <1>5
  <2>6. L + 1 <= plan.events
    <3> DEFINE p == L + 1
               q == plan.events
    <3> HIDE DEF p, q
    <3>1. p \in Nat /\ q \in Nat /\ RecLen * p <= q * RecLen
      BY <1>5, <2>4, <2>5 DEF p, q
    <3>2. p <= q
      BY <2>5, <3>1, Times
    <3> QED BY <3>2 DEF p, q
  <2> QED BY <1>2, <1>5, <2>6
<1>16. Event(bytes) = L + 1
  <2>1. Event(bytes) = bytes[1][1]
    BY <1>14, <1>15 DEF Event
  <2>2. bytes[1] = <<L + 1, 1>>
    BY <1>5, <1>13
  <2> QED BY <2>1, <2>2
<1>17. Len(filled') = L + 1 /\ \A i \in 1..Len(filled') : filled'[i] = i
  BY <1>1, <1>2, <1>4, <1>16, Numbered
<1>18. Bytes' = Bytes + RecLen
  <2>1. Bytes' = RecLen * (L + 1)
    BY <1>17 DEF Bytes
  <2> QED BY <1>2, <1>5, <1>7, <2>1
<1>19. /\ inbuf' \in Seq(Int \X Int) /\ Len(inbuf') = n - m
       /\ \A i \in 1..(n - m) : inbuf'[i] = inbuf[m + i]
  <2> HIDE DEF m
  <2>1. n - m \in 0..n
    BY <1>8
  <2>2. inbuf' = [i \in 1..(n - m) |-> inbuf[m + i]]
    BY <1>1, <1>6, <1>8
  <2>3. \A i \in 1..(n - m) : inbuf[m + i] \in Int \X Int
    BY <1>6, <1>8
  <2> QED BY <1>8, <2>1, <2>2, <2>3
<1>20. \A i \in 1..Len(inbuf') : inbuf'[i] = Byte(Bytes' + offset' + i)
  <2> SUFFICES ASSUME NEW i \in 1..(n - m) PROVE inbuf'[i] = Byte(Bytes' + offset' + i)
    BY <1>19
  <2>1. m + i \in 1..n
    <3> HIDE DEF m, n
    <3> QED BY <1>8
  <2>2. inbuf[m + i] = Byte(Bytes + offset + (m + i))
    BY <1>4, <2>1 DEF ClientInv
  <2>3. Bytes + offset + (m + i) = Bytes' + offset' + i
    <3>1. m \in Int /\ i \in Int /\ offset' = 0
      BY <1>1, <1>8, <2>1
    <3> HIDE DEF m
    <3> QED BY <1>5, <1>7, <1>8, <1>18, <3>1
  <2> QED BY <1>19, <2>2, <2>3
<1>21. arrived' = Bytes' + offset' + Len(inbuf') /\ arrived' <= plan'.events * RecLen
  <2>1. arrived' = Bytes + offset + n /\ offset' = 0 /\ Len(inbuf') = n - m
    BY <1>1, <1>6, <1>19
  <2>2. Bytes' = Bytes + RecLen /\ Bytes \in Int /\ offset + m = RecLen
        /\ offset \in Int /\ m \in Int /\ n \in Int /\ RecLen \in Int
    <3> HIDE DEF n, m
    <3> QED BY <1>5, <1>7, <1>8, <1>18
  <2>3. arrived' <= plan'.events * RecLen
    BY <1>1, <1>6
  <2> HIDE DEF n, m
  <2>4. arrived' = Bytes' + offset' + Len(inbuf')
    BY <2>1, <2>2
  <2> QED BY <2>3, <2>4
<1>22. values' \in [1..RecLen -> Int \X Int]
  BY <1>1, <1>12
<1>23. ClientInv'
  <2>1. offset' \in 0..(RecLen - 1) /\ ~ (offset' > 0)
    BY <1>1, <1>5
  <2>2. \A i \in 1..offset' : values'[i] = Byte(Bytes' + i)
    BY <1>1
  <2> QED BY <1>1, <1>19, <1>20, <1>21, <1>22, <2>1, <2>2 DEF ClientInv
<1> QED BY <1>1, <1>4, <1>17, <1>23

\* Every step.
LEMMA FillStep == IInv /\ FillInv /\ [Next]_vars => FillInv'
<1> SUFFICES ASSUME IInv, FillInv, [Next]_vars PROVE FillInv'
  OBVIOUS
<1>1. CASE Filler
  BY <1>1, WrapFill, LineFill, EndFill, RecvFill, AssembleFill, RestFill DEF Filler
<1>2. CASE OpenRoot
  BY <1>2, OpenFill
<1>3. CASE UNCHANGED vars
  BY <1>3, OthersFill DEF vars
<1>4. CASE Engine /\ ~OpenRoot
  <2>1. UNCHANGED <<plan, fillVars>>
    BY <1>4 DEF Engine, AddOperator, EngineHasNext, MayTake, ReturnsNothing, EngineCrashes,
       Take, TakeWraps, NotOffered, Offered, OfferCrashes, SockCopy, SockLoad, SockStore,
       SockWraps, RootDone, FilterChild, EngineStep
  <2> QED BY <2>1, OthersFill
<1>5. CASE Server
  <2>1. UNCHANGED <<plan, fillVars>>
    BY <1>5 DEF Server, Accept, RecvRequest, HangUp, SubscribeLock, SetFlag, SetCrashes,
       SetBuffer, Insert, CleanLock, CloseFlag, CloseCrashes, ResetCurr, ResetEnd,
       CleanUnlock, ServerStep
  <2> QED BY <2>1, OthersFill
<1>6. CASE Writer
  <2>1. UNCHANGED <<plan, fillVars>>
    BY <1>6 DEF Writer, HasNewData, WriterLocksOut, WriterLocksOps, WriterTakes,
       WriterWraps, Send, SendLost, SendKills, SentAll, WriterUnlocks, WriterStep
  <2> QED BY <2>1, OthersFill
<1>7. ASSUME NEW c \in Conn, Connect(c) \/ Ask(c) \/ Read(c) \/ Leave(c) PROVE FillInv'
  <2>1. UNCHANGED <<plan, fillVars>>
    BY <1>7 DEF Connect, Ask, Read, Leave, SubscriberStep
  <2> QED BY <2>1, OthersFill
<1> QED BY <1>1, <1>2, <1>3, <1>4, <1>5, <1>6, <1>7 DEF Next

\* Where the filler is in the file or in the stream of the other node.
THEOREM FillInvariance == Spec => []FillInv
<1>1. Spec => []IInv
  BY NodeInvariance
<1> QED BY <1>1, FillInitially, FillStep, PTL DEF Spec

\* The engine processes what passes of the events that came in, in order, and the
\* events are those of the wire unless one arrived in more than two pieces.
THEOREM EventsArriveInOrder == Spec => []EventsInOrder
<1>1. OrderInv /\ FillInv => EventsInOrder
  <2> SUFFICES ASSUME OrderInv, FillInv PROVE EventsInOrder
    OBVIOUS
  <2>1. IsPrefix(processed, IF plan.filtered THEN Only(filled, Passes) ELSE filled)
    BY DEF OrderInv, Stream, Root
  <2>2. ~torn => filled = [i \in 1..Len(filled) |-> i]
    <3>1. filled = [i \in 1..Len(filled) |-> filled[i]]
      BY DEF FillInv
    <3> QED BY <3>1 DEF FillInv
  <2> QED BY <2>1, <2>2 DEF EventsInOrder
<1> QED BY <1>1, OrderInvariance, FillInvariance, PTL

-----------------------------------------------------------------------------
(* Who holds the lock of the outputmap, and what it protects.              *)

\* The points at which the server and the client writer hold it.
ServerLocked == {"setlock", "alloc", "insert", "closelock", "resetcurr", "resetend", "unlock"}
WriterLocked == {"oplock", "loop", "wrap", "send"}

LockInv ==
  /\ outLock = "server" <=> spc \in ServerLocked
  /\ outLock = "writer" <=> wpc \in WriterLocked

\* The server is about to make an operator's buffer empty.
Closing(o) == spc \in {"resetcurr", "resetend"} /\ ServerOp = o

\* Whatever has clients is buffered.
FlagInv ==
  /\ ndbuffer \in [Op -> BOOLEAN]
  /\ \A o \in Subscribed : ndbuffer[o]
  /\ spc \in {"alloc", "insert"} => ndbuffer[ServerOp]
  /\ spc \in {"closelock", "resetcurr", "resetend"} => ServerOp \notin Subscribed
  /\ spc \in {"resetcurr", "resetend"} => ServerOp \in Op /\ ~ndbuffer[ServerOp]

\* The connection has an entry in the outputmap.
Listed(c) == \E i \in DOMAIN outputmap : outputmap[i][2] = fd[c]

DistinctEntries(s) == \A i, j \in DOMAIN s : s[i][2] = s[j][2] => i = j

\* A connection gets one entry at most, once its request has been read.
ListInv ==
  /\ DistinctEntries(outputmap)
  /\ \A c \in Conn : asked[c].unread => ~Listed(c)
  /\ spc \in {"subscribe", "setlock", "alloc", "insert"} => ~Listed(peer) /\ ~asked[peer].unread

\* The server cleans up after a connection that is closed.
LeavingInv ==
  spc \in {"clean", "closelock", "resetcurr", "resetend", "unlock"} => cst[peer] = "closed"

MapInv == up => LockInv /\ FlagInv /\ ListInv /\ LeavingInv

-----------------------------------------------------------------------------
(* More about what is chosen from a sequence.                              *)

\* Everything that is in the set is chosen.
LEMMA OnlyHas ==
  ASSUME NEW B, NEW s \in Seq(B), NEW S, NEW k \in 1..Len(s), s[k] \in S
  PROVE  \E i \in 1..Len(Only(s, S)) : Only(s, S)[i] = s[k]
<1> DEFINE Q(u) == \A j \in 1..Len(u) : u[j] \in S =>
                     \E i \in 1..Len(Only(u, S)) : Only(u, S)[i] = u[j]
           T == {n \in Nat : \A u \in Seq(B) : Len(u) = n => Q(u)}
<1>1. 0 \in T
  OBVIOUS
<1>2. ASSUME NEW n \in T PROVE n + 1 \in T
  <2> SUFFICES ASSUME NEW u \in Seq(B), Len(u) = n + 1, NEW j \in 1..Len(u), u[j] \in S
               PROVE  \E i \in 1..Len(Only(u, S)) : Only(u, S)[i] = u[j]
    OBVIOUS
  <2>1. u # <<>>
    OBVIOUS
  <2>2. PICK v \in Seq(B), x \in B : u = Append(v, x)
    BY <2>1, SequenceEmptyOrAppend
  <2>3. Len(v) = n /\ u[n + 1] = x /\ \A i \in 1..n : u[i] = v[i]
    BY <2>2
  <2>4. Q(v)
    BY <2>3
  <2> DEFINE o == Only(v, S)
             w == Only(u, S)
  <2>5. w = IF x \in S THEN Append(o, x) ELSE o
    BY <2>2, OnlyAppend
  <2>6. o \in Seq(B \cap S)
    BY OnlyType
  <2> HIDE DEF o, w
  <2>7. CASE j = n + 1
    <3>1. w = Append(o, x) /\ x \in B \cap S
      BY <2>3, <2>5, <2>7
    <3>2. Len(o) + 1 \in 1..Len(w) /\ w[Len(o) + 1] = x
      BY <2>6, <3>1
    <3>3. \E i \in 1..Len(w) : w[i] = u[j]
      BY <2>3, <2>7, <3>2
    <3> QED BY <3>3 DEF w
  <2>8. CASE j \in 1..n
    <3>1. v[j] \in S /\ v[j] = u[j] /\ j \in 1..Len(v)
      BY <2>3, <2>8
    <3>2. PICK i \in 1..Len(o) : o[i] = u[j]
      BY <2>4, <3>1 DEF o
    <3>3. i \in 1..Len(w) /\ w[i] = o[i]
      <4>1. CASE x \in S
        <5>1. x \in B \cap S /\ w = Append(o, x)
          BY <2>5, <4>1
        <5> QED BY <2>6, <5>1
      <4>2. CASE x \notin S
        BY <2>5, <4>2
      <4> QED BY <4>1, <4>2
    <3>4. \E h \in 1..Len(w) : w[h] = u[j]
      BY <3>2, <3>3
    <3> QED BY <3>4 DEF w
  <2>9. j \in 1..n \/ j = n + 1
    OBVIOUS
  <2> QED BY <2>7, <2>8, <2>9
<1>3. Len(s) \in T
  <2> HIDE DEF T
  <2>1. T \subseteq Nat /\ Len(s) \in Nat
    BY DEF T
  <2> QED BY <1>1, <1>2, <2>1, SetInduction
<1>4. Q(s)
  BY <1>3
<1> QED BY <1>4

\* Entries that are different stay so.
LEMMA OnlyDistinct ==
  ASSUME NEW B, NEW s \in Seq(B), NEW S, DistinctEntries(s)
  PROVE  DistinctEntries(Only(s, S))
<1>0. ASSUME NEW v \in Seq(B)
      PROVE  /\ Only(v, S) \in Seq(B \cap S)
             /\ \A i \in 1..Len(Only(v, S)) : \E j \in 1..Len(v) : v[j] = Only(v, S)[i]
  BY OnlyType
<1> DEFINE T == {n \in Nat : \A u \in Seq(B) :
                   Len(u) = n /\ DistinctEntries(u) => DistinctEntries(Only(u, S))}
<1>1. 0 \in T
  <2> SUFFICES ASSUME NEW u \in Seq(B), Len(u) = 0 PROVE DistinctEntries(Only(u, S))
    OBVIOUS
  <2>1. Only(u, S) = <<>>
    <3>1. u = <<>>
      BY EmptySeq
    <3> QED BY <3>1, OnlyEmpty
  <2> QED BY <2>1 DEF DistinctEntries
<1>2. ASSUME NEW n \in T PROVE n + 1 \in T
  <2> SUFFICES ASSUME NEW u \in Seq(B), Len(u) = n + 1, DistinctEntries(u)
               PROVE  DistinctEntries(Only(u, S))
    OBVIOUS
  <2>1. u # <<>>
    OBVIOUS
  <2>2. PICK v \in Seq(B), x \in B : u = Append(v, x)
    BY <2>1, SequenceEmptyOrAppend
  <2>3. Len(v) = n /\ u[n + 1] = x /\ \A i \in 1..n : u[i] = v[i]
    BY <2>2
  <2>4. DistinctEntries(v) /\ \A i \in 1..n : v[i][2] # x[2]
    <3>1. DOMAIN u = 1..(n + 1) /\ DOMAIN v = 1..n
      BY <2>3
    <3>2. \A i, j \in 1..(n + 1) : u[i][2] = u[j][2] => i = j
      BY <3>1 DEF DistinctEntries
    <3>3. \A i, j \in 1..n : v[i][2] = v[j][2] => i = j
      BY <2>3, <3>2
    <3>4. \A i \in 1..n : u[i][2] # u[n + 1][2]
      BY <3>2
    <3>5. \A i \in 1..n : v[i][2] # x[2]
      BY <2>3, <3>4
    <3> QED BY <3>1, <3>3, <3>5 DEF DistinctEntries
  <2> DEFINE o == Only(v, S)
             w == Only(u, S)
  <2>5. w = IF x \in S THEN Append(o, x) ELSE o
    BY <2>2, OnlyAppend
  <2>6. o \in Seq(B \cap S) /\ \A i \in 1..Len(o) : \E j \in 1..n : v[j] = o[i]
    <3>1. /\ Only(v, S) \in Seq(B \cap S)
          /\ \A i \in 1..Len(Only(v, S)) : \E j \in 1..Len(v) : v[j] = Only(v, S)[i]
      BY <1>0
    <3> QED BY <2>3, <3>1
  <2>7. DistinctEntries(o)
    BY <2>3, <2>4
  <2> HIDE DEF o, w
  <2>8. CASE x \in S
    <3>1. x \in B \cap S /\ w = Append(o, x)
      BY <2>5, <2>8
    <3> DEFINE m == Len(o)
    <3>2. /\ m \in Nat /\ DOMAIN w = 1..(m + 1) /\ DOMAIN o = 1..m /\ w[m + 1] = x
          /\ \A i \in 1..m : w[i] = o[i]
      BY <2>6, <3>1
    <3> HIDE DEF m
    <3>3. \A i \in 1..m : w[i][2] # x[2]
      <4> SUFFICES ASSUME NEW i \in 1..m PROVE w[i][2] # x[2]
        OBVIOUS
      <4>1. PICK j \in 1..n : v[j] = o[i]
        BY <2>6 DEF m
      <4> QED BY <2>4, <3>2, <4>1
    <3>4. \A i, j \in 1..m : w[i][2] = w[j][2] => i = j
      BY <2>7, <3>2 DEF DistinctEntries
    <3>5. \A i \in 1..(m + 1) : i \in 1..m \/ i = m + 1
      BY <3>2
    <3>6. \A i, j \in 1..(m + 1) : w[i][2] = w[j][2] => i = j
      BY <3>2, <3>3, <3>4, <3>5
    <3> QED BY <3>2, <3>6 DEF DistinctEntries, w
  <2>9. CASE x \notin S
    BY <2>5, <2>7, <2>9 DEF w
  <2> QED BY <2>8, <2>9
<1>3. Len(s) \in T
  <2> HIDE DEF T
  <2>1. T \subseteq Nat /\ Len(s) \in Nat
    BY DEF T
  <2> QED BY <1>1, <1>2, <2>1, SetInduction
<1> QED BY <1>3

\* The entries of an operator's clients.
LEMMA ClientsIs ==
  ASSUME outputmap \in Seq(Op \X Nat), NEW o \in Op
  PROVE  /\ Clients(o) \in Seq({o} \X Nat)
         /\ \A i \in DOMAIN Clients(o) : \E j \in DOMAIN outputmap : outputmap[j] = Clients(o)[i]
         /\ \A j \in DOMAIN outputmap : outputmap[j][1] = o =>
              \E i \in DOMAIN Clients(o) : Clients(o)[i] = outputmap[j]
         /\ Clients(o) # <<>> => o \in Subscribed
         /\ DistinctEntries(outputmap) => DistinctEntries(Clients(o))
<1> DEFINE B == Op \X Nat
           S == {o} \X Nat
           cs == Clients(o)
<1>1. cs = Only(outputmap, S)
  BY DEF Clients
<1>2. /\ cs \in Seq(B \cap S)
      /\ \A i \in 1..Len(cs) : \E j \in 1..Len(outputmap) : outputmap[j] = cs[i]
  <2> HIDE DEF B, S
  <2>1. outputmap \in Seq(B)
    BY DEF B
  <2>2. /\ Only(outputmap, S) \in Seq(B \cap S)
        /\ \A i \in 1..Len(Only(outputmap, S)) :
             \E j \in 1..Len(outputmap) : outputmap[j] = Only(outputmap, S)[i]
    BY <2>1, OnlyType
  <2> QED BY <1>1, <2>2
<1>3. ASSUME NEW j \in 1..Len(outputmap), outputmap[j][1] = o
      PROVE  \E i \in 1..Len(cs) : cs[i] = outputmap[j]
  <2>1. outputmap[j] \in S
    <3>1. outputmap[j] \in Op \X Nat
      OBVIOUS
    <3> QED BY <1>3, <3>1
  <2> HIDE DEF B, S
  <2>2. outputmap \in Seq(B)
    BY DEF B
  <2>3. \E i \in 1..Len(Only(outputmap, S)) : Only(outputmap, S)[i] = outputmap[j]
    BY <2>1, <2>2, OnlyHas
  <2> QED BY <1>1, <2>3
<1>4. DistinctEntries(outputmap) => DistinctEntries(cs)
  <2> HIDE DEF B, S
  <2>1. outputmap \in Seq(B)
    BY DEF B
  <2> QED BY <1>1, <2>1, OnlyDistinct
<1> HIDE DEF cs
<1>5. cs \in Seq(S)
  BY <1>2
<1>6. cs # <<>> => o \in Subscribed
  <2> SUFFICES ASSUME cs # <<>> PROVE o \in Subscribed
    OBVIOUS
  <2>1. 1 \in 1..Len(cs) /\ cs[1][1] = o
    BY <1>5
  <2>2. PICK j \in 1..Len(outputmap) : outputmap[j] = cs[1]
    BY <1>2, <2>1
  <2>3. j \in DOMAIN outputmap /\ outputmap[j][1] = o
    BY <2>1, <2>2
  <2> QED BY <2>3 DEF Subscribed
<1>7. DOMAIN cs = 1..Len(cs) /\ DOMAIN outputmap = 1..Len(outputmap)
  BY <1>5
<1> QED BY <1>2, <1>3, <1>4, <1>5, <1>6, <1>7 DEF cs

-----------------------------------------------------------------------------
(* The outputmap and its lock.                                             *)

\* Nobody holds the lock at first.
LEMMA InitMap == Init => MapInv
<1> SUFFICES ASSUME Init PROVE MapInv
  OBVIOUS
<1>1. /\ outLock = NULL /\ spc = "select" /\ wpc = "poll" /\ outputmap = <<>>
      /\ ndbuffer = [o \in Op |-> o = 0 /\ plan.preset]
      /\ asked = [c \in Conn |-> [op |-> NULL, unread |-> FALSE]]
  BY DEF Init
<1>2. LockInv
  BY <1>1, NodeAssumption DEF LockInv, ServerLocked, WriterLocked
<1>3. DOMAIN outputmap = {} /\ Subscribed = {}
  BY <1>1 DEF Subscribed
<1>4. ndbuffer \in [Op -> BOOLEAN]
  BY <1>1
<1>5. FlagInv
  BY <1>1, <1>3, <1>4 DEF FlagInv
<1>6. ListInv
  BY <1>1, <1>3 DEF ListInv, DistinctEntries
<1>7. LeavingInv
  BY <1>1 DEF LeavingInv
<1> QED BY <1>2, <1>5, <1>6, <1>7 DEF MapInv

mapInvVars == <<outLock, spc, peer, wpc, ndbuffer, outputmap, fd, cst, asked>>

\* Steps that concern neither the outputmap nor its lock.
LEMMA MapQuiet == ASSUME MapInv, UNCHANGED mapInvVars, up' => up PROVE MapInv'
BY DEF mapInvVars, MapInv, LockInv, FlagInv, ListInv, LeavingInv, Listed, DistinctEntries,
   Subscribed, ServerOp

\* A node that is down has nothing to keep.
LEMMA MapDown == ASSUME up' = FALSE PROVE MapInv'
BY DEF MapInv

\* The client writer takes and gives back the lock, and changes nothing of the map.
LEMMA WriterMap == ASSUME MapInv, Writer PROVE MapInv'
<1>1. up /\ UNCHANGED <<spc, peer, ndbuffer, outputmap, fd, cst, asked>>
  BY DEF Writer, HasNewData, WriterLocksOut, WriterLocksOps, WriterTakes, WriterWraps,
     Send, SendLost, SendKills, SentAll, WriterUnlocks, WriterStep, serverVars, connVars
<1>2. LockInv /\ FlagInv /\ ListInv /\ LeavingInv
  BY <1>1 DEF MapInv
<1>3. FlagInv' /\ ListInv' /\ LeavingInv'
  BY <1>1, <1>2 DEF FlagInv, ListInv, LeavingInv, Listed, DistinctEntries, Subscribed, ServerOp
<1>4. CASE WriterLocksOut
  <2>1. wpc' = "oplock" /\ outLock = NULL /\ outLock' = "writer"
    BY <1>4 DEF WriterLocksOut, WriterStep
  <2>2. spc \notin ServerLocked
    BY <1>2, <2>1, NodeAssumption DEF LockInv
  <2>3. LockInv'
    BY <1>1, <2>1, <2>2, NodeAssumption DEF LockInv, ServerLocked, WriterLocked
  <2> QED BY <1>3, <2>3 DEF MapInv
<1>5. CASE WriterUnlocks
  <2>1. wpc = "loop" /\ wpc' = "poll" /\ outLock' = NULL
    BY <1>5 DEF WriterUnlocks, WriterStep
  <2>2. outLock = "writer"
    BY <1>2, <2>1 DEF LockInv, WriterLocked
  <2>3. spc \notin ServerLocked
    BY <1>2, <2>2 DEF LockInv
  <2>4. outLock' # "server" /\ outLock' # "writer"
    BY <2>1, NodeAssumption
  <2>5. LockInv'
    BY <1>1, <2>1, <2>3, <2>4 DEF LockInv, ServerLocked, WriterLocked
  <2> QED BY <1>3, <2>5 DEF MapInv
<1>6. CASE HasNewData \/ WriterLocksOps \/ WriterTakes \/ WriterWraps \/ Send \/ SendLost
           \/ SentAll
  <2>1. outLock' = outLock /\ (wpc' \in WriterLocked <=> wpc \in WriterLocked)
    BY <1>6 DEF HasNewData, WriterLocksOps, WriterTakes, WriterWraps, Send, SendLost, SentOne,
       SentAll, WriterStep, WriterLocked
  <2>2. LockInv'
    BY <1>1, <1>2, <2>1 DEF LockInv, ServerLocked, WriterLocked
  <2> QED BY <1>3, <2>2 DEF MapInv
<1>7. CASE SendKills
  BY <1>7, MapDown DEF SendKills, Crash
<1> QED BY <1>4, <1>5, <1>6, <1>7 DEF Writer

\* The subscribers.
LEMMA ClientMap ==
  ASSUME SubInv, MapInv, NEW c \in Conn, Connect(c) \/ Ask(c) \/ Read(c) \/ Leave(c)
  PROVE  MapInv'
<1>0. ConnType /\ OnlySubscribers /\ DistinctFds /\ Subscribing /\ \A d \in Conn : ConnState(d)
  BY DEF SubInv
<1>1. /\ up /\ UNCHANGED <<outLock, spc, peer, wpc, ndbuffer, outputmap, fd>>
      /\ cst[c] \in {"none", "connected", "asked"} /\ \E v : cst' = [cst EXCEPT ![c] = v]
  BY DEF Connect, Ask, Read, Leave, SubscriberStep, sockVars, mapVars, serverVars, writerVars
<1>2. LockInv /\ FlagInv /\ ListInv /\ LeavingInv
  BY <1>1 DEF MapInv
<1>3. \A d \in Conn \ {c} : cst'[d] = cst[d] /\ asked'[d] = asked[d]
  BY <1>0, <1>1 DEF Connect, Ask, Read, Leave, ConnType
<1>4. \/ asked' = asked
      \/ asked[c].op = NULL /\ ~Listed(c)
  <2>1. CASE Ask(c)
    <3>1. cst[c] = "connected"
      BY <2>1 DEF Ask, SubscriberStep
    <3>2. asked[c].op = NULL
      BY <1>0, <3>1 DEF ConnState
    <3>3. ASSUME Listed(c) PROVE FALSE
      <4>1. PICK i \in DOMAIN outputmap : outputmap[i][2] = fd[c]
        BY <3>3 DEF Listed
      <4>2. PICK d \in Conn : fd[d] = outputmap[i][2] /\ asked[d].op = outputmap[i][1]
        BY <1>0 DEF OnlySubscribers
      <4>3. outputmap[i] \in Op \X Nat
        BY <1>0 DEF ConnType
      <4>4. d = c
        BY <1>0, <4>1, <4>2, <4>3, Numbers DEF DistinctFds
      <4> QED BY <3>2, <4>2, <4>3, <4>4, Numbers
    <3> QED BY <3>2, <3>3
  <2>2. CASE Connect(c) \/ Read(c) \/ Leave(c)
    BY <2>2 DEF Connect, Read, Leave
  <2> QED BY <2>1, <2>2
<1>5. \A d : Listed(d)' <=> Listed(d)
  BY <1>1 DEF Listed
<1>6. LockInv' /\ Subscribed' = Subscribed
  BY <1>1, <1>2 DEF LockInv, Subscribed
<1>7. LeavingInv' /\ (spc \in {"closelock", "resetcurr", "resetend"} => peer # c)
  <2>1. spc \in {"clean", "closelock", "resetcurr", "resetend", "unlock"} =>
          peer \in Conn /\ cst[peer] = "closed" /\ peer # c
    BY <1>0, <1>1, <1>2 DEF LeavingInv, ConnType
  <2> QED BY <1>1, <1>3, <2>1 DEF LeavingInv
<1>8. spc \in {"subscribe", "setlock", "alloc", "insert", "closelock", "resetcurr", "resetend"} =>
        ServerOp' = ServerOp
  <2> SUFFICES ASSUME spc \in {"subscribe", "setlock", "alloc", "insert", "closelock",
                               "resetcurr", "resetend"}
               PROVE  asked'[peer].op = asked[peer].op
    BY <1>1 DEF ServerOp
  <2>1. peer \in Conn
    BY <1>0 DEF ConnType
  <2>2. CASE spc \in {"closelock", "resetcurr", "resetend"}
    BY <1>3, <1>7, <2>1, <2>2
  <2>3. CASE spc \in {"subscribe", "setlock", "alloc", "insert"}
    <3>1. asked[peer].op # NULL
      BY <1>0, <2>3 DEF Subscribing, ServerOp
    <3>2. asked' = asked \/ peer # c
      BY <1>4, <3>1
    <3> QED BY <1>3, <2>1, <3>2
  <2> QED BY <2>2, <2>3
<1>9. FlagInv'
  BY <1>1, <1>2, <1>6, <1>8 DEF FlagInv
<1>10. ListInv'
  <2>1. ASSUME NEW d \in Conn, asked'[d].unread PROVE ~Listed(d)
    <3>1. CASE asked' = asked
      BY <1>2, <2>1, <3>1 DEF ListInv
    <3>2. CASE d = c /\ ~Listed(c)
      BY <3>2
    <3>3. CASE d # c
      BY <1>2, <1>3, <2>1, <3>3 DEF ListInv
    <3> QED BY <1>4, <3>1, <3>2, <3>3
  <2>2. spc \in {"subscribe", "setlock", "alloc", "insert"} => ~asked'[peer].unread
    <3> SUFFICES ASSUME spc \in {"subscribe", "setlock", "alloc", "insert"}
                 PROVE  ~asked'[peer].unread
      OBVIOUS
    <3>1. peer \in Conn /\ asked[peer].op # NULL /\ ~asked[peer].unread
      BY <1>0, <1>2 DEF ConnType, Subscribing, ServerOp, ListInv
    <3> QED BY <1>3, <1>4, <3>1
  <2>3. DistinctEntries(outputmap') = DistinctEntries(outputmap)
    BY <1>1
  <2> QED BY <1>1, <1>2, <1>5, <2>1, <2>2, <2>3 DEF ListInv
<1> QED BY <1>6, <1>7, <1>9, <1>10 DEF MapInv

-----------------------------------------------------------------------------
(* The server.                                                             *)

\* Steps that leave the connections and the map alone.
LEMMA ServerQuietMap ==
  ASSUME MapInv, up, UNCHANGED <<wpc, outputmap, fd, cst, asked, peer>>, ndbuffer' \in [Op -> BOOLEAN],
         outLock' = "server" <=> spc' \in ServerLocked,
         outLock' = "writer" <=> wpc \in WriterLocked,
         \A o \in Subscribed : ndbuffer[o] => ndbuffer'[o],
         spc' \in {"subscribe", "setlock", "alloc", "insert"} =>
           spc \in {"subscribe", "setlock", "alloc", "insert"},
         spc' \in {"clean", "closelock", "resetcurr", "resetend", "unlock"} =>
           spc \in {"clean", "closelock", "resetcurr", "resetend", "unlock"},
         spc' \in {"alloc", "insert"} => ndbuffer'[ServerOp],
         spc' \in {"closelock", "resetcurr", "resetend"} => ServerOp \notin Subscribed,
         spc' \in {"resetcurr", "resetend"} => ServerOp \in Op /\ ~ndbuffer'[ServerOp]
  PROVE  MapInv'
<1>1. LockInv /\ FlagInv /\ ListInv /\ LeavingInv
  BY DEF MapInv
<1>2. LockInv'
  BY DEF LockInv
<1>3. Subscribed' = Subscribed /\ ServerOp' = ServerOp
  BY DEF Subscribed, ServerOp
<1>4. FlagInv'
  BY <1>1, <1>3 DEF FlagInv
<1>5. ListInv'
  BY <1>1 DEF ListInv, Listed, DistinctEntries
<1>6. LeavingInv'
  BY <1>1 DEF LeavingInv
<1> QED BY <1>2, <1>4, <1>5, <1>6 DEF MapInv

\* The server takes the lock for a new subscriber.
LEMMA SubscribeMap == ASSUME SubInv, MapInv, SubscribeLock PROVE MapInv'
<1>1. /\ up /\ spc = "subscribe" /\ outLock = NULL /\ outLock' = "server"
      /\ spc' = (IF Clients(ServerOp) = <<>> THEN "setlock" ELSE "insert")
      /\ UNCHANGED <<wpc, outputmap, fd, cst, asked, peer, ndbuffer>>
  BY DEF SubscribeLock, ServerStep, writerVars, connVars, sockVars
<1>2. LockInv /\ FlagInv
  BY <1>1 DEF MapInv
<1>3. wpc \notin WriterLocked
  BY <1>1, <1>2, NodeAssumption DEF LockInv
<1>4. ServerOp \in Op
  <2>1. peer \in Conn /\ ServerOp # NULL
    BY <1>1 DEF SubInv, ConnType, Subscribing
  <2> QED BY <2>1 DEF SubInv, ConnType, ServerOp
<1>5. Clients(ServerOp) # <<>> => ServerOp \in Subscribed
  BY <1>4, ClientsIs DEF SubInv, ConnType
<1>6. spc' = "insert" => ndbuffer[ServerOp]
  BY <1>1, <1>2, <1>5 DEF FlagInv
<1>7. spc' \in {"setlock", "insert"}
  BY <1>1
<1>8. ndbuffer' \in [Op -> BOOLEAN]
  BY <1>1, <1>2 DEF FlagInv
<1> QED BY <1>1, <1>3, <1>6, <1>7, <1>8, ServerQuietMap DEF ServerLocked

\* The flag of the operator is set before it has a client, and cleared after the last.
LEMMA FlagMap == ASSUME SubInv, MapInv, SetFlag \/ SetBuffer \/ CloseFlag \/ ResetCurr \/ ResetEnd
                 PROVE MapInv'
<1>1. /\ up /\ UNCHANGED <<wpc, outputmap, fd, cst, asked, peer, outLock>>
      /\ \/ spc = "setlock" /\ spc' = "alloc" /\ ndbuffer' = [ndbuffer EXCEPT ![ServerOp] = TRUE]
         \/ spc = "alloc" /\ spc' = "insert" /\ ndbuffer' = ndbuffer
         \/ /\ spc = "closelock" /\ spc' = "resetcurr" /\ ServerOp # NULL
            /\ ndbuffer' = [ndbuffer EXCEPT ![ServerOp] = FALSE]
         \/ spc = "resetcurr" /\ spc' = "resetend" /\ ndbuffer' = ndbuffer
         \/ spc = "resetend" /\ spc' = "unlock" /\ ndbuffer' = ndbuffer
  BY DEF SetFlag, SetBuffer, CloseFlag, FlagAfterClose, ResetCurr, ResetEnd, ServerStep,
     writerVars, connVars, mapVars
<1>2. LockInv /\ FlagInv /\ SubInv
  BY <1>1 DEF MapInv
<1>3. ServerOp # NULL => ServerOp \in Op
  <2>1. peer \in Conn
    BY <1>1 DEF SubInv, ConnType
  <2> QED BY <2>1 DEF SubInv, ConnType, ServerOp
<1>4. spc = "setlock" => ServerOp # NULL
  BY DEF SubInv, Subscribing
<1>5. ndbuffer \in [Op -> BOOLEAN] /\ Subscribed \subseteq Op
  <2>1. outputmap \in Seq(Op \X Nat)
    BY DEF SubInv, ConnType
  <2>2. \A i \in DOMAIN outputmap : outputmap[i][1] \in Op
    BY <2>1
  <2> QED BY <1>2, <2>2 DEF FlagInv, Subscribed
<1>6. ndbuffer' \in [Op -> BOOLEAN]
  BY <1>1, <1>5
<1>7. \A o \in Subscribed : ndbuffer[o] => ndbuffer'[o]
  BY <1>1, <1>2, <1>5 DEF FlagInv
<1>8. /\ spc' \in {"alloc", "insert"} => ndbuffer'[ServerOp]
      /\ spc' \in {"closelock", "resetcurr", "resetend"} => ServerOp \notin Subscribed
      /\ spc' \in {"resetcurr", "resetend"} => ServerOp \in Op /\ ~ndbuffer'[ServerOp]
  BY <1>1, <1>2, <1>3, <1>4, <1>5 DEF FlagInv
<1>9. spc \in ServerLocked /\ spc' \in ServerLocked
  BY <1>1 DEF ServerLocked
<1>10. (outLock' = "server" <=> spc' \in ServerLocked) /\ (outLock' = "writer" <=> wpc \in WriterLocked)
  BY <1>1, <1>2, <1>9 DEF LockInv
<1> QED BY <1>1, <1>6, <1>7, <1>8, <1>10, ServerQuietMap

\* A new connection has no entry.
LEMMA AcceptMap == ASSUME SubInv, MapInv, NEW c \in Conn, Accept(c) PROVE MapInv'
<1>0. ConnType /\ OnlySubscribers
  BY DEF SubInv
<1>1. /\ up /\ spc = "select" /\ spc' = "select" /\ fd[c] = NULL /\ fd' = [fd EXCEPT ![c] = NewFd]
      /\ UNCHANGED <<wpc, outputmap, cst, asked, peer, ndbuffer, outLock>>
  BY DEF Accept, ServerStep, writerVars, sockVars, mapVars
<1>2. LockInv /\ FlagInv /\ ListInv /\ LeavingInv
  BY <1>1 DEF MapInv
<1>3. \A d \in Conn : fd[d] # NewFd
  BY <1>0, <1>1, NewFdIs
<1>4. ASSUME NEW d \in Conn, Listed(d)' PROVE Listed(d)
  <2>1. PICK i \in DOMAIN outputmap : outputmap[i][2] = fd'[d]
    BY <1>1, <1>4 DEF Listed
  <2>2. PICK b \in Conn : fd[b] = outputmap[i][2]
    BY <1>0 DEF OnlySubscribers
  <2>3. d # c
    BY <1>0, <1>1, <1>3, <2>1, <2>2 DEF ConnType
  <2> QED BY <1>1, <2>1, <2>3 DEF Listed
<1>5. LockInv' /\ LeavingInv'
  BY <1>1, <1>2 DEF LockInv, LeavingInv, ServerLocked, WriterLocked
<1>6. FlagInv'
  BY <1>1, <1>2 DEF FlagInv, Subscribed
<1>7. ListInv'
  <2>1. DistinctEntries(outputmap')
    BY <1>1, <1>2 DEF ListInv
  <2>2. \A d \in Conn : asked'[d].unread => ~Listed(d)'
    BY <1>1, <1>2, <1>4 DEF ListInv
  <2> QED BY <1>1, <2>1, <2>2 DEF ListInv
<1> QED BY <1>5, <1>6, <1>7 DEF MapInv

\* A request is read once.
LEMMA RequestMap == ASSUME SubInv, MapInv, NEW c \in Conn, RecvRequest(c) PROVE MapInv'
<1>0. ConnType
  BY DEF SubInv
<1>1. /\ up /\ spc = "select" /\ spc' = "subscribe" /\ peer' = c /\ asked[c].unread
      /\ asked' = [asked EXCEPT ![c].unread = FALSE]
      /\ UNCHANGED <<wpc, outputmap, cst, fd, ndbuffer, outLock>>
  BY DEF RecvRequest, ServerStep, writerVars, sockVars, mapVars
<1>2. LockInv /\ FlagInv /\ ListInv /\ LeavingInv
  BY <1>1 DEF MapInv
<1>3. \A d : Listed(d)' <=> Listed(d)
  BY <1>1 DEF Listed
<1>4. ~asked'[c].unread /\ \A d \in Conn : asked'[d].unread => asked[d].unread
  BY <1>0, <1>1 DEF ConnType
<1>5. LockInv' /\ LeavingInv'
  BY <1>1, <1>2 DEF LockInv, LeavingInv, ServerLocked, WriterLocked
<1>6. FlagInv'
  BY <1>1, <1>2 DEF FlagInv, Subscribed
<1>7. ListInv'
  <2>1. DistinctEntries(outputmap')
    BY <1>1, <1>2 DEF ListInv
  <2>2. \A d \in Conn : asked'[d].unread => ~Listed(d)'
    BY <1>2, <1>3, <1>4 DEF ListInv
  <2>3. ~Listed(c)'
    BY <1>1, <1>2, <1>3 DEF ListInv
  <2>4. ~Listed(peer)'
    BY <1>1, <2>3 DEF Listed
  <2> QED BY <1>1, <1>4, <2>1, <2>2, <2>4 DEF ListInv
<1> QED BY <1>5, <1>6, <1>7 DEF MapInv

\* The entry of a new subscriber is its only one.
LEMMA InsertMap == ASSUME SubInv, MapInv, Insert PROVE MapInv'
<1>0. ConnType /\ Subscribing /\ DistinctFds
  BY DEF SubInv
<1>1. /\ up /\ spc = "insert" /\ spc' = "select" /\ outLock' = NULL
      /\ outputmap' = Append(outputmap, <<ServerOp, fd[peer]>>)
      /\ UNCHANGED <<wpc, cst, fd, ndbuffer, asked>>
  BY DEF Insert, ServerStep, writerVars, sockVars, connVars
<1>2. LockInv /\ FlagInv /\ ListInv /\ LeavingInv
  BY <1>1 DEF MapInv
<1>3. peer \in Conn /\ fd[peer] \in Nat /\ ServerOp \in Op
  <2>1. peer \in Conn /\ fd[peer] # NULL /\ ServerOp # NULL
    BY <1>0, <1>1 DEF ConnType, Subscribing
  <2> QED BY <1>0, <2>1 DEF ConnType, ServerOp
<1> DEFINE n == Len(outputmap)
<1>4. /\ n \in Nat /\ DOMAIN outputmap = 1..n /\ DOMAIN outputmap' = 1..(n + 1)
      /\ outputmap'[n + 1] = <<ServerOp, fd[peer]>> /\ \A i \in 1..n : outputmap'[i] = outputmap[i]
  BY <1>0, <1>1, <1>3 DEF ConnType
<1> HIDE DEF n
<1>5. LockInv'
  <2>1. spc \in ServerLocked /\ spc' \notin ServerLocked
    BY <1>1 DEF ServerLocked
  <2>2. outLock = "server"
    BY <1>2, <2>1 DEF LockInv
  <2>3. wpc \notin WriterLocked
    BY <1>2, <2>2 DEF LockInv
  <2>4. outLock' # "server" /\ outLock' # "writer"
    BY <1>1, NodeAssumption
  <2> QED BY <1>1, <2>1, <2>3, <2>4 DEF LockInv, ServerLocked, WriterLocked
<1>6. LeavingInv'
  BY <1>1 DEF LeavingInv
<1>7. FlagInv'
  <2>1. ndbuffer[ServerOp]
    BY <1>1, <1>2 DEF FlagInv
  <2>2. ASSUME NEW o \in Subscribed' PROVE ndbuffer'[o]
    <3>1. PICK i \in 1..(n + 1) : outputmap'[i][1] = o
      BY <1>4, <2>2 DEF Subscribed
    <3>2. CASE i = n + 1
      BY <1>1, <1>4, <2>1, <3>1, <3>2
    <3>3. CASE i \in 1..n
      <4>1. o \in Subscribed
        BY <1>4, <3>1, <3>3 DEF Subscribed
      <4> QED BY <1>1, <1>2, <4>1 DEF FlagInv
    <3> QED BY <1>4, <3>2, <3>3
  <2> QED BY <1>1, <1>2, <2>2 DEF FlagInv
<1>8. ListInv'
  <2>1. \A i \in 1..n : outputmap[i][2] # fd[peer]
    BY <1>1, <1>2, <1>4 DEF ListInv, Listed
  <2>2. \A i, j \in 1..n : outputmap'[i][2] = outputmap'[j][2] => i = j
    BY <1>2, <1>4 DEF ListInv, DistinctEntries
  <2>3. \A i \in 1..n : outputmap'[i][2] # outputmap'[n + 1][2]
    BY <1>4, <2>1
  <2>4. \A i \in 1..(n + 1) : i \in 1..n \/ i = n + 1
    BY <1>4
  <2>5. \A i, j \in 1..(n + 1) : outputmap'[i][2] = outputmap'[j][2] => i = j
    BY <2>2, <2>3, <2>4
  <2>6. DistinctEntries(outputmap)'
    BY <1>4, <2>5 DEF DistinctEntries
  <2>7. ASSUME NEW d \in Conn, asked'[d].unread PROVE ~Listed(d)'
    <3> SUFFICES ASSUME NEW i \in 1..(n + 1), outputmap'[i][2] = fd[d] PROVE FALSE
      BY <1>1, <1>4 DEF Listed
    <3>1. ~Listed(d) /\ d # peer
      BY <1>1, <1>2, <2>7 DEF ListInv
    <3>2. CASE i = n + 1
      <4>1. fd[d] = fd[peer]
        BY <1>4, <3>2
      <4> QED BY <1>0, <1>3, <3>1, <4>1, Numbers DEF DistinctFds
    <3>3. CASE i \in 1..n
      BY <1>4, <3>1, <3>3 DEF Listed
    <3> QED BY <2>4, <3>2, <3>3
  <2> QED BY <1>1, <2>6, <2>7 DEF ListInv
<1> QED BY <1>5, <1>6, <1>7, <1>8 DEF MapInv

\* A client that has left is closed before its entry goes.
LEMMA HangUpMap == ASSUME SubInv, MapInv, NEW c \in Conn, HangUp(c) PROVE MapInv'
<1>0. ConnType
  BY DEF SubInv
<1>1. /\ up /\ spc = "select" /\ spc' = "clean" /\ peer' = c
      /\ cst' = [cst EXCEPT ![c] = "closed"]
      /\ UNCHANGED <<wpc, outputmap, asked, fd, ndbuffer, outLock>>
  BY DEF HangUp, ServerStep, writerVars, sockVars, mapVars
<1>2. LockInv /\ FlagInv /\ ListInv
  BY <1>1 DEF MapInv
<1>3. LockInv'
  BY <1>1, <1>2 DEF LockInv, ServerLocked, WriterLocked
<1>4. LeavingInv'
  BY <1>0, <1>1 DEF LeavingInv, ConnType
<1>5. FlagInv'
  BY <1>1, <1>2 DEF FlagInv, Subscribed
<1>6. ListInv'
  BY <1>1, <1>2 DEF ListInv, Listed, DistinctEntries
<1> QED BY <1>3, <1>4, <1>5, <1>6 DEF MapInv

\* The entries of a closed connection go.
LEMMA CleanMap == ASSUME SubInv, MapInv, CleanLock PROVE MapInv'
<1>0. ConnType
  BY DEF SubInv
<1>1. /\ up /\ spc = "clean" /\ spc' \in {"closelock", "unlock"}
      /\ outLock = NULL /\ outLock' = "server"
      /\ outputmap' = Erased(fd[peer]) /\ fd' = [fd EXCEPT ![peer] = NULL]
      /\ spc' = "closelock" =>
           ServerOp = NULL \/ \A i \in DOMAIN outputmap' : outputmap'[i][1] # ServerOp
      /\ UNCHANGED <<wpc, asked, cst, peer, ndbuffer>>
  BY DEF CleanLock, ServerStep, writerVars, sockVars
<1>2. LockInv /\ FlagInv /\ ListInv /\ LeavingInv
  BY <1>1 DEF MapInv
<1>3. /\ outputmap' \in Seq(Op \X Nat)
      /\ \A i \in 1..Len(outputmap') : \E j \in 1..Len(outputmap) : outputmap[j] = outputmap'[i]
  BY <1>0, <1>1, ErasedIs DEF ConnType
<1>4. DistinctEntries(outputmap')
  <2> DEFINE B == Op \X Nat
             S == Op \X (Nat \ {fd[peer]})
  <2>1. outputmap' = Only(outputmap, S)
    BY <1>1 DEF Erased
  <2>2. outputmap \in Seq(B) /\ DistinctEntries(outputmap)
    BY <1>0, <1>2 DEF ConnType, ListInv
  <2> HIDE DEF B, S
  <2>3. DistinctEntries(Only(outputmap, S))
    BY <2>2, OnlyDistinct
  <2> QED BY <2>1, <2>3
<1>5. DOMAIN outputmap' = 1..Len(outputmap') /\ DOMAIN outputmap = 1..Len(outputmap)
  BY <1>0, <1>3 DEF ConnType
<1>6. Subscribed' \subseteq Subscribed /\ Subscribed' \subseteq Op
  <2> SUFFICES ASSUME NEW o \in Subscribed' PROVE o \in Subscribed /\ o \in Op
    OBVIOUS
  <2>1. PICK i \in 1..Len(outputmap') : outputmap'[i][1] = o
    BY <1>5 DEF Subscribed
  <2>2. PICK j \in 1..Len(outputmap) : outputmap[j] = outputmap'[i]
    BY <1>3
  <2>3. outputmap[j][1] = o /\ j \in DOMAIN outputmap
    BY <1>5, <2>1, <2>2
  <2>4. o \in Op
    BY <1>3, <2>1
  <2> QED BY <2>3, <2>4 DEF Subscribed
<1>7. ServerOp' = ServerOp
  BY <1>1 DEF ServerOp
<1>8. LockInv'
  <2>1. wpc \notin WriterLocked
    BY <1>1, <1>2, NodeAssumption DEF LockInv
  <2> QED BY <1>1, <2>1 DEF LockInv, ServerLocked, WriterLocked
<1>9. LeavingInv'
  BY <1>1, <1>2 DEF LeavingInv
<1>10. FlagInv'
  <2>1. spc' = "closelock" => ServerOp \notin Subscribed'
    <3>1. CASE ServerOp = NULL
      BY <1>6, <3>1, Numbers
    <3>2. CASE \A i \in DOMAIN outputmap' : outputmap'[i][1] # ServerOp
      BY <3>2 DEF Subscribed
    <3> QED BY <1>1, <3>1, <3>2
  <2> QED BY <1>1, <1>2, <1>6, <1>7, <2>1 DEF FlagInv
<1>11. ASSUME NEW d \in Conn, Listed(d)' PROVE Listed(d)
  <2>1. PICK i \in 1..Len(outputmap') : outputmap'[i][2] = fd'[d]
    BY <1>5, <1>11 DEF Listed
  <2>2. PICK j \in 1..Len(outputmap) : outputmap[j] = outputmap'[i]
    BY <1>3
  <2>3. fd'[d] \in Nat
    BY <1>3, <2>1
  <2>4. fd'[d] = fd[d]
    BY <1>0, <1>1, <2>3, Numbers DEF ConnType
  <2>5. j \in DOMAIN outputmap /\ outputmap[j][2] = fd[d]
    BY <1>5, <2>1, <2>2, <2>4
  <2> QED BY <2>5 DEF Listed
<1>12. ListInv'
  <2>1. \A d \in Conn : asked'[d].unread => ~Listed(d)'
    BY <1>1, <1>2, <1>11 DEF ListInv
  <2> QED BY <1>1, <1>4, <2>1 DEF ListInv
<1> QED BY <1>8, <1>9, <1>10, <1>12 DEF MapInv

\* The server gives the lock back.
LEMMA UnlockMap == ASSUME MapInv, CleanUnlock PROVE MapInv'
<1>1. /\ up /\ spc = "unlock" /\ spc' = "select" /\ outLock' = NULL
      /\ UNCHANGED <<wpc, outputmap, asked, fd, cst, ndbuffer>>
  BY DEF CleanUnlock, ServerStep, writerVars, sockVars, connVars
<1>2. LockInv /\ FlagInv /\ ListInv
  BY <1>1 DEF MapInv
<1>3. LockInv'
  <2>1. spc \in ServerLocked
    BY <1>1 DEF ServerLocked
  <2>2. outLock = "server"
    BY <1>2, <2>1 DEF LockInv
  <2>3. wpc \notin WriterLocked
    BY <1>2, <2>2 DEF LockInv
  <2>4. outLock' # "server" /\ outLock' # "writer"
    BY <1>1, NodeAssumption
  <2> QED BY <1>1, <2>3, <2>4 DEF LockInv, ServerLocked, WriterLocked
<1>4. FlagInv' /\ LeavingInv'
  BY <1>1, <1>2 DEF FlagInv, LeavingInv, Subscribed
<1>5. ListInv'
  BY <1>1, <1>2 DEF ListInv, Listed, DistinctEntries
<1> QED BY <1>3, <1>4, <1>5 DEF MapInv

\* Every step.
LEMMA MapStep == SubInv /\ MapInv /\ [Next]_vars => MapInv'
<1> SUFFICES ASSUME SubInv, MapInv, [Next]_vars PROVE MapInv'
  OBVIOUS
<1>1. CASE Filler \/ Engine
  <2>1. UNCHANGED mapInvVars
    <3>1. CASE Filler
      BY <3>1 DEF Filler, EndWraps, ReadLine, FileEnds, Recv, RecvEnds, Assemble, Overrun,
         KeepRest, mapInvVars, connVars, mapVars, serverVars, sockVars, writerVars
    <3>2. CASE Engine
      BY <3>2 DEF Engine, OpenRoot, AddOperator, EngineHasNext, MayTake, ReturnsNothing,
         EngineCrashes, Take, TakeWraps, NotOffered, Offered, OfferCrashes, SockCopy, SockLoad,
         SockStore, SockWraps, RootDone, FilterChild, EngineStep, mapInvVars, connVars, mapVars,
         serverVars, sockVars, writerVars
    <3> QED BY <1>1, <3>1, <3>2
  <2>2. up
    BY <1>1 DEF Filler, EndWraps, ReadLine, FileEnds, Recv, RecvEnds, Assemble, Overrun,
       KeepRest, Engine, OpenRoot, AddOperator, EngineHasNext, MayTake, ReturnsNothing,
       EngineCrashes, Take, TakeWraps, NotOffered, Offered, OfferCrashes, SockCopy, SockLoad,
       SockStore, SockWraps, RootDone, FilterChild, EngineStep
  <2> QED BY <2>1, <2>2, MapQuiet
<1>2. CASE Server
  <2>1. CASE SetCrashes \/ CloseCrashes
    BY <2>1, MapDown DEF SetCrashes, CloseCrashes, Crash
  <2> QED BY <1>2, <2>1, AcceptMap, RequestMap, HangUpMap, SubscribeMap, FlagMap, InsertMap,
             CleanMap, UnlockMap DEF Server
<1>3. CASE Writer
  BY <1>3, WriterMap
<1>4. ASSUME NEW c \in Conn, Connect(c) \/ Ask(c) \/ Read(c) \/ Leave(c) PROVE MapInv'
  BY <1>4, ClientMap
<1>5. CASE UNCHANGED vars
  <2>1. UNCHANGED mapInvVars /\ up' = up
    BY <1>5 DEF vars, mapInvVars, connVars, mapVars, serverVars, sockVars, writerVars
  <2> QED BY <2>1, MapQuiet
<1> QED BY <1>1, <1>2, <1>3, <1>4, <1>5 DEF Next

\* The lock of the outputmap excludes the server and the client writer, and what has
\* clients is buffered.
THEOREM MapInvariance == Spec => []MapInv
BY InitMap, MapStep, SubscriberInvariance, PTL DEF Spec

-----------------------------------------------------------------------------
(* What is in the socket buffers.                                          *)

Adding == {"copy", "load", "store"}

\* What the engine is about to return, and what operator o has returned.
Item == IF eop = 0 THEN held ELSE teptr

Base(o) == IF o = 0 THEN Handled ELSE IF plan.filtered THEN processed ELSE <<>>

Given(o) == IF eop = o /\ epc \in {"mod", "done"} THEN Append(Base(o), Item) ELSE Base(o)

\* How many results have left the buffer of operator o.
Gone(o) == Len(Given(o)) - Waiting(sock[o])

\* A buffer of one slot never has anything in it.
Room(o) == BufferSize = 1 \/ Waiting(sock[o]) < BufferSize - 1

\* While nobody makes it empty, a buffer has the last results of its operator, and room
\* for one more once the engine has looked.
RingOK(o) ==
  /\ Holds(sock[o], Given(o))
  /\ eop = o /\ epc \in Adding \cup {"take", "wrap", "offer"} => Room(o)
  /\ ~ndbuffer[o] => Waiting(sock[o]) = 0 /\ ~(eop = o /\ epc \in Adding)

RingAt(o) ==
  /\ sock[o].curr < BufferSize \/ (wpc = "wrap" /\ wop = o)
  /\ sock[o].end < BufferSize \/ (eop = o /\ epc = "mod")
  /\ ~Closing(o) => RingOK(o)
  /\ eop = o /\ epc = "store" => reg = sock[o].end + 1
  /\ eop = o /\ epc \in {"load", "store"} => sock[o].slot[sock[o].end] = Item
  /\ Closing(o) /\ spc = "resetend" => sock[o].curr = 0

RingsInv == sock \in [Op -> Ring] /\ \A o \in Op : RingAt(o)

-----------------------------------------------------------------------------
(* What the subscribers get.                                               *)

\* s is what t has up to its p-th element, from some point on.
EndsAt(s, t, p) == Len(s) <= p /\ p <= Len(t) /\ \A i \in 1..Len(s) : s[i] = t[p - Len(s) + i]

Received(c) == rcvd[c] \o wire[c]

\* The writer has still to send c the result that it has taken.
Due(c) ==
  /\ wop = asked[c].op
  /\ wpc = "wrap" \/ (wpc = "send" /\ \E i \in DOMAIN wto : wto[i][2] = fd[c])

WriterInv ==
  /\ wpc \in {"wrap", "send"} =>
       /\ wop \in Subscribed /\ whand \in Slot /\ BufferSize > 1
       /\ \A o \in Op : wop = o =>
            /\ (whand + 1) % BufferSize = sock[o].curr % BufferSize
            /\ Gone(o) >= 1 /\ sock[o].slot[whand] = Given(o)[Gone(o)]
  /\ wpc = "send" =>
       /\ wto \in Seq({wop} \X Nat) /\ DistinctEntries(wto)
       /\ \A i \in DOMAIN wto : \E j \in DOMAIN outputmap : outputmap[j] = wto[i]

\* What c has is a part of what its operator has returned; while it is there, it is the
\* part just before what waits for it.
Served(c) ==
  /\ BufferSize = 1 => Received(c) = <<>>
  /\ cst[c] \in {"none", "connected", "asked"} /\ ~Listed(c) => Received(c) = <<>>
  /\ \A o \in Op : asked[c].op = o =>
       /\ \E p \in Nat : EndsAt(Received(c), Given(o), p)
       /\ cst[c] = "asked" /\ Listed(c) /\ Received(c) # <<>> =>
            EndsAt(Received(c), Given(o), Gone(o) - IF Due(c) THEN 1 ELSE 0)

ServedInv ==
  /\ rcvd \in [Conn -> Seq(Int)] /\ wire \in [Conn -> Seq(Int)]
  /\ WriterInv
  /\ \A c \in Conn : Served(c)

DeliveryInv == up /\ ~raced => RingsInv /\ ServedInv

-----------------------------------------------------------------------------
(* What the operators have returned.                                       *)

\* The operator returns what it has.
Returns(o) ==
  eop = o /\ ((epc = "offer" /\ epc' = "done") \/ (epc = "store" /\ epc' = "mod"))

\* Results are events.
LEMMA GivenType ==
  ASSUME IInv, OrderInv, up
  PROVE  /\ Handled \in Seq(Int) /\ \A o \in Op : Base(o) \in Seq(Int) /\ Given(o) \in Seq(Int)
         /\ epc \in Busy => Item \in Int
<1>0. EngineState /\ TakenInv /\ filled \in Seq(Int) /\ processed \in Seq(Int)
  BY DEF OrderInv
<1>1. Handled \in Seq(Int)
  <2> DEFINE k == IF hand = NULL THEN Taken ELSE Taken - 1
  <2>1. /\ Taken \in 0..Len(filled)
        /\ hand # NULL /\ Taken >= 1 => Taken - 1 \in 0..Len(filled)
    BY <1>0, TakenType DEF TakenInv
  <2>2. k \in 0..Len(filled)
    BY <1>0, <2>1 DEF TakenInv
  <2>3. Handled = SubSeq(filled, 1, k)
    BY DEF Handled
  <2> HIDE DEF k
  <2> QED BY <1>0, <2>2, <2>3, FirstK
<1>2. epc \in Busy => Item \in Int
  <2> SUFFICES ASSUME epc \in Busy PROVE Item \in Int
    OBVIOUS
  <2>1. CASE eop = 0
    <3>1. hand # NULL
      BY <1>0, <2>1 DEF EngineState
    <3>2. held = buf.slot[hand] /\ hand \in Slot /\ buf.slot \in [Slot -> Int]
      BY <3>1 DEF IInv, HandIsBehind, BufferOK
    <3>3. held \in Int
      BY <3>2
    <3> QED BY <2>1, <3>3 DEF Item
  <2>2. CASE eop # 0
    BY <1>0, <2>2 DEF EngineState, Item
  <2> QED BY <2>1, <2>2
<1>3. ASSUME NEW o \in Op PROVE Base(o) \in Seq(Int) /\ Given(o) \in Seq(Int)
  <2>1. <<>> \in Seq(Int)
    OBVIOUS
  <2>2. Base(o) \in Seq(Int)
    BY <1>0, <1>1, <2>1 DEF Base
  <2>3. epc \in {"mod", "done"} => Item \in Int
    BY <1>2 DEF Busy
  <2> QED BY <2>2, <2>3 DEF Given
<1> QED BY <1>1, <1>2, <1>3

\* Steps that concern neither the events nor the operators.
LEMMA GivenQuiet ==
  ASSUME UNCHANGED <<plan, filled, hand, held, teptr, processed, epc, eop>>,
         Waiting(buf)' = Waiting(buf)
  PROVE  Item' = Item /\ Handled' = Handled /\ \A o \in Op : Given(o)' = Given(o)
<1>1. Handled' = Handled
  BY DEF Handled, Taken
<1>2. Item' = Item
  BY DEF Item
<1> QED BY <1>1, <1>2 DEF Given, Base

\* The filler.
LEMMA AddGiven ==
  ASSUME IInv, OrderInv, up, NEW e \in Int, NEW next, FillerAdds(e, next),
         fpc \in {"read", "assemble"}, UNCHANGED <<plan, engineVars>>
  PROVE  Handled' = Handled
<1>0. TakenInv /\ filled \in Seq(Int)
  BY DEF OrderInv
<1>1. /\ buf' = EndMoved(Copied(buf, e)) /\ filled' = Append(filled, e) /\ ~Full(buf)
      /\ hand' = hand
  BY DEF FillerAdds, engineVars
<1>2. buf \in Ring /\ buf.end < BufferSize
  BY DEF IInv, BufferOK, Ring
<1>3. Waiting(buf) < BufferSize - 1
  BY <1>1, <1>2, FullIs, WaitingType, SizeAssumption
<1> DEFINE b == Copied(buf, e)
<1>4. b \in Ring /\ b.end < BufferSize /\ Waiting(b) = Waiting(buf) /\ Holds(b, filled)
  <2>1. /\ b \in Ring /\ b.end = buf.end /\ Waiting(b) = Waiting(buf)
        /\ Holds(buf, filled) => Holds(b, filled)
    BY <1>2, <1>3, CopyKeeps
  <2> HIDE DEF b
  <2> QED BY <1>0, <1>2, <2>1 DEF TakenInv
<1> HIDE DEF b
<1>5. Waiting(EndMoved(b)) = Waiting(b) + 1
  BY <1>0, <1>3, <1>4, MoveAdds
<1>6. Waiting(buf') = Waiting(buf) + 1
  BY <1>1, <1>4, <1>5 DEF b
<1>7. Len(filled') = Len(filled) + 1
  BY <1>0, <1>1
<1>8. /\ Taken \in 0..Len(filled) /\ Waiting(buf) \in Nat /\ Len(filled) \in Nat
      /\ hand # NULL /\ Taken >= 1 => Taken - 1 \in 0..Len(filled)
  BY <1>0, TakenType DEF TakenInv
<1>9. Taken' = Taken
  BY <1>6, <1>7, <1>8 DEF Taken
<1> DEFINE k == IF hand = NULL THEN Taken ELSE Taken - 1
<1>10. k \in 0..Len(filled)
  BY <1>0, <1>8 DEF TakenInv
<1>11. Handled = SubSeq(filled, 1, k)
  BY DEF Handled
<1>12. Handled' = SubSeq(filled', 1, k)
  BY <1>1, <1>9 DEF Handled
<1> HIDE DEF k
<1> QED BY <1>0, <1>1, <1>10, <1>11, <1>12, FirstAppend

\* The filler returns nothing for an operator.
LEMMA FillerGiven ==
  ASSUME IInv, OrderInv, Filler
  PROVE  Item' = Item /\ \A o \in Op : Given(o)' = Given(o)
<1>1. up /\ UNCHANGED <<plan, hand, held, teptr, processed, epc, eop>>
  BY DEF Filler, EndWraps, ReadLine, FileEnds, Recv, RecvEnds, Assemble, Overrun, KeepRest,
     engineVars
<1>2. Handled' = Handled
  <2>1. CASE EndWraps
    <3>1. buf \in Ring /\ buf' = EndWrapped(buf) /\ filled' = filled
      BY <2>1 DEF EndWraps, IInv, BufferOK, Ring
    <3>2. Waiting(buf)' = Waiting(buf)
      BY <3>1, EndWrapKeeps
    <3> QED BY <1>1, <3>1, <3>2, GivenQuiet
  <2>2. CASE ReadLine
    <3>1. fpc = "read" /\ FillerAdds(arrived + 1, "wrap") /\ UNCHANGED <<plan, engineVars>>
      BY <2>2 DEF ReadLine
    <3>2. arrived + 1 \in Int
      BY DEF IInv, BufferOK
    <3> QED BY <1>1, <3>1, <3>2, AddGiven
  <2>3. CASE Assemble
    <3> DEFINE e == Event(SubSeq(values, 1, offset) \o SubSeq(inbuf, 1, RecLen - offset))
    <3>1. fpc = "assemble" /\ FillerAdds(e, "wraprecv") /\ UNCHANGED <<plan, engineVars>>
      BY <2>3 DEF Assemble
    <3>2. e \in Int
      BY EventType
    <3> HIDE DEF e
    <3> QED BY <1>1, <3>1, <3>2, AddGiven
  <2>4. CASE Overrun \/ FileEnds \/ Recv \/ RecvEnds \/ KeepRest
    <3>1. UNCHANGED <<buf, filled>>
      BY <2>4 DEF Overrun, FileEnds, Recv, RecvEnds, KeepRest, fillVars
    <3> QED BY <1>1, <3>1, GivenQuiet
  <2> QED BY <2>1, <2>2, <2>3, <2>4 DEF Filler
<1>3. Item' = Item
  BY <1>1 DEF Item
<1> QED BY <1>1, <1>2, <1>3 DEF Given, Base

\* The engine takes an event: it is not handled yet.
LEMMA TakeGiven ==
  ASSUME IInv, OrderInv, Take \/ TakeWraps
  PROVE  \A o \in Op : Given(o)' = Given(o)
<1>1. /\ up /\ UNCHANGED <<plan, filled, processed, eop>>
      /\ epc \in {"take", "wrap"} /\ epc' \in {"wrap", "offer"}
  BY DEF Take, TakeWraps, EngineStep, fillVars
<1>2. EngineState /\ TakenInv /\ filled \in Seq(Int)
  BY <1>1 DEF OrderInv
<1>3. Taken \in 0..Len(filled) /\ Waiting(buf) \in Nat /\ Len(filled) \in Nat
  BY <1>2, TakenType DEF TakenInv
<1>4. Handled' = Handled
  <2>1. CASE Take
    <3>1. epc = "take" /\ buf' = CurrMoved(buf) /\ hand' = buf.curr
      BY <2>1 DEF Take, EngineStep
    <3>2. buf \in Ring /\ buf.curr < BufferSize /\ buf.curr \in Int
      BY <3>1 DEF IInv, BufferOK, Ring
    <3>3. Waiting(buf) > 0 /\ hand = NULL /\ hand' # NULL
      BY <1>2, <3>1, <3>2, NodeAssumption DEF EngineState, Busy
    <3>4. Waiting(buf') = Waiting(buf) - 1
      BY <1>2, <3>1, <3>2, <3>3, TakeFirst DEF TakenInv
    <3>5. Taken' - 1 = Taken
      BY <1>1, <1>3, <3>4 DEF Taken
    <3> QED BY <1>1, <3>3, <3>5 DEF Handled
  <2>2. CASE TakeWraps
    <3>1. buf \in Ring /\ buf' = CurrWrapped(buf) /\ hand' = hand
      BY <2>2 DEF TakeWraps, IInv, BufferOK, Ring
    <3>2. Waiting(buf') = Waiting(buf)
      BY <3>1, CurrWrapKeeps
    <3> QED BY <1>1, <3>1, <3>2 DEF Handled, Taken
  <2> QED BY <2>1, <2>2
<1>5. epc \notin {"mod", "done"} /\ epc' \notin {"mod", "done"}
  BY <1>1
<1>6. \A o \in Op : Base(o)' = Base(o)
  BY <1>1, <1>4 DEF Base
<1> QED BY <1>5, <1>6 DEF Given

\* The engine is done with what an operator has returned.
LEMMA DoneGiven ==
  ASSUME IInv, OrderInv, RootDone \/ FilterChild
  PROVE  \A o \in Op : Given(o)' = Given(o)
<1>1. /\ up /\ UNCHANGED <<plan, filled, buf, eop>> /\ epc = "done" /\ epc' = "poll"
      /\ hand' = NULL
  BY DEF RootDone, FilterChild, EngineStep, fillVars
<1>2. EngineState /\ TakenInv /\ filled \in Seq(Int)
  BY <1>1 DEF OrderInv
<1>3. Current = Item
  BY <1>2, <1>1, CurrentIs DEF Busy, Item
<1>4. Handled' = IF eop = 0 THEN Append(Handled, Item) ELSE Handled
  <2>1. CASE eop = 0
    <3>1. hand # NULL
      BY <1>2, <1>1, <2>1 DEF EngineState, Busy
    <3>2. Handled' = Append(Handled, held)
      BY <1>2, <1>1, <3>1, HandledNext
    <3> QED BY <2>1, <3>2 DEF Item
  <2>2. CASE eop # 0
    <3>1. hand = NULL
      BY <1>2, <2>2 DEF EngineState
    <3> QED BY <1>1, <2>2, <3>1 DEF Handled, Taken
  <2> QED BY <2>1, <2>2
<1>5. plan.filtered => processed' = IF eop = 1 THEN Append(processed, Item) ELSE processed
  <2> SUFFICES ASSUME plan.filtered
               PROVE  processed' = IF eop = 1 THEN Append(processed, Item) ELSE processed
    OBVIOUS
  <2>1. Root = 1
    BY DEF Root
  <2>2. CASE RootDone
    BY <1>3, <2>1, <2>2 DEF RootDone
  <2>3. CASE FilterChild
    BY <2>1, <2>3 DEF FilterChild
  <2> QED BY <2>2, <2>3
<1>6. eop = 1 => plan.filtered
  BY <1>2 DEF EngineState
<1>7. \A o \in Op : Base(o)' = IF eop = o THEN Append(Base(o), Item) ELSE Base(o)
  BY <1>1, <1>4, <1>5, <1>6 DEF Base, Op
<1> QED BY <1>1, <1>7 DEF Given

\* The other steps of the engine.
LEMMA BetweenGiven ==
  ASSUME IInv, OrderInv,
         \/ OpenRoot \/ AddOperator \/ EngineHasNext \/ MayTake \/ ReturnsNothing
         \/ NotOffered \/ Offered \/ SockCopy \/ SockLoad \/ SockStore \/ SockWraps
  PROVE  /\ \A o \in Op : Given(o)' = IF Returns(o) THEN Append(Given(o), Item) ELSE Given(o)
         /\ eop' = eop => Item' = Item
<1>1. UNCHANGED <<plan, buf, filled, hand, held, teptr, processed>>
  BY DEF OpenRoot, AddOperator, EngineHasNext, MayTake, ReturnsNothing, NotOffered, Offered,
     SockCopy, SockLoad, SockStore, SockWraps, EngineStep, fillVars
<1>2. eop' = eop => Item' = Item
  BY <1>1 DEF Item
<1>3. \A o \in Op : Base(o)' = Base(o)
  <2>1. Handled' = Handled
    BY <1>1 DEF Handled, Taken
  <2> QED BY <1>1, <2>1 DEF Base
<1>4. CASE OpenRoot \/ AddOperator \/ EngineHasNext \/ MayTake \/ ReturnsNothing
  <2>1. epc \notin {"mod", "done", "store"} /\ epc' \notin {"mod", "done"}
    BY <1>4 DEF OpenRoot, AddOperator, EngineHasNext, MayTake, ReturnsNothing, EngineStep
  <2> QED BY <1>2, <1>3, <2>1 DEF Given, Returns
<1>5. CASE NotOffered \/ Offered \/ SockCopy \/ SockLoad \/ SockStore \/ SockWraps
  <2>1. /\ eop' = eop
        /\ \/ epc = "offer" /\ epc' \in {"done", "copy"}
           \/ epc = "copy" /\ epc' = "load"
           \/ epc = "load" /\ epc' = "store"
           \/ epc = "store" /\ epc' = "mod"
           \/ epc = "mod" /\ epc' = "done"
    BY <1>5 DEF NotOffered, Offered, SockCopy, SockLoad, SockStore, SockWraps, EngineStep
  <2> QED BY <1>2, <1>3, <2>1 DEF Given, Returns
<1> QED BY <1>2, <1>4, <1>5

-----------------------------------------------------------------------------
(* The socket buffers.                                                     *)

\* What each step of the engine adds to what its operator has returned.
LEMMA EngineGiven ==
  ASSUME IInv, OrderInv, Engine, up'
  PROVE  \A o \in Op : Given(o)' = IF Returns(o) THEN Append(Given(o), Item) ELSE Given(o)
<1>1. CASE Take \/ TakeWraps \/ RootDone \/ FilterChild
  <2>1. epc \notin {"offer", "store"}
    BY <1>1 DEF Take, TakeWraps, RootDone, FilterChild, EngineStep
  <2> QED BY <1>1, <2>1, TakeGiven, DoneGiven DEF Returns
<1>2. CASE EngineCrashes \/ OfferCrashes
  BY <1>2 DEF EngineCrashes, OfferCrashes, Crash
<1> QED BY <1>1, <1>2, BetweenGiven DEF Engine

\* An empty ring holds the end of anything.
LEMMA HoldsNothing ==
  ASSUME NEW b, NEW s \in Seq(Int), Waiting(b) = 0
  PROVE  Holds(b, s)
BY DEF Holds

\* Indices and counts of a socket buffer are in range.
LEMMA RingFacts ==
  ASSUME RingsInv, NEW o \in Op
  PROVE  /\ sock[o] \in Ring /\ sock[o].curr \in 0..BufferSize /\ sock[o].end \in 0..BufferSize
         /\ Waiting(sock[o]) \in 0..(BufferSize - 1) /\ BufferSize \in Nat \ {0}
         /\ BufferSize = 1 => Waiting(sock[o]) = 0
<1>1. sock[o] \in Ring
  BY DEF RingsInv
<1>2. Waiting(sock[o]) \in 0..(BufferSize - 1)
  BY <1>1, WaitingType
<1> QED BY <1>1, <1>2, SizeAssumption DEF Ring

\* The socket buffers are empty at first.
LEMMA InitRings == Init => RingsInv
<1> SUFFICES ASSUME Init PROVE RingsInv
  OBVIOUS
<1>1. /\ sock = [o \in Op |-> NewBuffer] /\ epc = "open" /\ spc = "select" /\ wpc = "poll"
      /\ filled = <<>> /\ hand = NULL /\ buf = NewBuffer /\ processed = <<>> /\ up = TRUE
  BY DEF Init
<1>2. NewBuffer \in Ring /\ NewBuffer.curr = 0 /\ NewBuffer.end = 0
  BY SizeAssumption DEF NewBuffer, Ring, Slot
<1>3. Waiting(NewBuffer) = 0
  BY <1>2, SizeAssumption DEF Waiting, Dist, Wrapped
<1>4. \A o \in Op : Given(o) \in Seq(Int)
  BY <1>1, InitIInv, InitOrder, GivenType
<1>5. \A o \in Op : Holds(NewBuffer, Given(o))
  BY <1>3, <1>4, HoldsNothing
<1>6. \A o \in Op : sock[o] = NewBuffer
  BY <1>1
<1>7. \A o \in Op : RingOK(o)
  BY <1>1, <1>3, <1>5, <1>6 DEF RingOK, Adding
<1>8. \A o \in Op : RingAt(o)
  BY <1>1, <1>2, <1>6, <1>7, SizeAssumption DEF RingAt
<1> QED BY <1>1, <1>2, <1>8 DEF RingsInv

\* The filler and the subscribers.
LEMMA RingsStill ==
  ASSUME RingsInv, UNCHANGED <<sock, ndbuffer, epc, eop, reg, wpc, wop, spc>>, Item' = Item,
         \A o \in Op : Given(o)' = Given(o) /\ (Closing(o)' <=> Closing(o))
  PROVE  RingsInv'
<1>1. sock' \in [Op -> Ring]
  BY DEF RingsInv
<1>2. ASSUME NEW o \in Op PROVE RingAt(o)'
  <2>1. RingAt(o) /\ Given(o)' = Given(o) /\ (Closing(o)' <=> Closing(o))
    BY DEF RingsInv
  <2>2. RingOK(o) => RingOK(o)'
    BY <2>1 DEF RingOK, Holds, Waiting, Ith, Room
  <2> QED BY <2>1, <2>2 DEF RingAt
<1> QED BY <1>1, <1>2 DEF RingsInv

-----------------------------------------------------------------------------
(* The engine and the socket buffers.                                      *)

\* The engine between two results.
LEMMA PollRings ==
  ASSUME RingsInv, UNCHANGED <<sock, ndbuffer, wpc, wop, spc, peer, asked>>,
         \A o \in Op : Given(o)' = Given(o), epc # "mod", epc' \in {"add", "poll", "check"}
  PROVE  RingsInv'
<1>1. sock' \in [Op -> Ring]
  BY DEF RingsInv
<1>2. ASSUME NEW o \in Op PROVE RingAt(o)'
  <2>1. RingAt(o) /\ Given(o)' = Given(o) /\ (Closing(o)' <=> Closing(o))
    BY DEF RingsInv, Closing, ServerOp
  <2>2. RingOK(o) => RingOK(o)'
    BY <2>1 DEF RingOK, Holds, Waiting, Ith, Adding
  <2> QED BY <2>1, <2>2 DEF RingAt
<1> QED BY <1>1, <1>2 DEF RingsInv

\* The other operator's buffer.
LEMMA OtherRing ==
  ASSUME RingsInv, UNCHANGED <<ndbuffer, wpc, wop, spc, peer, asked, eop>>, NEW o \in Op, o # eop,
         sock'[o] = sock[o], Given(o)' = Given(o)
  PROVE  RingAt(o)'
<1>1. RingAt(o) /\ (Closing(o)' <=> Closing(o))
  BY DEF RingsInv, Closing, ServerOp
<1>2. RingOK(o) => RingOK(o)'
  BY <1>1 DEF RingOK, Holds, Waiting, Ith
<1> QED BY <1>1, <1>2 DEF RingAt

\* The current operator's buffer, where its results are not changed.
LEMMA SameRing ==
  ASSUME RingsInv, UNCHANGED <<sock, ndbuffer, wpc, wop, spc, peer, asked, eop>>, NEW o \in Op, o = eop,
         epc # "mod", epc' # "mod",
         ~Closing(o) => Holds(sock[o], Given(o)'),
         epc' \in Adding \cup {"take", "wrap", "offer"} /\ ~Closing(o) => Room(o),
         ~ndbuffer[o] /\ epc' \in Adding /\ ~Closing(o) => epc \in Adding,
         epc' = "store" => reg' = sock[o].end + 1,
         epc' \in {"load", "store"} => sock[o].slot[sock[o].end] = Item'
  PROVE  RingAt(o)'
<1>1. RingAt(o) /\ (Closing(o)' <=> Closing(o))
  BY DEF RingsInv, Closing, ServerOp
<1>2. ~Closing(o) => RingOK(o)'
  <2> SUFFICES ASSUME ~Closing(o) PROVE RingOK(o)'
    OBVIOUS
  <2>1. RingOK(o)
    BY <1>1 DEF RingAt
  <2>2. Holds(sock[o], Given(o))'
    BY DEF Holds, Waiting, Ith
  <2>3. Room(o)' <=> Room(o)
    BY DEF Room, Waiting
  <2>4. Waiting(sock[o])' = Waiting(sock[o])
    BY DEF Waiting
  <2> QED BY <2>1, <2>2, <2>3, <2>4 DEF RingOK
<1> QED BY <1>1, <1>2 DEF RingAt

\* What the engine leaves alone.
LEMMA EngineOthers ==
  ASSUME Engine
  PROVE  /\ up /\ UNCHANGED <<plan, ndbuffer, wpc, wop, whand, wto, spc, peer, asked, fd, cst, outputmap,
                        raced, rcvd, wire>>
         /\ epc \notin {"open", "add", "poll"} => eop' = eop
BY DEF Engine, OpenRoot, AddOperator, EngineHasNext, MayTake, ReturnsNothing, EngineCrashes,
   Take, TakeWraps, NotOffered, Offered, OfferCrashes, SockCopy, SockLoad, SockStore, SockWraps,
   RootDone, FilterChild, EngineStep, sockVars, writerVars, serverVars, connVars, netVars, mapVars

\* Only the current operator's buffer is changed.
LEMMA RingsFollow ==
  ASSUME IInv, OrderInv, RingsInv, Engine, up', epc \notin {"open", "add", "poll"}, NEW b \in Ring,
         NEW q \in Op, q = eop,
         sock' = [sock EXCEPT ![q] = b], RingAt(q)'
  PROVE  RingsInv'
<1>0. up /\ UNCHANGED <<ndbuffer, wpc, wop, spc, peer, asked, eop>>
  BY EngineOthers
<1>1. sock' \in [Op -> Ring]
  BY DEF RingsInv
<1>2. ASSUME NEW o \in Op, o # q PROVE RingAt(o)'
  <2>1. sock'[o] = sock[o]
    BY <1>2 DEF RingsInv
  <2>2. Given(o)' = Given(o)
    BY <1>2, EngineGiven DEF Returns
  <2> QED BY <1>0, <1>2, <2>1, <2>2, OtherRing
<1> QED BY <1>1, <1>2 DEF RingsInv

\* The operator at work is one of the two.
LEMMA CurrentOp ==
  ASSUME OrderInv, up
  PROVE  eop \in Op
BY DEF OrderInv, EngineState, Op

\* The engine looks, takes and returns.
LEMMA LookRings == ASSUME IInv, OrderInv, RingsInv, MayTake, up' PROVE RingsInv'
<1>1. /\ up /\ epc = "check" /\ epc' \in {"take", "offer"} /\ ~Blocked(eop) /\ sock' = sock
      /\ UNCHANGED <<ndbuffer, wpc, wop, spc, peer, asked, eop>>
  BY DEF MayTake, EngineStep, sockVars, writerVars, serverVars, connVars
<1>2. PICK q \in Op : q = eop
  BY <1>1, CurrentOp
<1>3. RingAt(q) /\ Engine
  BY <1>2 DEF RingsInv, Engine
<1>4. Given(q)' = Given(q)
  BY <1>1, <1>2, <1>3, EngineGiven DEF Returns
<1>5. ~Closing(q) => Room(q)
  <2> SUFFICES ASSUME ~Closing(q) PROVE Room(q)
    OBVIOUS
  <2>1. RingOK(q) /\ sock[q] \in Ring /\ sock[q].end < BufferSize
    BY <1>1, <1>2, <1>3, RingFacts DEF RingAt
  <2>2. Waiting(sock[q]) \in 0..(BufferSize - 1) /\ BufferSize \in Nat \ {0}
    BY <1>2, RingFacts
  <2>3. CASE ndbuffer[q]
    <3>1. ~Full(sock[q])
      BY <1>1, <1>2, <2>3 DEF Blocked
    <3>2. Waiting(sock[q]) # BufferSize - 1
      BY <2>1, <3>1, FullIs
    <3> QED BY <2>2, <3>2 DEF Room
  <2>4. CASE ~ndbuffer[q]
    <3>1. Waiting(sock[q]) = 0
      BY <2>1, <2>4 DEF RingOK
    <3> QED BY <2>2, <3>1 DEF Room
  <2> QED BY <2>3, <2>4
<1>6. ~Closing(q) => Holds(sock[q], Given(q)')
  BY <1>3, <1>4 DEF RingAt, RingOK
<1>7. RingAt(q)'
  BY <1>1, <1>2, <1>3, <1>5, <1>6, SameRing DEF Adding
<1>8. sock' = [sock EXCEPT ![q] = sock[q]] /\ sock[q] \in Ring
  BY <1>1, <1>2, <1>3, RingFacts DEF RingsInv
<1> QED BY <1>1, <1>2, <1>3, <1>7, <1>8, RingsFollow

\* While the engine takes an event, the socket buffers stay.
LEMMA TakeRings == ASSUME IInv, OrderInv, RingsInv, Take \/ TakeWraps \/ Offered, up' PROVE RingsInv'
<1>1. /\ up /\ epc \in {"take", "wrap", "offer"} /\ epc' \in {"wrap", "offer", "copy"} /\ sock' = sock
      /\ epc' = "copy" => ndbuffer[eop]
      /\ UNCHANGED <<ndbuffer, wpc, wop, spc, peer, asked, eop>>
  BY DEF Take, TakeWraps, Offered, EngineStep, sockVars, writerVars, serverVars, connVars
<1>2. PICK q \in Op : q = eop
  BY <1>1, CurrentOp
<1>3. RingAt(q) /\ Engine
  BY <1>2 DEF RingsInv, Engine
<1>4. Given(q)' = Given(q)
  <2>1. ~Returns(q)
    BY <1>1 DEF Returns
  <2> QED BY <1>2, <1>3, <2>1, EngineGiven
<1>5. ~Closing(q) => Room(q) /\ Holds(sock[q], Given(q)')
  BY <1>1, <1>2, <1>3, <1>4 DEF RingAt, RingOK
<1>6. RingAt(q)'
  BY <1>1, <1>2, <1>3, <1>5, SameRing DEF Adding
<1>7. sock' = [sock EXCEPT ![q] = sock[q]] /\ sock[q] \in Ring
  BY <1>1, <1>2, <1>3, RingFacts DEF RingsInv
<1> QED BY <1>1, <1>2, <1>3, <1>6, <1>7, RingsFollow

\* A result that nobody wants enters no buffer.
LEMMA NotOfferedRings == ASSUME IInv, OrderInv, RingsInv, NotOffered, up' PROVE RingsInv'
<1>1. /\ up /\ epc = "offer" /\ epc' = "done" /\ sock' = sock /\ ~ndbuffer[eop]
      /\ UNCHANGED <<ndbuffer, wpc, wop, spc, peer, asked, eop>>
  BY DEF NotOffered, EngineStep, sockVars, writerVars, serverVars, connVars
<1>2. PICK q \in Op : q = eop
  BY <1>1, CurrentOp
<1>3. RingAt(q) /\ Engine
  BY <1>2 DEF RingsInv, Engine
<1>4. Given(q)' \in Seq(Int)
  <2>1. Given(q) \in Seq(Int) /\ Item \in Int
    BY <1>1, <1>2, <1>3, GivenType DEF Busy
  <2>2. Given(q)' = Append(Given(q), Item)
    BY <1>1, <1>2, <1>3, EngineGiven DEF Returns
  <2> QED BY <2>1, <2>2
<1>5. ~Closing(q) => Holds(sock[q], Given(q)')
  <2> SUFFICES ASSUME ~Closing(q) PROVE Holds(sock[q], Given(q)')
    OBVIOUS
  <2>1. Waiting(sock[q]) = 0
    BY <1>1, <1>2, <1>3 DEF RingAt, RingOK
  <2> DEFINE g == Given(q)'
             b == sock[q]
  <2>2. g \in Seq(Int) /\ Waiting(b) = 0
    BY <1>4, <2>1
  <2> HIDE DEF g, b
  <2>3. Holds(b, g)
    BY <2>2, HoldsNothing
  <2> QED BY <2>3 DEF b, g
<1>6. RingAt(q)'
  BY <1>1, <1>2, <1>3, <1>5, SameRing DEF Adding
<1>7. sock' = [sock EXCEPT ![q] = sock[q]] /\ sock[q] \in Ring
  BY <1>1, <1>2, <1>3, RingFacts DEF RingsInv
<1> QED BY <1>1, <1>2, <1>3, <1>6, <1>7, RingsFollow

\* The engine reads the index it is going to write.
LEMMA LoadRings == ASSUME IInv, OrderInv, RingsInv, SockLoad, up' PROVE RingsInv'
<1>1. /\ up /\ epc = "load" /\ epc' = "store" /\ sock' = sock /\ reg' = sock[eop].end + 1
      /\ UNCHANGED <<ndbuffer, wpc, wop, spc, peer, asked, eop>>
  BY DEF SockLoad, EngineStep, sockVars, writerVars, serverVars, connVars
<1>2. PICK q \in Op : q = eop
  BY <1>1, CurrentOp
<1>3. RingAt(q) /\ Engine
  BY <1>2 DEF RingsInv, Engine
<1>4. Given(q)' = Given(q) /\ Item' = Item
  <2>1. ~Returns(q)
    BY <1>1 DEF Returns
  <2> QED BY <1>1, <1>2, <1>3, <2>1, BetweenGiven
<1>5. ~Closing(q) => Room(q) /\ Holds(sock[q], Given(q)')
  BY <1>1, <1>2, <1>3, <1>4 DEF RingAt, RingOK, Adding
<1>6. sock[q].slot[sock[q].end] = Item'
  BY <1>1, <1>2, <1>3, <1>4 DEF RingAt
<1>7. RingAt(q)'
  BY <1>1, <1>2, <1>3, <1>5, <1>6, SameRing DEF Adding
<1>8. sock' = [sock EXCEPT ![q] = sock[q]] /\ sock[q] \in Ring
  BY <1>1, <1>2, <1>3, RingFacts DEF RingsInv
<1> QED BY <1>1, <1>2, <1>3, <1>7, <1>8, RingsFollow

\* The engine adds to the buffer.
LEMMA CopyRing ==
  ASSUME NEW b \in Ring, b.end < BufferSize, NEW v \in Int
  PROVE  /\ Copied(b, v) \in Ring /\ Copied(b, v).end = b.end /\ Copied(b, v).curr = b.curr
         /\ Waiting(Copied(b, v)) = Waiting(b) /\ Copied(b, v).slot[b.end] = v
<1>1. b.end \in Slot /\ b.slot \in [Slot -> Int]
  BY SizeAssumption DEF Ring, Slot
<1>2. Copied(b, v) = [b EXCEPT !.slot = [b.slot EXCEPT ![b.end] = v]]
  BY DEF Copied
<1>3. [b.slot EXCEPT ![b.end] = v] \in [Slot -> Int] /\ [b.slot EXCEPT ![b.end] = v][b.end] = v
  BY <1>1
<1> DEFINE s == [b.slot EXCEPT ![b.end] = v]
<1>4. s \in [Slot -> Int] /\ s[b.end] = v /\ Copied(b, v) = [b EXCEPT !.slot = s]
  BY <1>2, <1>3
<1> HIDE DEF s
<1>5. /\ Copied(b, v) \in Ring /\ Copied(b, v).end = b.end /\ Copied(b, v).curr = b.curr
      /\ Copied(b, v).slot = s
  BY <1>4 DEF Ring
<1> QED BY <1>4, <1>5 DEF Waiting

\* The event is copied behind what waits.
LEMMA CopyRings == ASSUME IInv, OrderInv, RingsInv, SockCopy, up' PROVE RingsInv'
<1>1. /\ up /\ epc = "copy" /\ epc' = "load" /\ sock' = [sock EXCEPT ![eop] = Copied(@, Current)]
      /\ UNCHANGED <<ndbuffer, wpc, wop, spc, peer, asked, eop>>
  BY DEF SockCopy, EngineStep, sockVars, writerVars, serverVars, connVars
<1>2. PICK q \in Op : q = eop
  BY <1>1, CurrentOp
<1>3. RingAt(q) /\ Engine /\ sock[q] \in Ring /\ sock \in [Op -> Ring]
  BY <1>2 DEF RingsInv, Engine
<1>4. Given(q)' = Given(q) /\ Item' = Item
  <2>1. ~Returns(q)
    BY <1>1 DEF Returns
  <2> QED BY <1>1, <1>3, <2>1, EngineGiven, BetweenGiven
<1>5. Item \in Int /\ Given(q) \in Seq(Int) /\ Current = Item
  <2>1. epc \in Busy /\ EngineState
    BY <1>1 DEF Busy, OrderInv
  <2> QED BY <1>1, <2>1, GivenType, CurrentIs DEF Item
<1> DEFINE b == sock[q]
           d == Copied(b, Item)
<1>6. b \in Ring /\ b.end < BufferSize /\ Waiting(b) \in 0..(BufferSize - 1)
  BY <1>1, <1>2, <1>3, WaitingType DEF RingAt
<1>7. /\ d \in Ring /\ d.end = b.end /\ d.curr = b.curr /\ Waiting(d) = Waiting(b)
      /\ d.slot[b.end] = Item
  <2> HIDE DEF b
  <2> QED BY <1>5, <1>6, CopyRing
<1>8. sock' = [sock EXCEPT ![q] = d] /\ sock'[q] = d
  BY <1>1, <1>2, <1>3, <1>5
<1>9. ~Closing(q) => Holds(b, Given(q)) /\ Room(q) /\ ndbuffer[q]
  BY <1>1, <1>2, <1>3 DEF RingAt, RingOK, Adding
<1>10. ~Closing(q) => Holds(d, Given(q))
  <2> SUFFICES ASSUME ~Closing(q) PROVE Holds(d, Given(q))
    OBVIOUS
  <2>1. CASE BufferSize = 1
    <3>1. Waiting(d) = 0
      BY <1>6, <1>7, <2>1
    <3> HIDE DEF d
    <3> QED BY <1>5, <3>1, HoldsNothing
  <2>2. CASE BufferSize # 1
    <3>1. Waiting(b) < BufferSize - 1 /\ Holds(b, Given(q))
      BY <1>9, <2>2 DEF Room
    <3> HIDE DEF b
    <3> QED BY <1>5, <1>6, <3>1, CopyKeeps
  <2> QED BY <2>1, <2>2
<1> HIDE DEF b, d
<1>11. Closing(q)' <=> Closing(q)
  BY <1>1 DEF Closing, ServerOp
<1>12. ~Closing(q) => RingOK(q)'
  <2> SUFFICES ASSUME ~Closing(q) PROVE RingOK(q)'
    OBVIOUS
  <2>1. Holds(sock[q], Given(q))'
    BY <1>4, <1>8, <1>10 DEF Holds, Waiting, Ith
  <2>2. Waiting(sock[q])' = Waiting(sock[q])
    BY <1>7, <1>8 DEF Waiting, b
  <2>3. Room(q)'
    BY <1>9, <2>2 DEF Room
  <2> QED BY <1>1, <1>9, <2>1, <2>3 DEF RingOK
<1>13. RingAt(q)'
  <2>1. sock'[q].curr = sock[q].curr /\ sock'[q].end = sock[q].end /\ sock'[q].slot[sock[q].end] = Item
    BY <1>7, <1>8 DEF b
  <2> QED BY <1>1, <1>3, <1>4, <1>6, <1>11, <1>12, <2>1 DEF RingAt, b
<1> QED BY <1>1, <1>2, <1>3, <1>7, <1>8, <1>13, RingsFollow

\* The event now waits.
LEMMA StoreRings == ASSUME IInv, OrderInv, RingsInv, SockStore, up' PROVE RingsInv'
<1>1. /\ up /\ epc = "store" /\ epc' = "mod" /\ sock' = [sock EXCEPT ![eop].end = reg]
      /\ UNCHANGED <<ndbuffer, wpc, wop, spc, peer, asked, eop>>
  BY DEF SockStore, EngineStep, sockVars, writerVars, serverVars, connVars
<1>2. PICK q \in Op : q = eop
  BY <1>1, CurrentOp
<1>3. RingAt(q) /\ Engine /\ sock[q] \in Ring /\ sock \in [Op -> Ring]
  BY <1>2 DEF RingsInv, Engine
<1>4. Given(q)' = Append(Given(q), Item) /\ Given(q) \in Seq(Int) /\ Item \in Int
  <2>1. Returns(q)
    BY <1>1, <1>2 DEF Returns
  <2> QED BY <1>1, <1>3, <2>1, EngineGiven, GivenType DEF Busy
<1> DEFINE b == sock[q]
           d == EndMoved(b)
<1>5. /\ b \in Ring /\ b.end < BufferSize /\ Waiting(b) \in 0..(BufferSize - 1)
      /\ b.end \in 0..BufferSize /\ reg = b.end + 1 /\ b.slot[b.end] = Item
  BY <1>1, <1>2, <1>3, WaitingType DEF RingAt, Ring
<1>6. d \in Ring /\ d.curr = b.curr /\ d.slot = b.slot
  <2> HIDE DEF b
  <2>1. b.end + 1 \in 0..BufferSize
    BY <1>5, SizeAssumption
  <2> QED BY <1>5, <2>1 DEF EndMoved, Ring
<1>7. sock' = [sock EXCEPT ![q] = d] /\ sock'[q] = d
  BY <1>1, <1>2, <1>3, <1>5 DEF EndMoved
<1>8. ~Closing(q) => Holds(b, Given(q)) /\ Room(q) /\ ndbuffer[q]
  BY <1>1, <1>2, <1>3 DEF RingAt, RingOK, Adding
<1>9. ~Closing(q) => Holds(d, Append(Given(q), Item))
  <2> SUFFICES ASSUME ~Closing(q) PROVE Holds(d, Append(Given(q), Item))
    OBVIOUS
  <2>1. CASE BufferSize = 1
    <3>1. Waiting(d) = 0
      <4> HIDE DEF d
      <4>1. Waiting(d) \in 0..(BufferSize - 1)
        BY <1>6, WaitingType
      <4> QED BY <2>1, <4>1
    <3>2. Append(Given(q), Item) \in Seq(Int)
      BY <1>4
    <3> HIDE DEF d
    <3> QED BY <3>1, <3>2, HoldsNothing
  <2>2. CASE BufferSize # 1
    <3>1. Waiting(b) < BufferSize - 1 /\ Holds(b, Given(q))
      BY <1>8, <2>2 DEF Room
    <3> HIDE DEF b
    <3>2. Holds(EndMoved(b), Append(Given(q), b.slot[b.end]))
      BY <1>4, <1>5, <3>1, MoveAdds
    <3> QED BY <1>5, <3>2
  <2> QED BY <2>1, <2>2
<1> HIDE DEF b, d
<1>10. Closing(q)' <=> Closing(q)
  BY <1>1 DEF Closing, ServerOp
<1>11. ~Closing(q) => RingOK(q)'
  <2> SUFFICES ASSUME ~Closing(q) PROVE RingOK(q)'
    OBVIOUS
  <2>1. Holds(sock[q], Given(q))'
    BY <1>4, <1>7, <1>9 DEF Holds, Waiting, Ith
  <2> QED BY <1>1, <1>8, <2>1 DEF RingOK, Adding
<1>12. RingAt(q)'
  <2>1. sock'[q].curr = sock[q].curr
    BY <1>6, <1>7 DEF b
  <2> QED BY <1>1, <1>2, <1>3, <1>10, <1>11, <2>1 DEF RingAt
<1> QED BY <1>1, <1>2, <1>3, <1>6, <1>7, <1>12, RingsFollow

\* The index goes around.
LEMMA WrapRings == ASSUME IInv, OrderInv, RingsInv, SockWraps, up' PROVE RingsInv'
<1>1. /\ up /\ epc = "mod" /\ epc' = "done" /\ sock' = [sock EXCEPT ![eop] = EndWrapped(@)]
      /\ UNCHANGED <<ndbuffer, wpc, wop, spc, peer, asked, eop>>
  BY DEF SockWraps, EngineStep, sockVars, writerVars, serverVars, connVars
<1>2. PICK q \in Op : q = eop
  BY <1>1, CurrentOp
<1>3. RingAt(q) /\ Engine /\ sock[q] \in Ring /\ sock \in [Op -> Ring]
  BY <1>2 DEF RingsInv, Engine
<1>4. Given(q)' = Given(q)
  <2>1. ~Returns(q)
    BY <1>1 DEF Returns
  <2> QED BY <1>3, <2>1, EngineGiven
<1> DEFINE b == sock[q]
           d == EndWrapped(b)
<1>5. sock' = [sock EXCEPT ![q] = d] /\ sock'[q] = d
  BY <1>1, <1>2, <1>3
<1>6. /\ d \in Ring /\ d.curr = b.curr /\ d.end < BufferSize /\ Waiting(d) = Waiting(b)
      /\ Holds(b, Given(q)) => Holds(d, Given(q))
  <2>1. b \in Ring
    BY <1>3
  <2> HIDE DEF b
  <2> QED BY <2>1, EndWrapKeeps
<1> HIDE DEF d
<1>7. Closing(q)' <=> Closing(q)
  BY <1>1 DEF Closing, ServerOp
<1>8. ~Closing(q) => RingOK(q)'
  <2> SUFFICES ASSUME ~Closing(q) PROVE RingOK(q)'
    OBVIOUS
  <2>0. RingOK(q)
    BY <1>3 DEF RingAt
  <2>1. Holds(sock[q], Given(q))'
    BY <1>4, <1>5, <1>6, <2>0 DEF Holds, Waiting, Ith, RingOK
  <2>2. Waiting(sock[q])' = Waiting(sock[q])
    BY <1>5, <1>6 DEF Waiting
  <2> QED BY <1>1, <2>0, <2>1, <2>2 DEF RingOK, Adding
<1>9. RingAt(q)'
  <2>1. sock'[q].curr = sock[q].curr /\ sock'[q].end < BufferSize
    BY <1>5, <1>6
  <2> QED BY <1>1, <1>3, <1>7, <1>8, <2>1 DEF RingAt
<1> QED BY <1>1, <1>2, <1>3, <1>5, <1>6, <1>9, RingsFollow

\* Every step of the engine keeps the buffers right.
LEMMA EngineRings == ASSUME IInv, OrderInv, RingsInv, Engine, up' PROVE RingsInv'
<1>1. CASE OpenRoot \/ AddOperator \/ EngineHasNext \/ ReturnsNothing \/ RootDone \/ FilterChild
  <2>1. /\ UNCHANGED <<sock, ndbuffer, wpc, wop, spc, peer, asked>> /\ epc # "mod"
        /\ epc' \in {"add", "poll", "check"} /\ \A o : ~Returns(o)
    BY <1>1 DEF OpenRoot, AddOperator, EngineHasNext, ReturnsNothing, RootDone, FilterChild,
       EngineStep, sockVars, writerVars, serverVars, connVars, Returns
  <2>2. \A o \in Op : Given(o)' = Given(o)
    BY <2>1, EngineGiven
  <2> QED BY <2>1, <2>2, PollRings
<1>2. CASE EngineCrashes \/ OfferCrashes
  BY <1>2 DEF EngineCrashes, OfferCrashes, Crash
<1> QED BY <1>1, <1>2, LookRings, TakeRings, NotOfferedRings, CopyRings, LoadRings, StoreRings,
           WrapRings DEF Engine

-----------------------------------------------------------------------------
(* The client writer, the server and the socket buffers.                   *)

\* Nothing is returned while filler and engine rest.
LEMMA StillGiven ==
  ASSUME UNCHANGED <<plan, buf, fillVars, engineVars>>
  PROVE  /\ Item' = Item /\ \A o \in Op : Given(o)' = Given(o)
         /\ UNCHANGED <<epc, eop, reg>>
<1>1. UNCHANGED <<plan, filled, hand, held, teptr, processed, epc, eop, reg>>
  BY DEF fillVars, engineVars
<1>2. Waiting(buf)' = Waiting(buf)
  BY DEF Waiting
<1> QED BY <1>1, <1>2, GivenQuiet

\* Only operators have clients.
LEMMA SubscribedOps == ASSUME SubInv PROVE Subscribed \subseteq Op
<1>1. outputmap \in Seq(Op \X Nat)
  BY DEF SubInv, ConnType
<1>2. \A i \in DOMAIN outputmap : outputmap[i][1] \in Op
  BY <1>1
<1> QED BY <1>2 DEF Subscribed

\* The writer's next operator has clients.
LEMMA NextFollowing ==
  ASSUME SubInv, Following # {}
  PROVE  Min(Following) \in Following /\ Following \subseteq Subscribed
<1>1. Following \subseteq Subscribed /\ Following \subseteq Nat
  BY SubscribedOps DEF Following, Op
<1>2. \E x \in Following : \A y \in Following : x <= y
  BY <1>1, LeastExists
<1> QED BY <1>1, <1>2 DEF Min

\* What the writer leaves alone.
LEMMA WriterOthers ==
  ASSUME Writer
  PROVE  /\ up /\ UNCHANGED <<plan, buf, fillVars, engineVars, ndbuffer, spc, peer, asked, fd, cst,
                        outputmap, raced>>
         /\ wpc \in WriterLocked => wpc' = "loop" \/ wpc' \in WriterLocked \/ WriterUnlocks \/ ~up'
BY DEF Writer, HasNewData, WriterLocksOut, WriterLocksOps, WriterTakes, WriterWraps, Send,
   SendLost, SendKills, SentAll, WriterUnlocks, WriterStep, sockVars, serverVars, connVars,
   WriterLocked, Crash

\* While the writer holds the lock, the server does not make a buffer empty.
LEMMA WriterAlone ==
  ASSUME MapInv, up, wpc \in WriterLocked
  PROVE  spc \notin ServerLocked /\ \A o : ~Closing(o)
<1>1. LockInv
  BY DEF MapInv
<1>2. outLock = "writer"
  BY <1>1 DEF LockInv
<1>3. spc \notin ServerLocked
  BY <1>1, <1>2 DEF LockInv
<1> QED BY <1>3 DEF ServerLocked, Closing

\* Steps of the writer that leave the buffers alone.
LEMMA WriterQuietRings ==
  ASSUME RingsInv, Writer, sock' = sock, wpc # "wrap", wpc' # "wrap"
  PROVE  RingsInv'
<1>1. UNCHANGED <<ndbuffer, epc, eop, reg, spc, peer, asked>> /\ Item' = Item
      /\ \A o \in Op : Given(o)' = Given(o)
  BY WriterOthers, StillGiven
<1>2. sock' \in [Op -> Ring]
  BY DEF RingsInv
<1>3. ASSUME NEW o \in Op PROVE RingAt(o)'
  <2>1. RingAt(o) /\ Given(o)' = Given(o) /\ (Closing(o)' <=> Closing(o))
    BY <1>1 DEF RingsInv, Closing, ServerOp
  <2>2. RingOK(o) => RingOK(o)'
    BY <1>1, <2>1 DEF RingOK, Holds, Waiting, Ith, Room
  <2> QED BY <1>1, <2>1, <2>2 DEF RingAt
<1> QED BY <1>2, <1>3 DEF RingsInv

\* The writer changes a buffer: only its first index.
LEMMA WriterChangesRing ==
  ASSUME MapInv, RingsInv, Writer, up, wpc \in WriterLocked, NEW q \in Op, NEW b \in Ring,
         sock' = [sock EXCEPT ![q] = b],
         b.end = sock[q].end, b.slot = sock[q].slot, Waiting(b) <= Waiting(sock[q]),
         Holds(sock[q], Given(q)) => Holds(b, Given(q)),
         b.curr < BufferSize \/ (wpc' = "wrap" /\ wop' = q),
         wpc = "wrap" => wop = q
  PROVE  RingsInv'
<1>1. UNCHANGED <<ndbuffer, epc, eop, reg, spc, peer, asked>> /\ Item' = Item
      /\ \A o \in Op : Given(o)' = Given(o)
  BY WriterOthers, StillGiven
<1>2. sock' \in [Op -> Ring] /\ sock'[q] = b /\ \A o \in Op \ {q} : sock'[o] = sock[o]
  BY DEF RingsInv
<1>3. \A o : ~Closing(o) /\ ~Closing(o)'
  BY <1>1, WriterAlone DEF Closing, ServerOp
<1>4. ASSUME NEW o \in Op, o # q PROVE RingAt(o)'
  <2>1. RingAt(o) /\ Given(o)' = Given(o) /\ sock'[o] = sock[o]
    BY <1>1, <1>2, <1>4 DEF RingsInv
  <2>2. RingOK(o) => RingOK(o)'
    BY <1>1, <2>1 DEF RingOK, Holds, Waiting, Ith, Room
  <2> QED BY <1>1, <1>3, <1>4, <2>1, <2>2 DEF RingAt
<1>5. RingAt(q)'
  <2>1. RingAt(q) /\ RingOK(q)
    BY <1>3 DEF RingsInv, RingAt
  <2>2. Waiting(sock[q]) \in Nat /\ Waiting(b) \in Nat /\ BufferSize \in Nat \ {0}
    BY RingFacts, WaitingType, SizeAssumption
  <2>3. Waiting(sock[q])' = Waiting(b) /\ Holds(sock[q], Given(q))'
    BY <1>1, <1>2, <2>1 DEF RingOK, Holds, Waiting, Ith
  <2>4. Room(q) => Room(q)'
    BY <2>2, <2>3 DEF Room
  <2>5. RingOK(q)'
    BY <1>1, <2>1, <2>2, <2>3, <2>4 DEF RingOK
  <2> QED BY <1>1, <1>2, <1>3, <2>1, <2>5 DEF RingAt
<1> QED BY <1>2, <1>4, <1>5 DEF RingsInv

\* The writer takes the first result that waits.
LEMMA WriterTakesRings ==
  ASSUME IInv, OrderInv, SubInv, MapInv, RingsInv, WriterTakes, HasNext(sock[wop'])
  PROVE  /\ RingsInv'
         /\ wop' \in Subscribed /\ sock'[wop'] = CurrMoved(sock[wop'])
         /\ Waiting(sock[wop']) > 0 /\ sock[wop'].curr < BufferSize /\ RingOK(wop')
<1>1. /\ up /\ wpc = "loop" /\ wpc' = "wrap" /\ wop' = Min(Following) /\ Following # {}
      /\ sock' = [sock EXCEPT ![wop'] = CurrMoved(@)] /\ Writer
  BY DEF WriterTakes, WriterStep, Writer
<1>2. PICK q \in Op : q = wop' /\ q \in Subscribed
  BY <1>1, NextFollowing, SubscribedOps
<1>3. /\ RingAt(q) /\ sock[q] \in Ring /\ sock \in [Op -> Ring] /\ sock[q].curr < BufferSize
      /\ Given(q) \in Seq(Int)
  BY <1>1, GivenType DEF RingsInv, RingAt
<1>4. RingOK(q)
  BY <1>1, <1>3, WriterAlone DEF RingAt, WriterLocked
<1> DEFINE b == sock[q]
           d == CurrMoved(b)
<1>5. sock' = [sock EXCEPT ![q] = d] /\ sock'[q] = d
  BY <1>1, <1>2, <1>3
<1>6. b \in Ring /\ b.curr < BufferSize /\ Holds(b, Given(q)) /\ Given(q) \in Seq(Int)
  BY <1>3, <1>4 DEF RingOK
<1>7. Waiting(b) > 0
  <2>1. HasNext(b)
    BY <1>2
  <2> HIDE DEF b
  <2> QED BY <1>6, <2>1, HasNextIs
<1>8. /\ d \in Ring /\ d.end = b.end /\ d.slot = b.slot /\ Waiting(d) = Waiting(b) - 1
      /\ Holds(d, Given(q))
  <2> HIDE DEF b
  <2> QED BY <1>6, <1>7, TakeFirst
<1>9. Waiting(b) \in 0..(BufferSize - 1)
  <2> HIDE DEF b
  <2> QED BY <1>6, WaitingType
<1>10. Waiting(d) <= Waiting(b)
  BY <1>8, <1>9, SizeAssumption
<1> HIDE DEF d
<1>11. RingsInv'
  BY <1>1, <1>2, <1>5, <1>8, <1>10, WriterChangesRing DEF WriterLocked
<1> QED BY <1>2, <1>4, <1>5, <1>6, <1>7, <1>11 DEF d

\* The writer's index goes around.
LEMMA WriterWrapsRings ==
  ASSUME IInv, OrderInv, SubInv, MapInv, RingsInv, WriterWraps, wop \in Op
  PROVE  RingsInv'
<1>1. /\ up /\ wpc = "wrap" /\ wpc' = "send" /\ Writer
      /\ sock' = [sock EXCEPT ![wop] = CurrWrapped(@)]
  BY DEF WriterWraps, WriterStep, Writer
<1>2. PICK q \in Op : q = wop
  OBVIOUS
<1> DEFINE b == sock[q]
           d == CurrWrapped(b)
<1>3. b \in Ring /\ sock' = [sock EXCEPT ![q] = d]
  BY <1>1, <1>2 DEF RingsInv
<1>4. /\ d \in Ring /\ d.end = b.end /\ d.slot = b.slot /\ d.curr < BufferSize
      /\ Waiting(d) = Waiting(b)
      /\ Holds(b, Given(q)) => Holds(d, Given(q))
  <2> HIDE DEF b
  <2> QED BY <1>3, CurrWrapKeeps
<1>5. Waiting(b) \in 0..(BufferSize - 1)
  <2> HIDE DEF b
  <2> QED BY <1>3, WaitingType
<1>6. Waiting(d) <= Waiting(b)
  BY <1>4, <1>5, SizeAssumption
<1> HIDE DEF d
<1> QED BY <1>1, <1>2, <1>3, <1>4, <1>6, WriterChangesRing DEF WriterLocked

\* Every step of the writer keeps the buffers right.
LEMMA WriterRings ==
  ASSUME IInv, OrderInv, SubInv, MapInv, RingsInv, Writer, up',
         wpc \in {"wrap", "send"} => wop \in Subscribed
  PROVE  RingsInv'
<1>1. CASE WriterTakes
  <2>1. CASE HasNext(sock[wop'])
    BY <1>1, <2>1, WriterTakesRings
  <2>2. CASE ~HasNext(sock[wop'])
    <3>1. sock' = sock /\ wpc = "loop" /\ wpc' = "loop"
      BY <1>1, <2>2 DEF WriterTakes, WriterStep
    <3> QED BY <3>1, WriterQuietRings
  <2> QED BY <2>1, <2>2
<1>2. CASE WriterWraps
  <2>1. wop \in Op
    BY <1>2, SubscribedOps DEF WriterWraps, WriterStep
  <2> QED BY <1>2, <2>1, WriterWrapsRings
<1>3. CASE HasNewData \/ WriterLocksOut \/ WriterLocksOps \/ Send \/ SendLost \/ SentAll
           \/ WriterUnlocks
  <2>1. sock' = sock /\ wpc # "wrap" /\ wpc' # "wrap"
    BY <1>3 DEF HasNewData, WriterLocksOut, WriterLocksOps, Send, SendLost, SentOne, SentAll,
       WriterUnlocks, WriterStep
  <2> QED BY <2>1, WriterQuietRings
<1>4. CASE SendKills
  BY <1>4 DEF SendKills, Crash
<1> QED BY <1>1, <1>2, <1>3, <1>4 DEF Writer

\* The server's steps other than closing.
LEMMA ServerOthers ==
  ASSUME Server
  PROVE  up /\ UNCHANGED <<plan, buf, fillVars, engineVars, wpc, wop, whand, wto, wire, rcvd>>
BY DEF Server, Accept, RecvRequest, HangUp, SubscribeLock, SetFlag, SetCrashes, SetBuffer, Insert,
   CleanLock, CloseFlag, CloseCrashes, ResetCurr, ResetEnd, CleanUnlock, ServerStep, writerVars, netVars

\* Steps of the server that leave the buffers alone.
LEMMA ServerQuietRings ==
  ASSUME MapInv, RingsInv, Server, sock' = sock, ndbuffer' \in [Op -> BOOLEAN],
         \A o \in Op : ndbuffer[o] => ndbuffer'[o],
         spc \notin {"resetcurr", "resetend"}, spc' \notin {"resetcurr", "resetend"}
  PROVE  RingsInv'
<1>1. UNCHANGED <<epc, eop, reg, wpc, wop>> /\ Item' = Item /\ \A o \in Op : Given(o)' = Given(o)
  BY ServerOthers, StillGiven
<1>2. sock' \in [Op -> Ring]
  BY DEF RingsInv
<1>3. ASSUME NEW o \in Op PROVE RingAt(o)'
  <2>1. RingAt(o) /\ Given(o)' = Given(o) /\ ~Closing(o) /\ ~Closing(o)'
    BY <1>1 DEF RingsInv, Closing
  <2>2. RingOK(o)
    BY <2>1 DEF RingAt
  <2>3. RingOK(o)'
    BY <1>1, <2>1, <2>2 DEF RingOK, Holds, Waiting, Ith, Room
  <2> QED BY <1>1, <2>1, <2>3 DEF RingAt
<1> QED BY <1>2, <1>3 DEF RingsInv

\* Closing an operator's buffer leaves the other's alone.
LEMMA ServerOthersRing ==
  ASSUME RingsInv, Server, UNCHANGED <<peer, asked>>, NEW o \in Op, o # ServerOp,
         sock'[o] = sock[o], ndbuffer'[o] = ndbuffer[o]
  PROVE  RingAt(o)'
<1>1. UNCHANGED <<epc, eop, reg, wpc, wop>> /\ Item' = Item /\ Given(o)' = Given(o)
  BY ServerOthers, StillGiven
<1>2. RingAt(o) /\ ~Closing(o) /\ ~Closing(o)'
  BY DEF RingsInv, Closing, ServerOp
<1>3. RingOK(o)
  BY <1>2 DEF RingAt
<1>4. RingOK(o)'
  BY <1>1, <1>3 DEF RingOK, Holds, Waiting, Ith, Room
<1> QED BY <1>1, <1>2, <1>4 DEF RingAt

\* While the server closes a buffer, the writer is not in the outputmap.
LEMMA ClosesOp ==
  ASSUME SubInv, MapInv, CloseFlag \/ ResetCurr \/ ResetEnd
  PROVE  ServerOp \in Op /\ wpc \notin WriterLocked /\ ndbuffer \in [Op -> BOOLEAN] /\ up
         /\ UNCHANGED <<peer, asked>> /\ Server
<1>1. /\ up /\ spc \in {"closelock", "resetcurr", "resetend"} /\ UNCHANGED <<peer, asked>>
      /\ spc = "closelock" => ServerOp # NULL
  BY DEF CloseFlag, ResetCurr, ResetEnd, ServerStep, connVars
<1>2. LockInv /\ FlagInv
  BY <1>1 DEF MapInv
<1>3. outLock = "server"
  BY <1>1, <1>2 DEF LockInv, ServerLocked
<1>4. wpc \notin WriterLocked
  BY <1>2, <1>3 DEF LockInv
<1>5. ServerOp \in Op
  <2>1. peer \in Conn
    BY <1>1 DEF SubInv, ConnType
  <2>2. asked[peer].op \in Op \cup {NULL}
    BY <2>1 DEF SubInv, ConnType
  <2> QED BY <1>1, <1>2, <2>2 DEF FlagInv, ServerOp
<1> QED BY <1>1, <1>2, <1>4, <1>5 DEF FlagInv, Server

\* The buffer is closed.
LEMMA CloseRings ==
  ASSUME SubInv, MapInv, RingsInv, CloseFlag
  PROVE  RingsInv'
<1>1. /\ spc = "closelock" /\ spc' = "resetcurr" /\ sock' = sock
      /\ ndbuffer' = [ndbuffer EXCEPT ![ServerOp] = FlagAfterClose]
  BY DEF CloseFlag, ServerStep
<1>2. /\ ServerOp \in Op /\ wpc \notin WriterLocked /\ ndbuffer \in [Op -> BOOLEAN] /\ up
      /\ UNCHANGED <<peer, asked>> /\ Server
  BY ClosesOp
<1>3. ASSUME NEW o \in Op, o # ServerOp PROVE RingAt(o)'
  <2>1. sock'[o] = sock[o] /\ ndbuffer'[o] = ndbuffer[o]
    BY <1>1, <1>2, <1>3
  <2> QED BY <1>2, <1>3, <2>1, ServerOthersRing
<1>4. ASSUME NEW o \in Op, o = ServerOp PROVE RingAt(o)'
  <2>1. UNCHANGED <<epc, eop, reg, wpc, wop>> /\ Item' = Item
    BY <1>2, ServerOthers, StillGiven
  <2>2. RingAt(o) /\ Closing(o)'
    BY <1>1, <1>2, <1>4 DEF RingsInv, Closing, ServerOp
  <2> QED BY <1>1, <2>1, <2>2 DEF RingAt
<1> QED BY <1>1, <1>3, <1>4 DEF RingsInv

\* The first of the two stores that make it empty, ...
LEMMA ResetCurrRings ==
  ASSUME SubInv, MapInv, RingsInv, ResetCurr
  PROVE  RingsInv'
<1>1. /\ spc = "resetcurr" /\ spc' = "resetend" /\ sock' = [sock EXCEPT ![ServerOp].curr = 0]
      /\ ndbuffer' = ndbuffer
  BY DEF ResetCurr, ServerStep
<1>2. /\ ServerOp \in Op /\ wpc \notin WriterLocked /\ ndbuffer \in [Op -> BOOLEAN] /\ up
      /\ UNCHANGED <<peer, asked>> /\ Server
  BY ClosesOp
<1>3. PICK q \in Op : q = ServerOp
  BY <1>2
<1> DEFINE d == [sock[q] EXCEPT !.curr = 0]
<1>4. /\ sock' = [sock EXCEPT ![q] = d] /\ sock \in [Op -> Ring] /\ sock[q] \in Ring
  BY <1>1, <1>3 DEF RingsInv
<1>5. d \in Ring /\ d.curr = 0 /\ d.end = sock[q].end /\ d.slot = sock[q].slot
  BY <1>4, SizeAssumption DEF Ring
<1> HIDE DEF d
<1>6. sock' \in [Op -> Ring] /\ sock'[q] = d
  BY <1>4, <1>5
<1>7. ASSUME NEW o \in Op, o # q PROVE RingAt(o)'
  <2>1. sock'[o] = sock[o] /\ ndbuffer'[o] = ndbuffer[o]
    BY <1>1, <1>4, <1>7
  <2> QED BY <1>2, <1>3, <1>7, <2>1, ServerOthersRing
<1>8. RingAt(q)'
  <2>1. UNCHANGED <<epc, eop, reg, wpc, wop>> /\ Item' = Item
    BY <1>2, ServerOthers, StillGiven
  <2>2. RingAt(q) /\ Closing(q)'
    BY <1>1, <1>2, <1>3 DEF RingsInv, Closing, ServerOp
  <2> QED BY <1>5, <1>6, <2>1, <2>2, SizeAssumption DEF RingAt
<1> QED BY <1>6, <1>7, <1>8 DEF RingsInv

\* ... and the second, the engine not being between its own.
LEMMA ResetEndRings ==
  ASSUME IInv, OrderInv, SubInv, MapInv, RingsInv, ResetEnd, ~raced'
  PROVE  RingsInv'
<1>1. /\ spc = "resetend" /\ spc' = "unlock" /\ sock' = [sock EXCEPT ![ServerOp].end = 0]
      /\ ndbuffer' = ndbuffer /\ ~(eop = ServerOp /\ epc \in Adding)
  BY DEF ResetEnd, ServerStep, Adding
<1>2. /\ ServerOp \in Op /\ wpc \notin WriterLocked /\ ndbuffer \in [Op -> BOOLEAN] /\ up
      /\ UNCHANGED <<peer, asked>> /\ Server
  BY ClosesOp
<1>3. PICK q \in Op : q = ServerOp
  BY <1>2
<1> DEFINE d == [sock[q] EXCEPT !.end = 0]
<1>4. /\ sock' = [sock EXCEPT ![q] = d] /\ sock \in [Op -> Ring] /\ sock[q] \in Ring
  BY <1>1, <1>3 DEF RingsInv
<1>5. d \in Ring /\ d.curr = sock[q].curr /\ d.end = 0
  BY <1>4, SizeAssumption DEF Ring
<1> HIDE DEF d
<1>6. sock' \in [Op -> Ring] /\ sock'[q] = d
  BY <1>4, <1>5
<1>7. ASSUME NEW o \in Op, o # q PROVE RingAt(o)'
  <2>1. sock'[o] = sock[o] /\ ndbuffer'[o] = ndbuffer[o]
    BY <1>1, <1>4, <1>7
  <2> QED BY <1>2, <1>3, <1>7, <2>1, ServerOthersRing
<1>8. RingAt(q)'
  <2>1. UNCHANGED <<epc, eop, reg, wpc, wop>> /\ Given(q)' = Given(q) /\ Given(q) \in Seq(Int)
    BY <1>2, ServerOthers, StillGiven, GivenType
  <2>2. sock[q].curr = 0 /\ ~Closing(q)'
    BY <1>1, <1>2, <1>3 DEF RingsInv, RingAt, Closing, ServerOp
  <2>3. Waiting(d) = 0
    BY <1>5, <2>2, SizeAssumption DEF Waiting, Dist, Wrapped
  <2>4. Holds(d, Given(q))
    BY <2>1, <2>3, HoldsNothing
  <2>5. Holds(sock[q], Given(q))' /\ Waiting(sock[q])' = 0
    BY <1>6, <2>1, <2>3, <2>4 DEF Holds, Waiting, Ith
  <2>6. Room(q)'
    BY <2>5, SizeAssumption DEF Room
  <2>7. ~(eop' = q /\ epc' \in Adding)
    BY <1>1, <1>3, <2>1
  <2>8. RingOK(q)'
    BY <2>5, <2>6, <2>7 DEF RingOK
  <2> QED BY <1>5, <1>6, <2>1, <2>2, <2>7, <2>8, SizeAssumption DEF RingAt, Adding
<1> QED BY <1>6, <1>7, <1>8 DEF RingsInv

\* Every step of the server keeps the buffers right.
LEMMA ServerRings ==
  ASSUME IInv, OrderInv, SubInv, MapInv, RingsInv, Server, up', ~raced'
  PROVE  RingsInv'
<1>1. up /\ FlagInv
  BY ServerOthers DEF MapInv
<1>2. CASE SetFlag
  <2>1. /\ spc = "setlock" /\ spc' = "alloc" /\ sock' = sock
        /\ ndbuffer' = [ndbuffer EXCEPT ![ServerOp] = TRUE]
    BY <1>2 DEF SetFlag, ServerStep
  <2>2. ndbuffer' \in [Op -> BOOLEAN] /\ \A o \in Op : ndbuffer[o] => ndbuffer'[o]
    BY <1>1, <2>1 DEF FlagInv
  <2> QED BY <2>1, <2>2, ServerQuietRings
<1>3. CASE \/ \E c \in Conn : Accept(c) \/ RecvRequest(c) \/ HangUp(c)
           \/ SubscribeLock \/ SetBuffer \/ Insert \/ CleanLock \/ CleanUnlock
  <2>1. /\ spc \notin {"resetcurr", "resetend"} /\ spc' \notin {"resetcurr", "resetend"}
        /\ sock' = sock /\ ndbuffer' = ndbuffer
    BY <1>3 DEF Accept, RecvRequest, HangUp, SubscribeLock, SetBuffer, Insert, CleanLock,
       CleanUnlock, ServerStep, sockVars
  <2>2. ndbuffer' \in [Op -> BOOLEAN] /\ \A o \in Op : ndbuffer[o] => ndbuffer'[o]
    BY <1>1, <2>1 DEF FlagInv
  <2> QED BY <2>1, <2>2, ServerQuietRings
<1>4. CASE SetCrashes \/ CloseCrashes
  BY <1>4 DEF SetCrashes, CloseCrashes, Crash
<1> QED BY <1>2, <1>3, <1>4, CloseRings, ResetCurrRings, ResetEndRings DEF Server

\* A connection that the server cleans up after does nothing any more.
LEMMA ClientRings ==
  ASSUME SubInv, MapInv, RingsInv, NEW c \in Conn, Connect(c) \/ Ask(c) \/ Read(c) \/ Leave(c)
  PROVE  RingsInv'
<1>1. /\ up /\ UNCHANGED <<plan, buf, fillVars, engineVars, sock, ndbuffer, wpc, wop, spc, peer>>
      /\ cst[c] # "closed" /\ (asked' = asked \/ \E v : asked' = [asked EXCEPT ![c] = v])
  BY DEF Connect, Ask, Read, Leave, SubscriberStep, sockVars, serverVars, writerVars
<1>2. ASSUME spc \in {"resetcurr", "resetend"} PROVE ServerOp' = ServerOp
  <2>1. peer \in Conn /\ cst[peer] = "closed"
    BY <1>1, <1>2 DEF SubInv, ConnType, MapInv, LeavingInv
  <2>2. asked'[peer] = asked[peer]
    BY <1>1, <2>1 DEF SubInv, ConnType
  <2> QED BY <1>1, <2>2 DEF ServerOp
<1>3. \A o \in Op : Closing(o)' <=> Closing(o)
  BY <1>1, <1>2 DEF Closing
<1> QED BY <1>1, <1>3, StillGiven, RingsStill

\* Every step that does not make a buffer empty while the engine is adding to it.
LEMMA RingsStep ==
  ASSUME IInv, OrderInv, SubInv, MapInv, RingsInv, up, [Next]_vars, up', ~raced',
         wpc \in {"wrap", "send"} => wop \in Subscribed
  PROVE  RingsInv'
<1>1. CASE Filler
  <2>1. UNCHANGED <<sock, ndbuffer, epc, eop, reg, wpc, wop, spc, peer, asked>>
    BY <1>1 DEF Filler, EndWraps, ReadLine, FileEnds, Recv, RecvEnds, Assemble, Overrun, KeepRest,
       engineVars, sockVars, serverVars, writerVars, connVars
  <2>2. \A o \in Op : Closing(o)' <=> Closing(o)
    BY <2>1 DEF Closing, ServerOp
  <2> QED BY <1>1, <2>1, <2>2, FillerGiven, RingsStill
<1>2. CASE UNCHANGED vars
  <2>1. UNCHANGED <<plan, buf, fillVars, engineVars, sock, ndbuffer, wpc, wop, spc, peer, asked>>
    BY <1>2 DEF vars, sockVars, serverVars, writerVars, connVars
  <2>2. \A o \in Op : Closing(o)' <=> Closing(o)
    BY <2>1 DEF Closing, ServerOp
  <2> QED BY <2>1, <2>2, StillGiven, RingsStill
<1>3. ASSUME NEW c \in Conn, Connect(c) \/ Ask(c) \/ Read(c) \/ Leave(c) PROVE RingsInv'
  BY <1>3, ClientRings
<1> QED BY <1>1, <1>2, <1>3, EngineRings, WriterRings, ServerRings DEF Next

-----------------------------------------------------------------------------
(* Parts of sequences.                                                     *)

\* A part stays a part when something is added.
LEMMA EndsAppend ==
  ASSUME NEW s \in Seq(Int), NEW t \in Seq(Int), NEW x \in Int, NEW p \in Int, EndsAt(s, t, p)
  PROVE  EndsAt(s, Append(t, x), p)
<1> DEFINE u == Append(t, x)
<1>1. Len(u) = Len(t) + 1 /\ \A i \in 1..Len(t) : u[i] = t[i]
  OBVIOUS
<1>2. Len(s) <= p /\ p <= Len(t) /\ Len(s) \in Nat /\ Len(t) \in Nat
  BY DEF EndsAt
<1> HIDE DEF u
<1>3. ASSUME NEW i \in 1..Len(s) PROVE s[i] = u[p - Len(s) + i]
  <2>1. p - Len(s) + i \in 1..Len(t)
    BY <1>2
  <2>2. s[i] = t[p - Len(s) + i]
    BY DEF EndsAt
  <2> QED BY <1>1, <2>1, <2>2
<1>4. p <= Len(u)
  BY <1>1, <1>2
<1>5. EndsAt(s, u, p)
  BY <1>2, <1>3, <1>4 DEF EndsAt
<1> QED BY <1>5 DEF u

\* A part and the next element are a part.
LEMMA EndsNext ==
  ASSUME NEW s \in Seq(Int), NEW t \in Seq(Int), NEW p \in Int, 1 <= p, p <= Len(t),
         s # <<>> => EndsAt(s, t, p - 1)
  PROVE  EndsAt(Append(s, t[p]), t, p)
<1>1. t[p] \in Int /\ Len(s) \in Nat /\ Len(t) \in Nat
  OBVIOUS
<1> DEFINE x == t[p]
           u == Append(s, x)
<1>2. Len(u) = Len(s) + 1 /\ u[Len(s) + 1] = x /\ \A i \in 1..Len(s) : u[i] = s[i]
  BY <1>1
<1> HIDE DEF u
<1>3. CASE s = <<>>
  <2>1. Len(s) = 0
    BY <1>3
  <2> QED BY <1>1, <1>2, <2>1 DEF EndsAt, u
<1>4. CASE s # <<>>
  <2>1. Len(s) <= p - 1 /\ \A i \in 1..Len(s) : s[i] = t[p - 1 - Len(s) + i]
    BY <1>4 DEF EndsAt
  <2>2. ASSUME NEW i \in 1..Len(u) PROVE u[i] = t[p - Len(u) + i]
    <3>1. CASE i = Len(s) + 1
      <4>1. p - Len(u) + i = p
        BY <1>1, <1>2, <3>1
      <4> QED BY <1>2, <3>1, <4>1
    <3>2. CASE i \in 1..Len(s)
      <4>1. p - Len(u) + i = p - 1 - Len(s) + i
        BY <1>1, <1>2, <3>2
      <4> QED BY <1>2, <2>1, <3>2, <4>1
    <3> QED BY <1>1, <1>2, <3>1, <3>2
  <2>3. Len(u) <= p
    BY <1>1, <1>2, <2>1
  <2>4. EndsAt(u, t, p)
    BY <2>2, <2>3 DEF EndsAt
  <2> QED BY <2>4 DEF u
<1> QED BY <1>3, <1>4

\* The first part of a part.
LEMMA EndsPart ==
  ASSUME NEW r \in Seq(Int), NEW w \in Seq(Int), NEW t \in Seq(Int), NEW p \in Nat,
         EndsAt(r \o w, t, p)
  PROVE  \E q \in Nat : EndsAt(r, t, q)
<1> DEFINE s == r \o w
           q == p - Len(w)
<1>1. /\ Len(s) = Len(r) + Len(w) /\ \A i \in 1..Len(r) : s[i] = r[i]
      /\ Len(r) \in Nat /\ Len(w) \in Nat /\ Len(t) \in Nat
  BY Joined
<1>2. Len(s) <= p /\ p <= Len(t) /\ \A i \in 1..Len(s) : s[i] = t[p - Len(s) + i]
  BY DEF EndsAt
<1> HIDE DEF s
<1>3. q \in Nat /\ Len(r) <= q /\ q <= Len(t)
  BY <1>1, <1>2
<1>4. ASSUME NEW i \in 1..Len(r) PROVE r[i] = t[q - Len(r) + i]
  <2>1. i \in 1..Len(s) /\ p - Len(s) + i = q - Len(r) + i
    BY <1>1
  <2>2. s[i] = t[p - Len(s) + i]
    BY <1>2, <2>1
  <2> QED BY <1>1, <2>1, <2>2
<1> QED BY <1>3, <1>4 DEF EndsAt

\* What is sent comes after what has been received.
LEMMA SendAdds ==
  ASSUME NEW r \in Seq(Int), NEW w \in Seq(Int), NEW x \in Int
  PROVE  r \o Append(w, x) = Append(r \o w, x) /\ r \o w \in Seq(Int)
<1> DEFINE s == r \o Append(w, x)
           u == Append(r \o w, x)
<1>1. /\ Append(w, x) \in Seq(Int) /\ Len(Append(w, x)) = Len(w) + 1
      /\ Append(w, x)[Len(w) + 1] = x /\ \A i \in 1..Len(w) : Append(w, x)[i] = w[i]
  OBVIOUS
<1>2. /\ r \o w \in Seq(Int) /\ Len(r \o w) = Len(r) + Len(w)
      /\ \A i \in 1..(Len(r) + Len(w)) : (r \o w)[i] = IF i <= Len(r) THEN r[i] ELSE w[i - Len(r)]
  BY ConcatProperties
<1>3. /\ s \in Seq(Int) /\ Len(s) = Len(r) + (Len(w) + 1)
      /\ \A i \in 1..(Len(r) + (Len(w) + 1)) :
           s[i] = IF i <= Len(r) THEN r[i] ELSE Append(w, x)[i - Len(r)]
  BY <1>1, ConcatProperties
<1>4. /\ u \in Seq(Int) /\ Len(u) = Len(r) + Len(w) + 1
      /\ u[Len(r) + Len(w) + 1] = x
      /\ \A i \in 1..(Len(r) + Len(w)) : u[i] = (r \o w)[i]
  BY <1>2
<1>5. Len(r) \in Nat /\ Len(w) \in Nat
  OBVIOUS
<1> HIDE DEF s, u
<1>6. ASSUME NEW i \in 1..Len(s) PROVE s[i] = u[i]
  <2>1. i \in 1..(Len(r) + (Len(w) + 1))
    BY <1>3
  <2>2. CASE i <= Len(r)
    <3>1. i \in 1..(Len(r) + Len(w))
      BY <1>5, <2>1, <2>2
    <3> QED BY <1>2, <1>3, <1>4, <2>1, <2>2, <3>1
  <2>3. CASE ~(i <= Len(r)) /\ i <= Len(r) + Len(w)
    <3>1. i \in 1..(Len(r) + Len(w)) /\ i - Len(r) \in 1..Len(w)
      BY <1>5, <2>1, <2>3
    <3> QED BY <1>1, <1>2, <1>3, <1>4, <2>1, <2>3, <3>1
  <2>4. CASE i = Len(r) + Len(w) + 1
    <3>1. i - Len(r) = Len(w) + 1 /\ ~(i <= Len(r))
      BY <1>5, <2>4
    <3> QED BY <1>1, <1>3, <1>4, <2>1, <2>4, <3>1
  <2> QED BY <1>5, <2>1, <2>2, <2>3, <2>4
<1>7. Len(s) = Len(u)
  BY <1>3, <1>4, <1>5
<1>8. s = u
  BY <1>3, <1>4, <1>6, <1>7, SeqEqual
<1> QED BY <1>2, <1>8 DEF s, u

\* What is read has been received before.
LEMMA ReadKeeps ==
  ASSUME NEW r \in Seq(Int), NEW w \in Seq(Int), w # <<>>
  PROVE  /\ Append(r, Head(w)) \o Tail(w) = r \o w
         /\ Append(r, Head(w)) \in Seq(Int) /\ Tail(w) \in Seq(Int)
<1> DEFINE x == Head(w)
           v == Tail(w)
           a == Append(r, x)
           s == a \o v
           u == r \o w
<1>1. /\ x \in Int /\ v \in Seq(Int) /\ Len(v) = Len(w) - 1 /\ x = w[1]
      /\ \A i \in 1..Len(v) : v[i] = w[i + 1]
  BY HeadTailProperties
<1>2. Len(r) \in Nat /\ Len(w) \in Nat /\ Len(w) >= 1
  OBVIOUS
<1> HIDE DEF x, v
<1>3. a \in Seq(Int) /\ Len(a) = Len(r) + 1 /\ a[Len(r) + 1] = x /\ \A i \in 1..Len(r) : a[i] = r[i]
  BY <1>1
<1> HIDE DEF a
<1>4. /\ s \in Seq(Int) /\ Len(s) = Len(a) + Len(v)
      /\ \A i \in 1..(Len(a) + Len(v)) : s[i] = IF i <= Len(a) THEN a[i] ELSE v[i - Len(a)]
  BY <1>1, <1>3, ConcatProperties
<1>5. /\ u \in Seq(Int) /\ Len(u) = Len(r) + Len(w)
      /\ \A i \in 1..(Len(r) + Len(w)) : u[i] = IF i <= Len(r) THEN r[i] ELSE w[i - Len(r)]
  BY ConcatProperties
<1> HIDE DEF s, u
<1>6. Len(s) = Len(u) /\ Len(a) + Len(v) = Len(r) + Len(w) /\ Len(u) = Len(r) + Len(w)
  BY <1>1, <1>2, <1>3, <1>4, <1>5
<1>7. ASSUME NEW i \in 1..Len(s) PROVE s[i] = u[i]
  <2>1. i \in 1..(Len(r) + Len(w)) /\ i \in 1..(Len(a) + Len(v))
    BY <1>6
  <2>2. CASE i <= Len(r)
    <3>1. i <= Len(a) /\ i \in 1..Len(r)
      BY <1>2, <1>3, <2>1, <2>2
    <3> QED BY <1>3, <1>4, <1>5, <2>1, <2>2, <3>1
  <2>3. CASE i = Len(r) + 1
    <3>1. i <= Len(a) /\ ~(i <= Len(r)) /\ i - Len(r) = 1
      BY <1>2, <1>3, <2>3
    <3> QED BY <1>1, <1>3, <1>4, <1>5, <2>1, <2>3, <3>1
  <2>4. CASE i > Len(r) + 1
    <3>1. ~(i <= Len(a)) /\ ~(i <= Len(r)) /\ i - Len(a) \in 1..Len(v) /\ (i - Len(a)) + 1 = i - Len(r)
      BY <1>1, <1>2, <1>3, <2>1, <2>4
    <3> QED BY <1>1, <1>4, <1>5, <2>1, <3>1
  <2> QED BY <1>2, <2>1, <2>2, <2>3, <2>4
<1>8. s = u
  BY <1>4, <1>5, <1>6, <1>7, SeqEqual
<1> QED BY <1>1, <1>3, <1>8 DEF s, u, a, x, v

\* Nothing consists of nothing.
LEMMA NothingIs ==
  ASSUME NEW r \in Seq(Int), NEW w \in Seq(Int), r \o w = <<>>
  PROVE  r = <<>> /\ w = <<>>
<1>1. Len(r \o w) = Len(r) + Len(w) /\ Len(r) \in Nat /\ Len(w) \in Nat
  BY Joined
<1>2. Len(r) = 0 /\ Len(w) = 0
  BY <1>1
<1> QED BY <1>2, EmptySeq

\* Nothing is a part of anything.
LEMMA NothingEnds ==
  ASSUME NEW t \in Seq(Int)
  PROVE  EndsAt(<<>>, t, 0)
BY DEF EndsAt

\* A part is a run.
LEMMA EndsRun ==
  ASSUME NEW s \in Seq(Int), NEW t \in Seq(Int), NEW p \in Nat, EndsAt(s, t, p)
  PROVE  IsRun(s, t)
<1>1. /\ Len(s) <= p /\ p <= Len(t) /\ Len(s) \in Nat /\ Len(t) \in Nat
      /\ \A i \in 1..Len(s) : s[i] = t[p - Len(s) + i]
  BY DEF EndsAt
<1> DEFINE k == p - Len(s)
           u == SubSeq(t, k + 1, Len(t))
<1>2. k \in 0..Len(t)
  BY <1>1
<1>3. u \in Seq(Int) /\ Len(u) = Len(t) - k /\ \A i \in 1..(Len(t) - k) : u[i] = t[k + i]
  <2>1. k + 1 \in Nat /\ k + 1 - 1 \in 0..Len(t)
    BY <1>2
  <2> HIDE DEF k
  <2>2. \A i \in (k + 1)..Len(t) : t[i] \in Int
    BY <1>2
  <2> QED BY <1>1, <1>2, <2>1, <2>2
<1>4. IsPrefix(s, u)
  <2>1. Len(s) <= Len(u) /\ \A i \in 1..Len(s) : i \in 1..(Len(t) - k)
    BY <1>1, <1>3
  <2>2. \A i \in 1..Len(s) : s[i] = u[i]
    BY <1>1, <1>3, <2>1
  <2> HIDE DEF u
  <2> QED BY <1>3, <2>1, <2>2, PrefixIs
<1> QED BY <1>2, <1>4 DEF IsRun

-----------------------------------------------------------------------------
(* The subscribers are served.                                             *)

\* A connection's entry is for the operator it asked for.
LEMMA ListedOp ==
  ASSUME SubInv, NEW c \in Conn, NEW j \in DOMAIN outputmap, outputmap[j][2] = fd[c]
  PROVE  /\ outputmap[j] = <<asked[c].op, fd[c]>> /\ asked[c].op \in Subscribed
         /\ asked[c].op \in Op /\ fd[c] \in Nat /\ Listed(c)
<1>1. outputmap[j] \in Op \X Nat
  BY DEF SubInv, ConnType
<1>2. PICK d \in Conn : fd[d] = outputmap[j][2] /\ asked[d].op = outputmap[j][1]
  BY DEF SubInv, OnlySubscribers
<1>3. d = c
  BY <1>1, <1>2, Numbers DEF SubInv, DistinctFds
<1>4. outputmap[j][1] \in Subscribed
  BY DEF Subscribed
<1> QED BY <1>1, <1>2, <1>3, <1>4 DEF Listed

\* Nobody gets anything new.
LEMMA ServedKeeps ==
  ASSUME SubInv, MapInv, up, RingsInv, ServedInv,
         UNCHANGED <<rcvd, wire, cst, fd, outputmap, wpc, wop, wto, whand>>,
         \A c \in Conn : asked'[c].op = asked[c].op,
         \A o \in Op : Given(o) \in Seq(Int),
         \A o \in Op : Given(o)' = Given(o) \/ \E x \in Int : Given(o)' = Append(Given(o), x),
         \A o \in Subscribed : BufferSize # 1 => Gone(o)' = Gone(o),
         \A o \in Op : wpc \in {"wrap", "send"} /\ wop = o =>
           /\ sock'[o].slot[whand] = sock[o].slot[whand]
           /\ sock'[o].curr % BufferSize = sock[o].curr % BufferSize
  PROVE  ServedInv'
<1>1. Subscribed' = Subscribed /\ \A c : Listed(c)' <=> Listed(c)
  BY DEF Subscribed, Listed
<1>2. ASSUME NEW o \in Op, NEW s \in Seq(Int), NEW p \in Int, EndsAt(s, Given(o), p)
      PROVE  EndsAt(s, Given(o)', p)
  <2>1. CASE Given(o)' = Given(o)
    BY <1>2, <2>1
  <2>2. CASE \E x \in Int : Given(o)' = Append(Given(o), x)
    <3>1. PICK x \in Int : Given(o)' = Append(Given(o), x)
      BY <2>2
    <3>2. EndsAt(s, Append(Given(o), x), p)
      BY <1>2, EndsAppend
    <3> QED BY <3>1, <3>2
  <2> QED BY <2>1, <2>2
<1>3. WriterInv'
  <2>1. ASSUME NEW o \in Op, wpc \in {"wrap", "send"}, wop = o
        PROVE  Gone(o)' >= 1 /\ sock'[o].slot[whand] = Given(o)'[Gone(o)']
    <3>1. /\ o \in Subscribed /\ BufferSize # 1 /\ Gone(o) >= 1
          /\ sock[o].slot[whand] = Given(o)[Gone(o)]
      BY <2>1, SizeAssumption DEF ServedInv, WriterInv
    <3>2. Gone(o)' = Gone(o)
      BY <3>1
    <3>3. Gone(o) \in 1..Len(Given(o))
      <4>1. Waiting(sock[o]) \in Nat /\ Len(Given(o)) \in Nat
        BY RingFacts, SizeAssumption
      <4> QED BY <3>1, <4>1 DEF Gone
    <3>4. Given(o)'[Gone(o)] = Given(o)[Gone(o)]
      BY <3>3
    <3> QED BY <2>1, <3>1, <3>2, <3>4
  <2>2. WriterInv
    BY DEF ServedInv
  <2>3. wpc' \in {"wrap", "send"} =>
           /\ wop' \in Subscribed' /\ whand' \in Slot /\ BufferSize > 1
           /\ \A o \in Op : wop' = o =>
                /\ (whand' + 1) % BufferSize = sock'[o].curr % BufferSize
                /\ Gone(o)' >= 1 /\ sock'[o].slot[whand'] = Given(o)'[Gone(o)']
    BY <1>1, <2>1, <2>2 DEF WriterInv
  <2>4. wpc' = "send" =>
           /\ wto' \in Seq({wop'} \X Nat) /\ DistinctEntries(wto')
           /\ \A i \in DOMAIN wto' : \E j \in DOMAIN outputmap' : outputmap'[j] = wto'[i]
    BY <2>2 DEF WriterInv
  <2> QED BY <2>3, <2>4 DEF WriterInv
<1>4. ASSUME NEW c \in Conn PROVE Served(c)'
  <2>1. Served(c) /\ Received(c)' = Received(c) /\ (Due(c)' <=> Due(c))
    BY DEF ServedInv, Received, Due
  <2>2. Received(c) \in Seq(Int)
    BY Joined DEF ServedInv, Received
  <2>3. ASSUME NEW o \in Op, asked[c].op = o PROVE \E p \in Nat : EndsAt(Received(c), Given(o)', p)
    <3>1. PICK p \in Nat : EndsAt(Received(c), Given(o), p)
      BY <2>1, <2>3 DEF Served
    <3>2. EndsAt(Received(c), Given(o)', p)
      BY <1>2, <2>2, <3>1
    <3> QED BY <3>2
  <2>4. ASSUME NEW o \in Op, asked[c].op = o, cst[c] = "asked", Listed(c), Received(c) # <<>>
        PROVE  EndsAt(Received(c), Given(o)', Gone(o)' - IF Due(c) THEN 1 ELSE 0)
    <3>1. EndsAt(Received(c), Given(o), Gone(o) - IF Due(c) THEN 1 ELSE 0) /\ BufferSize # 1
      BY <2>1, <2>4 DEF Served
    <3>2. o \in Subscribed
      BY <2>4, ListedOp DEF Listed
    <3>3. Gone(o)' = Gone(o)
      BY <3>1, <3>2
    <3>4. Gone(o) \in Int
      <4>1. Waiting(sock[o]) \in Nat /\ Len(Given(o)) \in Nat
        BY RingFacts, SizeAssumption
      <4> QED BY <4>1 DEF Gone
    <3> DEFINE p == Gone(o) - IF Due(c) THEN 1 ELSE 0
    <3>5. p \in Int /\ EndsAt(Received(c), Given(o), p)
      BY <3>1, <3>4
    <3> HIDE DEF p
    <3>6. EndsAt(Received(c), Given(o)', p)
      BY <1>2, <2>2, <3>5
    <3> QED BY <3>3, <3>6 DEF p
  <2>5. ASSUME NEW o \in Op, asked'[c].op = o
        PROVE  /\ \E p \in Nat : EndsAt(Received(c)', Given(o)', p)
               /\ cst'[c] = "asked" /\ Listed(c)' /\ Received(c)' # <<>> =>
                    EndsAt(Received(c)', Given(o)', Gone(o)' - IF Due(c)' THEN 1 ELSE 0)
    BY <1>1, <2>1, <2>3, <2>4, <2>5
  <2>6. /\ BufferSize = 1 => Received(c)' = <<>>
        /\ cst'[c] \in {"none", "connected", "asked"} /\ ~Listed(c)' => Received(c)' = <<>>
    BY <1>1, <2>1 DEF Served
  <2> QED BY <2>5, <2>6 DEF Served
<1>5. rcvd' \in [Conn -> Seq(Int)] /\ wire' \in [Conn -> Seq(Int)]
  BY DEF ServedInv
<1> QED BY <1>3, <1>4, <1>5 DEF ServedInv

\* The filler.
LEMMA FillerServed ==
  ASSUME IInv, OrderInv, SubInv, MapInv, RingsInv, ServedInv, Filler
  PROVE  ServedInv'
<1>1. /\ up /\ UNCHANGED <<rcvd, wire, cst, fd, outputmap, wpc, wop, wto, whand>> /\ asked' = asked
      /\ sock' = sock
  BY DEF Filler, EndWraps, ReadLine, FileEnds, Recv, RecvEnds, Assemble, Overrun, KeepRest,
     netVars, sockVars, mapVars, writerVars, connVars
<1>2. \A o \in Op : Given(o)' = Given(o)
  BY FillerGiven
<1>3. \A o \in Op : Gone(o)' = Gone(o)
  BY <1>1, <1>2 DEF Gone, Waiting
<1>4. \A o \in Op : Given(o) \in Seq(Int)
  BY <1>1, GivenType
<1> QED BY <1>1, <1>2, <1>3, <1>4, SubscribedOps, ServedKeeps

\* The server, where it changes neither the connections nor the outputmap.
LEMMA ServerServed ==
  ASSUME IInv, OrderInv, SubInv, MapInv, RingsInv, ServedInv,
         \/ \E c \in Conn : RecvRequest(c)
         \/ SubscribeLock \/ SetFlag \/ SetBuffer \/ CloseFlag \/ CleanUnlock
  PROVE  ServedInv'
<1>1. /\ up /\ UNCHANGED <<rcvd, wire, cst, fd, outputmap, wpc, wop, wto, whand>>
      /\ UNCHANGED <<plan, buf, fillVars, engineVars, sock>>
      /\ asked' = asked \/ \E c \in Conn : asked' = [asked EXCEPT ![c].unread = FALSE]
  BY DEF RecvRequest, SubscribeLock, SetFlag, SetBuffer, CloseFlag, CleanUnlock, ServerStep,
     netVars, sockVars, mapVars, writerVars, connVars
<1>2. \A o \in Op : Given(o)' = Given(o)
  BY <1>1, StillGiven
<1>3. \A o \in Op : Gone(o)' = Gone(o)
  BY <1>1, <1>2 DEF Gone, Waiting
<1>4. \A o \in Op : Given(o) \in Seq(Int)
  BY <1>1, GivenType
<1>5. \A c \in Conn : asked'[c].op = asked[c].op
  BY <1>1 DEF SubInv, ConnType
<1> QED BY <1>1, <1>2, <1>3, <1>4, <1>5, SubscribedOps, ServedKeeps

\* The server makes a buffer empty: nobody is served from it.
LEMMA ResetServed ==
  ASSUME IInv, OrderInv, SubInv, MapInv, RingsInv, ServedInv, ResetCurr \/ ResetEnd
  PROVE  ServedInv'
<1>1. /\ up /\ UNCHANGED <<rcvd, wire, cst, fd, outputmap, wpc, wop, wto, whand, asked>>
      /\ UNCHANGED <<plan, buf, fillVars, engineVars>>
      /\ spc \in {"resetcurr", "resetend"}
      /\ \/ sock' = [sock EXCEPT ![ServerOp].curr = 0]
         \/ sock' = [sock EXCEPT ![ServerOp].end = 0]
  BY DEF ResetCurr, ResetEnd, ServerStep, netVars, sockVars, mapVars, writerVars, connVars
<1>2. \A o \in Op : Given(o)' = Given(o)
  BY <1>1, StillGiven
<1>3. wpc \notin WriterLocked
  BY ClosesOp
<1>4. \A o \in Subscribed : o # ServerOp /\ o \in Op
  BY <1>1, SubscribedOps DEF MapInv, FlagInv
<1>5. \A o \in Subscribed : sock'[o] = sock[o]
  BY <1>1, <1>4 DEF RingsInv
<1>6. \A o \in Subscribed : Gone(o)' = Gone(o)
  BY <1>2, <1>4, <1>5 DEF Gone, Waiting
<1>7. \A o \in Op : Given(o) \in Seq(Int)
  BY <1>1, GivenType
<1> QED BY <1>1, <1>2, <1>3, <1>6, <1>7, ServedKeeps DEF WriterLocked

\* The engine.
LEMMA EngineServed ==
  ASSUME IInv, OrderInv, SubInv, MapInv, RingsInv, ServedInv, Engine, up'
  PROVE  ServedInv'
<1>1. /\ up /\ UNCHANGED <<rcvd, wire, cst, fd, outputmap, wpc, wop, wto, whand, asked, spc>>
  BY EngineOthers
<1>2. \A o \in Op : Given(o)' = IF Returns(o) THEN Append(Given(o), Item) ELSE Given(o)
  BY EngineGiven
<1>3. \A o \in Op : Given(o) \in Seq(Int)
  BY <1>1, GivenType
<1>4. \A o \in Op : Given(o)' = Given(o) \/ \E x \in Int : Given(o)' = Append(Given(o), x)
  <2> SUFFICES ASSUME NEW o \in Op, Returns(o) PROVE \E x \in Int : Given(o)' = Append(Given(o), x)
    BY <1>2
  <2>1. Item \in Int
    BY <1>1, GivenType DEF Returns, Busy
  <2> QED BY <1>2, <2>1
<1>5. ASSUME NEW o \in Op, o \in Subscribed
      PROVE  BufferSize # 1 => Gone(o)' = Gone(o)
  <2>1. ndbuffer[o] /\ ~Closing(o) /\ RingOK(o)
    BY <1>1, <1>5 DEF MapInv, FlagInv, Closing, RingsInv, RingAt
  <2>2. sock[o] \in Ring /\ sock \in [Op -> Ring] /\ Waiting(sock[o]) \in Nat /\ Len(Given(o)) \in Nat
    BY <1>3, RingFacts, SizeAssumption DEF RingsInv
  <2>3. CASE SockStore /\ eop = o
    <3>1. /\ epc = "store" /\ epc' = "mod" /\ sock' = [sock EXCEPT ![eop].end = reg]
      BY <2>3 DEF SockStore, EngineStep
    <3>2. /\ reg = sock[o].end + 1 /\ sock[o].end < BufferSize /\ Room(o)
      BY <2>1, <2>3, <3>1 DEF RingsInv, RingAt, RingOK, Adding
    <3>3. sock'[o] = EndMoved(sock[o])
      BY <2>2, <2>3, <3>1, <3>2 DEF EndMoved
    <3> SUFFICES ASSUME BufferSize # 1 PROVE Gone(o)' = Gone(o)
      OBVIOUS
    <3>4. Waiting(EndMoved(sock[o])) = Waiting(sock[o]) + 1
      BY <1>3, <2>1, <2>2, <3>2, MoveAdds DEF Room, RingOK
    <3>5. Waiting(sock[o])' = Waiting(sock[o]) + 1
      BY <3>3, <3>4 DEF Waiting
    <3>6. Len(Given(o)') = Len(Given(o)) + 1
      BY <1>2, <1>3, <2>3, <3>1 DEF Returns
    <3> QED BY <2>2, <3>5, <3>6 DEF Gone
  <2>4. CASE ~(SockStore /\ eop = o)
    <3>1. ~Returns(o)
      <4>1. SUFFICES ASSUME Returns(o) PROVE FALSE
        OBVIOUS
      <4>2. NotOffered \/ SockStore
        BY <4>1 DEF Returns, Engine, OpenRoot, AddOperator, EngineHasNext, MayTake, ReturnsNothing,
           EngineCrashes, Take, TakeWraps, Offered, OfferCrashes, SockCopy, SockLoad, SockWraps,
           RootDone, FilterChild, EngineStep
      <4> QED BY <2>1, <2>4, <4>1, <4>2 DEF Returns, NotOffered
    <3>2. Given(o)' = Given(o)
      BY <1>2, <3>1
    <3>3. Waiting(sock[o])' = Waiting(sock[o])
      <4>1. CASE SockCopy /\ eop = o
        <5>1. epc = "copy" /\ sock' = [sock EXCEPT ![eop] = Copied(@, Current)]
          BY <4>1 DEF SockCopy, EngineStep
        <5>2. sock'[o] = Copied(sock[o], Current) /\ sock[o].end < BufferSize
          BY <2>2, <4>1, <5>1 DEF RingsInv, RingAt
        <5>3. Current \in Int
          <6>1. epc \in Busy /\ EngineState
            BY <1>1, <5>1 DEF Busy, OrderInv
          <6> QED BY <1>1, <6>1, GivenType, CurrentIs DEF Item
        <5>4. Waiting(Copied(sock[o], Current)) = Waiting(sock[o])
          BY <2>2, <5>2, <5>3, CopyRing
        <5> QED BY <5>2, <5>4 DEF Waiting
      <4>2. CASE SockWraps /\ eop = o
        <5>1. sock'[o] = EndWrapped(sock[o])
          BY <2>2, <4>2 DEF SockWraps
        <5>2. Waiting(EndWrapped(sock[o])) = Waiting(sock[o])
          BY <2>2, EndWrapKeeps
        <5> QED BY <5>1, <5>2 DEF Waiting
      <4>3. CASE ~(SockCopy /\ eop = o) /\ ~(SockWraps /\ eop = o)
        <5>1. sock'[o] = sock[o]
          BY <2>2, <2>4, <4>3 DEF Engine, OpenRoot, AddOperator, EngineHasNext, MayTake, ReturnsNothing,
             EngineCrashes, Take, TakeWraps, NotOffered, Offered, OfferCrashes, SockCopy, SockLoad,
             SockStore, SockWraps, RootDone, FilterChild, EngineStep, sockVars
        <5> QED BY <5>1 DEF Waiting
      <4> QED BY <4>1, <4>2, <4>3
    <3> QED BY <3>2, <3>3 DEF Gone
  <2> QED BY <2>3, <2>4
<1>6. ASSUME NEW o \in Op, wpc \in {"wrap", "send"}, wop = o
      PROVE  /\ sock'[o].slot[whand] = sock[o].slot[whand]
             /\ sock'[o].curr % BufferSize = sock[o].curr % BufferSize
  <2>1. /\ o \in Subscribed /\ BufferSize > 1 /\ whand \in Slot
        /\ (whand + 1) % BufferSize = sock[o].curr % BufferSize
    BY <1>6 DEF ServedInv, WriterInv
  <2>2. ~Closing(o) /\ RingOK(o) /\ sock[o] \in Ring /\ sock \in [Op -> Ring]
    BY <1>1, <2>1 DEF MapInv, FlagInv, Closing, RingsInv, RingAt
  <2>3. CASE SockCopy /\ eop = o
    <3>1. epc = "copy" /\ sock' = [sock EXCEPT ![eop] = Copied(@, Current)]
      BY <2>3 DEF SockCopy, EngineStep
    <3>2. sock'[o] = Copied(sock[o], Current) /\ sock[o].end < BufferSize /\ Room(o)
      BY <2>2, <2>3, <3>1 DEF RingsInv, RingAt, RingOK, Adding
    <3>3. Current \in Int
      <4>1. epc \in Busy /\ EngineState
        BY <1>1, <3>1 DEF Busy, OrderInv
      <4> QED BY <1>1, <4>1, GivenType, CurrentIs DEF Item
    <3>4. Waiting(sock[o]) < BufferSize - 1
      BY <2>1, <3>2 DEF Room
    <3>5. /\ Copied(sock[o], Current).curr = sock[o].curr
          /\ \A j \in Slot : j # sock[o].end => Copied(sock[o], Current).slot[j] = sock[o].slot[j]
          /\ \A j \in Slot : (j + 1) % BufferSize = sock[o].curr % BufferSize => j # sock[o].end
      BY <2>2, <3>2, <3>3, <3>4, CopyKeeps
    <3> QED BY <2>1, <3>2, <3>5
  <2>4. CASE ~(SockCopy /\ eop = o)
    <3>1. sock'[o].slot = sock[o].slot /\ sock'[o].curr = sock[o].curr
      <4>1. CASE SockStore
        BY <2>2, <4>1 DEF SockStore, Ring
      <4>2. CASE SockWraps
        <5>1. EndWrapped(sock[o]).slot = sock[o].slot /\ EndWrapped(sock[o]).curr = sock[o].curr
          BY <2>2, EndWrapKeeps
        <5> QED BY <2>2, <4>2, <5>1 DEF SockWraps
      <4>3. CASE SockCopy
        BY <2>2, <2>4, <4>3 DEF SockCopy
      <4>4. CASE ~SockStore /\ ~SockWraps /\ ~SockCopy
        BY <4>4 DEF Engine, OpenRoot, AddOperator, EngineHasNext, MayTake, ReturnsNothing,
           EngineCrashes, Take, TakeWraps, NotOffered, Offered, OfferCrashes, SockLoad,
           RootDone, FilterChild, EngineStep, sockVars
      <4> QED BY <4>1, <4>2, <4>3, <4>4
    <3> QED BY <3>1
  <2> QED BY <2>3, <2>4
<1>7. \A o \in Subscribed : BufferSize # 1 => Gone(o)' = Gone(o)
  BY <1>5, SubscribedOps
<1> QED BY <1>1, <1>3, <1>4, <1>6, <1>7, ServedKeeps

\* A connection that gets nothing new and whose state stays or matters less.
LEMMA ConnServed ==
  ASSUME NEW c \in Conn, Served(c), Received(c)' = Received(c), asked'[c].op = asked[c].op,
         \A o \in Op : Given(o)' = Given(o) /\ Gone(o)' = Gone(o),
         cst'[c] \in {"none", "connected", "asked"} /\ ~Listed(c)' =>
           cst[c] \in {"none", "connected", "asked"} /\ ~Listed(c),
         cst'[c] = "asked" /\ Listed(c)' /\ Received(c) # <<>> =>
           cst[c] = "asked" /\ Listed(c) /\ (Due(c)' <=> Due(c))
  PROVE  Served(c)'
<1>1. ASSUME NEW o \in Op, asked'[c].op = o
      PROVE  /\ \E p \in Nat : EndsAt(Received(c)', Given(o)', p)
             /\ cst'[c] = "asked" /\ Listed(c)' /\ Received(c)' # <<>> =>
                  EndsAt(Received(c)', Given(o)', Gone(o)' - IF Due(c)' THEN 1 ELSE 0)
  <2>1. /\ \E p \in Nat : EndsAt(Received(c), Given(o), p)
        /\ cst[c] = "asked" /\ Listed(c) /\ Received(c) # <<>> =>
             EndsAt(Received(c), Given(o), Gone(o) - IF Due(c) THEN 1 ELSE 0)
    BY <1>1 DEF Served
  <2> QED BY <2>1
<1>2. /\ BufferSize = 1 => Received(c)' = <<>>
      /\ cst'[c] \in {"none", "connected", "asked"} /\ ~Listed(c)' => Received(c)' = <<>>
  BY DEF Served
<1> QED BY <1>1, <1>2 DEF Served

\* The writer's state is right as long as what it depends on stays.
LEMMA WriterKeeps ==
  ASSUME WriterInv, UNCHANGED <<wpc, wop, whand, wto, sock, outputmap>>,
         \A o \in Op : Given(o)' = Given(o)
  PROVE  WriterInv'
<1>1. \A o \in Op : Gone(o)' = Gone(o)
  BY DEF Gone, Waiting
<1>2. Subscribed' = Subscribed
  BY DEF Subscribed
<1>3. wpc' \in {"wrap", "send"} =>
         /\ wop' \in Subscribed' /\ whand' \in Slot /\ BufferSize > 1
         /\ \A o \in Op : wop' = o =>
              /\ (whand' + 1) % BufferSize = sock'[o].curr % BufferSize
              /\ Gone(o)' >= 1 /\ sock'[o].slot[whand'] = Given(o)'[Gone(o)']
  BY <1>1, <1>2 DEF WriterInv
<1>4. wpc' = "send" =>
         /\ wto' \in Seq({wop'} \X Nat) /\ DistinctEntries(wto')
         /\ \A i \in DOMAIN wto' : \E j \in DOMAIN outputmap' : outputmap'[j] = wto'[i]
  BY DEF WriterInv
<1> QED BY <1>3, <1>4 DEF WriterInv

\* Where neither the buffers nor the results change.
LEMMA StillServed ==
  ASSUME UNCHANGED <<plan, buf, fillVars, engineVars, sock>>
  PROVE  \A o \in Op : Given(o)' = Given(o) /\ Gone(o)' = Gone(o)
<1>1. \A o \in Op : Given(o)' = Given(o)
  BY StillGiven
<1> QED BY <1>1 DEF Gone, Waiting

-----------------------------------------------------------------------------
(* The server changes the connections and the outputmap.                   *)

\* A new connection.
LEMMA AcceptServed ==
  ASSUME SubInv, ServedInv, NEW c \in Conn, Accept(c)
  PROVE  ServedInv'
<1>1. /\ UNCHANGED <<plan, buf, fillVars, engineVars, sock, rcvd, wire, cst, asked, outputmap,
                     wpc, wop, whand, wto>>
      /\ fd[c] = NULL /\ fd' = [fd EXCEPT ![c] = NewFd]
  BY DEF Accept, ServerStep, writerVars, sockVars, mapVars, netVars
<1>2. \A o \in Op : Given(o)' = Given(o) /\ Gone(o)' = Gone(o)
  BY <1>1, StillServed
<1>3. WriterInv'
  BY <1>1, <1>2, WriterKeeps DEF ServedInv
<1>4. /\ \A d \in Conn : fd[d] # NewFd
      /\ fd'[c] = NewFd /\ \A d \in Conn \ {c} : fd'[d] = fd[d]
  BY <1>1, NewFdIs DEF SubInv, ConnType
<1>5. ~Listed(c) /\ ~Listed(c)'
  <2>1. ASSUME NEW j \in DOMAIN outputmap PROVE outputmap[j][2] # fd[c] /\ outputmap[j][2] # fd'[c]
    <3>1. PICK d \in Conn : fd[d] = outputmap[j][2]
      BY DEF SubInv, OnlySubscribers
    <3>2. outputmap[j] \in Op \X Nat
      BY DEF SubInv, ConnType
    <3> QED BY <1>1, <1>4, <3>1, <3>2, Numbers
  <2> QED BY <1>1, <2>1 DEF Listed
<1>6. ASSUME NEW d \in Conn PROVE Served(d)'
  <2>1. Served(d) /\ Received(d)' = Received(d)
    BY <1>1 DEF ServedInv, Received
  <2>2. CASE d = c
    BY <1>1, <1>2, <1>5, <2>1, <2>2, ConnServed
  <2>3. CASE d # c
    <3>1. (Listed(d)' <=> Listed(d)) /\ (Due(d)' <=> Due(d))
      BY <1>1, <1>4, <2>3 DEF Listed, Due
    <3> QED BY <1>1, <1>2, <2>1, <3>1, ConnServed
  <2> QED BY <2>2, <2>3
<1> QED BY <1>1, <1>3, <1>6 DEF ServedInv

\* A connection is closed.
LEMMA HangUpServed ==
  ASSUME SubInv, ServedInv, NEW c \in Conn, HangUp(c)
  PROVE  ServedInv'
<1>1. /\ UNCHANGED <<plan, buf, fillVars, engineVars, sock, rcvd, wire, fd, asked, outputmap,
                     wpc, wop, whand, wto>>
      /\ cst' = [cst EXCEPT ![c] = "closed"]
  BY DEF HangUp, ServerStep, writerVars, sockVars, mapVars, netVars
<1>2. \A o \in Op : Given(o)' = Given(o) /\ Gone(o)' = Gone(o)
  BY <1>1, StillServed
<1>3. WriterInv'
  BY <1>1, <1>2, WriterKeeps DEF ServedInv
<1>4. ASSUME NEW d \in Conn PROVE Served(d)'
  <2>1. Served(d) /\ Received(d)' = Received(d)
    BY <1>1 DEF ServedInv, Received
  <2>2. (Listed(d)' <=> Listed(d)) /\ (Due(d)' <=> Due(d))
    BY <1>1 DEF Listed, Due
  <2>3. cst'[d] \in {"none", "connected", "asked"} => cst'[d] = cst[d]
    BY <1>1 DEF SubInv, ConnType
  <2> QED BY <1>1, <1>2, <2>1, <2>2, <2>3, ConnServed
<1> QED BY <1>1, <1>3, <1>4 DEF ServedInv

\* A new subscriber: it has got nothing yet.
LEMMA InsertServed ==
  ASSUME SubInv, MapInv, ServedInv, Insert
  PROVE  ServedInv'
<1>1. /\ UNCHANGED <<plan, buf, fillVars, engineVars, sock, rcvd, wire, fd, asked, cst,
                     wpc, wop, whand, wto>>
      /\ up /\ spc = "insert" /\ outputmap' = Append(outputmap, <<ServerOp, fd[peer]>>)
  BY DEF Insert, ServerStep, writerVars, sockVars, connVars, netVars
<1>2. \A o \in Op : Given(o)' = Given(o) /\ Gone(o)' = Gone(o)
  BY <1>1, StillServed
<1>3. wpc \notin WriterLocked
  <2>1. LockInv
    BY <1>1 DEF MapInv
  <2>2. outLock = "server"
    BY <1>1, <2>1 DEF LockInv, ServerLocked
  <2> QED BY <2>1, <2>2 DEF LockInv
<1>4. WriterInv'
  BY <1>1, <1>3 DEF WriterInv, WriterLocked
<1>5. peer \in Conn /\ fd[peer] \in Nat /\ ServerOp \in Op /\ ~Listed(peer)
  <2>1. peer \in Conn /\ fd[peer] # NULL /\ ServerOp # NULL
    BY <1>1 DEF SubInv, ConnType, Subscribing
  <2> QED BY <1>1, <2>1 DEF SubInv, ConnType, ServerOp, MapInv, ListInv
<1> DEFINE n == Len(outputmap)
<1>6. /\ n \in Nat /\ DOMAIN outputmap = 1..n /\ DOMAIN outputmap' = 1..(n + 1)
      /\ outputmap'[n + 1] = <<ServerOp, fd[peer]>> /\ \A i \in 1..n : outputmap'[i] = outputmap[i]
  BY <1>1, <1>5 DEF SubInv, ConnType
<1> HIDE DEF n
<1>7. ASSUME NEW d \in Conn PROVE Served(d)'
  <2>1. Served(d) /\ Received(d)' = Received(d) /\ ~Due(d) /\ ~Due(d)'
    BY <1>1, <1>3 DEF ServedInv, Received, Due, WriterLocked
  <2>2. Listed(d) => Listed(d)'
    <3> SUFFICES ASSUME Listed(d) PROVE Listed(d)'
      OBVIOUS
    <3>1. PICK i \in 1..n : outputmap[i][2] = fd[d]
      BY <1>6 DEF Listed
    <3>2. i \in DOMAIN outputmap' /\ outputmap'[i][2] = fd'[d]
      BY <1>1, <1>6, <3>1
    <3> QED BY <3>2 DEF Listed
  <2>3. CASE d = peer
    <3>1. cst[d] \in {"none", "connected", "asked"} => Received(d) = <<>>
      BY <1>5, <2>1, <2>3 DEF Served
    <3> QED BY <1>1, <1>2, <2>1, <2>2, <3>1, ConnServed
  <2>4. CASE d # peer
    <3>1. Listed(d)' => Listed(d)
      <4> SUFFICES ASSUME Listed(d)' PROVE Listed(d)
        OBVIOUS
      <4>1. PICK i \in 1..(n + 1) : outputmap'[i][2] = fd[d]
        BY <1>1, <1>6 DEF Listed
      <4>2. i # n + 1
        <5> SUFFICES ASSUME i = n + 1 PROVE FALSE
          OBVIOUS
        <5>1. fd[d] = fd[peer]
          BY <1>6, <4>1
        <5> QED BY <1>5, <2>4, <5>1, Numbers DEF SubInv, DistinctFds
      <4>3. i \in DOMAIN outputmap /\ outputmap[i][2] = fd[d]
        BY <1>6, <4>1, <4>2
      <4> QED BY <4>3 DEF Listed
    <3> QED BY <1>1, <1>2, <2>1, <2>2, <3>1, ConnServed
  <2> QED BY <2>3, <2>4
<1> QED BY <1>1, <1>4, <1>7 DEF ServedInv

\* The entries of a closed connection go: the others keep theirs.
LEMMA CleanServed ==
  ASSUME SubInv, MapInv, ServedInv, CleanLock
  PROVE  ServedInv'
<1>1. /\ UNCHANGED <<plan, buf, fillVars, engineVars, sock, rcvd, wire, asked, cst,
                     wpc, wop, whand, wto>>
      /\ up /\ spc = "clean" /\ outLock = NULL /\ outputmap' = Erased(fd[peer])
      /\ fd' = [fd EXCEPT ![peer] = NULL]
  BY DEF CleanLock, ServerStep, writerVars, sockVars, netVars
<1>2. \A o \in Op : Given(o)' = Given(o) /\ Gone(o)' = Gone(o)
  BY <1>1, StillServed
<1>3. wpc \notin WriterLocked
  BY <1>1, NodeAssumption DEF MapInv, LockInv
<1>4. WriterInv'
  BY <1>1, <1>3 DEF WriterInv, WriterLocked
<1>5. peer \in Conn /\ cst[peer] = "closed"
  BY <1>1 DEF SubInv, ConnType, MapInv, LeavingInv
<1>6. /\ outputmap' \in Seq(Op \X Nat)
      /\ \A i \in 1..Len(outputmap') : \E j \in 1..Len(outputmap) : outputmap[j] = outputmap'[i]
  BY <1>1, ErasedIs DEF SubInv, ConnType
<1>7. DOMAIN outputmap' = 1..Len(outputmap') /\ DOMAIN outputmap = 1..Len(outputmap)
  BY <1>6 DEF SubInv, ConnType
<1>8. ASSUME NEW d \in Conn, d # peer PROVE Listed(d)' <=> Listed(d)
  <2>0. fd'[d] = fd[d]
    BY <1>1, <1>8 DEF SubInv, ConnType
  <2>1. ASSUME Listed(d)' PROVE Listed(d)
    <3>1. PICK i \in 1..Len(outputmap') : outputmap'[i][2] = fd[d]
      BY <1>7, <2>0, <2>1 DEF Listed
    <3>2. PICK j \in 1..Len(outputmap) : outputmap[j] = outputmap'[i]
      BY <1>6
    <3>3. j \in DOMAIN outputmap /\ outputmap[j][2] = fd[d]
      BY <1>7, <3>1, <3>2
    <3> QED BY <3>3 DEF Listed
  <2>2. ASSUME Listed(d) PROVE Listed(d)'
    <3>1. PICK j \in 1..Len(outputmap) : outputmap[j][2] = fd[d]
      BY <1>7, <2>2 DEF Listed
    <3>2. outputmap[j] = <<asked[d].op, fd[d]>> /\ asked[d].op \in Op /\ fd[d] \in Nat
      BY <1>7, <3>1, ListedOp
    <3>3. fd[d] # fd[peer]
      BY <1>5, <1>8, <3>2, Numbers DEF SubInv, DistinctFds
    <3> DEFINE B == Op \X Nat
               S == Op \X (Nat \ {fd[peer]})
    <3>4. outputmap[j] \in S
      BY <3>2, <3>3
    <3>5. outputmap \in Seq(B) /\ outputmap' = Only(outputmap, S)
      BY <1>1 DEF SubInv, ConnType, Erased
    <3> HIDE DEF B, S
    <3>6. \E i \in 1..Len(Only(outputmap, S)) : Only(outputmap, S)[i] = outputmap[j]
      BY <3>4, <3>5, OnlyHas
    <3>7. PICK i \in 1..Len(outputmap') : outputmap'[i] = outputmap[j]
      BY <3>5, <3>6
    <3>8. i \in DOMAIN outputmap' /\ outputmap'[i][2] = fd'[d]
      BY <1>7, <2>0, <3>1, <3>7
    <3> QED BY <3>8 DEF Listed
  <2> QED BY <2>1, <2>2
<1>9. ASSUME NEW d \in Conn PROVE Served(d)'
  <2>1. Served(d) /\ Received(d)' = Received(d) /\ ~Due(d) /\ ~Due(d)'
    BY <1>1, <1>3 DEF ServedInv, Received, Due, WriterLocked
  <2>2. CASE d = peer
    <3>1. cst'[d] = "closed"
      BY <1>1, <1>5, <2>2
    <3> QED BY <1>1, <1>2, <2>1, <3>1, ConnServed
  <2>3. CASE d # peer
    BY <1>1, <1>2, <1>8, <2>1, <2>3, ConnServed
  <2> QED BY <2>2, <2>3
<1> QED BY <1>1, <1>4, <1>9 DEF ServedInv

-----------------------------------------------------------------------------
(* The client writer.                                                      *)

\* The first of different entries, and the others.
LEMMA TailEntries ==
  ASSUME NEW B, NEW s \in Seq(B), s # <<>>, DistinctEntries(s)
  PROVE  /\ Tail(s) \in Seq(B) /\ DistinctEntries(Tail(s)) /\ Head(s) = s[1] /\ 1 \in DOMAIN s
         /\ \A i \in DOMAIN Tail(s) : \E j \in DOMAIN s : s[j] = Tail(s)[i]
         /\ \A i \in DOMAIN Tail(s) : Tail(s)[i][2] # Head(s)[2]
         /\ \A f : f # Head(s)[2] =>
              ((\E i \in DOMAIN s : s[i][2] = f) <=> (\E i \in DOMAIN Tail(s) : Tail(s)[i][2] = f))
<1> DEFINE n == Len(s)
           u == Tail(s)
<1>1. /\ n \in Nat /\ n >= 1 /\ DOMAIN s = 1..n
      /\ u \in Seq(B) /\ DOMAIN u = 1..(n - 1) /\ \A i \in 1..(n - 1) : u[i] = s[i + 1]
  <2>1. n \in Nat /\ n >= 1 /\ DOMAIN s = 1..n
    OBVIOUS
  <2>2. u \in Seq(B) /\ Len(u) = n - 1 /\ \A i \in 1..Len(u) : u[i] = s[i + 1]
    BY HeadTailProperties
  <2> QED BY <2>1, <2>2
<1>2. Head(s) = s[1]
  OBVIOUS
<1> HIDE DEF n, u
<1>3. \A i, j \in 1..n : s[i][2] = s[j][2] => i = j
  BY <1>1 DEF DistinctEntries
<1>4. DistinctEntries(u)
  <2>1. \A i \in 1..(n - 1) : i + 1 \in 1..n
    BY <1>1
  <2>2. ASSUME NEW i \in 1..(n - 1), NEW j \in 1..(n - 1), u[i][2] = u[j][2] PROVE i = j
    <3>1. i + 1 = j + 1
      BY <1>1, <1>3, <2>1, <2>2
    <3> QED BY <1>1, <3>1
  <2> QED BY <1>1, <2>2 DEF DistinctEntries
<1>5. ASSUME NEW i \in 1..(n - 1)
      PROVE  i + 1 \in 1..n /\ s[i + 1] = u[i] /\ u[i][2] # s[1][2]
  <2>1. i + 1 \in 1..n /\ 1 \in 1..n /\ i + 1 # 1
    BY <1>1
  <2> QED BY <1>1, <1>3, <2>1
<1>6. ASSUME NEW f, f # s[1][2]
      PROVE  (\E i \in 1..n : s[i][2] = f) <=> (\E i \in 1..(n - 1) : u[i][2] = f)
  <2>1. ASSUME NEW i \in 1..n, s[i][2] = f PROVE \E h \in 1..(n - 1) : u[h][2] = f
    <3>1. i # 1
      BY <1>6, <2>1
    <3>2. i - 1 \in 1..(n - 1) /\ (i - 1) + 1 = i
      BY <1>1, <3>1
    <3> QED BY <1>1, <2>1, <3>2
  <2> QED BY <1>5, <2>1
<1>7. 1 \in 1..n
  BY <1>1
<1> QED BY <1>1, <1>2, <1>4, <1>5, <1>6, <1>7 DEF u

\* The writer takes nothing and sends nothing.
LEMMA WriterQuietServed ==
  ASSUME ServedInv, Writer, UNCHANGED <<sock, rcvd, wire>>, wpc' \notin {"wrap", "send"},
         wpc \notin {"wrap", "send"} \/ (wpc = "send" /\ wto = <<>>)
  PROVE  ServedInv'
<1>1. UNCHANGED <<plan, buf, fillVars, engineVars, asked, fd, cst, outputmap>>
  BY WriterOthers
<1>2. \A o \in Op : Given(o)' = Given(o) /\ Gone(o)' = Gone(o)
  BY <1>1, StillServed
<1>3. WriterInv'
  BY DEF WriterInv
<1>4. ASSUME NEW d \in Conn PROVE Served(d)'
  <2>1. Served(d) /\ Received(d)' = Received(d) /\ ~Due(d) /\ ~Due(d)'
    BY DEF ServedInv, Received, Due
  <2>2. Listed(d)' <=> Listed(d)
    BY <1>1 DEF Listed
  <2> QED BY <1>1, <1>2, <2>1, <2>2, ConnServed
<1> QED BY <1>3, <1>4 DEF ServedInv

\* The writer takes a result: it is due to all who asked for it.
LEMMA WriterTakesServed ==
  ASSUME IInv, OrderInv, SubInv, MapInv, RingsInv, ServedInv, WriterTakes, HasNext(sock[wop'])
  PROVE  ServedInv'
<1>1. /\ UNCHANGED <<plan, buf, fillVars, engineVars, asked, fd, cst, outputmap>> /\ Writer /\ up
      /\ UNCHANGED <<rcvd, wire>> /\ wpc = "loop" /\ wpc' = "wrap" /\ whand' = sock[wop'].curr
      /\ sock' = [sock EXCEPT ![wop'] = CurrMoved(@)]
  BY WriterOthers DEF WriterTakes, WriterStep, netVars, Writer
<1>2. /\ wop' \in Subscribed /\ Waiting(sock[wop']) > 0 /\ sock[wop'].curr < BufferSize
      /\ RingOK(wop')
  BY WriterTakesRings
<1>3. PICK q \in Op : q = wop'
  BY <1>2, SubscribedOps
<1>4. \A o \in Op : Given(o)' = Given(o) /\ Given(o) \in Seq(Int)
  BY <1>1, StillGiven, GivenType
<1> DEFINE b == sock[q]
           d == CurrMoved(b)
<1>5. /\ b \in Ring /\ b.curr < BufferSize /\ b.curr \in 0..BufferSize
      /\ Waiting(b) \in 0..(BufferSize - 1) /\ Waiting(b) > 0
      /\ Holds(b, Given(q)) /\ sock'[q] = d
  BY <1>1, <1>2, <1>3, RingFacts DEF RingsInv, RingOK
<1>6. /\ d.curr = b.curr + 1 /\ d.slot = b.slot /\ Waiting(d) = Waiting(b) - 1
      /\ b.slot[b.curr] = Given(q)[Len(Given(q)) - Waiting(d)]
  <2> HIDE DEF b
  <2> QED BY <1>4, <1>5, TakeFirst
<1> HIDE DEF b, d
<1>7. Gone(q)' = Len(Given(q)) - Waiting(d)
  BY <1>4, <1>5 DEF Gone, Waiting
<1>8. Gone(q)' = Gone(q) + 1 /\ Gone(q)' >= 1 /\ Gone(q) \in Int
  <2>1. Len(Given(q)) \in Nat /\ Waiting(b) <= Len(Given(q)) /\ Waiting(b) \in Nat
    BY <1>4, <1>5, SizeAssumption DEF Holds
  <2>2. Gone(q) = Len(Given(q)) - Waiting(b)
    BY DEF Gone, b
  <2> QED BY <1>6, <1>7, <2>1, <2>2
<1>9. \A o \in Op \ {q} : Gone(o)' = Gone(o)
  <2> SUFFICES ASSUME NEW o \in Op \ {q} PROVE Gone(o)' = Gone(o)
    OBVIOUS
  <2>1. sock'[o] = sock[o]
    BY <1>1, <1>3 DEF RingsInv
  <2> QED BY <1>4, <2>1 DEF Gone, Waiting
<1>10. WriterInv'
  <2>1. Subscribed' = Subscribed
    BY <1>1 DEF Subscribed
  <2>2. whand' = b.curr /\ b.curr \in Slot /\ BufferSize > 1
    BY <1>1, <1>3, <1>5, SizeAssumption DEF b, Slot
  <2>3. /\ (whand' + 1) % BufferSize = sock'[q].curr % BufferSize
        /\ Gone(q)' >= 1 /\ sock'[q].slot[whand'] = Given(q)'[Gone(q)']
    BY <1>4, <1>5, <1>6, <1>7, <1>8, <2>2
  <2> QED BY <1>1, <1>2, <1>3, <2>1, <2>2, <2>3 DEF WriterInv
<1>11. ASSUME NEW c \in Conn PROVE Served(c)'
  <2>1. /\ Served(c) /\ Received(c)' = Received(c) /\ ~Due(c) /\ asked' = asked
        /\ (Due(c)' <=> asked[c].op = q) /\ (Listed(c)' <=> Listed(c)) /\ cst' = cst
    BY <1>1, <1>3 DEF ServedInv, Received, Due, Listed
  <2>2. ASSUME NEW o \in Op, asked[c].op = o
        PROVE  /\ \E p \in Nat : EndsAt(Received(c), Given(o), p)
               /\ cst[c] = "asked" /\ Listed(c) /\ Received(c) # <<>> =>
                    EndsAt(Received(c), Given(o), Gone(o)' - IF o = q THEN 1 ELSE 0)
    <3>1. /\ \E p \in Nat : EndsAt(Received(c), Given(o), p)
          /\ cst[c] = "asked" /\ Listed(c) /\ Received(c) # <<>> =>
               EndsAt(Received(c), Given(o), Gone(o) - 0)
      BY <2>1, <2>2 DEF Served
    <3>2. Gone(o) - 0 = Gone(o)' - IF o = q THEN 1 ELSE 0
      <4>1. Gone(o) \in Int
        <5>1. Waiting(sock[o]) \in Nat /\ Len(Given(o)) \in Nat
          BY <1>4, RingFacts, SizeAssumption
        <5> QED BY <5>1 DEF Gone
      <4> QED BY <1>8, <1>9, <4>1
    <3> QED BY <3>1, <3>2
  <2>3. ASSUME NEW o \in Op, asked'[c].op = o
        PROVE  /\ \E p \in Nat : EndsAt(Received(c)', Given(o)', p)
               /\ cst'[c] = "asked" /\ Listed(c)' /\ Received(c)' # <<>> =>
                    EndsAt(Received(c)', Given(o)', Gone(o)' - IF Due(c)' THEN 1 ELSE 0)
    <3>1. asked[c].op = o /\ (Due(c)' <=> o = q)
      BY <2>1, <2>3
    <3> QED BY <1>4, <2>1, <2>2, <3>1
  <2>4. /\ BufferSize = 1 => Received(c)' = <<>>
        /\ cst'[c] \in {"none", "connected", "asked"} /\ ~Listed(c)' => Received(c)' = <<>>
    BY <2>1 DEF Served
  <2> QED BY <2>3, <2>4 DEF Served
<1> QED BY <1>1, <1>10, <1>11 DEF ServedInv

\* The writer knows whom to send it to.
LEMMA WriterWrapsServed ==
  ASSUME SubInv, MapInv, RingsInv, ServedInv, WriterWraps
  PROVE  ServedInv'
<1>1. /\ UNCHANGED <<plan, buf, fillVars, engineVars, asked, fd, cst, outputmap>>
      /\ UNCHANGED <<rcvd, wire, wop, whand>> /\ wpc = "wrap" /\ wpc' = "send" /\ up
      /\ sock' = [sock EXCEPT ![wop] = CurrWrapped(@)] /\ wto' = Clients(wop)
  BY WriterOthers DEF WriterWraps, WriterStep, netVars, Writer, Recipients
<1>2. PICK q \in Op : q = wop /\ q \in Subscribed
  BY <1>1, SubscribedOps DEF ServedInv, WriterInv
<1> DEFINE b == sock[q]
           d == CurrWrapped(b)
<1>3. b \in Ring /\ sock'[q] = d /\ \A o \in Op \ {q} : sock'[o] = sock[o]
  BY <1>1, <1>2 DEF RingsInv
<1>4. d.slot = b.slot /\ d.curr % BufferSize = b.curr % BufferSize /\ Waiting(d) = Waiting(b)
  <2> HIDE DEF b
  <2> QED BY <1>3, CurrWrapKeeps
<1> HIDE DEF d
<1>5. \A o \in Op : Given(o)' = Given(o)
  BY <1>1, StillGiven
<1>6. ASSUME NEW o \in Op PROVE Gone(o)' = Gone(o)
  <2>1. Waiting(sock[o])' = Waiting(sock[o])
    BY <1>3, <1>4 DEF Waiting
  <2> QED BY <1>5, <2>1 DEF Gone
<1>7. /\ Clients(q) \in Seq({q} \X Nat)
      /\ \A i \in DOMAIN Clients(q) : \E j \in DOMAIN outputmap : outputmap[j] = Clients(q)[i]
      /\ \A j \in DOMAIN outputmap : outputmap[j][1] = q =>
           \E i \in DOMAIN Clients(q) : Clients(q)[i] = outputmap[j]
      /\ DistinctEntries(Clients(q))
  BY <1>1, ClientsIs DEF SubInv, ConnType, MapInv, ListInv
<1>8. WriterInv'
  <2>1. Subscribed' = Subscribed
    BY <1>1 DEF Subscribed
  <2>2. /\ whand \in Slot /\ BufferSize > 1 /\ (whand + 1) % BufferSize = b.curr % BufferSize
        /\ Gone(q) >= 1 /\ b.slot[whand] = Given(q)[Gone(q)]
    BY <1>1, <1>2 DEF ServedInv, WriterInv
  <2>3. /\ (whand' + 1) % BufferSize = sock'[q].curr % BufferSize
        /\ Gone(q)' >= 1 /\ sock'[q].slot[whand'] = Given(q)'[Gone(q)']
    BY <1>1, <1>3, <1>4, <1>5, <1>6, <2>2
  <2>4. /\ wto' \in Seq({wop'} \X Nat) /\ DistinctEntries(wto')
        /\ \A i \in DOMAIN wto' : \E j \in DOMAIN outputmap' : outputmap'[j] = wto'[i]
    BY <1>1, <1>2, <1>7
  <2>5. wop' \in Subscribed' /\ whand' \in Slot /\ \A o \in Op : wop' = o => o = q
    BY <1>1, <1>2, <2>1, <2>2
  <2> QED BY <2>2, <2>3, <2>4, <2>5 DEF WriterInv
<1>9. ASSUME NEW c \in Conn PROVE Served(c)'
  <2>1. Served(c) /\ Received(c)' = Received(c) /\ (Listed(c)' <=> Listed(c))
    BY <1>1 DEF ServedInv, Received, Listed
  <2>2. Listed(c) => (Due(c)' <=> Due(c))
    <3> SUFFICES ASSUME Listed(c) PROVE Due(c)' <=> Due(c)
      OBVIOUS
    <3>1. PICK j \in DOMAIN outputmap : outputmap[j][2] = fd[c]
      BY DEF Listed
    <3>2. outputmap[j] = <<asked[c].op, fd[c]>>
      BY <3>1, ListedOp
    <3>3. asked[c].op = q => \E i \in DOMAIN wto' : wto'[i][2] = fd'[c]
      <4> SUFFICES ASSUME asked[c].op = q PROVE \E i \in DOMAIN wto' : wto'[i][2] = fd'[c]
        OBVIOUS
      <4>1. PICK i \in DOMAIN Clients(q) : Clients(q)[i] = outputmap[j]
        BY <1>7, <3>2
      <4> QED BY <1>1, <1>2, <3>2, <4>1
    <3>4. Due(c) <=> asked[c].op = q
      BY <1>1, <1>2 DEF Due
    <3>5. Due(c)' <=> asked[c].op = q
      BY <1>1, <1>2, <3>3 DEF Due
    <3> QED BY <3>4, <3>5
  <2> QED BY <1>1, <1>5, <1>6, <2>1, <2>2, ConnServed
<1> QED BY <1>1, <1>8, <1>9 DEF ServedInv

\* The writer has sent the first of those to whom a result is due.
LEMMA SentServed ==
  ASSUME IInv, OrderInv, SubInv, RingsInv, ServedInv, Writer, up, wpc = "send", wpc' = "send",
         wto # <<>>, UNCHANGED <<sock, wop, whand, rcvd>>, wto' = Tail(wto),
         wire' \in [Conn -> Seq(Int)],
         \A c \in Conn : cst[c] = "asked" /\ Listed(c) /\ fd[c] = Head(wto)[2] => Served(c)',
         \A c \in Conn : wire'[c] = wire[c] \/ Served(c)'
  PROVE  ServedInv'
<1>1. UNCHANGED <<plan, buf, fillVars, engineVars, asked, fd, cst, outputmap>>
  BY WriterOthers
<1>2. \A o \in Op : Given(o)' = Given(o) /\ Gone(o)' = Gone(o)
  BY <1>1, StillServed
<1>3. /\ wto \in Seq({wop} \X Nat) /\ DistinctEntries(wto)
      /\ \A i \in DOMAIN wto : \E j \in DOMAIN outputmap : outputmap[j] = wto[i]
  BY DEF ServedInv, WriterInv
<1>4. /\ wto' \in Seq({wop} \X Nat) /\ DistinctEntries(wto')
      /\ \A i \in DOMAIN wto' : \E j \in DOMAIN wto : wto[j] = wto'[i]
      /\ \A f : f # Head(wto)[2] =>
           ((\E i \in DOMAIN wto : wto[i][2] = f) <=> (\E i \in DOMAIN wto' : wto'[i][2] = f))
  <2> DEFINE B == {wop} \X Nat
             u == Tail(wto)
  <2>1. wto \in Seq(B)
    BY <1>3
  <2> HIDE DEF B, u
  <2>2. /\ u \in Seq(B) /\ DistinctEntries(u)
        /\ \A i \in DOMAIN u : \E j \in DOMAIN wto : wto[j] = u[i]
        /\ \A f : f # Head(wto)[2] =>
             ((\E i \in DOMAIN wto : wto[i][2] = f) <=> (\E i \in DOMAIN u : u[i][2] = f))
    BY <1>3, <2>1, TailEntries DEF u
  <2>3. wto' = u
    BY DEF u
  <2> QED BY <2>2, <2>3 DEF B
<1>5. WriterInv'
  <2>1. Subscribed' = Subscribed
    BY <1>1 DEF Subscribed
  <2>2. wpc' \in {"wrap", "send"} =>
           /\ wop' \in Subscribed' /\ whand' \in Slot /\ BufferSize > 1
           /\ \A o \in Op : wop' = o =>
                /\ (whand' + 1) % BufferSize = sock'[o].curr % BufferSize
                /\ Gone(o)' >= 1 /\ sock'[o].slot[whand'] = Given(o)'[Gone(o)']
    BY <1>2, <2>1 DEF ServedInv, WriterInv
  <2>3. \A i \in DOMAIN wto' : \E j \in DOMAIN outputmap' : outputmap'[j] = wto'[i]
    <3> SUFFICES ASSUME NEW i \in DOMAIN wto'
                 PROVE  \E j \in DOMAIN outputmap' : outputmap'[j] = wto'[i]
      OBVIOUS
    <3>1. PICK h \in DOMAIN wto : wto[h] = wto'[i]
      BY <1>4
    <3>2. PICK j \in DOMAIN outputmap : outputmap[j] = wto[h]
      BY <1>3
    <3> QED BY <1>1, <3>1, <3>2
  <2> QED BY <1>4, <2>2, <2>3 DEF WriterInv
<1>6. ASSUME NEW c \in Conn PROVE Served(c)'
  <2>1. Served(c) /\ (Listed(c)' <=> Listed(c)) /\ cst' = cst
    BY <1>1 DEF ServedInv, Listed
  <2>2. CASE Served(c)'
    BY <2>2
  <2>3. CASE ~Served(c)'
    <3>1. Received(c)' = Received(c)
      BY <2>3 DEF Received
    <3>2. ASSUME cst[c] = "asked", Listed(c) PROVE Due(c)' <=> Due(c)
      <4>1. fd[c] # Head(wto)[2]
        BY <2>3, <3>2
      <4> QED BY <1>1, <1>4, <4>1 DEF Due
    <3> QED BY <1>1, <1>2, <2>1, <3>1, <3>2, ConnServed
  <2> QED BY <2>2, <2>3
<1> QED BY <1>5, <1>6 DEF ServedInv

\* A result is sent: it is the one after the last that the receiver has been sent.
LEMMA SendServed ==
  ASSUME IInv, OrderInv, SubInv, RingsInv, ServedInv, Send
  PROVE  ServedInv'
<1>1. PICK c \in At(Head(wto)[2]) :
        /\ cst[c] # "gone"
        /\ wire' = [wire EXCEPT ![c] = Append(@, sock[wop].slot[whand])]
  BY DEF Send
<1>2. /\ up /\ wpc = "send" /\ wpc' = "send" /\ wto # <<>> /\ wto' = Tail(wto) /\ Writer
      /\ UNCHANGED <<sock, wop, whand, rcvd>>
  BY DEF Send, SentOne, WriterStep, Writer
<1>3. UNCHANGED <<plan, buf, fillVars, engineVars, asked, fd, cst, outputmap>>
  BY <1>2, WriterOthers
<1>4. \A o \in Op : Given(o)' = Given(o) /\ Gone(o)' = Gone(o) /\ Given(o) \in Seq(Int)
  BY <1>2, <1>3, StillServed, GivenType
<1>5. c \in Conn /\ fd[c] = Head(wto)[2] /\ cst[c] # "closed"
  BY <1>1 DEF At
<1>6. /\ wto \in Seq({wop} \X Nat) /\ DistinctEntries(wto)
      /\ \A i \in DOMAIN wto : \E j \in DOMAIN outputmap : outputmap[j] = wto[i]
      /\ wop \in Subscribed /\ whand \in Slot /\ BufferSize > 1
  BY <1>2 DEF ServedInv, WriterInv
<1>7. /\ 1 \in DOMAIN wto /\ wto[1] = Head(wto) /\ wto[1][1] = wop
      /\ \A i \in DOMAIN wto' : wto'[i][2] # Head(wto)[2]
  <2>1. /\ 1 \in DOMAIN wto /\ Head(wto) = wto[1]
        /\ \A i \in DOMAIN Tail(wto) : Tail(wto)[i][2] # Head(wto)[2]
    BY <1>2, <1>6, TailEntries
  <2>2. wto[1] \in {wop} \X Nat
    BY <1>6, <2>1
  <2> QED BY <1>2, <2>1, <2>2
<1>8. PICK j \in DOMAIN outputmap : outputmap[j] = wto[1]
  BY <1>6, <1>7
<1>9. asked[c].op = wop /\ wop \in Op /\ Listed(c)
  <2>1. outputmap[j][2] = fd[c]
    BY <1>5, <1>7, <1>8
  <2>2. outputmap[j] = <<asked[c].op, fd[c]>> /\ asked[c].op \in Op /\ Listed(c)
    BY <1>5, <2>1, ListedOp
  <2> QED BY <1>7, <1>8, <2>2
<1>10. PICK q \in Op : q = wop
  BY <1>9
<1>11. cst[c] = "asked"
  <2>1. ConnState(c) /\ cst[c] \in {"none", "connected", "asked", "gone", "closed"}
    BY <1>5 DEF SubInv, ConnType
  <2> QED BY <1>1, <1>5, <1>9, <2>1, Numbers DEF ConnState
<1> DEFINE s == Received(c)
           t == Given(q)
           p == Gone(q)
           x == sock[wop].slot[whand]
<1>12. /\ p >= 1 /\ x = t[p] /\ t \in Seq(Int) /\ p \in Int /\ p <= Len(t)
  <2>1. Gone(q) >= 1 /\ sock[q].slot[whand] = Given(q)[Gone(q)]
    BY <1>2, <1>10 DEF ServedInv, WriterInv
  <2>2. Waiting(sock[q]) \in Nat /\ Len(Given(q)) \in Nat
    BY <1>4, RingFacts, SizeAssumption
  <2>3. Gone(q) \in Int /\ Gone(q) <= Len(Given(q))
    BY <2>2 DEF Gone
  <2> QED BY <1>4, <1>10, <2>1, <2>3
<1>13. rcvd[c] \in Seq(Int) /\ wire[c] \in Seq(Int) /\ wire \in [Conn -> Seq(Int)]
  BY <1>5 DEF ServedInv
<1>14. s \in Seq(Int) /\ Received(c)' = Append(s, t[p])
  <2>1. x \in Int
    BY <1>12
  <2>2. wire'[c] = Append(wire[c], x) /\ rcvd' = rcvd
    BY <1>1, <1>2, <1>5, <1>13
  <2> HIDE DEF x
  <2>3. rcvd[c] \o Append(wire[c], x) = Append(rcvd[c] \o wire[c], x) /\ rcvd[c] \o wire[c] \in Seq(Int)
    BY <1>13, <2>1, SendAdds
  <2> QED BY <1>12, <2>2, <2>3 DEF Received
<1>15. s # <<>> => EndsAt(s, t, p - 1)
  <2>1. Due(c)
    BY <1>2, <1>5, <1>7, <1>9 DEF Due
  <2>2. Served(c) /\ asked[c].op = q
    BY <1>5, <1>9, <1>10 DEF ServedInv
  <2> QED BY <1>9, <1>11, <2>1, <2>2 DEF Served
<1>16. EndsAt(Received(c)', t, p)
  <2> HIDE DEF s, t, p
  <2>1. EndsAt(Append(s, t[p]), t, p)
    BY <1>12, <1>14, <1>15, EndsNext
  <2> QED BY <1>14, <2>1
<1>17. Served(c)'
  <2>1. ~Due(c)' /\ Listed(c)'
    BY <1>2, <1>3, <1>5, <1>7, <1>9 DEF Due, Listed
  <2>2. p - 0 = p /\ p \in Nat
    BY <1>12
  <2>3. ASSUME NEW o \in Op, asked'[c].op = o
        PROVE  /\ \E h \in Nat : EndsAt(Received(c)', Given(o)', h)
               /\ EndsAt(Received(c)', Given(o)', Gone(o)' - IF Due(c)' THEN 1 ELSE 0)
    <3>1. o = q
      BY <1>3, <1>9, <1>10, <2>3
    <3>2. Given(o)' = t /\ Gone(o)' = p
      BY <1>4, <3>1
    <3> QED BY <1>16, <2>1, <2>2, <3>2
  <2> QED BY <1>6, <2>1, <2>3 DEF Served
<1>18. /\ wire' \in [Conn -> Seq(Int)] /\ \A d \in Conn : d # c => wire'[d] = wire[d]
  <2>1. x \in Int
    BY <1>12
  <2> HIDE DEF x
  <2>2. wire' = [wire EXCEPT ![c] = Append(@, x)]
    BY <1>1 DEF x
  <2>3. Append(wire[c], x) \in Seq(Int)
    BY <1>13, <2>1
  <2> QED BY <1>13, <2>2, <2>3
<1>19. ASSUME NEW d \in Conn, cst[d] = "asked", Listed(d), fd[d] = Head(wto)[2] PROVE Served(d)'
  <2>1. PICK i \in DOMAIN outputmap : outputmap[i][2] = fd[d]
    BY <1>19 DEF Listed
  <2>2. fd[d] \in Nat
    BY <2>1, ListedOp
  <2>3. d = c
    BY <1>5, <1>19, <2>2, Numbers DEF SubInv, DistinctFds
  <2> QED BY <1>17, <2>3
<1>20. \A d \in Conn : wire'[d] = wire[d] \/ Served(d)'
  BY <1>17, <1>18
<1> QED BY <1>2, <1>18, <1>19, <1>20, SentServed

\* A result for a subscriber that has left is lost.
LEMMA SendLostServed ==
  ASSUME IInv, OrderInv, SubInv, RingsInv, ServedInv, SendLost
  PROVE  ServedInv'
<1>1. /\ up /\ wpc = "send" /\ wpc' = "send" /\ wto # <<>> /\ wto' = Tail(wto) /\ Writer
      /\ UNCHANGED <<sock, wop, whand, rcvd, wire>>
      /\ \A c \in At(Head(wto)[2]) : cst[c] = "gone"
  BY DEF SendLost, SentOne, WriterStep, Writer, netVars
<1>2. \A c \in Conn : ~(cst[c] = "asked" /\ fd[c] = Head(wto)[2])
  BY <1>1 DEF At
<1>3. wire' \in [Conn -> Seq(Int)] /\ \A c \in Conn : wire'[c] = wire[c]
  BY <1>1 DEF ServedInv
<1> QED BY <1>1, <1>2, <1>3, SentServed

\* Every step of the writer.
LEMMA WriterServed ==
  ASSUME IInv, OrderInv, SubInv, MapInv, RingsInv, ServedInv, Writer, up'
  PROVE  ServedInv'
<1>1. CASE HasNewData \/ WriterLocksOut \/ WriterLocksOps \/ SentAll \/ WriterUnlocks
  <2>1. /\ UNCHANGED <<sock, rcvd, wire>> /\ wpc' \notin {"wrap", "send"}
        /\ wpc \notin {"wrap", "send"} \/ (wpc = "send" /\ wto = <<>>)
    BY <1>1 DEF HasNewData, WriterLocksOut, WriterLocksOps, SentAll, WriterUnlocks, WriterStep, netVars
  <2> QED BY <2>1, WriterQuietServed
<1>2. CASE WriterTakes
  <2>1. CASE HasNext(sock[wop'])
    BY <1>2, <2>1, WriterTakesServed
  <2>2. CASE ~HasNext(sock[wop'])
    <3>1. UNCHANGED <<sock, rcvd, wire>> /\ wpc' \notin {"wrap", "send"} /\ wpc \notin {"wrap", "send"}
      BY <1>2, <2>2 DEF WriterTakes, WriterStep, netVars
    <3> QED BY <3>1, WriterQuietServed
  <2> QED BY <2>1, <2>2
<1>3. CASE SendKills
  BY <1>3 DEF SendKills, Crash
<1> QED BY <1>1, <1>2, <1>3, WriterWrapsServed, SendServed, SendLostServed DEF Writer

-----------------------------------------------------------------------------
(* The subscribers, and every step.                                        *)

\* A client connects, ...
LEMMA ConnectServed ==
  ASSUME SubInv, ServedInv, NEW c \in Conn, Connect(c)
  PROVE  ServedInv'
<1>1. /\ UNCHANGED <<plan, buf, fillVars, engineVars, sock, rcvd, wire, fd, asked, outputmap,
                     wpc, wop, whand, wto>>
      /\ cst[c] = "none" /\ cst' = [cst EXCEPT ![c] = "connected"]
  BY DEF Connect, SubscriberStep, writerVars, sockVars, mapVars, netVars
<1>2. \A o \in Op : Given(o)' = Given(o) /\ Gone(o)' = Gone(o)
  BY <1>1, StillServed
<1>3. WriterInv'
  BY <1>1, <1>2, WriterKeeps DEF ServedInv
<1>4. ASSUME NEW d \in Conn PROVE Served(d)'
  <2>1. Served(d) /\ Received(d)' = Received(d)
    BY <1>1 DEF ServedInv, Received
  <2>2. (Listed(d)' <=> Listed(d)) /\ (Due(d)' <=> Due(d))
    BY <1>1 DEF Listed, Due
  <2>3. cst'[d] = cst[d] \/ (cst'[d] = "connected" /\ cst[d] = "none")
    BY <1>1 DEF SubInv, ConnType
  <2> QED BY <1>1, <1>2, <2>1, <2>2, <2>3, ConnServed
<1> QED BY <1>1, <1>3, <1>4 DEF ServedInv

\* Who asks has nothing yet.
LEMMA AskServed ==
  ASSUME IInv, OrderInv, SubInv, ServedInv, up, NEW c \in Conn, Ask(c)
  PROVE  ServedInv'
<1>1. /\ UNCHANGED <<plan, buf, fillVars, engineVars, sock, rcvd, wire, fd, outputmap,
                     wpc, wop, whand, wto>>
      /\ cst[c] = "connected" /\ cst' = [cst EXCEPT ![c] = "asked"]
      /\ \E v : asked' = [asked EXCEPT ![c] = v]
  BY DEF Ask, SubscriberStep, writerVars, sockVars, mapVars, netVars
<1>2. \A o \in Op : Given(o)' = Given(o) /\ Gone(o)' = Gone(o) /\ Given(o) \in Seq(Int)
  BY <1>1, StillServed, GivenType
<1>3. WriterInv'
  BY <1>1, <1>2, WriterKeeps DEF ServedInv
<1>4. ~Listed(c) /\ ~Listed(c)'
  <2>1. asked[c].op = NULL
    BY <1>1 DEF SubInv, ConnState
  <2>2. ~Listed(c)
    BY <2>1, ListedOp, Numbers DEF Listed
  <2> QED BY <1>1, <2>2 DEF Listed
<1>5. ASSUME NEW d \in Conn PROVE Served(d)'
  <2>1. Served(d) /\ Received(d)' = Received(d) /\ (Listed(d)' <=> Listed(d))
    BY <1>1 DEF ServedInv, Received, Listed
  <2>2. CASE d = c
    <3>1. Received(d)' = <<>>
      BY <1>1, <1>4, <2>1, <2>2 DEF Served
    <3>2. \A o \in Op : \E p \in Nat : EndsAt(Received(d)', Given(o)', p)
      BY <1>2, <3>1, NothingEnds
    <3> QED BY <3>1, <3>2 DEF Served
  <2>3. CASE d # c
    <3>1. asked'[d] = asked[d] /\ cst'[d] = cst[d]
      BY <1>1, <2>3 DEF SubInv, ConnType
    <3>2. Due(d)' <=> Due(d)
      BY <1>1, <3>1 DEF Due
    <3> QED BY <1>2, <2>1, <3>1, <3>2, ConnServed
  <2> QED BY <2>2, <2>3
<1> QED BY <1>1, <1>3, <1>5 DEF ServedInv

\* ... reads what has been sent to it, ...
LEMMA ReadServed ==
  ASSUME SubInv, ServedInv, NEW c \in Conn, Read(c)
  PROVE  ServedInv'
<1>1. /\ UNCHANGED <<plan, buf, fillVars, engineVars, sock, fd, asked, outputmap,
                     wpc, wop, whand, wto>>
      /\ cst[c] = "asked" /\ cst' = [cst EXCEPT ![c] = "asked"] /\ wire[c] # <<>>
      /\ rcvd' = [rcvd EXCEPT ![c] = Append(@, Head(wire[c]))]
      /\ wire' = [wire EXCEPT ![c] = Tail(@)]
  BY DEF Read, SubscriberStep, writerVars, sockVars, mapVars
<1>2. \A o \in Op : Given(o)' = Given(o) /\ Gone(o)' = Gone(o)
  BY <1>1, StillServed
<1>3. WriterInv'
  BY <1>1, <1>2, WriterKeeps DEF ServedInv
<1>4. /\ rcvd \in [Conn -> Seq(Int)] /\ wire \in [Conn -> Seq(Int)]
      /\ rcvd[c] \in Seq(Int) /\ wire[c] \in Seq(Int)
  BY DEF ServedInv
<1>5. /\ Append(rcvd[c], Head(wire[c])) \o Tail(wire[c]) = rcvd[c] \o wire[c]
      /\ Append(rcvd[c], Head(wire[c])) \in Seq(Int) /\ Tail(wire[c]) \in Seq(Int)
  BY <1>1, <1>4, ReadKeeps
<1> DEFINE a == Append(rcvd[c], Head(wire[c]))
           b == Tail(wire[c])
<1>6. /\ rcvd' = [rcvd EXCEPT ![c] = a] /\ wire' = [wire EXCEPT ![c] = b]
      /\ a \in Seq(Int) /\ b \in Seq(Int) /\ a \o b = rcvd[c] \o wire[c]
  BY <1>1, <1>5
<1> HIDE DEF a, b
<1>7. rcvd' \in [Conn -> Seq(Int)] /\ wire' \in [Conn -> Seq(Int)]
  BY <1>4, <1>6
<1>8. \A d \in Conn : Received(d)' = Received(d)
  BY <1>4, <1>6 DEF Received
<1>9. ASSUME NEW d \in Conn PROVE Served(d)'
  <2>1. Served(d) /\ Received(d)' = Received(d)
    BY <1>8 DEF ServedInv
  <2>2. (Listed(d)' <=> Listed(d)) /\ (Due(d)' <=> Due(d)) /\ cst'[d] = cst[d]
    BY <1>1 DEF Listed, Due, SubInv, ConnType
  <2> QED BY <1>1, <1>2, <2>1, <2>2, ConnServed
<1> QED BY <1>3, <1>7, <1>9 DEF ServedInv

\* Who leaves loses what is still on the way.
LEMMA LeaveServed ==
  ASSUME IInv, OrderInv, SubInv, ServedInv, up, NEW c \in Conn, Leave(c)
  PROVE  ServedInv'
<1>1. /\ UNCHANGED <<plan, buf, fillVars, engineVars, sock, rcvd, fd, asked, outputmap,
                     wpc, wop, whand, wto>>
      /\ cst' = [cst EXCEPT ![c] = "gone"] /\ wire' = [wire EXCEPT ![c] = <<>>]
  BY DEF Leave, SubscriberStep, writerVars, sockVars, mapVars
<1>2. \A o \in Op : Given(o)' = Given(o) /\ Gone(o)' = Gone(o) /\ Given(o) \in Seq(Int)
  BY <1>1, StillServed, GivenType
<1>3. WriterInv'
  BY <1>1, <1>2, WriterKeeps DEF ServedInv
<1>4. /\ rcvd \in [Conn -> Seq(Int)] /\ wire \in [Conn -> Seq(Int)]
      /\ rcvd[c] \in Seq(Int) /\ wire[c] \in Seq(Int)
  BY DEF ServedInv
<1>5. rcvd' \in [Conn -> Seq(Int)] /\ wire' \in [Conn -> Seq(Int)]
  <2>1. <<>> \in Seq(Int)
    OBVIOUS
  <2> QED BY <1>1, <1>4, <2>1
<1>6. Received(c)' = rcvd[c]
  <2>1. rcvd[c] \o <<>> = rcvd[c]
    BY <1>4, ConcatEmptySeq
  <2> QED BY <1>1, <1>4, <2>1 DEF Received
<1>7. ASSUME NEW d \in Conn PROVE Served(d)'
  <2>1. Served(d) /\ (Listed(d)' <=> Listed(d)) /\ (Due(d)' <=> Due(d))
    BY <1>1 DEF ServedInv, Listed, Due
  <2>2. CASE d = c
    <3>1. cst'[d] = "gone"
      BY <1>1, <2>2 DEF SubInv, ConnType
    <3>2. BufferSize = 1 => Received(d)' = <<>>
      <4> SUFFICES ASSUME BufferSize = 1 PROVE Received(d)' = <<>>
        OBVIOUS
      <4>1. rcvd[c] \o wire[c] = <<>>
        BY <2>1, <2>2 DEF Served, Received
      <4>2. rcvd[c] = <<>>
        BY <1>4, <4>1, NothingIs
      <4> QED BY <1>6, <2>2, <4>2
    <3>3. ASSUME NEW o \in Op, asked'[d].op = o PROVE \E p \in Nat : EndsAt(Received(d)', Given(o)', p)
      <4>1. PICK p \in Nat : EndsAt(rcvd[c] \o wire[c], Given(o), p)
        BY <1>1, <2>1, <2>2, <3>3 DEF Served, Received
      <4>2. \E h \in Nat : EndsAt(rcvd[c], Given(o), h)
        BY <1>2, <1>4, <4>1, EndsPart
      <4> QED BY <1>2, <1>6, <2>2, <4>2
    <3> QED BY <3>1, <3>2, <3>3 DEF Served
  <2>3. CASE d # c
    <3>1. Received(d)' = Received(d) /\ cst'[d] = cst[d]
      BY <1>1, <1>4, <2>3 DEF Received, SubInv, ConnType
    <3> QED BY <1>1, <1>2, <2>1, <3>1, ConnServed
  <2> QED BY <2>2, <2>3
<1> QED BY <1>3, <1>5, <1>7 DEF ServedInv

\* Nothing has been sent at first.
LEMMA InitServed == Init => ServedInv
<1> SUFFICES ASSUME Init PROVE ServedInv
  OBVIOUS
<1>1. /\ wire = [c \in Conn |-> <<>>] /\ rcvd = [c \in Conn |-> <<>>] /\ wpc = "poll"
      /\ asked = [c \in Conn |-> [op |-> NULL, unread |-> FALSE]]
  BY DEF Init
<1>2. <<>> \in Seq(Int) /\ <<>> \o <<>> = <<>>
  OBVIOUS
<1>3. WriterInv
  BY <1>1 DEF WriterInv
<1>4. ASSUME NEW c \in Conn PROVE Served(c)
  <2>1. Received(c) = <<>>
    BY <1>1, <1>2 DEF Received
  <2>2. \A o \in Op : asked[c].op # o
    BY <1>1, Numbers
  <2> QED BY <2>1, <2>2 DEF Served
<1>5. rcvd \in [Conn -> Seq(Int)] /\ wire \in [Conn -> Seq(Int)]
  BY <1>1, <1>2
<1> QED BY <1>3, <1>4, <1>5 DEF ServedInv

\* Every step.
LEMMA ServedStep ==
  ASSUME IInv, OrderInv, SubInv, MapInv, RingsInv, ServedInv, up, [Next]_vars, up'
  PROVE  ServedInv'
<1>1. CASE Filler
  BY <1>1, FillerServed
<1>2. CASE Engine
  BY <1>2, EngineServed
<1>3. CASE Server
  <2>1. CASE SetCrashes \/ CloseCrashes
    BY <2>1 DEF SetCrashes, CloseCrashes, Crash
  <2>2. CASE \/ \E c \in Conn : RecvRequest(c)
             \/ SubscribeLock \/ SetFlag \/ SetBuffer \/ CloseFlag \/ CleanUnlock
    BY <2>2, ServerServed
  <2>3. CASE ResetCurr \/ ResetEnd
    BY <2>3, ResetServed
  <2> QED BY <1>3, <2>1, <2>2, <2>3, AcceptServed, HangUpServed, InsertServed, CleanServed DEF Server
<1>4. CASE Writer
  BY <1>4, WriterServed
<1>5. CASE \E c \in Conn : Connect(c) \/ Ask(c) \/ Read(c) \/ Leave(c)
  BY <1>5, ConnectServed, AskServed, ReadServed, LeaveServed
<1>6. CASE UNCHANGED vars
  <2>1. /\ UNCHANGED <<plan, buf, fillVars, engineVars, sock, rcvd, wire, fd, asked, cst, outputmap,
                       wpc, wop, whand, wto>>
    BY <1>6 DEF vars, sockVars, mapVars, connVars, netVars, writerVars
  <2>2. \A o \in Op : Given(o)' = Given(o) /\ Gone(o)' = Gone(o)
    BY <2>1, StillServed
  <2>3. WriterInv'
    BY <2>1, <2>2, WriterKeeps DEF ServedInv
  <2>4. ASSUME NEW d \in Conn PROVE Served(d)'
    <3>1. Served(d) /\ Received(d)' = Received(d) /\ (Listed(d)' <=> Listed(d)) /\ (Due(d)' <=> Due(d))
      BY <2>1 DEF ServedInv, Received, Listed, Due
    <3> QED BY <2>1, <2>2, <3>1, ConnServed
  <2> QED BY <2>1, <2>3, <2>4 DEF ServedInv
<1> QED BY <1>1, <1>2, <1>3, <1>4, <1>5, <1>6 DEF Next

\* Nothing happens once the node is down, and a reset at the wrong time is not undone.
LEMMA DownStays ==
  ASSUME [Next]_vars
  PROVE  /\ up' => up
         /\ ~raced' /\ raced \in BOOLEAN => ~raced
         /\ ~up' => UNCHANGED <<plan, filled, asked, rcvd, wire, raced>>
<1>1. CASE Filler
  BY <1>1 DEF Filler, EndWraps, ReadLine, FileEnds, Recv, RecvEnds, Assemble, Overrun, KeepRest,
     Crash, FillerAdds, fillVars, sockVars, connVars, netVars
<1>2. CASE Engine
  BY <1>2 DEF Engine, OpenRoot, AddOperator, EngineHasNext, MayTake, ReturnsNothing, EngineCrashes,
     Take, TakeWraps, NotOffered, Offered, OfferCrashes, SockCopy, SockLoad, SockStore, SockWraps,
     RootDone, FilterChild, EngineStep, fillVars, sockVars, connVars, netVars
<1>3. CASE Server
  BY <1>3 DEF Server, Accept, RecvRequest, HangUp, SubscribeLock, SetFlag, SetCrashes, SetBuffer,
     Insert, CleanLock, CloseFlag, CloseCrashes, ResetCurr, ResetEnd, CleanUnlock, ServerStep,
     fillVars, sockVars, connVars, netVars
<1>4. CASE Writer
  BY <1>4 DEF Writer, HasNewData, WriterLocksOut, WriterLocksOps, WriterTakes, WriterWraps, Send,
     SendLost, SendKills, SentAll, WriterUnlocks, WriterStep, fillVars, sockVars, connVars, netVars
<1>5. CASE \E c \in Conn : Connect(c) \/ Ask(c) \/ Read(c) \/ Leave(c)
  BY <1>5 DEF Connect, Ask, Read, Leave, SubscriberStep, fillVars, sockVars, connVars, netVars
<1>6. CASE UNCHANGED vars
  BY <1>6 DEF vars, fillVars, sockVars, connVars, netVars
<1> QED BY <1>1, <1>2, <1>3, <1>4, <1>5, <1>6 DEF Next

\* A reset at the wrong time happens or not.
RacedInv == raced \in BOOLEAN

\* Every step keeps what the theorem below says.
LEMMA DeliveryStep ==
  IInv /\ OrderInv /\ SubInv /\ MapInv /\ RacedInv /\ DeliveryInv /\ [Next]_vars
    => RacedInv' /\ DeliveryInv'
<1> SUFFICES ASSUME IInv, OrderInv, SubInv, MapInv, RacedInv, DeliveryInv, [Next]_vars
             PROVE  RacedInv' /\ DeliveryInv'
  OBVIOUS
<1>1. RacedInv'
  <2>1. CASE ResetEnd
    BY <2>1 DEF ResetEnd, RacedInv
  <2>2. CASE ~ResetEnd
    <3>1. raced' = raced
      <4>1. CASE Filler
        BY <4>1 DEF Filler, EndWraps, ReadLine, FileEnds, Recv, RecvEnds, Assemble, Overrun, KeepRest, sockVars
      <4>2. CASE Engine
        BY <4>2, EngineOthers
      <4>3. CASE Server
        BY <2>2, <4>3 DEF Server, Accept, RecvRequest, HangUp, SubscribeLock, SetFlag, SetCrashes,
           SetBuffer, Insert, CleanLock, CloseFlag, CloseCrashes, ResetCurr, CleanUnlock, sockVars
      <4>4. CASE Writer
        BY <4>4, WriterOthers
      <4>5. CASE \E c \in Conn : Connect(c) \/ Ask(c) \/ Read(c) \/ Leave(c)
        BY <4>5 DEF Connect, Ask, Read, Leave, SubscriberStep, sockVars
      <4>6. CASE UNCHANGED vars
        BY <4>6 DEF vars, sockVars
      <4> QED BY <4>1, <4>2, <4>3, <4>4, <4>5, <4>6 DEF Next
    <3> QED BY <3>1 DEF RacedInv
  <2> QED BY <2>1, <2>2
<1>2. DeliveryInv'
  <2> SUFFICES ASSUME up', ~raced' PROVE RingsInv' /\ ServedInv'
    BY DEF DeliveryInv
  <2>1. up /\ ~raced
    BY DownStays DEF RacedInv
  <2>2. RingsInv /\ ServedInv
    BY <2>1 DEF DeliveryInv
  <2>3. wpc \in {"wrap", "send"} => wop \in Subscribed
    BY <2>2 DEF ServedInv, WriterInv
  <2>4. RingsInv'
    BY <2>1, <2>2, <2>3, RingsStep
  <2>5. ServedInv'
    BY <2>1, <2>2, ServedStep
  <2> QED BY <2>4, <2>5
<1> QED BY <1>1, <1>2

\* What is in the socket buffers, and what the subscribers have of it, while nobody has
\* made a buffer empty under the engine's hands.
THEOREM DeliveryInvariance == Spec => [](RacedInv /\ DeliveryInv)
<1>1. Init => RacedInv /\ DeliveryInv
  BY InitRings, InitServed DEF DeliveryInv, RacedInv, Init
<1>2. Spec => [](IInv /\ OrderInv /\ SubInv /\ MapInv)
  BY NodeInvariance, OrderInvariance, SubscriberInvariance, MapInvariance, PTL
<1> QED BY <1>1, <1>2, DeliveryStep, PTL DEF Spec

-----------------------------------------------------------------------------
(* What an operator has returned is a beginning of its stream.             *)

\* A part of a beginning is a part of the whole.
LEMMA EndsLonger ==
  ASSUME NEW s \in Seq(Int), NEW t \in Seq(Int), NEW u \in Seq(Int), NEW p \in Nat,
         EndsAt(s, t, p), IsPrefix(t, u)
  PROVE  EndsAt(s, u, p)
<1>1. Len(t) <= Len(u) /\ \A i \in 1..Len(t) : t[i] = u[i]
  BY PrefixIs
<1>2. Len(s) <= p /\ p <= Len(t) /\ Len(s) \in Nat /\ Len(t) \in Nat /\ Len(u) \in Nat
  BY DEF EndsAt
<1>3. ASSUME NEW i \in 1..Len(s) PROVE s[i] = u[p - Len(s) + i]
  <2>1. p - Len(s) + i \in 1..Len(t)
    BY <1>2
  <2>2. s[i] = t[p - Len(s) + i]
    BY DEF EndsAt
  <2> QED BY <1>1, <2>1, <2>2
<1>4. p <= Len(u)
  BY <1>1, <1>2
<1> QED BY <1>2, <1>3, <1>4 DEF EndsAt

\* What an operator has returned is the beginning of its stream.
LEMMA GivenFirst ==
  ASSUME IInv, OrderInv, up, NEW o \in Op
  PROVE  IsPrefix(Given(o), Stream(o)) /\ Stream(o) \in Seq(Int) /\ Given(o) \in Seq(Int)
<1>1. EngineState /\ TakenInv /\ ProcessedInv /\ filled \in Seq(Int) /\ processed \in Seq(Int)
  BY DEF OrderInv
<1>2. Handled \in Seq(Int) /\ Given(o) \in Seq(Int)
  BY GivenType
<1>3. /\ Taken \in 0..Len(filled)
      /\ hand # NULL => Taken >= 1 /\ held = filled[Taken] /\ Taken - 1 \in 0..Len(filled)
  BY <1>1, TakenType DEF TakenInv
<1> DEFINE k == IF hand = NULL THEN Taken ELSE Taken - 1
<1>4. k \in 0..Len(filled) /\ Handled = SubSeq(filled, 1, k)
  BY <1>3 DEF Handled
<1> HIDE DEF k
<1> DEFINE a == Only(Handled, Passes)
           b == Only(filled, Passes)
<1>5. a \in Seq(Int) /\ b \in Seq(Int)
  <2>1. a \in Seq(Int \cap Passes) /\ b \in Seq(Int \cap Passes)
    BY <1>1, <1>2, OnlyType
  <2> HIDE DEF a, b
  <2> QED BY <2>1
<1>6. CASE o = 0
  <2>1. Stream(o) = filled
    BY <1>6 DEF Stream
  <2>2. CASE eop = 0 /\ epc \in {"mod", "done"}
    <3>1. hand # NULL
      BY <1>1, <2>2 DEF EngineState, Busy
    <3>2. Taken \in 1..Len(filled) /\ held = filled[Taken] /\ Handled = SubSeq(filled, 1, Taken - 1)
      BY <1>3, <3>1 DEF Handled
    <3> DEFINE n == Taken
    <3>3. n \in 1..Len(filled) /\ n \in 0..Len(filled)
      BY <3>2
    <3> HIDE DEF n
    <3>4. SubSeq(filled, 1, n) = Append(SubSeq(filled, 1, n - 1), filled[n])
      BY <1>1, <3>3, FirstNext
    <3>5. IsPrefix(SubSeq(filled, 1, n), filled)
      BY <1>1, <3>3, PrefixFirst
    <3>6. Given(o) = Append(Handled, held)
      BY <1>6, <2>2 DEF Given, Base, Item
    <3> QED BY <1>1, <1>2, <2>1, <3>2, <3>4, <3>5, <3>6 DEF n
  <2>3. CASE ~(eop = 0 /\ epc \in {"mod", "done"})
    <3>1. Given(o) = SubSeq(filled, 1, k)
      BY <1>4, <1>6, <2>3 DEF Given, Base
    <3>2. IsPrefix(SubSeq(filled, 1, k), filled)
      BY <1>1, <1>4, PrefixFirst
    <3> QED BY <1>1, <1>2, <2>1, <3>1, <3>2
  <2> QED BY <2>2, <2>3
<1>7. CASE o = 1
  <2>1. Stream(o) = b
    BY <1>7 DEF Stream
  <2>2. CASE plan.filtered
    <3>1. IsPrefix(a, b)
      BY <1>1, <1>4, OnlyPrefix
    <3>2. a = IF PassedOn THEN Append(processed, teptr) ELSE processed
      BY <1>1, <2>2 DEF ProcessedInv
    <3>3. Base(o) = processed
      BY <1>7, <2>2 DEF Base
    <3> HIDE DEF a, b
    <3>4. IsPrefix(Given(o), a)
      <4>1. CASE eop = 1 /\ epc \in {"mod", "done"}
        <5>1. PassedOn
          BY <4>1 DEF PassedOn, Busy
        <5>2. Given(o) = Append(processed, teptr)
          BY <1>7, <3>3, <4>1 DEF Given, Item
        <5> QED BY <1>5, <3>2, <5>1, <5>2, PrefixSelf
      <4>2. CASE ~(eop = 1 /\ epc \in {"mod", "done"})
        <5>1. Given(o) = processed
          BY <1>7, <3>3, <4>2 DEF Given
        <5>2. teptr \in Int
          BY <1>1 DEF EngineState
        <5>3. CASE PassedOn
          BY <1>1, <3>2, <5>1, <5>2, <5>3, PrefixAppend
        <5>4. CASE ~PassedOn
          BY <1>1, <3>2, <5>1, <5>4, PrefixSelf
        <5> QED BY <5>3, <5>4
      <4> QED BY <4>1, <4>2
    <3>5. IsPrefix(Given(o), b)
      BY <1>2, <1>5, <3>1, <3>4, PrefixTrans
    <3> QED BY <1>2, <1>5, <2>1, <3>5
  <2>3. CASE ~plan.filtered
    <3>1. Given(o) = <<>>
      BY <1>1, <1>7, <2>3 DEF Given, Base, EngineState
    <3> DEFINE e == Given(o)
    <3>2. e \in Seq(Int) /\ Len(e) = 0 /\ Len(b) \in Nat
      BY <1>2, <1>5, <3>1
    <3> HIDE DEF b, e
    <3>3. b \in Seq(Int) /\ Len(e) <= Len(b) /\ \A i \in 1..Len(e) : e[i] = b[i]
      BY <1>5, <3>2
    <3>4. IsPrefix(e, b)
      BY <3>2, <3>3, PrefixIs
    <3> QED BY <1>5, <2>1, <3>2, <3>4 DEF e
  <2> QED BY <2>2, <2>3
<1> QED BY <1>6, <1>7 DEF Op

\* The property, while the node is up ...
LEMMA RunsNow == IInv /\ OrderInv /\ SubInv /\ DeliveryInv /\ up => SubscribersGetRun
<1> SUFFICES ASSUME IInv, OrderInv, SubInv, DeliveryInv, up, ~raced,
                    NEW c \in Conn, asked[c].op # NULL
             PROVE  IsRun(rcvd[c] \o wire[c], Stream(asked[c].op))
  BY DEF SubscribersGetRun
<1>1. asked[c].op \in Op
  BY DEF SubInv, ConnType
<1>2. PICK o \in Op : asked[c].op = o
  BY <1>1
<1>3. ServedInv
  BY DEF DeliveryInv
<1>4. Received(c) \in Seq(Int) /\ Served(c)
  BY <1>3, Joined DEF ServedInv, Received
<1>5. PICK p \in Nat : EndsAt(Received(c), Given(o), p)
  BY <1>2, <1>4 DEF Served
<1>6. IsPrefix(Given(o), Stream(o)) /\ Stream(o) \in Seq(Int) /\ Given(o) \in Seq(Int)
  BY GivenFirst
<1>7. EndsAt(Received(c), Stream(o), p)
  BY <1>4, <1>5, <1>6, EndsLonger
<1>8. IsRun(Received(c), Stream(o))
  BY <1>4, <1>6, <1>7, EndsRun
<1> QED BY <1>2, <1>8 DEF Received

\* ... and once it is down.
LEMMA RunsLater == SubscribersGetRun /\ [Next]_vars /\ ~up' => SubscribersGetRun'
BY DownStays DEF SubscribersGetRun, IsRun, Stream

\* Whoever comes and goes, a subscriber receives consecutive results of the operator it
\* asked for, unless a buffer was made empty while the engine was adding to it.
THEOREM SubscribersAreServed == Spec => []SubscribersGetRun
<1>1. Init => up
  BY DEF Init
<1>2. Spec => [](IInv /\ OrderInv /\ SubInv /\ DeliveryInv)
  BY NodeInvariance, OrderInvariance, SubscriberInvariance, DeliveryInvariance, PTL
<1> QED BY <1>1, <1>2, RunsNow, RunsLater, PTL DEF Spec

==============================================================================
