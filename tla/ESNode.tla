------------------------------- MODULE ESNode -------------------------------
(***************************************************************************)
(* A node of the Reuters engine (apps/reuters/reutercode): a query whose   *)
(* results other processes subscribe to.                                   *)
(*                                                                         *)
(* The filler, the thread of the query's FileSource or Client, puts events *)
(* into the operator's buffer.  The engine takes them out, passes them     *)
(* through the Filter if there is one, and adds what each operator returns *)
(* to that operator's socket buffer if somebody has subscribed to it.  The *)
(* client writer sends the events of the socket buffers to the             *)
(* subscribers; the server accepts them and takes note of their requests   *)
(* and of their leaving.  Two locks guard the maps of the catalog; nothing *)
(* guards the buffers.                                                     *)
(*                                                                         *)
(* An event is its number in the file, or 0 when it has been put together  *)
(* of pieces of several.  The node is down when one of its threads has     *)
(* used a null pointer or has been killed by a signal.                     *)
(***************************************************************************)
EXTENDS ESBuffer, Sequences, SequencesExt, FiniteSets, FiniteSetsExt

CONSTANTS Conn,      \* connections of subscribers
          Plans,     \* [root, filtered, preset]; bounds: conns, the connections
                     \* it gets, and events, how many come in
          Passes,    \* the events the filter lets through
          RecLen,    \* bytes of an event
          MaxRecv,   \* bytes recv returns at most
          WireCap,   \* events a connection holds
          NULL

ASSUME NodeAssumption ==
  /\ RecLen \in Nat \ {0}
  /\ NULL \notin Int /\ NULL \notin {"server", "writer"} /\ IsFiniteSet(Conn)
  /\ \A p \in Plans : p.root \in {"file", "client"} /\ p.conns \subseteq Conn /\ p.events \in Nat

VARIABLES plan, up,
          \* the filler
          buf, fpc, arrived, inbuf, values, offset, filled, torn,
          \* the engine
          epc, eop, hand, held, reg, teptr, nextflag, processed,
          \* the operators' socket buffers
          sock, ndbuffer, alloc, raced,
          \* the catalog
          operatormap, outputmap, outLock, opLock,
          \* the server
          spc, peer,
          \* the client writer
          wpc, wop, whand, wto,
          \* the subscribers
          fd, cst, asked, wire, rcvd

fillVars == <<fpc, arrived, inbuf, values, offset, filled, torn>>
engineVars == <<epc, eop, hand, held, reg, teptr, nextflag, processed>>
sockVars == <<sock, ndbuffer, alloc, raced>>
mapVars == <<operatormap, outputmap, outLock, opLock>>
serverVars == <<spc, peer>>
writerVars == <<wpc, wop, whand, wto>>
connVars == <<fd, cst, asked>>
netVars == <<wire, rcvd>>
vars == <<plan, up, buf, fillVars, engineVars, sockVars, mapVars, serverVars,
          writerVars, connVars, netVars>>

\* Operator 0 is the FileSource or Client, 1 the Filter.
Op == {0, 1}
Ops == IF plan.filtered THEN {0, 1} ELSE {0}
Root == IF plan.filtered THEN 1 ELSE 0

\* The elements of s that are in S, in their order.
Only(s, S) ==
  LET f[i \in 0..Len(s)] ==
        IF i = 0 THEN <<>> ELSE IF s[i] \in S THEN Append(f[i - 1], s[i]) ELSE f[i - 1]
  IN  f[Len(s)]

Frame(m) == [i \in 1..RecLen |-> <<m, i>>]

\* What the bytes of an event say.
Event(bytes) == IF \E m \in 1..plan.events : bytes = Frame(m) THEN bytes[1][1] ELSE 0

Init ==
  /\ plan \in Plans /\ up = TRUE
  /\ buf = NewBuffer
  /\ fpc = IF plan.root = "file" THEN "off" ELSE "recv"
  /\ arrived = 0 /\ inbuf = <<>> /\ offset = 0 /\ filled = <<>> /\ torn = FALSE
  /\ values = [i \in 1..RecLen |-> <<0, 0>>]
  /\ epc = "open" /\ eop = 0 /\ hand = NULL /\ held = NULL /\ reg = 0
  /\ teptr = 0 /\ nextflag = FALSE /\ processed = <<>>
  /\ sock = [o \in Op |-> NewBuffer]
  /\ ndbuffer = [o \in Op |-> o = 0 /\ plan.preset]
  /\ alloc = [o \in Op |-> o = 0 /\ plan.preset]
  /\ raced = FALSE
  /\ operatormap = IF plan.preset THEN {0} ELSE {}
  /\ outputmap = <<>> /\ outLock = NULL /\ opLock = NULL
  /\ spc = "select" /\ peer = NULL
  /\ wpc = "poll" /\ wop = NULL /\ whand = NULL /\ wto = <<>>
  /\ fd = [c \in Conn |-> NULL] /\ cst = [c \in Conn |-> "none"]
  /\ asked = [c \in Conn |-> [op |-> NULL, unread |-> FALSE]]
  /\ wire = [c \in Conn |-> <<>>] /\ rcvd = [c \in Conn |-> <<>>]

Crash == up' = FALSE

-----------------------------------------------------------------------------
(* The filler: FileSource::run and Client::run.                            *)

\* Adding to the operator's buffer: wait while it is full, copy, increment. Once
\* the buffer is not full it stays so until the filler adds: one step.
FillerAdds(e, next) ==
  /\ ~Full(buf)
  /\ buf' = EndMoved(Copied(buf, e))
  /\ filled' = Append(filled, e)
  /\ fpc' = next

EndWraps ==
  /\ up /\ fpc \in {"wrap", "wraprecv"}
  /\ buf' = EndWrapped(buf)
  /\ fpc' = IF fpc = "wrap" THEN "read" ELSE "assemble"
  /\ UNCHANGED <<plan, up, arrived, inbuf, values, offset, filled, torn, engineVars,
                 sockVars, mapVars, serverVars, writerVars, connVars, netVars>>

ReadLine ==
  /\ up /\ fpc = "read" /\ arrived < plan.events
  /\ FillerAdds(arrived + 1, "wrap")
  /\ arrived' = arrived + 1
  /\ UNCHANGED <<plan, up, inbuf, values, offset, torn, engineVars, sockVars, mapVars,
                 serverVars, writerVars, connVars, netVars>>

FileEnds ==
  /\ up /\ fpc = "read" /\ arrived = plan.events /\ ~Full(buf)
  /\ fpc' = "ended"
  /\ UNCHANGED <<plan, up, buf, arrived, inbuf, values, offset, filled, torn, engineVars,
                 sockVars, mapVars, serverVars, writerVars, connVars, netVars>>

\* The i-th byte of all that the other node sends.
Byte(i) == <<((i - 1) \div RecLen) + 1, ((i - 1) % RecLen) + 1>>

Recv ==
  /\ up /\ fpc = "recv"
  /\ \E n \in 1..MaxRecv :
       /\ arrived + n <= plan.events * RecLen
       /\ inbuf' = [i \in 1..n |-> Byte(arrived + i)]
       /\ arrived' = arrived + n
  /\ fpc' = "assemble"
  /\ UNCHANGED <<plan, up, buf, values, offset, filled, torn, engineVars, sockVars,
                 mapVars, serverVars, writerVars, connVars, netVars>>

\* The other node may hang up at any time.
RecvEnds ==
  /\ up /\ fpc = "recv"
  /\ fpc' = "ended"
  /\ UNCHANGED <<plan, up, buf, arrived, inbuf, values, offset, filled, torn, engineVars,
                 sockVars, mapVars, serverVars, writerVars, connVars, netVars>>

\* Mutant: the bytes already there are taken again.
Missing_All == RecLen

Missing == RecLen - offset

\* The next event is complete: it is put together and added.
Assemble ==
  /\ up /\ fpc = "assemble" /\ Len(inbuf) + offset >= RecLen
  /\ LET bytes == SubSeq(values, 1, offset) \o SubSeq(inbuf, 1, RecLen - offset)
     IN  /\ values' = bytes
         /\ FillerAdds(Event(bytes), "wraprecv")
  /\ inbuf' = SubSeq(inbuf, Missing + 1, Len(inbuf))
  /\ offset' = 0
  /\ UNCHANGED <<plan, up, arrived, torn, engineVars, sockVars, mapVars, serverVars,
                 writerVars, connVars, netVars>>

\* memcpy(_values+offset, ..., sz) has written past the end of _values.
Overrun ==
  /\ up /\ fpc = "assemble" /\ Len(inbuf) + offset >= RecLen /\ offset > 0
  /\ Crash
  /\ UNCHANGED <<plan, buf, fillVars, engineVars, sockVars, mapVars, serverVars,
                 writerVars, connVars, netVars>>

\* What is left goes to the start of _values, whatever is already there.
KeepRest ==
  /\ up /\ fpc = "assemble" /\ Len(inbuf) + offset < RecLen
  /\ offset' = Len(inbuf)
  /\ values' = inbuf \o SubSeq(values, Len(inbuf) + 1, RecLen)
  /\ inbuf' = <<>>
  /\ torn' = (torn \/ (offset > 0 /\ inbuf # <<>>))
  /\ fpc' = "recv"
  /\ UNCHANGED <<plan, up, buf, arrived, filled, engineVars, sockVars, mapVars,
                 serverVars, writerVars, connVars, netVars>>

Filler ==
  EndWraps \/ ReadLine \/ FileEnds \/ Recv \/ RecvEnds \/ Assemble \/ Overrun \/ KeepRest

-----------------------------------------------------------------------------
(* The engine: QueryEngine::run, hasNext and next of the operators.        *)

\* The file is opened and its thread started, ...
OpenRoot ==
  /\ up /\ epc = "open"
  /\ epc' = "add" /\ eop' = 0
  /\ fpc' = IF plan.root = "file" THEN "read" ELSE fpc
  /\ UNCHANGED <<plan, up, buf, arrived, inbuf, values, offset, filled, torn, hand, held,
                 reg, teptr, nextflag, processed, sockVars, mapVars, serverVars,
                 writerVars, connVars, netVars>>

\* ... and the operators enter the catalog, the child first.
AddOperator ==
  /\ up /\ epc = "add" /\ opLock = NULL
  /\ operatormap' = operatormap \cup {eop}
  /\ IF eop = Root THEN epc' = "poll" /\ UNCHANGED eop ELSE eop' = 1 /\ UNCHANGED epc
  /\ UNCHANGED <<plan, up, buf, fillVars, hand, held, reg, teptr, nextflag, processed,
                 sockVars, outputmap, outLock, opLock, serverVars, writerVars, connVars,
                 netVars>>

EngineStep(from, to) ==
  /\ up /\ epc = from /\ epc' = to
  /\ UNCHANGED <<plan, fillVars, mapVars, serverVars, writerVars, connVars, netVars>>

\* hasNext: of the filter when it has found an event, of its child otherwise.
EngineHasNext ==
  /\ EngineStep("poll", "check")
  /\ \/ nextflag /\ eop' = 1
     \/ ~nextflag /\ HasNext(buf) /\ eop' = 0
  /\ UNCHANGED <<up, buf, hand, held, reg, teptr, nextflag, processed, sockVars>>

\* Mutant: a subscriber's buffer may be overrun.
Blocked_Never(o) == FALSE

Blocked(o) == ndbuffer[o] /\ Full(sock[o])

\* next() of operator eop may go on, ...
MayTake ==
  /\ ndbuffer[eop] => alloc[eop]
  /\ ~Blocked(eop)
  /\ EngineStep("check", IF eop = 0 THEN "take" ELSE "offer")
  /\ nextflag' = (nextflag /\ eop = 0)
  /\ UNCHANGED <<up, buf, eop, hand, held, reg, teptr, processed, sockVars>>

\* ... or returns 0 as its socket buffer is full, and is called again, ...
ReturnsNothing ==
  /\ alloc[eop] /\ Blocked(eop) /\ eop = Root
  /\ EngineStep("check", "poll")
  /\ UNCHANGED <<up, buf, eop, hand, held, reg, teptr, nextflag, processed, sockVars>>

\* ... or uses a null pointer: the buffer is not there yet, or the filter is
\* given the child's 0.
EngineCrashes ==
  /\ EngineStep("check", "down")
  /\ \/ ndbuffer[eop] /\ ~alloc[eop]
     \/ alloc[eop] /\ Blocked(eop) /\ eop # Root
  /\ Crash
  /\ UNCHANGED <<buf, eop, hand, held, reg, teptr, nextflag, processed, sockVars>>

\* ESBuffer::next: the caller goes on using the slot it has taken.
Take ==
  /\ EngineStep("take", "wrap")
  /\ hand' = buf.curr /\ held' = buf.slot[buf.curr]
  /\ buf' = CurrMoved(buf)
  /\ UNCHANGED <<up, eop, reg, teptr, nextflag, processed, sockVars>>

TakeWraps ==
  /\ EngineStep("wrap", "offer")
  /\ buf' = CurrWrapped(buf)
  /\ UNCHANGED <<up, eop, hand, held, reg, teptr, nextflag, processed, sockVars>>

Current == IF eop = 0 THEN buf.slot[hand] ELSE teptr

\* Nobody wants what the operator returns.
NotOffered ==
  /\ ~ndbuffer[eop]
  /\ EngineStep("offer", "done")
  /\ UNCHANGED <<up, buf, eop, hand, held, reg, teptr, nextflag, processed, sockVars>>

\* _sockbuffer->add, in four steps: the server may reset the buffer between them.
Offered ==
  /\ ndbuffer[eop] /\ alloc[eop]
  /\ EngineStep("offer", "copy")
  /\ UNCHANGED <<up, buf, eop, hand, held, reg, teptr, nextflag, processed, sockVars>>

OfferCrashes ==
  /\ ndbuffer[eop] /\ ~alloc[eop]
  /\ EngineStep("offer", "down")
  /\ Crash
  /\ UNCHANGED <<buf, eop, hand, held, reg, teptr, nextflag, processed, sockVars>>

SockCopy ==
  /\ EngineStep("copy", "load")
  /\ sock' = [sock EXCEPT ![eop] = Copied(@, Current)]
  /\ UNCHANGED <<up, buf, eop, hand, held, reg, teptr, nextflag, processed, ndbuffer,
                 alloc, raced>>

SockLoad ==
  /\ EngineStep("load", "store")
  /\ reg' = sock[eop].end + 1
  /\ UNCHANGED <<up, buf, eop, hand, held, teptr, nextflag, processed, sockVars>>

SockStore ==
  /\ EngineStep("store", "mod")
  /\ sock' = [sock EXCEPT ![eop].end = reg]
  /\ reg' = 0
  /\ UNCHANGED <<up, buf, eop, hand, held, teptr, nextflag, processed, ndbuffer, alloc,
                 raced>>

SockWraps ==
  /\ EngineStep("mod", "done")
  /\ sock' = [sock EXCEPT ![eop] = EndWrapped(@)]
  /\ UNCHANGED <<up, buf, eop, hand, held, reg, teptr, nextflag, processed, ndbuffer,
                 alloc, raced>>

\* The root's event is printed, ...
RootDone ==
  /\ eop = Root
  /\ EngineStep("done", "poll")
  /\ processed' = Append(processed, Current)
  /\ hand' = NULL /\ held' = NULL
  /\ UNCHANGED <<up, buf, eop, reg, teptr, nextflag, sockVars>>

\* ... the child's goes through the filter.
FilterChild ==
  /\ eop # Root
  /\ EngineStep("done", "poll")
  /\ nextflag' = (Current \in Passes)
  /\ teptr' = IF Current \in Passes THEN Current ELSE teptr
  /\ hand' = NULL /\ held' = NULL
  /\ UNCHANGED <<up, buf, eop, reg, processed, sockVars>>

Engine ==
  \/ OpenRoot \/ AddOperator \/ EngineHasNext \/ MayTake \/ ReturnsNothing
  \/ EngineCrashes \/ Take \/ TakeWraps \/ NotOffered \/ Offered \/ OfferCrashes
  \/ SockCopy \/ SockLoad \/ SockStore \/ SockWraps \/ RootDone \/ FilterChild

-----------------------------------------------------------------------------
(* The server: one thread, one descriptor at a time.                       *)

ServerStep(from, to) ==
  /\ up /\ spc = from /\ spc' = to
  /\ UNCHANGED <<plan, buf, fillVars, engineVars, writerVars, netVars>>

Clients(o) == Only(outputmap, {o} \X Nat)

\* The lowest number that is free.
NewFd == Min({n \in 1..Cardinality(Conn) : \A c \in Conn : fd[c] # n})

Accept(c) ==
  /\ ServerStep("select", "select")
  /\ cst[c] \in {"connected", "asked", "gone"} /\ fd[c] = NULL
  /\ fd' = [fd EXCEPT ![c] = NewFd]
  /\ UNCHANGED <<up, sockVars, mapVars, peer, cst, asked>>

\* parseinput: the request is for operator asked[c].
RecvRequest(c) ==
  /\ ServerStep("select", "subscribe")
  /\ fd[c] # NULL /\ asked[c].unread
  /\ asked' = [asked EXCEPT ![c].unread = FALSE]
  /\ peer' = c
  /\ UNCHANGED <<up, sockVars, mapVars, fd, cst>>

ServerOp == asked[peer].op

SubscribeLock ==
  /\ spc = "subscribe"
  /\ ServerStep("subscribe", IF Clients(ServerOp) = <<>> THEN "setlock" ELSE "insert")
  /\ outLock = NULL /\ outLock' = "server"
  /\ UNCHANGED <<up, sockVars, operatormap, outputmap, opLock, peer, connVars>>

\* setsockbuffer, first the flag and then the buffer.
SetFlag ==
  /\ ServerStep("setlock", "alloc")
  /\ opLock = NULL /\ opLock' = "server"
  /\ ServerOp \in operatormap
  /\ ndbuffer' = [ndbuffer EXCEPT ![ServerOp] = TRUE]
  /\ UNCHANGED <<up, sock, alloc, raced, operatormap, outputmap, outLock, peer, connVars>>

\* The operator has not been opened: operatormap[opid] is null.
SetCrashes ==
  /\ ServerStep("setlock", "down")
  /\ opLock = NULL
  /\ ServerOp \notin operatormap
  /\ Crash
  /\ UNCHANGED <<sockVars, mapVars, peer, connVars>>

SetBuffer ==
  /\ ServerStep("alloc", "insert")
  /\ alloc' = [alloc EXCEPT ![ServerOp] = TRUE]
  /\ opLock' = NULL
  /\ UNCHANGED <<up, sock, ndbuffer, raced, operatormap, outputmap, outLock, peer,
                 connVars>>

Insert ==
  /\ ServerStep("insert", "select")
  /\ outputmap' = Append(outputmap, <<ServerOp, fd[peer]>>)
  /\ outLock' = NULL /\ peer' = NULL
  /\ UNCHANGED <<up, sockVars, operatormap, opLock, connVars>>

\* recv returns 0: close, and then clientclean.
HangUp(c) ==
  /\ ServerStep("select", "clean")
  /\ fd[c] # NULL /\ cst[c] = "gone" /\ ~asked[c].unread
  /\ cst' = [cst EXCEPT ![c] = "closed"]
  /\ peer' = c
  /\ UNCHANGED <<up, sockVars, mapVars, fd, asked>>

\* Mutant: the entry stays when other clients want the operator.
Erased_Last(f) == IF Len(outputmap) > 1 THEN outputmap
                  ELSE Only(outputmap, Op \X (Nat \ {f}))

Erased(f) == Only(outputmap, Op \X (Nat \ {f}))

CleanLock ==
  /\ spc = "clean" /\ outLock = NULL /\ outLock' = "server"
  /\ outputmap' = Erased(fd[peer])
  /\ fd' = [fd EXCEPT ![peer] = NULL]
  /\ ServerStep("clean",
       IF ServerOp = NULL \/ \A i \in DOMAIN outputmap' : outputmap'[i][1] # ServerOp
       THEN "closelock" ELSE "unlock")
  /\ UNCHANGED <<up, sockVars, operatormap, opLock, peer, cst, asked>>

\* Mutant: the operator goes on buffering.
FlagAfterClose_Kept == TRUE

FlagAfterClose == FALSE

\* closesockbuffer: the flag, and then reset's two stores.
CloseFlag ==
  /\ ServerStep("closelock", "resetcurr")
  /\ opLock = NULL /\ opLock' = "server"
  /\ ServerOp # NULL
  /\ ndbuffer' = [ndbuffer EXCEPT ![ServerOp] = FlagAfterClose]
  /\ UNCHANGED <<up, sock, alloc, raced, operatormap, outputmap, outLock, peer, connVars>>

\* The client has left without a request: operatormap[-1] is null.
CloseCrashes ==
  /\ ServerStep("closelock", "down")
  /\ opLock = NULL
  /\ ServerOp = NULL
  /\ Crash
  /\ UNCHANGED <<sockVars, mapVars, peer, connVars>>

ResetCurr ==
  /\ ServerStep("resetcurr", "resetend")
  /\ sock' = [sock EXCEPT ![ServerOp].curr = 0]
  /\ UNCHANGED <<up, ndbuffer, alloc, raced, mapVars, peer, connVars>>

ResetEnd ==
  /\ ServerStep("resetend", "unlock")
  /\ sock' = [sock EXCEPT ![ServerOp].end = 0]
  /\ raced' = (raced \/ (eop = ServerOp /\ epc \in {"copy", "load", "store"}))
  /\ opLock' = NULL
  /\ UNCHANGED <<up, ndbuffer, alloc, operatormap, outputmap, outLock, peer, connVars>>

CleanUnlock ==
  /\ ServerStep("unlock", "select")
  /\ outLock' = NULL /\ peer' = NULL
  /\ UNCHANGED <<up, sockVars, operatormap, outputmap, opLock, connVars>>

Server ==
  \/ \E c \in Conn : Accept(c) \/ RecvRequest(c) \/ HangUp(c)
  \/ SubscribeLock \/ SetFlag \/ SetCrashes \/ SetBuffer \/ Insert
  \/ CleanLock \/ CloseFlag \/ CloseCrashes \/ ResetCurr \/ ResetEnd \/ CleanUnlock

-----------------------------------------------------------------------------
(* The client writer.                                                      *)

WriterStep(from, to) ==
  /\ up /\ wpc = from /\ wpc' = to
  /\ UNCHANGED <<plan, buf, fillVars, engineVars, ndbuffer, alloc, raced, operatormap,
                 outputmap, serverVars, connVars>>

Subscribed == {outputmap[i][1] : i \in DOMAIN outputmap}

\* hasnewdata, under the lock of the outputmap.
HasNewData ==
  /\ WriterStep("poll", "outlock")
  /\ outLock = NULL
  /\ \E o \in Subscribed : alloc[o] /\ HasNext(sock[o])
  /\ UNCHANGED <<up, sock, outLock, opLock, wop, whand, wto, netVars>>

WriterLocksOut ==
  /\ WriterStep("outlock", "oplock")
  /\ outLock = NULL /\ outLock' = "writer"
  /\ UNCHANGED <<up, sock, opLock, wop, whand, wto, netVars>>

WriterLocksOps ==
  /\ WriterStep("oplock", "loop")
  /\ opLock = NULL /\ opLock' = "writer"
  /\ wop' = -1
  /\ UNCHANGED <<up, sock, outLock, whand, wto, netVars>>

\* outputmap.upper_bound: the operators after wop that have clients.
Following == {o \in Subscribed : o > wop}

Recipients(o) == Clients(o)

WriterTakes ==
  /\ wpc = "loop" /\ Following # {}
  /\ wop' = Min(Following)
  /\ IF HasNext(sock[wop'])
     THEN /\ WriterStep("loop", "wrap")
          /\ whand' = sock[wop'].curr
          /\ sock' = [sock EXCEPT ![wop'] = CurrMoved(@)]
     ELSE WriterStep("loop", "loop") /\ UNCHANGED <<whand, sock>>
  /\ UNCHANGED <<up, outLock, opLock, wto, netVars>>

WriterWraps ==
  /\ WriterStep("wrap", "send")
  /\ sock' = [sock EXCEPT ![wop] = CurrWrapped(@)]
  /\ wto' = Recipients(wop)
  /\ UNCHANGED <<up, outLock, opLock, wop, whand, netVars>>

\* The connection that has the descriptor, while it is open.
At(f) == {c \in Conn : fd[c] = f /\ cst[c] # "closed"}

SentOne ==
  /\ wto' = Tail(wto)
  /\ UNCHANGED <<sock, outLock, opLock, wop, whand>>

\* send blocks while the connection is full.
Send ==
  /\ WriterStep("send", "send")
  /\ wto # <<>>
  /\ \E c \in At(Head(wto)[2]) :
       /\ cst[c] # "gone" /\ Len(wire[c]) < WireCap
       /\ wire' = [wire EXCEPT ![c] = Append(@, sock[wop].slot[whand])]
  /\ UNCHANGED <<up, rcvd>>
  /\ SentOne

\* The client has left, or its descriptor is closed: "error sending".
SendLost ==
  /\ WriterStep("send", "send")
  /\ wto # <<>>
  /\ \A c \in At(Head(wto)[2]) : cst[c] = "gone"
  /\ UNCHANGED <<up, netVars>>
  /\ SentOne

\* SIGPIPE: the kernel knows that the client has left.
SendKills ==
  /\ WriterStep("send", "down")
  /\ wto # <<>>
  /\ \E c \in At(Head(wto)[2]) : cst[c] = "gone"
  /\ Crash
  /\ UNCHANGED <<netVars, sock, outLock, opLock, wop, whand, wto>>

SentAll ==
  /\ WriterStep("send", "loop")
  /\ wto = <<>>
  /\ whand' = NULL
  /\ UNCHANGED <<up, sock, outLock, opLock, wop, wto, netVars>>

WriterUnlocks ==
  /\ WriterStep("loop", "poll")
  /\ Following = {}
  /\ outLock' = NULL /\ opLock' = NULL /\ wop' = NULL
  /\ UNCHANGED <<up, sock, whand, wto, netVars>>

Writer ==
  \/ HasNewData \/ WriterLocksOut \/ WriterLocksOps \/ WriterTakes \/ WriterWraps
  \/ Send \/ SendLost \/ SendKills \/ SentAll \/ WriterUnlocks

-----------------------------------------------------------------------------
(* The subscribers: connect, ask for an operator's output, read, leave.    *)

SubscriberStep(c, from, to) ==
  /\ up /\ cst[c] \in from /\ cst' = [cst EXCEPT ![c] = to]
  /\ UNCHANGED <<plan, up, buf, fillVars, engineVars, sockVars, mapVars, serverVars,
                 writerVars, fd>>

Connect(c) ==
  /\ c \in plan.conns
  /\ SubscriberStep(c, {"none"}, "connected") /\ UNCHANGED <<asked, netVars>>

Ask(c) ==
  /\ SubscriberStep(c, {"connected"}, "asked")
  /\ \E o \in Ops : asked' = [asked EXCEPT ![c] = [op |-> o, unread |-> TRUE]]
  /\ UNCHANGED netVars

Read(c) ==
  /\ wire[c] # <<>>
  /\ SubscriberStep(c, {"asked"}, "asked")
  /\ rcvd' = [rcvd EXCEPT ![c] = Append(@, Head(wire[c]))]
  /\ wire' = [wire EXCEPT ![c] = Tail(@)]
  /\ UNCHANGED asked

Leave(c) ==
  /\ SubscriberStep(c, {"connected", "asked"}, "gone")
  /\ wire' = [wire EXCEPT ![c] = <<>>]
  /\ UNCHANGED <<asked, rcvd>>

Next ==
  \/ Filler \/ Engine \/ Server \/ Writer
  \/ \E c \in Conn : Connect(c) \/ Ask(c) \/ Read(c) \/ Leave(c)

\* Every thread of the node is scheduled, and a subscriber that stays reads.
Fairness ==
  /\ WF_vars(Filler) /\ WF_vars(Engine) /\ WF_vars(Server) /\ WF_vars(Writer)
  /\ \A c \in Conn : WF_vars(Read(c))

Spec == Init /\ [][Next]_vars /\ Fairness

-----------------------------------------------------------------------------
(* Properties.                                                             *)

\* The event the engine has taken stays what it was until the engine is done
\* with it, although its slot is free as soon as it is taken: the one slot that
\* a full buffer leaves empty is the one in use.
EventInHand == hand # NULL => buf.slot[hand] = held

\* Through the buffer, the engine gets the events that the filler put in, in
\* order and once each (those that pass the filter); and these are the events
\* that came over the wire, unless one arrived in more than two pieces.
EventsInOrder ==
  LET passing == IF plan.filtered THEN Only(filled, Passes) ELSE filled
  IN  /\ IsPrefix(processed, passing)
      /\ ~torn => filled = [i \in 1..Len(filled) |-> i]

\* What operator o returns, in order.
Stream(o) ==
  IF o = 0 THEN filled ELSE Only(filled, Passes)

IsRun(s, t) == \E i \in 0..Len(t) : IsPrefix(s, SubSeq(t, i + 1, Len(t)))

\* A subscriber receives consecutive results of the operator it asked for,
\* from some point on, whoever else comes and goes, unless a buffer was reset
\* while the engine was adding to it.
SubscribersGetRun ==
  ~raced => \A c \in Conn : asked[c].op # NULL =>
    IsRun(rcvd[c] \o wire[c], Stream(asked[c].op))

\* An entry of the outputmap is an open connection that asked for the operator,
\* or one that the server is about to remove: descriptors are used again, and a
\* new client never gets what an old one asked for.
OnlySubscribers ==
  \A i \in DOMAIN outputmap : \E c \in Conn :
    /\ fd[c] = outputmap[i][2] /\ asked[c].op = outputmap[i][1]
    /\ cst[c] = "closed" => peer = c /\ spc = "clean"

\* In the buffer made before the node starts, events wait for a first client.
Unclaimed == plan.preset /\ \A c \in Conn : asked[c].op = NULL

\* In the end everything that came in has been processed and sent to whoever
\* wants it, while clients come and go, if the node stays up.
Quiescent ==
  <>[](up /\ ~Unclaimed =>
         /\ fpc = "ended" /\ ~HasNext(buf) /\ ~nextflag
         /\ \A o \in Subscribed : ~HasNext(sock[o]))

=============================================================================
