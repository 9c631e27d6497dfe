----------------------------- MODULE SocketNet ------------------------------
(***************************************************************************)
(* lib/socket.ws and lib/socket_wrappers.c: the operators socket_out and   *)
(* socket_in that connect WaveScope processes, and the count of live       *)
(* sources of wsc2.h that ends a process.                                  *)
(*                                                                         *)
(* A node is one single-threaded process.  Its zero-rate timers spawn a    *)
(* helper thread for each end of a connection; the helper connects, or     *)
(* accepts, and publishes the descriptor in a cell that the main thread    *)
(* polls.  The main loop fires the file source and the inbound operators   *)
(* in turn; what one of them emits goes depth first through the outbound   *)
(* operators, which write a length header and the bytes, blocking.  An     *)
(* inbound operator reads what has arrived, without blocking, and keeps    *)
(* its place between firings.  A node whose file ends, or that reads an    *)
(* end-of-stream header, closes its sockets and exits.                     *)
(*                                                                         *)
(* A program says which nodes exist and how they are connected.  The wire  *)
(* of a link is the kernel's: bytes in order, at most program.cap of them. *)
(* A byte is <<m, i>>, the i-th of the frame of message m (0 for the       *)
(* end-of-stream header).                                                  *)
(***************************************************************************)
EXTENDS Naturals, Sequences, SequencesExt, FiniteSets

CONSTANTS Node,
          Programs,   \* [links, source, nodrop, cap]
          HdrLen,     \* bytes of a length header
          PayLen,     \* PayLen[m]: bytes of message m
          MaxMsg,     \* bound: messages in a file
          NULL

ASSUME SNLengths ==
  /\ HdrLen \in Nat \ {0} /\ MaxMsg \in Nat
  /\ PayLen \in [1..MaxMsg -> Nat \ {0}]
  /\ \A p \in Programs : p.cap >= HdrLen /\ p.source \subseteq Node

\* Every socket_out carries what its own process reads, from a file or a connection.
ASSUME SNPrograms ==
  \A p \in Programs :
    /\ p.cap \in Nat /\ p.nodrop \in BOOLEAN
    /\ p.links \in Seq([from : Node, to : Node, strm : Nat])
    /\ \A l \in DOMAIN p.links :
         \/ p.links[l].strm = 0 /\ p.links[l].from \in p.source
         \/ /\ p.links[l].strm \in DOMAIN p.links
            /\ p.links[p.links[l].strm].to = p.links[l].from

VARIABLES program,
          pc,       \* of the main thread of each node
          todo,     \* ends <<side, l>> the node still has to handle
          turn,     \* which operator the main loop fires next
          made,     \* messages read from the node's file
          msg,      \* the message being emitted
          left,     \* bytes of it still to be written
          live,     \* live_source_count
          code,     \* exit status
          srv, cli, \* helper threads of the two ends of a link
          fdOut, fdIn, \* the cells' filedecr: "zero", "open", "closed"
          wire,
          curstate, lenbuf, lenctr, databuf, datactr, \* socket_in's state
          shot,     \* history: messages socket_out began to write
          emitted   \* history: messages socket_in emitted

mainVars == <<pc, todo, turn, made, msg, left, live, code>>
helpVars == <<srv, cli>>
readVars == <<curstate, lenbuf, lenctr, databuf, datactr>>
vars == <<program, mainVars, helpVars, fdOut, fdIn, wire, readVars, shot, emitted>>

-----------------------------------------------------------------------------
(* The program.  A link carries what its node's file (strm = 0) or its     *)
(* inbound link strm emits.                                                *)

LinkIds == UNION {DOMAIN p.links : p \in Programs}
Link == DOMAIN program.links
From(l) == program.links[l].from
To(l) == program.links[l].to
Strm(l) == program.links[l].strm

\* The links of S, in the order of registration.
InOrder(S) ==
  LET list[l \in 0..Len(program.links)] ==
        IF l = 0 THEN <<>> ELSE IF l \in S THEN Append(list[l - 1], l) ELSE list[l - 1]
  IN  list[Len(program.links)]

\* The two tables of the process.
Inbound(n) == InOrder({l \in Link : To(l) = n})
Outbound(n) == InOrder({l \in Link : From(l) = n})
Ends(side, ls) == [i \in DOMAIN ls |-> <<side, ls[i]>>]

\* The operators the main loop fires, 0 for the file source.
Operators(n) == (IF n \in program.source THEN <<0>> ELSE <<>>) \o Inbound(n)

Frame(m) == [i \in 1..(HdrLen + PayLen[m]) |-> <<m, i>>]
Eos == [i \in 1..HdrLen |-> <<0, i>>]

Init ==
  /\ program \in Programs
  /\ pc = [n \in Node |-> "off"]
  /\ todo = [n \in Node |-> <<>>] /\ turn = [n \in Node |-> 1]
  /\ made = [n \in Node |-> 0] /\ msg = [n \in Node |-> NULL]
  /\ left = [n \in Node |-> <<>>]
  /\ live = [n \in Node |-> 0] /\ code = [n \in Node |-> NULL]
  /\ srv = [l \in Link |-> "none"] /\ cli = [l \in Link |-> "none"]
  /\ fdOut = [l \in Link |-> "zero"] /\ fdIn = [l \in Link |-> "zero"]
  /\ wire = [l \in Link |-> <<>>]
  /\ curstate = [l \in Link |-> 0]
  /\ lenbuf = [l \in Link |-> <<>>] /\ lenctr = [l \in Link |-> 0]
  /\ databuf = [l \in Link |-> <<>>] /\ datactr = [l \in Link |-> 0]
  /\ shot = [l \in Link |-> <<>>] /\ emitted = [l \in Link |-> <<>>]

Alive(n) == pc[n] \notin {"off", "exited"}

-----------------------------------------------------------------------------
(* Start-up: the zero-rate timers, and the helper threads.                 *)

Start(n) ==
  /\ pc[n] = "off"
  /\ pc' = [pc EXCEPT ![n] = "init"]
  /\ todo' = [todo EXCEPT ![n] = Ends("out", Outbound(n)) \o Ends("in", Inbound(n))]
  /\ UNCHANGED <<program, turn, made, msg, left, live, code, helpVars, fdOut, fdIn,
                 wire, readVars, shot, emitted>>

\* The next zero-rate timer, or the main loop after the last.
Spawned(n) ==
  /\ todo' = [todo EXCEPT ![n] = Tail(@)]
  /\ pc' = [pc EXCEPT ![n] = IF Len(todo[n]) = 1 THEN "loop" ELSE "init"]

SpawnServer(n, l) ==
  /\ pc[n] = "init" /\ Head(todo[n]) = <<"out", l>>
  /\ srv' = [srv EXCEPT ![l] = "socket"]
  /\ Spawned(n)
  /\ UNCHANGED <<program, turn, made, msg, left, live, code, cli, fdOut, fdIn, wire,
                 readVars, shot, emitted>>

SpawnClient(n, l) ==
  /\ pc[n] = "init" /\ Head(todo[n]) = <<"in", l>>
  /\ cli' = [cli EXCEPT ![l] = "connecting"]
  /\ live' = [live EXCEPT ![n] = @ + 1]
  /\ Spawned(n)
  /\ UNCHANGED <<program, turn, made, msg, left, code, srv, fdOut, fdIn, wire,
                 readVars, shot, emitted>>

ServerStep(l, from, to) ==
  /\ Alive(From(l)) /\ srv[l] = from /\ srv' = [srv EXCEPT ![l] = to]
  /\ UNCHANGED <<program, mainVars, cli, fdIn, wire, readVars, shot, emitted>>

Listen(l) == ServerStep(l, "socket", "listening") /\ UNCHANGED fdOut

Accept(l) ==
  /\ cli[l] \in {"connected", "nonblocking", "done"}
  /\ ServerStep(l, "listening", "accepted") /\ UNCHANGED fdOut

PublishOut(l) ==
  /\ ServerStep(l, "accepted", "done")
  /\ fdOut' = [fdOut EXCEPT ![l] = "open"]

ClientStep(l, from, to) ==
  /\ Alive(To(l)) /\ cli[l] = from /\ cli' = [cli EXCEPT ![l] = to]
  /\ UNCHANGED <<program, mainVars, srv, fdOut, wire, readVars, shot, emitted>>

\* connect succeeds once the server listens, before it accepts; until then
\* it fails and the helper tries again.
Connect(l) ==
  /\ srv[l] = "listening" /\ Alive(From(l))
  /\ ClientStep(l, "connecting", "connected") /\ UNCHANGED fdIn

SetNonBlocking(l) == ClientStep(l, "connected", "nonblocking") /\ UNCHANGED fdIn

\* Mutant: the descriptor is published before its flags are set.
PublishIn_Early(l) ==
  /\ ClientStep(l, "connected", "connected")
  /\ fdIn' = [fdIn EXCEPT ![l] = "open"]

PublishIn(l) ==
  /\ ClientStep(l, "nonblocking", "done")
  /\ fdIn' = [fdIn EXCEPT ![l] = "open"]

Helper(l) ==
  \/ Listen(l) \/ Accept(l) \/ PublishOut(l)
  \/ Connect(l) \/ SetNonBlocking(l) \/ PublishIn(l)

-----------------------------------------------------------------------------
(* Emitting, and the end of a process.                                     *)

\* The main loop goes on to its next operator.
NextTurn(n) ==
  /\ pc' = [pc EXCEPT ![n] = "loop"]
  /\ turn' = [turn EXCEPT ![n] = (@ % Len(Operators(n))) + 1]

\* Message m of stream s goes to the outbound operators that read s.
Emit(n, s, m) ==
  LET outs == InOrder({l \in Link : From(l) = n /\ Strm(l) = s})
  IN  IF outs = <<>>
      THEN NextTurn(n) /\ UNCHANGED <<todo, msg>>
      ELSE /\ pc' = [pc EXCEPT ![n] = "out"]
           /\ todo' = [todo EXCEPT ![n] = Ends("out", outs)]
           /\ msg' = [msg EXCEPT ![n] = m]
           /\ UNCHANGED turn

\* The operator is done with the head of todo.
Emitted(n) ==
  /\ todo' = [todo EXCEPT ![n] = Tail(@)]
  /\ IF Len(todo[n]) = 1
     THEN NextTurn(n)
     ELSE pc' = [pc EXCEPT ![n] = "out"] /\ UNCHANGED turn

\* shutdown_sockets goes through the inbound table, then the outbound one.
BeginShutdown(n) ==
  /\ pc' = [pc EXCEPT ![n] = "shut"]
  /\ todo' = [todo EXCEPT ![n] = Ends("in", Inbound(n)) \o Ends("out", Outbound(n))]
  /\ UNCHANGED <<turn, msg>>

Exit(n, c) ==
  /\ pc' = [pc EXCEPT ![n] = "exited"]
  /\ code' = [code EXCEPT ![n] = c]

-----------------------------------------------------------------------------
(* The file source.                                                        *)

FiringSource(n) == pc[n] = "loop" /\ Operators(n)[turn[n]] = 0

SourceReads(n) ==
  /\ FiringSource(n) /\ made[n] < MaxMsg
  /\ made' = [made EXCEPT ![n] = @ + 1]
  /\ Emit(n, 0, made[n] + 1)
  /\ UNCHANGED <<program, left, live, code, helpVars, fdOut, fdIn, wire, readVars,
                 shot, emitted>>

\* Its timer is not due.
SourceWaits(n) ==
  /\ FiringSource(n)
  /\ NextTurn(n)
  /\ UNCHANGED <<program, todo, made, msg, left, live, code, helpVars, fdOut, fdIn,
                 wire, readVars, shot, emitted>>

SourceEnds(n) ==
  /\ FiringSource(n) /\ made[n] = MaxMsg
  /\ BeginShutdown(n)
  /\ UNCHANGED <<program, made, left, live, code, helpVars, fdOut, fdIn, wire,
                 readVars, shot, emitted>>

-----------------------------------------------------------------------------
(* socket_in: read what is there, and keep the place.                      *)

Firing(n, l) == pc[n] = "loop" /\ Operators(n)[turn[n]] = l

\* Mutant: a payload that did not arrive with its header is not read on.
Reading_AtOnce(n, l) == pc[n] = "payload" /\ Operators(n)[turn[n]] = l

\* Reading the payload is tried in the firing that completed a header too.
Reading(n, l) ==
  \/ Firing(n, l) /\ curstate[l] = 1
  \/ pc[n] = "payload" /\ Operators(n)[turn[n]] = l

\* Nothing to read: not connected yet, would block, or end of file.
NothingToRead(n, l) ==
  /\ Firing(n, l) \/ Reading(n, l)
  /\ \/ fdIn[l] = "zero"
     \/ /\ wire[l] = <<>>
        /\ srv[l] \in {"accepted", "done"} \/ Alive(From(l))
  /\ NextTurn(n)
  /\ UNCHANGED <<program, todo, made, msg, left, live, code, helpVars, fdOut, fdIn,
                 wire, readVars, shot, emitted>>

\* The server exited without accepting the connection: read fails.
ReadFails(n, l) ==
  /\ Firing(n, l) /\ fdIn[l] = "open"
  /\ srv[l] = "listening" /\ ~Alive(From(l))
  /\ Exit(n, "error")
  /\ UNCHANGED <<program, todo, turn, made, msg, left, live, helpVars, fdOut, fdIn,
                 wire, readVars, shot, emitted>>

Drop(s, k) == SubSeq(s, k + 1, Len(s))

\* Mutant: the bytes go to the start of the buffer.
Put_AtStart(buf, offset, s) == s

\* read_bytes_offset's effect on the buffer.
Put(buf, offset, s) == SubSeq(buf, 1, offset) \o s

RemainingHeader(l) == HdrLen - lenctr[l]

\* Mutant: a negative length is not recognised.
IsEos_Never(header) == FALSE

IsEos(header) == header = Eos

ReadHeader(n, l) ==
  /\ Firing(n, l) /\ fdIn[l] = "open" /\ curstate[l] = 0
  /\ \E k \in 1..Len(wire[l]) :
       /\ k <= RemainingHeader(l)
       /\ wire' = [wire EXCEPT ![l] = Drop(@, k)]
       /\ lenbuf' = [lenbuf EXCEPT ![l] = Put(@, lenctr[l], SubSeq(wire[l], 1, k))]
       /\ \/ /\ k < RemainingHeader(l)
             /\ lenctr' = [lenctr EXCEPT ![l] = @ + k]
             /\ NextTurn(n)
             /\ UNCHANGED <<todo, msg, curstate, datactr, databuf>>
          \/ /\ k = RemainingHeader(l) /\ ~IsEos(lenbuf'[l])
             /\ curstate' = [curstate EXCEPT ![l] = 1]
             /\ lenctr' = [lenctr EXCEPT ![l] = 0]
             /\ datactr' = [datactr EXCEPT ![l] = 0]
             /\ databuf' = [databuf EXCEPT ![l] = <<>>]
             /\ pc' = [pc EXCEPT ![n] = "payload"]
             /\ UNCHANGED <<todo, msg, turn>>
          \/ /\ k = RemainingHeader(l) /\ IsEos(lenbuf'[l])
             /\ BeginShutdown(n)
             /\ UNCHANGED <<curstate, lenctr, datactr, databuf>>
  /\ UNCHANGED <<program, made, left, live, code, helpVars, fdOut, fdIn, shot, emitted>>

\* msglen, unmarshalled from the header.
Msglen(l) == IF lenbuf[l][1][1] = 0 THEN 1 ELSE PayLen[lenbuf[l][1][1]]

ReadPayload(n, l) ==
  /\ Reading(n, l)
  /\ \E k \in 1..Len(wire[l]) :
       LET got == Put(databuf[l], datactr[l], SubSeq(wire[l], 1, k)) IN
       /\ k <= Msglen(l) - datactr[l]
       /\ wire' = [wire EXCEPT ![l] = Drop(@, k)]
       /\ \/ /\ k < Msglen(l) - datactr[l]
             /\ databuf' = [databuf EXCEPT ![l] = got]
             /\ datactr' = [datactr EXCEPT ![l] = @ + k]
             /\ NextTurn(n)
             /\ UNCHANGED <<todo, msg, curstate, lenctr, emitted>>
          \/ /\ k = Msglen(l) - datactr[l]
             /\ emitted' = [emitted EXCEPT ![l] = Append(@, got[1][1])]
             /\ databuf' = [databuf EXCEPT ![l] = <<>>]
             /\ curstate' = [curstate EXCEPT ![l] = 0]
             /\ lenctr' = [lenctr EXCEPT ![l] = 0]
             /\ datactr' = [datactr EXCEPT ![l] = 0]
             /\ Emit(n, l, got[1][1])
  /\ UNCHANGED <<program, made, left, live, code, helpVars, fdOut, fdIn, lenbuf, shot>>

-----------------------------------------------------------------------------
(* socket_out.                                                             *)

Sending(n, l) == pc[n] = "out" /\ Head(todo[n]) = <<"out", l>>

Room(l) == program.cap - Len(wire[l])

\* Mutant: a full wire drops messages too.
MayDrop_WhenFull(l) == ~program.nodrop /\ (fdOut[l] = "zero" \/ Room(l) = 0)

MayDrop(l) == ~program.nodrop /\ fdOut[l] = "zero"

\* Not connected: with WS_SOCKET_ALLOWDROP the message is lost; otherwise
\* the main thread spins here until Shoot is enabled.
DropMessage(n, l) ==
  /\ Sending(n, l) /\ MayDrop(l)
  /\ Emitted(n)
  /\ UNCHANGED <<program, made, msg, left, live, code, helpVars, fdOut, fdIn, wire,
                 readVars, shot, emitted>>

Shoot(n, l) ==
  /\ Sending(n, l) /\ fdOut[l] = "open"
  /\ pc' = [pc EXCEPT ![n] = "write"]
  /\ left' = [left EXCEPT ![n] = Frame(msg[n])]
  /\ shot' = [shot EXCEPT ![l] = Append(@, msg[n])]
  /\ UNCHANGED <<program, todo, turn, made, msg, live, code, helpVars, fdOut, fdIn,
                 wire, readVars, emitted>>

\* write blocks until the wire has taken all the bytes.
Write(n, l) ==
  /\ pc[n] = "write" /\ Head(todo[n]) = <<"out", l>> /\ Alive(To(l)) /\ fdIn[l] # "closed"
  /\ \E k \in 1..Len(left[n]) :
       /\ k <= Room(l) /\ (k = Room(l) \/ k = Len(left[n]))
       /\ wire' = [wire EXCEPT ![l] = @ \o SubSeq(left[n], 1, k)]
       /\ left' = [left EXCEPT ![n] = Drop(@, k)]
       /\ IF k = Len(left[n]) THEN Emitted(n) ELSE UNCHANGED <<pc, todo, turn>>
  /\ UNCHANGED <<program, made, msg, live, code, helpVars, fdOut, fdIn, readVars,
                 shot, emitted>>

\* The reader has closed its end: the kernel discards the bytes.
WriteLost(n, l) ==
  /\ pc[n] = "write" /\ Head(todo[n]) = <<"out", l>>
  /\ ~Alive(To(l)) \/ fdIn[l] = "closed"
  /\ left' = [left EXCEPT ![n] = <<>>]
  /\ Emitted(n)
  /\ UNCHANGED <<program, made, msg, live, code, helpVars, fdOut, fdIn, wire, readVars,
                 shot, emitted>>

\* ... or knows that it has, and kills the process with SIGPIPE.
BrokenPipe(n, l) ==
  /\ \/ pc[n] = "write" /\ Head(todo[n]) = <<"out", l>>
     \/ pc[n] = "shut" /\ Head(todo[n]) = <<"out", l>> /\ fdOut[l] = "open"
  /\ ~Alive(To(l)) \/ fdIn[l] = "closed"
  /\ Exit(n, "sigpipe")
  /\ UNCHANGED <<program, todo, turn, made, msg, left, live, helpVars, fdOut, fdIn,
                 wire, readVars, shot, emitted>>

-----------------------------------------------------------------------------
(* shutdown_sockets, and wsexit(0) after it.                               *)

\* wsdecr_source_count_fun, called for every entry of the two tables: it
\* exits when the count is zero, and with an error below.
LoseSource(n) ==
  /\ live' = [live EXCEPT ![n] = @ - 1]
  /\ todo' = [todo EXCEPT ![n] = Tail(@)]
  /\ CASE live[n] = 0 -> Exit(n, "1")
       [] live[n] = 1 \/ Len(todo[n]) = 1 -> Exit(n, "0")
       [] OTHER -> UNCHANGED <<pc, code>>

ShutInbound(n, l) ==
  /\ pc[n] = "shut" /\ Head(todo[n]) = <<"in", l>>
  /\ fdIn' = [fdIn EXCEPT ![l] = "closed"]
  /\ LoseSource(n)
  /\ UNCHANGED <<program, turn, made, msg, left, helpVars, fdOut, wire, readVars, shot,
                 emitted>>

\* The end-of-stream header goes to descriptor 0 when there is no connection.
ShutOutbound(n, l) ==
  /\ pc[n] = "shut" /\ Head(todo[n]) = <<"out", l>>
  /\ \/ fdOut[l] = "zero" /\ UNCHANGED wire
     \/ /\ fdOut[l] = "open" /\ Alive(To(l)) /\ fdIn[l] # "closed"
        /\ Room(l) >= HdrLen
        /\ wire' = [wire EXCEPT ![l] = @ \o Eos]
     \/ /\ fdOut[l] = "open" /\ (~Alive(To(l)) \/ fdIn[l] = "closed")
        /\ UNCHANGED wire
  /\ fdOut' = [fdOut EXCEPT ![l] = "closed"]
  /\ LoseSource(n)
  /\ UNCHANGED <<program, turn, made, msg, left, helpVars, fdIn, readVars, shot, emitted>>

-----------------------------------------------------------------------------
Main(n) ==
  \/ SourceReads(n) \/ SourceWaits(n) \/ SourceEnds(n)
  \/ \E l \in Link :
       \/ SpawnServer(n, l) \/ SpawnClient(n, l)
       \/ NothingToRead(n, l) \/ ReadFails(n, l) \/ ReadHeader(n, l) \/ ReadPayload(n, l)
       \/ DropMessage(n, l) \/ Shoot(n, l)
       \/ Write(n, l) \/ WriteLost(n, l) \/ BrokenPipe(n, l)
       \/ ShutInbound(n, l) \/ ShutOutbound(n, l)

Nodes == {From(l) : l \in Link} \cup {To(l) : l \in Link}

Next ==
  \/ \E n \in Nodes : Start(n) \/ Main(n)
  \/ \E l \in Link : Helper(l)

\* Processes are started, their threads are scheduled, and each system call
\* that can return does.
Fairness ==
  /\ \A n \in Node : WF_vars(n \in Nodes /\ (Start(n) \/ Main(n)))
  /\ \A l \in LinkIds : WF_vars(l \in Link /\ Helper(l))

Spec == Init /\ [][Next]_vars /\ Fairness

-----------------------------------------------------------------------------
(* Properties.                                                             *)

\* What the reader has of the frame it is in the middle of.
Consumed(l) ==
  IF curstate[l] = 1 THEN lenbuf[l] \o SubSeq(databuf[l], 1, datactr[l])
                     ELSE SubSeq(lenbuf[l], 1, lenctr[l])

Unwritten(l) ==
  IF pc[From(l)] = "write" /\ Head(todo[From(l)])[2] = l THEN left[From(l)] ELSE <<>>

\* As long as the reader runs, what it has put together, what is on the wire
\* and what is still to be written are the frames of the messages not emitted
\* yet, in order, and at the end the end-of-stream header if the writer closed
\* the connection: no partial read or write loses, repeats or misplaces a byte,
\* also when the writer has exited meanwhile.
BytesAccounted ==
  \A l \in Link :
    pc[To(l)] \notin {"shut", "exited"} =>
      LET frames == [i \in 1..(Len(shot[l]) - Len(emitted[l])) |-> Frame(shot[l][Len(emitted[l]) + i])]
      IN  Consumed(l) \o wire[l] \o Unwritten(l)
            = FlattenSeq(frames) \o (IF fdOut[l] = "closed" /\ srv[l] = "done" THEN Eos ELSE <<>>)

\* Through any number of processes, an operator emits a run of consecutive
\* messages of the file at the far end, from the first one unless dropping is
\* allowed: messages are lost only before a connection is made, never between
\* two that arrive.
NoHoles ==
  \A l \in Link : \A i \in DOMAIN emitted[l] :
    emitted[l][i] = i + (IF program.nodrop THEN 0 ELSE emitted[l][1] - 1)

\* The main thread, which all operators of the process share, never calls
\* read on a descriptor that would block it: by the time it can see the
\* descriptor in the cell, the helper thread has set O_NONBLOCK.
ReadsNeverBlock ==
  \A n \in Nodes, l \in Link :
    Firing(n, l) /\ fdIn[l] = "open" => cli[l] \in {"nonblocking", "done"}

\* The process spins in socket_out for a connection whose other end has
\* exited (socket.ws:285), and nothing will end it.
Abandoned(n) ==
  \E l \in Link : /\ Sending(n, l) /\ fdOut[l] = "zero" /\ program.nodrop
                  /\ pc[To(l)] = "exited"

Ended(n) == pc[n] = "exited" \/ Abandoned(n)

\* In the end everything that socket_out began to write has been emitted by
\* the socket_in at the other end, unless that process has ended or was left
\* alone: a blocked write always gets through, and a message cut into pieces
\* is put together.
ShotIsEmitted == <>[](\A l \in Link : shot[l] = emitted[l] \/ Ended(To(l)))

\* A process that is sent the end-of-stream header ends too, whatever it was
\* doing for its other connections.
EosEndsReader ==
  <>[](\A l \in Link : fdOut[l] = "closed" /\ srv[l] = "done" => Ended(To(l)))

\* shutdown_sockets says (socket_wrappers.c:332): "Closing all sockets before
\* exiting."  A process that exits from it has closed the descriptors of all
\* its connections, and so told its readers that the stream has ended.
ClosesAllBeforeExit ==
  \A n \in Nodes : code[n] \in {"0", "1"} =>
    /\ \A l \in Range(Inbound(n)) : fdIn[l] # "open"
    /\ \A l \in Range(Outbound(n)) : fdOut[l] # "open"
=============================================================================
