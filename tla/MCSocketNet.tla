---------------------------- MODULE MCSocketNet -----------------------------
(***************************************************************************)
(* Programs for SocketNet, after runtime/tests: a file sent to one other   *)
(* process; a chain of three; a file sent on two connections; two files    *)
(* merged (merge_distributed); a circle of two (socket_example/example5)   *)
(* and a process connected to itself (example1), the last two with a wire  *)
(* that holds everything, since a circle of full wires stops.              *)
(***************************************************************************)
EXTENDS SocketNet

CONSTANTS a, b, c

Conn(n, strm, m) == [from |-> n, to |-> m, strm |-> strm]

MCPayLen == [m \in 1..MaxMsg |-> 1 + (m % 2)]

Chain == <<Conn(a, 0, b), Conn(b, 1, c)>>
Fork == <<Conn(a, 0, b), Conn(a, 0, c)>>
Merge == <<Conn(a, 0, c), Conn(b, 0, c)>>
Circle == <<Conn(a, 0, b), Conn(b, 1, a)>>
Loop == <<Conn(a, 0, a)>>

Prog(links, cap) == [links : {links}, source : {{a}}, nodrop : BOOLEAN, cap : {cap}]

MCPrograms ==
  Prog(Chain, 3) \cup Prog(Fork, 3) \cup Prog(Circle, 12) \cup Prog(Loop, 12)
    \cup [links : {Merge}, source : {{a, b}}, nodrop : BOOLEAN, cap : {3}]
=============================================================================
