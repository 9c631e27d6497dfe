---------------------------- MODULE TimerDriver -----------------------------
(***************************************************************************)
(* The main loop that the code generator writes for a program driven by    *)
(* timers, in the build with real time (WS_REAL_TIMERS), together with the *)
(* thread BASE that counts output tuples and ends the program.             *)
(*                                                                         *)
(* There is no queue of coming events.  The loop goes tick by tick at the  *)
(* least common multiple of the timers' rates and counts, for each timer,  *)
(* the ticks since it last fired.  Ticks at which nothing fires cost       *)
(* nothing; after one at which something fired the program waits until     *)
(* real time has caught up with the ticks counted so far.  Sources with a  *)
(* negative rate run in place of that wait, over and over, and sources of  *)
(* rate zero run once, before the loop.                                    *)
(*                                                                         *)
(* Time is counted in units of which a tick has TickLength; the clock may  *)
(* advance between any two steps, since the code of a source takes time.   *)
(***************************************************************************)
EXTENDS Naturals, Sequences, Functions

CONSTANTS RateLists,  \* the rates of the normal timers of each program
          NegCounts,  \* how many negative-rate sources a program may have,
          ZeroCounts, \* and how many of rate zero
          TickLength, \* timestep_ms, in units of the clock
          TupleLimit, \* wsc2_tuplimit, the -n option
          MaxTicks,   \* bound: turns of the main loop
          MaxLag,     \* bound: units the program may fall behind the clock
          Unset       \* start_of_time before the first TIME_DEBT

Lcm(a, b) ==
  CHOOSE m \in 1..(a * b) :
    /\ m % a = 0 /\ m % b = 0
    /\ \A n \in 1..(m - 1) : n % a # 0 \/ n % b # 0

CommonRate(r) == FoldFunction(Lcm, 1, r)

ASSUME TimerAssumption ==
  /\ \A r \in RateLists : r \in Seq(Nat \ {0})
  /\ NegCounts \subseteq Nat /\ ZeroCounts \subseteq Nat
  /\ TickLength \in Nat \ {0} /\ TupleLimit \in Nat \ {0}
  /\ MaxTicks \in Nat /\ MaxLag \in Nat
  /\ Unset \notin Nat

\* A tick of the common rate ends every period of every timer.
ASSUME CommonMultiple ==
  \A r \in RateLists :
    /\ CommonRate(r) \in Nat \ {0}
    /\ \A s \in DOMAIN r : \E n \in 1..CommonRate(r) : CommonRate(r) = n * r[s]

VARIABLES rate,         \* rate[s]: the program's timers, in order, and
          negsrcs,      \* its number of negative-rate sources,
          zerosrcs,     \* and of zero-rate ones
          pc, i,        \* the main thread; the source whose turn it is
          counter,      \* counter[s]: ticks since timer s last fired
          fired,        \* did anything fire at this tick?
          tick_counter, logical_time, start_of_time, wake,
          now,          \* the clock
          stopalltimers,
          base,         \* the thread that runs BASE
          queue,        \* tuples in BASE's queue
          outputcount,
          exited,
          ticks, fires, negRuns \* history

program == <<rate, negsrcs, zerosrcs>>
clockVars == <<tick_counter, logical_time, start_of_time, wake>>
baseVars == <<stopalltimers, base, queue, outputcount, exited>>
histVars == <<ticks, fires, negRuns>>
vars == <<program, pc, i, counter, fired, clockVars, now, baseVars, histVars>>

Timer == DOMAIN rate

common_rate == CommonRate(rate)

\* Mutant: the common rate is the fastest timer's.
counter_mark_Fastest(s) ==
  (CHOOSE r \in {rate[t] : t \in Timer} : \A t \in Timer : rate[t] <= r) \div rate[s]

\* counter_marks: ticks from one firing of s to the next.
counter_mark(s) == common_rate \div rate[s]

Init ==
  /\ rate \in RateLists /\ negsrcs \in NegCounts /\ zerosrcs \in ZeroCounts
  /\ pc = (IF zerosrcs = 0 THEN "loop" ELSE "zero") /\ i = 1
  /\ counter = [s \in Timer |-> 0]
  /\ fired = FALSE
  /\ tick_counter = 0 /\ logical_time = 0 /\ start_of_time = Unset
  /\ wake = 0 /\ now = 0
  /\ stopalltimers = FALSE /\ base = "get" /\ queue = 0
  /\ outputcount = 0 /\ exited = FALSE
  /\ ticks = 0 /\ fires = [s \in Timer |-> 0] /\ negRuns = 0

-----------------------------------------------------------------------------
(* The main thread.                                                        *)

\* The zero-rate sources run once each; like every source here they emit one tuple.
ZeroTimer ==
  /\ pc = "zero"
  /\ queue' = queue + 1
  /\ pc' = IF i = zerosrcs THEN "loop" ELSE "zero"
  /\ i' = IF i = zerosrcs THEN 1 ELSE i + 1
  /\ UNCHANGED <<program, counter, fired, clockVars, now, stopalltimers,
                 base, outputcount, exited, histVars>>

\* while (!stopalltimers): count a tick for every timer, and VIRTTICK.
Tick ==
  /\ pc = "loop" /\ ~stopalltimers
  /\ ticks < MaxTicks
  /\ counter' = [s \in Timer |-> counter[s] + 1]
  /\ tick_counter' = tick_counter + 1
  /\ ticks' = ticks + 1
  /\ fired' = FALSE
  /\ pc' = "timers" /\ i' = 1
  /\ UNCHANGED <<program, logical_time, start_of_time, wake, now, baseVars,
                 fires, negRuns>>

CounterAfter(s) == 0

FireTimer ==
  /\ pc = "timers" /\ i \in Timer
  /\ counter[i] = counter_mark(i)
  /\ queue' = queue + 1
  /\ fires' = [fires EXCEPT ![i] = @ + 1]
  /\ counter' = [counter EXCEPT ![i] = CounterAfter(i)]
  /\ fired' = TRUE
  /\ i' = i + 1
  /\ UNCHANGED <<program, pc, clockVars, now, stopalltimers, base, outputcount,
                 exited, ticks, negRuns>>

SkipTimer ==
  /\ pc = "timers" /\ i \in Timer
  /\ counter[i] # counter_mark(i)
  /\ i' = i + 1
  /\ UNCHANGED <<program, pc, counter, fired, clockVars, now, baseVars, histVars>>

\* Mutant: the negative-rate sources wait for a debt before their first turn.
AfterFiring_DebtFirst == IF negsrcs = 0 THEN "wait" ELSE "debt"

AfterFiring == IF negsrcs = 0 THEN "wait" ELSE "negative"

\* Only ticks at which a timer fired are waited for.
TimersDone ==
  /\ pc = "timers" /\ i \notin Timer
  /\ pc' = IF fired \/ Timer = {} THEN AfterFiring ELSE "loop"
  /\ i' = 1
  /\ UNCHANGED <<program, counter, fired, clockVars, now, baseVars, histVars>>

\* One turn of the do loop: every negative-rate source runs; they emit nothing here.
NegativeTimers ==
  /\ pc = "negative"
  /\ negRuns' = IF negRuns < MaxTicks THEN negRuns + 1 ELSE negRuns
  /\ pc' = "debt"
  /\ UNCHANGED <<program, i, counter, fired, clockVars, now, baseVars, ticks, fires>>

\* Mutant: the ticks since the last call count as a single one.
LogicalTime_OneTick == logical_time + TickLength

LogicalTime == logical_time + TickLength * tick_counter

\* Mutant: the ticks are not taken off the counter.
TickCounterAfter_Kept == tick_counter

TickCounterAfter == 0

StartOfTime == IF start_of_time = Unset THEN now ELSE start_of_time
TIME_DEBT == LogicalTime > now - StartOfTime

\* WAIT_TICKS, or the test of the do loop around the negative-rate sources.
WaitTicks ==
  /\ pc \in {"wait", "debt"}
  /\ start_of_time' = StartOfTime
  /\ logical_time' = LogicalTime
  /\ tick_counter' = TickCounterAfter
  /\ wake' = StartOfTime + LogicalTime
  /\ pc' = IF ~TIME_DEBT THEN "loop" ELSE IF pc = "wait" THEN "sleep" ELSE "negative"
  /\ UNCHANGED <<program, i, counter, fired, now, baseVars, histVars>>

\* usleep returns; how late is up to the clock.
Wake ==
  /\ pc = "sleep" /\ now >= wake
  /\ pc' = "loop"
  /\ UNCHANGED <<program, i, counter, fired, clockVars, now, baseVars, histVars>>

LeaveLoop ==
  /\ pc = "loop" /\ stopalltimers
  /\ pc' = "drain"
  /\ UNCHANGED <<program, i, counter, fired, clockVars, now, baseVars, histVars>>

\* while (print_queue_status()) sleep(1); return 0
Drained ==
  /\ pc = "drain" /\ queue = 0
  /\ exited' = TRUE
  /\ UNCHANGED <<program, pc, i, counter, fired, clockVars, now, stopalltimers,
                 base, queue, outputcount, histVars>>

-----------------------------------------------------------------------------
(* BASE, and the clock.                                                    *)

\* Mutant: the limit is noticed one tuple late.
LimitReached_Late(n) == n > TupleLimit

LimitReached(n) == n = TupleLimit

BaseGet ==
  /\ base = "get" /\ queue > 0
  /\ queue' = queue - 1
  /\ outputcount' = outputcount + 1
  /\ stopalltimers' = (stopalltimers \/ LimitReached(outputcount + 1))
  /\ base' = IF LimitReached(outputcount + 1) THEN "exit" ELSE "get"
  /\ UNCHANGED <<program, pc, i, counter, fired, clockVars, now, exited, histVars>>

\* wsShutdown prints the queues and exit(0) ends every thread.
BaseExit ==
  /\ base = "exit"
  /\ exited' = TRUE
  /\ UNCHANGED <<program, pc, i, counter, fired, clockVars, now, stopalltimers,
                 base, queue, outputcount, histVars>>

\* Real time passes; MaxLag bounds how far the program may fall behind.
Clock ==
  /\ now < MaxLag + (IF start_of_time = Unset THEN 0 ELSE start_of_time + logical_time)
  /\ now' = now + 1
  /\ UNCHANGED <<program, pc, i, counter, fired, clockVars, baseVars, histVars>>

Main ==
  \/ ZeroTimer \/ Tick \/ FireTimer \/ SkipTimer \/ TimersDone
  \/ NegativeTimers \/ WaitTicks \/ Wake \/ LeaveLoop \/ Drained

Base == BaseGet \/ BaseExit

Next == ~exited /\ (Main \/ Base \/ Clock)

\* The kernel runs both threads, and time does not stand still.
Spec ==
  /\ Init /\ [][Next]_vars
  /\ WF_vars(~exited /\ Main) /\ WF_vars(~exited /\ Base) /\ WF_vars(~exited /\ Clock)

-----------------------------------------------------------------------------
\* Every variable holds a value of its type, and no counter passes its mark.
TypeOK ==
  /\ rate \in RateLists /\ negsrcs \in NegCounts /\ zerosrcs \in ZeroCounts
  /\ pc \in {"zero", "loop", "timers", "negative", "debt", "wait", "sleep", "drain"}
  /\ i \in 1..(Len(rate) + zerosrcs + 1)
  /\ counter \in [Timer -> Nat] /\ \A s \in Timer : counter[s] <= counter_mark(s)
  /\ fired \in BOOLEAN /\ stopalltimers \in BOOLEAN /\ exited \in BOOLEAN
  /\ start_of_time \in Nat \cup {Unset}
  /\ {tick_counter, logical_time, wake, now, queue, outputcount, ticks, negRuns}
       \subseteq Nat
  /\ fires \in [Timer -> Nat]
  /\ base \in {"get", "exit"}

\* After n ticks of the common rate each timer has fired as often as its own rate
\* says, rounded down: the counters and marks keep all timers in step for ever.
FiresAtItsRate ==
  pc = "loop" =>
    \A s \in Timer : /\ fires[s] * common_rate <= ticks * rate[s]
                     /\ ticks * rate[s] < (fires[s] + 1) * common_rate

\* TIME_DEBT is called after some ticks only, and by the do loop any number of times:
\* every tick is accounted for exactly once, in tick_counter or in logical_time.
TicksAccounted == logical_time + TickLength * tick_counter = TickLength * ticks

\* "we instead try to maintain an average timer rate" (wsc2.h): counted from its first
\* event no timer is ahead of real time by a whole period, however late the program ran
\* before and however the waits of several timers are shared.
AverageRate ==
  \A s \in Timer :
    fires[s] > 1 =>
      /\ start_of_time # Unset
      /\ (fires[s] - 1) * counter_mark(s) * TickLength <= now - start_of_time

\* Negative-rate sources run "at least as fast as anybody else" (emit-c2.sls), also
\* when the program is late and there is nothing to wait for.
NegativeKeepUp ==
  pc = "loop" /\ negsrcs > 0 => \A s \in Timer : fires[s] <= negRuns

\* A program with timers ends, and then it has counted exactly TupleLimit tuples: the
\* timers that still run and the main thread's own way out do not change that.
EndsAtLimit == Timer # {} => <>[](exited /\ outputcount = TupleLimit)
=============================================================================
