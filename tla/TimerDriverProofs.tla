------------------------- MODULE TimerDriverProofs --------------------------
(***************************************************************************)
(* The timers keep their rates and the program keeps to real time, for any *)
(* rates, any number of sources, and however long each step takes.         *)
(***************************************************************************)
EXTENDS TimerDriver, TLAPS

\* A mark divides the common rate into the periods of one timer.
LEMMA MarkOf ==
  ASSUME rate \in RateLists, NEW s \in Timer
  PROVE  /\ counter_mark(s) \in Nat \ {0} /\ rate[s] \in Nat \ {0}
         /\ common_rate = counter_mark(s) * rate[s] /\ common_rate \in Nat \ {0}
<1>1. rate[s] \in Nat \ {0}
  BY TimerAssumption DEF Timer
<1>2. /\ common_rate \in Nat \ {0}
      /\ \E n \in 1..common_rate : common_rate = n * rate[s]
  BY CommonMultiple DEF Timer, common_rate
<1>3. PICK n \in 1..common_rate : common_rate = n * rate[s]
  BY <1>2
<1>4. \A c \in Nat, d \in Nat, q \in Nat : d # 0 /\ c = q * d => c \div d = q
  OBVIOUS
<1>5. counter_mark(s) = n
  BY <1>1, <1>2, <1>3, <1>4 DEF counter_mark
<1> QED BY <1>1, <1>2, <1>3, <1>5

\* Arithmetic of periods.
LEMMA Periods ==
  ASSUME NEW c \in Nat, NEW f \in Nat, NEW m \in Nat \ {0}, NEW r \in Nat \ {0}, c < m
  PROVE  /\ f * (m * r) <= (c + f * m) * r
         /\ (c + f * m) * r < (f + 1) * (m * r)
<1>1. c * r < m * r
  OBVIOUS
<1>2. (c + f * m) * r = c * r + f * (m * r) /\ (f + 1) * (m * r) = f * (m * r) + m * r
  OBVIOUS
<1> QED BY <1>1, <1>2

-----------------------------------------------------------------------------
(* The counters.                                                           *)

\* A timer's counter has reached its mark only while its turn in this tick is to come;
\* what its counter does not show, its firings do.
CounterInv ==
  \A s \in Timer :
    /\ counter[s] + fires[s] * counter_mark(s) = ticks
    /\ counter[s] = counter_mark(s) => pc = "timers" /\ i <= s

\* The turns of the loops over sources stay within the program's sources.
TurnInv ==
  /\ pc = "zero" => i <= zerosrcs
  /\ pc = "timers" => i <= Len(rate) + 1
  /\ pc \notin {"zero", "timers"} => i = 1
  /\ ticks <= MaxTicks

TickInv == TypeOK /\ CounterInv /\ TurnInv /\ TicksAccounted

\* The program of a behaviour never changes.
LEMMA Program ==
  ASSUME TypeOK, [Next]_vars
  PROVE  /\ UNCHANGED <<rate, negsrcs, zerosrcs, Timer, common_rate>>
         /\ \A s \in Timer : counter_mark(s)' = counter_mark(s)
         /\ Len(rate) \in Nat /\ Timer = 1..Len(rate) /\ zerosrcs \in Nat /\ negsrcs \in Nat
<1>1. UNCHANGED <<rate, negsrcs, zerosrcs>>
  BY DEF Next, Main, Base, ZeroTimer, Tick, FireTimer, SkipTimer, TimersDone, NegativeTimers,
     WaitTicks, Wake, LeaveLoop, Drained, BaseGet, BaseExit, Clock, vars, program
<1>2. rate \in Seq(Nat \ {0}) /\ zerosrcs \in Nat /\ negsrcs \in Nat
  BY TimerAssumption DEF TypeOK
<1> QED BY <1>1, <1>2 DEF Timer, common_rate, counter_mark

\* At the start.
LEMMA InitTicks == Init => TickInv
<1> SUFFICES ASSUME Init PROVE TickInv
  OBVIOUS
<1>1. /\ rate \in Seq(Nat \ {0}) /\ zerosrcs \in Nat /\ Len(rate) \in Nat
      /\ Timer = 1..Len(rate)
  BY TimerAssumption DEF Init, Timer
<1>2. \A s \in Timer : counter_mark(s) \in Nat \ {0}
  BY MarkOf DEF Init
<1>3. counter \in [Timer -> Nat] /\ \A s \in Timer : counter[s] <= counter_mark(s)
  BY <1>2 DEF Init
<1>4. fires \in [Timer -> Nat]
  BY DEF Init
<1>5. i \in 1..(Len(rate) + zerosrcs + 1)
  BY <1>1 DEF Init
<1>6. TypeOK
  <2>1. /\ rate \in RateLists /\ negsrcs \in NegCounts /\ zerosrcs \in ZeroCounts
        /\ pc \in {"loop", "zero"} /\ fired = FALSE /\ stopalltimers = FALSE /\ exited = FALSE
        /\ start_of_time = Unset /\ base = "get"
        /\ {tick_counter, logical_time, wake, now, queue, outputcount, ticks, negRuns}
             \subseteq Nat
    BY DEF Init
  <2> QED BY <1>3, <1>4, <1>5, <2>1 DEF TypeOK
<1>7. CounterInv /\ TurnInv /\ TicksAccounted
  BY <1>1, <1>2, TimerAssumption DEF Init, CounterInv, TurnInv, TicksAccounted
<1> QED BY <1>6, <1>7 DEF TickInv

\* A tick begins: every counter and the history go one on.
LEMMA TickStep == ASSUME TickInv, [Next]_vars, Tick PROVE TickInv'
<1>1. /\ pc = "loop" /\ ticks < MaxTicks /\ ticks \in Nat /\ tick_counter \in Nat
      /\ counter' = [s \in Timer |-> counter[s] + 1]
      /\ tick_counter' = tick_counter + 1 /\ ticks' = ticks + 1
      /\ fired' = FALSE /\ pc' = "timers" /\ i' = 1
      /\ UNCHANGED <<rate, logical_time, fires>>
  BY DEF TickInv, TypeOK, Tick, program, histVars
<1>2. /\ UNCHANGED <<Timer, zerosrcs>>
      /\ \A s \in Timer : counter_mark(s)' = counter_mark(s)
      /\ Len(rate) \in Nat /\ zerosrcs \in Nat /\ Timer = 1..Len(rate)
  BY Program DEF TickInv
<1>3. /\ counter \in [Timer -> Nat] /\ fires \in [Timer -> Nat]
      /\ \A s \in Timer : counter_mark(s) \in Nat \ {0}
  BY MarkOf DEF TickInv, TypeOK
<1>4. ASSUME NEW s \in Timer
      PROVE  /\ counter[s] < counter_mark(s)
             /\ counter[s] + fires[s] * counter_mark(s) = ticks
             /\ counter'[s] = counter[s] + 1
  <2>1. counter[s] <= counter_mark(s) /\ counter[s] # counter_mark(s)
    BY <1>1 DEF TickInv, TypeOK, CounterInv
  <2> QED BY <1>1, <1>3, <2>1 DEF TickInv, CounterInv
<1>5. CounterInv'
  <2> SUFFICES ASSUME NEW s \in Timer
               PROVE  /\ counter'[s] + fires'[s] * counter_mark(s)' = ticks'
                      /\ i' <= s
    BY <1>1, <1>2 DEF CounterInv
  <2>1. fires[s] * counter_mark(s) \in Nat /\ counter[s] \in Nat
    BY <1>3
  <2> QED BY <1>1, <1>2, <1>4, <2>1
<1>6. TicksAccounted'
  <2>1. TickLength \in Nat /\ logical_time \in Nat
    BY TimerAssumption DEF TickInv, TypeOK
  <2>2. logical_time + TickLength * tick_counter = TickLength * ticks
    BY DEF TickInv, TicksAccounted
  <2>3. /\ TickLength * (tick_counter + 1) = TickLength * tick_counter + TickLength
        /\ TickLength * (ticks + 1) = TickLength * ticks + TickLength
        /\ TickLength * tick_counter \in Nat /\ TickLength * ticks \in Nat
    BY <1>1, <2>1
  <2> QED BY <1>1, <2>1, <2>2, <2>3 DEF TicksAccounted
<1>7. TurnInv'
  BY <1>1, <1>2, TimerAssumption DEF TurnInv
<1>8. counter' \in [Timer' -> Nat] /\ \A s \in Timer' : counter'[s] <= counter_mark(s)'
  <2>1. counter' \in [Timer -> Nat]
    BY <1>1, <1>3
  <2>2. \A s \in Timer : counter'[s] <= counter_mark(s)
    BY <1>3, <1>4
  <2> QED BY <1>2, <2>1, <2>2
<1>9. i' \in 1..(Len(rate) + zerosrcs + 1)'
  BY <1>1, <1>2
<1>10. TypeOK'
  <2>1. fires' \in [Timer' -> Nat]
    BY <1>1, <1>2, <1>3
  <2>2. {tick_counter', ticks'} \subseteq Nat
    BY <1>1
  <2> QED BY <1>1, <1>2, <1>8, <1>9, <2>1, <2>2 DEF TickInv, TypeOK, Tick, baseVars, program
<1> QED BY <1>5, <1>6, <1>7, <1>10 DEF TickInv

\* A timer fires and starts counting again.
LEMMA FireStep == ASSUME TickInv, [Next]_vars, FireTimer PROVE TickInv'
<1>1. /\ pc = "timers" /\ pc' = pc /\ i \in Timer /\ counter[i] = counter_mark(i)
      /\ fires' = [fires EXCEPT ![i] = @ + 1] /\ counter' = [counter EXCEPT ![i] = 0]
      /\ fired' = TRUE /\ i' = i + 1 /\ queue' = queue + 1
      /\ UNCHANGED <<rate, zerosrcs, logical_time, tick_counter, ticks>>
  BY DEF FireTimer, CounterAfter, program, clockVars
<1>2. /\ UNCHANGED <<Timer, zerosrcs>>
      /\ \A s \in Timer : counter_mark(s)' = counter_mark(s)
      /\ Len(rate) \in Nat /\ zerosrcs \in Nat /\ Timer = 1..Len(rate)
  BY Program DEF TickInv
<1>3. /\ counter \in [Timer -> Nat] /\ fires \in [Timer -> Nat] /\ ticks \in Nat
      /\ \A s \in Timer : counter_mark(s) \in Nat \ {0}
  BY MarkOf DEF TickInv, TypeOK
<1>4. /\ fires' \in [Timer -> Nat] /\ counter' \in [Timer -> Nat]
      /\ \A s \in Timer : /\ counter'[s] = IF s = i THEN 0 ELSE counter[s]
                          /\ fires'[s] = IF s = i THEN fires[s] + 1 ELSE fires[s]
  BY <1>1, <1>3
<1>5. CounterInv'
  <2> SUFFICES ASSUME NEW s \in Timer
               PROVE  /\ counter'[s] + fires'[s] * counter_mark(s) = ticks
                      /\ counter'[s] = counter_mark(s) => i + 1 <= s
    BY <1>1, <1>2 DEF CounterInv
  <2>1. /\ counter[s] + fires[s] * counter_mark(s) = ticks
        /\ counter[s] = counter_mark(s) => i <= s
    BY DEF TickInv, CounterInv
  <2>2. CASE s = i
    <3>1. (fires[i] + 1) * counter_mark(i) = fires[i] * counter_mark(i) + counter_mark(i)
          /\ fires[i] * counter_mark(i) \in Nat
      BY <1>1, <1>3
    <3> QED BY <1>1, <1>3, <1>4, <2>1, <2>2, <3>1
  <2>3. CASE s # i
    BY <1>1, <1>2, <1>4, <2>1, <2>3
  <2> QED BY <2>2, <2>3
<1>6. TurnInv' /\ TicksAccounted'
  BY <1>1, <1>2 DEF TickInv, TurnInv, TicksAccounted
<1>7. \A s \in Timer' : counter'[s] <= counter_mark(s)'
  BY <1>2, <1>3, <1>4 DEF TickInv, TypeOK
<1>8. i' \in 1..(Len(rate) + zerosrcs + 1)' /\ queue' \in Nat
  BY <1>1, <1>2 DEF TickInv, TypeOK
<1>9. TypeOK'
  BY <1>1, <1>2, <1>4, <1>7, <1>8 DEF TickInv, TypeOK, FireTimer, program, clockVars
<1> QED BY <1>5, <1>6, <1>9 DEF TickInv

\* Between ticks and firings only the clocks, BASE and the place in the program change.
LEMMA OtherStep ==
  ASSUME TickInv, [Next]_vars,
         UNCHANGED <<counter, fires, ticks>>,
         logical_time' + TickLength * tick_counter' = logical_time + TickLength * tick_counter,
         TypeOK', TurnInv',
         \A s \in Timer : pc = "timers" /\ i <= s /\ counter[s] = counter_mark(s)
           => pc' = "timers" /\ i' <= s
  PROVE  TickInv'
<1>1. /\ UNCHANGED Timer
      /\ \A s \in Timer : counter_mark(s)' = counter_mark(s)
  BY Program DEF TickInv
<1>2. CounterInv'
  BY <1>1 DEF TickInv, CounterInv
<1>3. TicksAccounted'
  BY DEF TickInv, TicksAccounted
<1> QED BY <1>2, <1>3 DEF TickInv

\* Turns that fire no timer.
LEMMA QuietSteps ==
  ASSUME TickInv, [Next]_vars,
         \/ ZeroTimer \/ SkipTimer \/ TimersDone \/ NegativeTimers
         \/ Wake \/ LeaveLoop \/ Drained \/ Base \/ Clock \/ UNCHANGED vars
  PROVE  TickInv'
<1>1. /\ UNCHANGED <<counter, fires, ticks, logical_time, tick_counter, start_of_time, wake>>
      /\ fired' \in {fired, FALSE}
  BY DEF ZeroTimer, SkipTimer, TimersDone, NegativeTimers, Wake, LeaveLoop, Drained, Base,
     BaseGet, BaseExit, Clock, vars, clockVars, histVars
<1>2. /\ UNCHANGED <<rate, negsrcs, zerosrcs, Timer>>
      /\ \A s \in Timer : counter_mark(s)' = counter_mark(s)
      /\ Len(rate) \in Nat /\ zerosrcs \in Nat /\ Timer = 1..Len(rate)
  BY Program DEF TickInv
<1>3. i \in 1..(Len(rate) + zerosrcs + 1)
  BY DEF TickInv, TypeOK
<1>4. TurnInv' /\ i' \in 1..(Len(rate) + zerosrcs + 1)
  <2>1. TurnInv
    BY DEF TickInv
  <2>2. CASE ZeroTimer
    BY <1>1, <1>2, <1>3, <2>1, <2>2 DEF ZeroTimer, TurnInv
  <2>3. CASE SkipTimer
    BY <1>1, <1>2, <1>3, <2>1, <2>3 DEF SkipTimer, TurnInv
  <2>4. CASE TimersDone
    BY <1>1, <1>2, <1>3, <2>1, <2>4 DEF TimersDone, TurnInv, AfterFiring
  <2>5. CASE NegativeTimers
    BY <1>1, <1>2, <1>3, <2>1, <2>5 DEF NegativeTimers, TurnInv
  <2>6. CASE Wake \/ LeaveLoop
    BY <1>1, <1>2, <1>3, <2>1, <2>6 DEF Wake, LeaveLoop, TurnInv
  <2>7. CASE Drained \/ Base \/ Clock \/ UNCHANGED vars
    <3>1. pc' = pc /\ i' = i
      BY <2>7 DEF Drained, Base, BaseGet, BaseExit, Clock, vars
    <3> QED BY <1>1, <1>2, <1>3, <2>1, <3>1 DEF TurnInv
  <2> QED BY <2>2, <2>3, <2>4, <2>5, <2>6, <2>7
<1>5. pc' \in {"zero", "loop", "timers", "negative", "debt", "wait", "sleep", "drain"}
  BY DEF TickInv, TypeOK, ZeroTimer, SkipTimer, TimersDone, AfterFiring, NegativeTimers, Wake,
     LeaveLoop, Drained, Base, BaseGet, BaseExit, Clock, vars
<1>6. /\ now' \in Nat /\ queue' \in Nat /\ outputcount' \in Nat /\ negRuns' \in Nat
  <2>1. now \in Nat /\ queue \in Nat /\ outputcount \in Nat /\ negRuns \in Nat
    BY DEF TickInv, TypeOK
  <2>2. CASE ZeroTimer
    BY <2>1, <2>2 DEF ZeroTimer, histVars
  <2>3. CASE NegativeTimers
    BY <2>1, <2>3 DEF NegativeTimers, baseVars
  <2>4. CASE BaseGet
    BY <2>1, <2>4 DEF BaseGet, histVars
  <2>5. CASE Clock
    BY <2>1, <2>5 DEF Clock, baseVars, histVars
  <2>6. CASE SkipTimer \/ TimersDone \/ Wake \/ LeaveLoop \/ Drained \/ BaseExit \/ UNCHANGED vars
    BY <2>1, <2>6 DEF SkipTimer, TimersDone, Wake, LeaveLoop, Drained, BaseExit, vars,
       baseVars, histVars
  <2> QED BY <2>2, <2>3, <2>4, <2>5, <2>6 DEF Base
<1>7. stopalltimers' \in BOOLEAN /\ exited' \in BOOLEAN /\ base' \in {"get", "exit"}
  <2>1. stopalltimers \in BOOLEAN /\ exited \in BOOLEAN /\ base \in {"get", "exit"}
    BY DEF TickInv, TypeOK
  <2>2. CASE BaseGet
    BY <2>1, <2>2 DEF BaseGet, LimitReached
  <2>3. CASE BaseExit \/ Drained
    BY <2>1, <2>3 DEF BaseExit, Drained
  <2>4. CASE \/ ZeroTimer \/ SkipTimer \/ TimersDone \/ NegativeTimers
             \/ Wake \/ LeaveLoop \/ Clock \/ UNCHANGED vars
    BY <2>1, <2>4 DEF ZeroTimer, SkipTimer, TimersDone, NegativeTimers, Wake, LeaveLoop, Clock,
       vars, baseVars
  <2> QED BY <2>2, <2>3, <2>4 DEF Base
<1>8. TypeOK'
  <2>1. /\ counter' \in [Timer' -> Nat] /\ \A s \in Timer' : counter'[s] <= counter_mark(s)'
        /\ fires' \in [Timer' -> Nat]
    BY <1>1, <1>2 DEF TickInv, TypeOK
  <2> QED BY <1>1, <1>2, <1>4, <1>5, <1>6, <1>7, <2>1 DEF TickInv, TypeOK
<1>9. \A s \in Timer : pc = "timers" /\ i <= s /\ counter[s] = counter_mark(s)
           => pc' = "timers" /\ i' <= s
  <2> SUFFICES ASSUME NEW s \in Timer, pc = "timers", i <= s, counter[s] = counter_mark(s)
               PROVE  pc' = "timers" /\ i' <= s
    OBVIOUS
  <2>1. i \in Timer /\ s \in Nat /\ i \in Nat
    BY <1>2, <1>3
  <2>2. CASE SkipTimer
    BY <2>1, <2>2 DEF SkipTimer
  <2>3. CASE Drained \/ Base \/ Clock \/ UNCHANGED vars
    BY <2>3 DEF Drained, Base, BaseGet, BaseExit, Clock, vars
  <2>4. CASE ZeroTimer \/ TimersDone \/ NegativeTimers \/ Wake \/ LeaveLoop
    BY <2>1, <2>4 DEF ZeroTimer, TimersDone, NegativeTimers, Wake, LeaveLoop
  <2> QED BY <2>2, <2>3, <2>4
<1> QED BY <1>1, <1>4, <1>8, <1>9, OtherStep

\* TIME_DEBT moves the ticks counted so far into the logical time.
LEMMA WaitStep == ASSUME TickInv, [Next]_vars, WaitTicks PROVE TickInv'
<1>1. /\ tick_counter' = 0 /\ logical_time' = logical_time + TickLength * tick_counter
      /\ start_of_time' = (IF start_of_time = Unset THEN now ELSE start_of_time)
      /\ wake' = start_of_time' + logical_time'
      /\ pc' \in {"loop", "sleep", "negative"} /\ pc \in {"wait", "debt"}
      /\ UNCHANGED <<rate, negsrcs, zerosrcs, i, counter, fired, now, baseVars, ticks, fires,
                     negRuns>>
  BY DEF WaitTicks, LogicalTime, TickCounterAfter, StartOfTime, program, histVars
<1>2. /\ UNCHANGED <<Timer, zerosrcs>>
      /\ \A s \in Timer : counter_mark(s)' = counter_mark(s)
  BY Program DEF TickInv
<1>3. TurnInv'
  BY <1>1 DEF TickInv, TurnInv
<1>4. tick_counter' \in Nat /\ logical_time' \in Nat /\ start_of_time' \in Nat /\ wake' \in Nat
  <2>1. tick_counter \in Nat /\ logical_time \in Nat /\ TickLength \in Nat /\ now \in Nat
        /\ start_of_time \in Nat \cup {Unset}
    BY TimerAssumption DEF TickInv, TypeOK
  <2>2. TickLength * tick_counter \in Nat
    BY <2>1
  <2> QED BY <1>1, <2>1, <2>2
<1>5. TypeOK'
  BY <1>1, <1>2, <1>4 DEF TickInv, TypeOK, baseVars
<1>6. logical_time' + TickLength * tick_counter' = logical_time + TickLength * tick_counter
  BY <1>1, <1>4, TimerAssumption
<1> QED BY <1>1, <1>3, <1>5, <1>6, OtherStep

\* The step taken, whoever takes it.
LEMMA Turns ==
  ASSUME [Next]_vars
  PROVE  \/ Tick \/ FireTimer \/ WaitTicks
         \/ ZeroTimer \/ SkipTimer \/ TimersDone \/ NegativeTimers
         \/ Wake \/ LeaveLoop \/ Drained \/ Base \/ Clock \/ UNCHANGED vars
BY DEF Next, Main

\* The counters are right at every step, for any rates.
THEOREM CountersInStep == Spec => []TickInv
<1>1. TickInv /\ [Next]_vars => TickInv'
  BY Turns, TickStep, FireStep, WaitStep, QuietSteps
<1> QED BY <1>1, InitTicks, PTL DEF Spec

\* Every variable keeps its type, and no counter passes its mark.
THEOREM TypeCorrect == Spec => []TypeOK
<1>1. TickInv => TypeOK
  BY DEF TickInv
<1> QED BY <1>1, CountersInStep, PTL

\* Every tick is accounted for once, in the counter or in the logical time, ...
THEOREM NoTickLost == Spec => []TicksAccounted
<1>1. TickInv => TicksAccounted
  BY DEF TickInv
<1> QED BY <1>1, CountersInStep, PTL

\* ... and each timer has fired as often as its own rate says.
THEOREM RateKept == Spec => []FiresAtItsRate
<1>1. TickInv => FiresAtItsRate
  <2> SUFFICES ASSUME TickInv, pc = "loop", NEW s \in Timer
               PROVE  /\ fires[s] * common_rate <= ticks * rate[s]
                      /\ ticks * rate[s] < (fires[s] + 1) * common_rate
    BY DEF FiresAtItsRate
  <2>1. /\ counter_mark(s) \in Nat \ {0} /\ rate[s] \in Nat \ {0}
        /\ common_rate = counter_mark(s) * rate[s]
    BY MarkOf DEF TickInv, TypeOK
  <2>2. /\ counter[s] \in Nat /\ fires[s] \in Nat /\ counter[s] < counter_mark(s)
        /\ ticks = counter[s] + fires[s] * counter_mark(s)
    <3>1. counter[s] \in Nat /\ fires[s] \in Nat /\ counter[s] <= counter_mark(s)
      BY DEF TickInv, TypeOK
    <3> QED BY <2>1, <3>1 DEF TickInv, CounterInv
  <2> QED BY <2>1, <2>2, Periods
<1> QED BY <1>1, CountersInStep, PTL

-----------------------------------------------------------------------------
(* Real time.                                                              *)

\* Real time has caught up with all periods of s that have ended.
Paid(s) ==
  fires[s] > 0 =>
    start_of_time # Unset /\ fires[s] * counter_mark(s) * TickLength <= now - start_of_time

\* Timer s has not fired in the tick that the program is working on, and nothing else
\* has kept it from the wait of an earlier one.
Settled(s) == pc \in {"zero", "loop"} \/ (pc = "timers" /\ (i <= s \/ ~fired))

\* A timer is paid for whenever it may fire, so that only one period is ever ahead;
\* the sleep ends when real time has caught up with the logical time.
PaceInv ==
  /\ start_of_time # Unset => start_of_time <= now
  /\ pc = "zero" => \A s \in Timer : fires[s] = 0
  /\ pc = "sleep" => /\ start_of_time # Unset /\ tick_counter = 0
                     /\ wake = start_of_time + logical_time
  /\ \A s \in Timer : Settled(s) => Paid(s)
  /\ AverageRate

\* When real time has caught up with the logical time, which holds every tick, every
\* timer is paid for.
LEMMA CaughtUp ==
  TickInv /\ tick_counter = 0 /\ start_of_time # Unset /\ logical_time <= now - start_of_time
    => \A s \in Timer : Paid(s)
<1> SUFFICES ASSUME TickInv, tick_counter = 0, start_of_time # Unset,
                    logical_time <= now - start_of_time, NEW s \in Timer
             PROVE  fires[s] * counter_mark(s) * TickLength <= now - start_of_time
  BY DEF Paid
<1>1. TickLength \in Nat \ {0} /\ now \in Nat /\ start_of_time \in Nat /\ ticks \in Nat
      /\ logical_time \in Nat
  BY TimerAssumption DEF TickInv, TypeOK
<1>2. counter[s] \in Nat /\ fires[s] \in Nat /\ counter_mark(s) \in Nat
  BY MarkOf DEF TickInv, TypeOK
<1>3. fires[s] * counter_mark(s) <= ticks /\ fires[s] * counter_mark(s) \in Nat
  <2>1. fires[s] * counter_mark(s) \in Nat
    BY <1>2
  <2>2. counter[s] + fires[s] * counter_mark(s) = ticks
    BY DEF TickInv, CounterInv
  <2> QED BY <1>1, <1>2, <2>1, <2>2
<1>4. logical_time = TickLength * ticks
  BY <1>1 DEF TickInv, TicksAccounted
<1>5. \A a, b, c \in Nat : a <= b => a * c <= c * b
  OBVIOUS
<1> QED BY <1>1, <1>3, <1>4, <1>5

LEMMA CaughtUpNext ==
  (TickInv /\ tick_counter = 0 /\ start_of_time # Unset /\ logical_time <= now - start_of_time
    => \A s \in Timer : Paid(s))'
BY CaughtUp, PTL

\* What is paid for stays so while the clock goes on.
LEMMA PaidStays ==
  ASSUME TickInv, [Next]_vars, NEW s \in Timer, Paid(s), UNCHANGED fires,
         now <= now', now' \in Nat, start_of_time # Unset => UNCHANGED start_of_time
  PROVE  Paid(s)'
<1>1. counter_mark(s)' = counter_mark(s) /\ counter_mark(s) \in Nat
  BY Program, MarkOf DEF TickInv, TypeOK
<1>2. now \in Nat /\ start_of_time \in Nat \cup {Unset} /\ TickLength \in Nat
      /\ fires[s] \in Nat
  BY TimerAssumption DEF TickInv, TypeOK
<1> SUFFICES ASSUME fires'[s] > 0
             PROVE  /\ start_of_time' # Unset
                    /\ fires'[s] * counter_mark(s)' * TickLength <= now' - start_of_time'
  BY DEF Paid
<1>3. start_of_time # Unset /\ start_of_time' = start_of_time
      /\ fires[s] * counter_mark(s) * TickLength <= now - start_of_time
  BY DEF Paid
<1>4. fires[s] * counter_mark(s) * TickLength \in Nat
  BY <1>1, <1>2
<1> QED BY <1>1, <1>2, <1>3, <1>4

\* So does the average rate.
LEMMA AverageStays ==
  ASSUME TickInv, [Next]_vars, AverageRate, UNCHANGED fires,
         now <= now', now' \in Nat, start_of_time # Unset => UNCHANGED start_of_time
  PROVE  AverageRate'
<1> SUFFICES ASSUME NEW s \in Timer, fires[s] > 1
             PROVE  /\ start_of_time' # Unset
                    /\ (fires[s] - 1) * counter_mark(s)' * TickLength
                         <= now' - start_of_time'
  BY Program DEF TickInv, AverageRate
<1>1. counter_mark(s)' = counter_mark(s) /\ counter_mark(s) \in Nat
  BY Program, MarkOf DEF TickInv, TypeOK
<1>2. now \in Nat /\ start_of_time \in Nat \cup {Unset} /\ TickLength \in Nat
      /\ fires[s] - 1 \in Nat
  <2>1. fires[s] \in Nat
    BY DEF TickInv, TypeOK
  <2> QED BY <2>1, TimerAssumption DEF TickInv, TypeOK
<1>3. start_of_time # Unset /\ start_of_time' = start_of_time
      /\ (fires[s] - 1) * counter_mark(s) * TickLength <= now - start_of_time
  BY DEF AverageRate
<1>4. (fires[s] - 1) * counter_mark(s) * TickLength \in Nat
  BY <1>1, <1>2
<1> QED BY <1>1, <1>2, <1>3, <1>4

\* A timer that fires was paid for: it is now one period ahead at most.
LEMMA FirePace ==
  ASSUME TickInv, TickInv', PaceInv, [Next]_vars, FireTimer PROVE PaceInv'
<1>1. /\ pc = "timers" /\ pc' = pc /\ i \in Timer
      /\ fires' = [fires EXCEPT ![i] = @ + 1]
      /\ fired' = TRUE /\ i' = i + 1 /\ UNCHANGED <<start_of_time, now>>
  BY DEF FireTimer, clockVars
<1>2. /\ UNCHANGED Timer /\ \A s \in Timer : counter_mark(s)' = counter_mark(s)
      /\ Timer \subseteq Nat /\ fires \in [Timer -> Nat]
  <2>1. fires \in [Timer -> Nat]
    BY DEF TickInv, TypeOK
  <2> QED BY <2>1, Program DEF TickInv
<1>3. \A s \in Timer : fires'[s] = IF s = i THEN fires[s] + 1 ELSE fires[s]
  BY <1>1, <1>2
<1>4. ASSUME NEW s \in Timer, Settled(s)' PROVE Paid(s)'
  <2>1. s # i /\ Settled(s)
    BY <1>1, <1>2, <1>4 DEF Settled
  <2> QED BY <1>1, <1>2, <1>3, <2>1 DEF PaceInv, Paid
<1>5. AverageRate'
  <2> SUFFICES ASSUME NEW s \in Timer, fires'[s] > 1
               PROVE  /\ start_of_time # Unset
                      /\ (fires'[s] - 1) * counter_mark(s) * TickLength
                           <= now - start_of_time
    BY <1>1, <1>2 DEF AverageRate
  <2>1. CASE s # i
    BY <1>3, <2>1 DEF PaceInv, AverageRate
  <2>2. CASE s = i
    <3>1. Settled(i) /\ Paid(i)
      BY <1>1, <1>2 DEF Settled, PaceInv
    <3>2. fires'[s] - 1 = fires[i] /\ fires[i] > 0
      BY <1>1, <1>2, <1>3, <2>2
    <3> QED BY <2>2, <3>1, <3>2 DEF Paid
  <2> QED BY <2>1, <2>2
<1> QED BY <1>1, <1>2, <1>4, <1>5 DEF PaceInv

\* Real time that has caught up, or a sleep until it has, settles every timer.
LEMMA WaitPace ==
  ASSUME TickInv, TickInv', PaceInv, [Next]_vars, WaitTicks PROVE PaceInv'
<1>1. /\ tick_counter' = 0 /\ logical_time' = LogicalTime
      /\ start_of_time' = StartOfTime /\ wake' = start_of_time' + logical_time'
      /\ pc' \in {"loop", "sleep", "negative"} /\ (pc' = "loop" => ~TIME_DEBT)
      /\ UNCHANGED <<now, fires>>
  BY DEF WaitTicks, TickCounterAfter, histVars
<1>2. /\ now \in Nat /\ start_of_time' \in Nat /\ start_of_time' <= now
      /\ start_of_time' # Unset /\ logical_time' \in Nat
      /\ (start_of_time # Unset => UNCHANGED start_of_time)
  <2>1. now \in Nat /\ start_of_time \in Nat \cup {Unset} /\ logical_time' \in Nat
    BY DEF TickInv, TypeOK
  <2> QED BY <1>1, <2>1, TimerAssumption DEF PaceInv, StartOfTime
<1>3. AverageRate'
  BY <1>1, <1>2, AverageStays DEF PaceInv
<1>4. ASSUME pc' = "loop" PROVE \A s \in Timer' : Paid(s)'
  <2>1. logical_time' <= now' - start_of_time'
    <3>1. ~(LogicalTime > now - StartOfTime)
      BY <1>1, <1>4 DEF TIME_DEBT
    <3>2. ~(logical_time' > now - start_of_time') /\ now' = now
      BY <1>1, <3>1
    <3>3. ASSUME NEW l \in Nat, NEW n \in Nat, NEW b \in Nat, ~(l > n - b) PROVE l <= n - b
      BY <3>3
    <3>4. logical_time' <= now - start_of_time'
      BY <1>2, <3>2, <3>3
    <3> QED BY <3>2, <3>4
  <2> QED BY <1>1, <1>2, <2>1, CaughtUpNext
<1>5. \A s \in Timer' : Settled(s)' => Paid(s)'
  BY <1>1, <1>4 DEF Settled
<1> QED BY <1>1, <1>2, <1>3, <1>5 DEF PaceInv

LEMMA PaceTypes ==
  ASSUME TypeOK
  PROVE  i \in Nat /\ start_of_time \in Nat \cup {Unset} /\ logical_time \in Nat
<1>1. i \in 1..(Len(rate) + zerosrcs + 1)
  BY DEF TypeOK
<1>2. rate \in Seq(Nat \ {0}) /\ zerosrcs \in Nat
  BY TimerAssumption DEF TypeOK
<1>3. start_of_time \in Nat \cup {Unset} /\ logical_time \in Nat
  BY DEF TypeOK
<1> QED BY <1>1, <1>2, <1>3

\* No other step makes a timer settled that was not paid for.
LEMMA OtherPace ==
  ASSUME TickInv, TickInv', PaceInv, [Next]_vars,
         \/ Tick \/ ZeroTimer \/ SkipTimer \/ TimersDone \/ NegativeTimers
         \/ Wake \/ LeaveLoop \/ Drained \/ Base \/ Clock \/ UNCHANGED vars
  PROVE  PaceInv'
<1>1. UNCHANGED <<fires, start_of_time, logical_time, wake>>
  BY DEF Tick, ZeroTimer, SkipTimer, TimersDone, NegativeTimers, Wake, LeaveLoop, Drained, Base,
     BaseGet, BaseExit, Clock, vars, clockVars, histVars
<1>2. now' \in {now, now + 1} /\ now \in Nat /\ now <= now' /\ now' \in Nat
  <2>1. now \in Nat /\ now' \in {now, now + 1}
    BY DEF TickInv, TypeOK, Tick, ZeroTimer, SkipTimer, TimersDone, NegativeTimers, Wake,
       LeaveLoop, Drained, Base, BaseGet, BaseExit, Clock, vars
  <2> QED BY <2>1
<1>3. /\ UNCHANGED Timer /\ Timer = 1..Len(rate) /\ Len(rate) \in Nat
      /\ i \in Nat /\ start_of_time \in Nat \cup {Unset} /\ logical_time \in Nat
  <2>1. TypeOK
    BY DEF TickInv
  <2> QED BY <2>1, Program, PaceTypes
<1>4. AverageRate'
  BY <1>1, <1>2, AverageStays DEF PaceInv
<1>5. start_of_time' # Unset => start_of_time' <= now'
  BY <1>1, <1>2, <1>3 DEF PaceInv
<1>6. pc' \in {"zero", "sleep"} => pc' = pc /\ tick_counter' = tick_counter
  BY DEF Tick, ZeroTimer, SkipTimer, TimersDone, AfterFiring, NegativeTimers, Wake, LeaveLoop,
     Drained, Base, BaseGet, BaseExit, Clock, vars, clockVars
<1>7. ASSUME NEW s \in Timer, Settled(s)' PROVE Paid(s)'
  <2>1. Paid(s)
    <3>1. CASE Wake
      <4>1. now >= wake /\ pc = "sleep"
        BY <3>1 DEF Wake
      <4>2. start_of_time # Unset /\ tick_counter = 0 /\ logical_time <= now - start_of_time
        BY <1>2, <1>3, <4>1 DEF PaceInv
      <4> QED BY <4>2, CaughtUp
    <3>2. CASE Tick
      BY <3>2 DEF Tick, PaceInv, Settled
    <3>3. CASE ZeroTimer
      BY <3>3 DEF ZeroTimer, PaceInv, Settled
    <3>4. CASE SkipTimer
      <4>1. Settled(s)
        BY <1>3, <1>7, <3>4 DEF SkipTimer, Settled
      <4> QED BY <4>1 DEF PaceInv
    <3>5. CASE TimersDone
      <4>1. pc = "timers" /\ (~fired \/ Timer = {})
        BY <1>7, <3>5 DEF TimersDone, AfterFiring, Settled
      <4> QED BY <4>1 DEF PaceInv, Settled
    <3>6. CASE NegativeTimers \/ LeaveLoop
      BY <1>7, <3>6 DEF NegativeTimers, LeaveLoop, Settled
    <3>7. CASE Drained \/ Base \/ Clock \/ UNCHANGED vars
      <4>1. UNCHANGED <<pc, i, fired>>
        BY <3>7 DEF Drained, Base, BaseGet, BaseExit, Clock, vars
      <4> QED BY <1>7, <4>1 DEF PaceInv, Settled
    <3> QED BY <3>1, <3>2, <3>3, <3>4, <3>5, <3>6, <3>7
  <2> QED BY <1>1, <1>2, <2>1, PaidStays
<1> QED BY <1>1, <1>3, <1>4, <1>5, <1>6, <1>7 DEF PaceInv

\* The timers keep to real time.
THEOREM Pace == Spec => []PaceInv
<1>1. Init => PaceInv
  BY DEF Init, PaceInv, Settled, Paid, AverageRate
<1>2. TickInv /\ TickInv' /\ PaceInv /\ [Next]_vars => PaceInv'
  BY Turns, FirePace, WaitPace, OtherPace
<1> QED BY <1>1, <1>2, CountersInStep, PTL DEF Spec

\* No timer is ahead of real time by a whole period, however long its program's steps
\* take and however late it wakes up.
THEOREM AverageKept == Spec => []AverageRate
<1>1. PaceInv => AverageRate
  BY DEF PaceInv
<1> QED BY <1>1, Pace, PTL

-----------------------------------------------------------------------------
(* Negative-rate sources.                                                  *)

\* Timer s has fired in this tick, and the negative-rate sources have not run since.
Owed(s) == pc = "negative" \/ (pc = "timers" /\ fired /\ i > s)

\* The negative-rate sources are at most one turn behind a timer, and only between its
\* firing and the turn that follows.
NegativeInv ==
  /\ pc \in {"wait", "sleep"} => negsrcs = 0
  /\ negsrcs > 0 => \A s \in Timer :
       fires[s] <= negRuns + (IF Owed(s) THEN 1 ELSE 0)

\* No timer fires more often than the loop turns.
LEMMA FiresBounded ==
  ASSUME TickInv
  PROVE  \A s \in Timer : fires[s] \in Nat /\ fires[s] <= MaxTicks
<1> SUFFICES ASSUME NEW s \in Timer PROVE fires[s] \in Nat /\ fires[s] <= MaxTicks
  OBVIOUS
<1>1. /\ counter[s] \in Nat /\ fires[s] \in Nat /\ counter_mark(s) \in Nat \ {0}
      /\ ticks \in Nat /\ MaxTicks \in Nat /\ ticks <= MaxTicks
  BY MarkOf, TimerAssumption DEF TickInv, TypeOK, TurnInv
<1>2. counter[s] + fires[s] * counter_mark(s) = ticks
  BY DEF TickInv, CounterInv
<1>3. fires[s] <= fires[s] * counter_mark(s) /\ fires[s] * counter_mark(s) \in Nat
  BY <1>1
<1> QED BY <1>1, <1>2, <1>3

\* The turns of the negative-rate sources follow the firings.
LEMMA NegativeStep ==
  ASSUME TickInv, NegativeInv, [Next]_vars
  PROVE  NegativeInv'
<1>1. /\ UNCHANGED <<Timer, negsrcs>> /\ negsrcs \in Nat /\ Timer = 1..Len(rate)
      /\ Len(rate) \in Nat
  BY Program DEF TickInv
<1>2. /\ negRuns \in Nat /\ fires \in [Timer -> Nat] /\ i \in Nat /\ MaxTicks \in Nat
      /\ \A s \in Timer : fires[s] \in Nat /\ fires[s] <= MaxTicks
  BY FiresBounded, TimerAssumption DEF TickInv, TypeOK
<1>3. CASE FireTimer
  <2>1. /\ pc = "timers" /\ pc' = pc /\ i \in Timer /\ fired' = TRUE /\ i' = i + 1
        /\ fires' = [fires EXCEPT ![i] = @ + 1] /\ negRuns' = negRuns
    BY <1>3 DEF FireTimer
  <2>2. \A s \in Timer : fires'[s] = IF s = i THEN fires[s] + 1 ELSE fires[s]
    BY <1>2, <2>1
  <2>3. ASSUME NEW s \in Timer, negsrcs > 0
        PROVE  fires'[s] <= negRuns + (IF i + 1 > s THEN 1 ELSE 0)
    <3>1. fires[s] <= negRuns + (IF fired /\ i > s THEN 1 ELSE 0)
      BY <2>1, <2>3 DEF NegativeInv, Owed
    <3> QED BY <1>1, <1>2, <2>1, <2>2, <3>1
  <2> QED BY <1>1, <2>1, <2>3 DEF NegativeInv, Owed
<1>4. CASE NegativeTimers
  <2>1. /\ pc = "negative" /\ pc' = "debt" /\ fires' = fires
        /\ negRuns' = IF negRuns < MaxTicks THEN negRuns + 1 ELSE negRuns
    BY <1>4 DEF NegativeTimers
  <2>2. ASSUME NEW s \in Timer, negsrcs > 0 PROVE fires[s] <= negRuns'
    <3>1. fires[s] <= negRuns + 1
      BY <2>1, <2>2 DEF NegativeInv, Owed
    <3> QED BY <1>2, <2>1, <3>1
  <2> QED BY <1>1, <1>2, <2>1, <2>2 DEF NegativeInv, Owed
<1>5. ASSUME UNCHANGED <<fires, negRuns>>,
             pc' \in {"wait", "sleep"} => pc' = pc \/ pc = "wait" \/ negsrcs = 0,
             \A s \in Timer :
               Owed(s) => negsrcs = 0 \/ Owed(s)'
      PROVE  NegativeInv'
  <2>1. ASSUME NEW s \in Timer, negsrcs > 0
        PROVE  fires[s] <= negRuns + (IF Owed(s)' THEN 1 ELSE 0)
    <3>1. fires[s] <= negRuns + (IF Owed(s) THEN 1 ELSE 0)
      BY <2>1 DEF NegativeInv
    <3>2. Owed(s) => Owed(s)'
      BY <1>1, <1>5, <2>1
    <3>3. fires[s] \in Nat /\ negRuns \in Nat
      BY <1>2
    <3> QED BY <3>1, <3>2, <3>3
  <2> QED BY <1>1, <1>5, <2>1 DEF NegativeInv
<1>6. CASE SkipTimer
  BY <1>1, <1>2, <1>5, <1>6 DEF SkipTimer, Owed, histVars
<1>7. CASE TimersDone
  <2>1. /\ pc = "timers" /\ UNCHANGED <<fires, negRuns>>
        /\ pc' = IF fired \/ Timer = {} THEN IF negsrcs = 0 THEN "wait" ELSE "negative"
                 ELSE "loop"
    BY <1>7 DEF TimersDone, AfterFiring, histVars
  <2> QED BY <1>5, <2>1 DEF Owed
<1>8. CASE WaitTicks
  BY <1>5, <1>8 DEF WaitTicks, Owed, histVars
<1>9. CASE ZeroTimer \/ Tick \/ Wake \/ LeaveLoop
  BY <1>5, <1>9 DEF ZeroTimer, Tick, Wake, LeaveLoop, Owed, histVars
<1>10. CASE Drained \/ Base \/ Clock \/ UNCHANGED vars
  <2>1. UNCHANGED <<pc, i, fired, fires, negRuns>>
    BY <1>10 DEF Drained, Base, BaseGet, BaseExit, Clock, vars, histVars
  <2> QED BY <1>1, <1>5, <2>1 DEF Owed
<1> QED BY <1>3, <1>4, <1>6, <1>7, <1>8, <1>9, <1>10, Turns

\* Negative-rate sources run at least as often as any timer fires.
THEOREM NegativeFollows == Spec => []NegativeKeepUp
<1>1. Init => NegativeInv
  BY DEF Init, NegativeInv
<1>2. TickInv /\ NegativeInv /\ [Next]_vars => NegativeInv'
  BY NegativeStep
<1>3. TickInv /\ NegativeInv => NegativeKeepUp
  <2> SUFFICES ASSUME TickInv, NegativeInv, pc = "loop", negsrcs > 0, NEW s \in Timer
               PROVE  fires[s] <= negRuns
    BY DEF NegativeKeepUp
  <2>1. negRuns \in Nat
    BY DEF TickInv, TypeOK
  <2> QED BY <2>1 DEF NegativeInv, Owed
<1> QED BY <1>1, <1>2, <1>3, CountersInStep, PTL DEF Spec
=============================================================================
