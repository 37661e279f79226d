------------------------------- MODULE TaskTime -------------------------------
(***************************************************************************)
(* TaskScheduler.h: when a task is due.  The clock is an unsigned number   *)
(* that wraps; a task keeps the time its delay counts from and the delay,  *)
(* and every question is answered from differences of clock values.        *)
(*                                                                         *)
(* A delay with what the scheduler is late is less than half the span of   *)
(* the clock.  A timeout where there was none is set with aReset.          *)
(***************************************************************************)
EXTENDS Integers

CONSTANTS ClockSpan,  \* values of an unsigned long
          TimeDelays, \* delays and intervals, below half the span
          Timeouts,   \* what setTimeout is called with; 0 is none
          MaxLate     \* bound: ticks a task waits for the scheduler
ASSUME TimeAssumption ==
    /\ ClockSpan \in Nat \ {0} /\ MaxLate \in Nat /\ MaxLate < ClockSpan \div 2
    /\ TimeDelays \subseteq Nat /\ \A d \in TimeDelays : d + MaxLate < ClockSpan \div 2
    /\ Timeouts \subseteq Nat
    /\ \A t \in Timeouts : t < ClockSpan \div 2 /\ t + MaxLate <= ClockSpan \div 2

VARIABLES clock,     \* _TASK_TIME_FUNCTION()
          timed,     \* the task
          toGo,      \* history: ticks until it should run, negative when late
          timeLeft   \* history: ticks until its timeout, negative when over

timeVars == <<clock, timed, toGo, timeLeft>>

Wrapped(x) == x % ClockSpan
\* The cast to long of a value of the clock.
Signed(x) == IF x >= ClockSpan \div 2 THEN x - ClockSpan ELSE x

TimeInit ==
    /\ clock \in 0 .. ClockSpan - 1
    /\ timed = [enabled |-> FALSE, waiting |-> "no", iInterval |-> 0, iDelay |-> 0,
                iPreviousMillis |-> 0, iTimeout |-> 0, iStarttime |-> 0, timedOut |-> FALSE]
    /\ toGo = 0 /\ timeLeft = 0

-----------------------------------------------------------------------------
(* The calls, as changes of the task.                                      *)

\* delay: zero stands for the interval.
Delayed(t, aDelay) ==
    [t EXCEPT !.iDelay = IF aDelay # 0 THEN aDelay ELSE t.iInterval, !.iPreviousMillis = clock]
\* forceNextIteration, and the times in enable.
Forced(t) == [t EXCEPT !.iDelay = t.iInterval, !.iPreviousMillis = Wrapped(clock - t.iInterval)]
\* resetTimeout
TimeoutReset(t) == [t EXCEPT !.iStarttime = clock, !.timedOut = FALSE]
EnabledNow(t) == TimeoutReset(Forced([t EXCEPT !.enabled = TRUE]))
\* setInterval
IntervalSet(t, aInterval) == Delayed([t EXCEPT !.iInterval = aInterval], 0)

Now(t, wait) == timed' = t /\ toGo' = wait /\ UNCHANGED <<clock, timeLeft>>
FromNow(t, wait) == timed' = t /\ toGo' = wait /\ timeLeft' = t.iTimeout /\ clock' = clock

EnableTask == FromNow(EnabledNow(timed), 0)

EnableDelayed(aDelay) ==
    LET t == Delayed(EnabledNow(timed), aDelay) IN FromNow(t, t.iDelay)

DelayTask(aDelay) == LET t == Delayed(timed, aDelay) IN Now(t, t.iDelay)
ForceNextIteration == Now(Forced(timed), 0)
SetInterval(aInterval) == Now(IntervalSet(timed, aInterval), aInterval)

\* waitFor and waitForDelayed, without time until the request is complete.
WaitForRequest(aInterval, delayed) ==
    LET set == IF delayed /\ aInterval = 0 THEN timed ELSE IntervalSet(timed, aInterval) IN
    FromNow([EnabledNow(set) EXCEPT !.waiting = IF delayed THEN "delay" ELSE "nodelay"], 0)

\* setTimeout, which may leave the time it counts from.
SetTimeout(aTimeout, aReset) ==
    /\ aReset \/ timed.iTimeout # 0
    /\ timed' = LET t == [timed EXCEPT !.iTimeout = aTimeout] IN IF aReset THEN TimeoutReset(t) ELSE t
    /\ timeLeft' = IF aReset \/ aTimeout = 0 THEN aTimeout ELSE timeLeft + (aTimeout - timed.iTimeout)
    /\ UNCHANGED <<clock, toGo>>

\* disable
DisableTask == Now([timed EXCEPT !.enabled = FALSE], 0)

\* Scheduler::startNow; a task that is off keeps its time.
StartNow ==
    IF timed.enabled THEN Now([timed EXCEPT !.iPreviousMillis = Wrapped(clock - timed.iDelay)], 0)
    ELSE UNCHANGED timeVars

-----------------------------------------------------------------------------
(* What the scheduler asks.                                                *)

\* Mutant: the clock is compared with the time the task is due at.
DueByDeadline == clock >= Wrapped(timed.iPreviousMillis + timed.iDelay)

\* The test of execute.
Due == Wrapped(clock - timed.iPreviousMillis) >= timed.iDelay

\* The test of the timeout.
TimeoutOver == timed.iTimeout # 0 /\ Wrapped(clock - timed.iStarttime) > timed.iTimeout

\* timeUntilNextIteration of an enabled task that does not wait.
TimeUntilNextIteration ==
    LET d == timed.iDelay - Signed(Wrapped(clock - timed.iPreviousMillis)) IN
    IF d < 0 THEN 0 ELSE d

\* untilTimeout; the difference of two longs wraps.
UntilTimeout ==
    Signed(Wrapped(Signed(Wrapped(timed.iStarttime + timed.iTimeout)) - Signed(clock)))

\* execute: the timeout, then the request, then the time.
ExecuteTask(completed) ==
    /\ timed.enabled
    /\ IF TimeoutOver
       THEN Now([timed EXCEPT !.timedOut = TRUE, !.enabled = FALSE], 0)
       ELSE IF timed.waiting # "no" /\ ~completed THEN UNCHANGED timeVars
       ELSE LET t == IF timed.waiting = "no" THEN timed
                     ELSE IF timed.waiting = "nodelay" THEN [Forced(timed) EXCEPT !.waiting = "no"]
                     ELSE [timed EXCEPT !.iPreviousMillis = clock, !.waiting = "no"]
                wait == IF timed.waiting = "no" THEN toGo
                        ELSE IF timed.waiting = "nodelay" THEN 0 ELSE timed.iDelay
                runs == IF timed.waiting = "no" THEN Due
                        ELSE timed.waiting = "nodelay" \/ timed.iDelay = 0
            IN IF ~runs THEN Now(t, wait)
               ELSE Now([t EXCEPT !.iPreviousMillis = Wrapped(@ + t.iDelay), !.iDelay = t.iInterval],
                        wait + t.iInterval)

\* Time passes; the scheduler does not keep an enabled task waiting for long.
TimeTick ==
    /\ timed.enabled /\ timed.waiting = "no" => toGo > -MaxLate
    /\ timed.enabled /\ timed.iTimeout # 0 => timeLeft > -MaxLate
    /\ clock' = Wrapped(clock + 1)
    /\ toGo' = IF timed.enabled /\ timed.waiting = "no" THEN toGo - 1 ELSE toGo
    /\ timeLeft' = IF timed.enabled /\ timed.iTimeout # 0 THEN timeLeft - 1 ELSE timeLeft
    /\ timed' = timed

TimeNext ==
    \/ EnableTask \/ ForceNextIteration \/ DisableTask \/ StartNow \/ TimeTick
    \/ \E d \in TimeDelays : EnableDelayed(d) \/ DelayTask(d) \/ SetInterval(d)
    \/ \E d \in TimeDelays, delayed \in BOOLEAN : WaitForRequest(d, delayed)
    \/ \E t \in Timeouts, reset \in BOOLEAN : SetTimeout(t, reset)
    \/ \E completed \in BOOLEAN : ExecuteTask(completed)

TimeSpec == TimeInit /\ [][TimeNext]_timeVars

-----------------------------------------------------------------------------
\* Over every wrap of the clock a task runs when it should and not before,
\* after its delay and then interval after interval without a drift, its
\* timeout ends it in time, and the times the sketch is told are right.
TimesKept ==
    /\ timed.enabled /\ timed.waiting = "no" =>
        /\ Due <=> toGo <= 0
        /\ TimeUntilNextIteration = (IF toGo < 0 THEN 0 ELSE toGo)
    /\ timed.enabled /\ timed.iTimeout # 0 =>
        /\ TimeoutOver <=> timeLeft < 0
        /\ UntilTimeout = timeLeft
=============================================================================
