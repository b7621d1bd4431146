---------------------------- MODULE TimerProgram ----------------------------
(***************************************************************************)
(* The timer as a program uses it: TakeAllTimeout drives the wheel, one Tick  *)
(* after the other, inside the loop of codesnip/test/timer.cc.  Timers are    *)
(* added and deleted between two calls or from a callback, by the thread of   *)
(* the loop; time passes everywhere, also in callbacks.                     *)
(***************************************************************************)
EXTENDS TimeWheel, TimerLoop

timerVars == <<vars, loopVars>>

TimerInit == Init /\ LoopInit

\* A Tick begins when the for loop of TakeAllTimeout calls it, and its end is that of
\* the call.
CallTick == inside /\ i < cnt /\ BeginTick /\ UNCHANGED loopVars
InTick == (SkipEntry \/ Activate \/ EraseEntry) /\ UNCHANGED loopVars
TickReturns == EndTick /\ LoopTick

Read == TakeAllTimeout /\ UNCHANGED vars
Return == it = 0 /\ Finish /\ UNCHANGED vars

TimePasses == Advance /\ UNCHANGED vars

\* From a callback, or while the loop is outside TakeAllTimeout.
ClientCalls == (~inside \/ calling) /\ Client /\ UNCHANGED loopVars

Worker == CallTick \/ InTick \/ TickReturns \/ Read \/ Return

TimerNext == Worker \/ TimePasses \/ ClientCalls

TimerSpec == TimerInit /\ [][TimerNext]_timerVars

\* The loop never ends, and callbacks return; the clock need not be fair.
FairTimerSpec == TimerSpec /\ WF_timerVars(Worker)

-----------------------------------------------------------------------------
(* Properties                                                              *)

\* The tick at which an armed timer is due, counted from the making of the wheel.
Due(t) == ticks + Left(t)

\* When a timer fires it is the tick it was due at, and that time has come by the clock
\* too; and no call of TakeAllTimeout leaves behind a timer that was due when it read
\* the clock.
FiresOnTime ==
    /\ calling => Due(Current[it]) = ticks /\ ticks < clock - made
    /\ ~inside => \A t \in Armed : Due(t) >= seen - made

\* A timer that is overdue by the clock fires, or is taken out.
OverdueTimersFire ==
    \A t \in Timers : t \in Armed /\ Due(t) < clock - made ~> t \notin Armed
=============================================================================
