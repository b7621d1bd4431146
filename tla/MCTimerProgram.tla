-------------------------- MODULE MCTimerProgram --------------------------
(* Model-checking instance of TimerProgram: a timer is <<timeout, copy>>.    *)
EXTENDS TimerProgram

\* For two slots: at once, a whole turn, beyond two turns.
SomeTimers == {<<0, 1>>, <<2, 1>>, <<5, 1>>}

TimeoutOf == [t \in Timers |-> t[1]]
=============================================================================
