----------------------------- MODULE TimerQueue -----------------------------
(***************************************************************************)
(* What a timer promises: a timer added with timeout n fires once, on the   *)
(* tick that n ticks separate from the one next due or in progress, unless  *)
(* it is cancelled before.  A tick ends only when every timer due on it has *)
(* fired and its function has returned.                                    *)
(***************************************************************************)
EXTENDS Integers

CONSTANTS Timers, Timeout, None

VARIABLES
    left,       \* ticks to go before the one a timer fires on, or None
    active,     \* the timer whose function is running, or None
    cancelled   \* timers cancelled before they fired

vars == <<left, active, cancelled>>

Init ==
    /\ left = [t \in Timers |-> None]
    /\ active = None
    /\ cancelled = {}

Add(t) ==
    /\ left[t] = None
    /\ t \notin cancelled
    /\ left' = [left EXCEPT ![t] = Timeout[t]]
    /\ UNCHANGED <<active, cancelled>>

Cancel(t) ==
    /\ left[t] # None
    /\ t # active
    /\ left' = [left EXCEPT ![t] = None]
    /\ cancelled' = cancelled \cup {t}
    /\ UNCHANGED active

Fire(t) ==
    /\ active = None
    /\ left[t] = 0
    /\ active' = t
    /\ UNCHANGED <<left, cancelled>>

Return(t) ==
    /\ active = t
    /\ active' = None
    /\ left' = [left EXCEPT ![t] = None]
    /\ UNCHANGED cancelled

Tick ==
    /\ active = None
    /\ \A t \in Timers : left[t] # 0
    /\ left' = [t \in Timers |-> IF left[t] = None THEN None ELSE left[t] - 1]
    /\ UNCHANGED <<active, cancelled>>

Next ==
    \/ \E t \in Timers :
        \/ Add(t)
        \/ Cancel(t)
        \/ Fire(t)
        \/ Return(t)
    \/ Tick

Spec == Init /\ [][Next]_vars
=============================================================================
