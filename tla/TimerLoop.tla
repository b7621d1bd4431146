------------------------------ MODULE TimerLoop ------------------------------
(***************************************************************************)
(* TakeAllTimeout of codesnip/include/common/timer.h, and the loop of        *)
(* codesnip/test/timer.cc that calls it: the wheel is given one Tick for     *)
(* every millisecond since the last call.                                  *)
(*                                                                         *)
(* The clock is an unsigned 64-bit number of milliseconds, read into an int:  *)
(* after 25 days of uptime now is negative, and starttime_, assigned from   *)
(* it, a huge unsigned number.  Both sizes are parameters here.  What a Tick *)
(* does with the timers is module TimeWheel.                                *)
(***************************************************************************)
EXTENDS Integers

CONSTANTS
    IntSize,    \* values of int, 2^32
    UllSize,    \* values of unsigned long long, 2^64
    Starts,     \* clock values at which the wheel may be made
    MaxGap,     \* longest time from one reading of the clock to the next
    MaxClock    \* end of the clock, a bound of the model

ASSUME SizesAssumption ==
    /\ IntSize \in Nat \ {0} /\ UllSize \in Nat
    /\ IntSize % 2 = 0 /\ UllSize % IntSize = 0
ASSUME ClockAssumption == MaxClock \in Nat /\ MaxClock < UllSize /\ Starts \subseteq 0..MaxClock
\* The loop is never held up for 2^31 ms, 24 days.
ASSUME GapAssumption == MaxGap \in Nat /\ 2 * MaxGap < IntSize

VARIABLES
    clock,        \* CLOCK_MONOTONIC_COARSE, in ms
    starttime_,
    now, cnt, i,  \* locals of TakeAllTimeout
    inside,       \* the loop thread is inside TakeAllTimeout
    ticks,        \* calls of Tick so far
    made,         \* the clock when the wheel was made
    seen          \* the clock when it was last read

loopVars == <<clock, starttime_, now, cnt, i, inside, ticks, made, seen>>

\* Conversions to int and to unsigned long long.
Int32(x) == IF 2 * (x % IntSize) < IntSize THEN x % IntSize ELSE (x % IntSize) - IntSize
Ull(x) == x % UllSize

LoopInit ==
    /\ clock \in Starts
    /\ made = clock /\ seen = clock
    /\ starttime_ = Ull(clock)
    /\ now = 0 /\ cnt = 0 /\ i = 0
    /\ inside = FALSE
    /\ ticks = 0

\* Time passes, in the loop's epoll_wait or while it is in its callbacks.
Advance ==
    /\ clock < MaxClock
    /\ clock - seen < MaxGap
    /\ clock' = clock + 1
    /\ UNCHANGED <<starttime_, now, cnt, i, inside, ticks, made, seen>>

\* epoll_wait returns, after its timeout or because of input, and the clock is read.
TakeAllTimeout ==
    /\ ~inside
    /\ inside' = TRUE
    /\ now' = Int32(clock)
    /\ cnt' = Int32(Ull(Ull(now') - starttime_))
    /\ i' = 0
    /\ seen' = clock
    /\ UNCHANGED <<clock, starttime_, ticks, made>>

LoopTick ==
    /\ inside /\ i < cnt
    /\ ticks' = ticks + 1
    /\ i' = i + 1
    /\ UNCHANGED <<clock, starttime_, now, cnt, inside, made, seen>>

\* Mutant: the clock is read again, and the time of the callbacks is lost.
FinishReadsAgain ==
    /\ inside /\ i >= cnt
    /\ starttime_' = Ull(Int32(clock))
    /\ inside' = FALSE
    /\ UNCHANGED <<clock, now, cnt, i, ticks, made, seen>>

\* Mutant: starttime_ is not moved on.
FinishKeepsStart ==
    /\ inside /\ i >= cnt
    /\ inside' = FALSE
    /\ UNCHANGED <<clock, starttime_, now, cnt, i, ticks, made, seen>>

Finish ==
    /\ inside /\ i >= cnt
    /\ starttime_' = Ull(now)
    /\ inside' = FALSE
    /\ UNCHANGED <<clock, now, cnt, i, ticks, made, seen>>

Loop == TakeAllTimeout \/ LoopTick \/ Finish

LoopNext == Advance \/ Loop

LoopSpec == LoopInit /\ [][LoopNext]_loopVars

-----------------------------------------------------------------------------
(* Properties                                                              *)

\* Types: now and cnt are ints, starttime_ is an unsigned long long.
LoopTypeOK ==
    /\ clock \in 0..MaxClock /\ made \in 0..MaxClock /\ seen \in 0..MaxClock
    /\ starttime_ \in 0..(UllSize - 1)
    /\ now \in Int /\ 2 * now \in -IntSize..(IntSize - 1)
    /\ cnt \in Int /\ 2 * cnt \in -IntSize..(IntSize - 1)
    /\ i \in Nat /\ ticks \in Nat
    /\ inside \in BOOLEAN

\* One Tick for each millisecond and no other: when TakeAllTimeout is done the wheel
\* has made as many as the clock had shown, and on the way it lacks those still to
\* be made.  Neither the truncation of the clock to an int nor the sign extension
\* into starttime_ loses or repeats any.
TicksExact == ticks + (IF inside THEN cnt - i ELSE 0) = seen - made

\* The wheel is never ahead of the clock: no timer fires sooner than its timeout
\* after the moment the wheel stood at when it was added.
NeverAhead == ticks <= clock - made
=============================================================================
