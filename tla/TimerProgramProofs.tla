-------------------------- MODULE TimerProgramProofs --------------------------
(***************************************************************************)
(* The timer program: the loop of TakeAllTimeout, then the loop and the wheel *)
(* together.                                                               *)
(*                                                                         *)
(* TakeAllTimeout makes one Tick per millisecond, for all sizes of int and   *)
(* unsigned long long of which the second is a multiple of the first.        *)
(* TicksExact is not inductive: whether the next difference is right depends *)
(* on starttime_, which after the first call is no longer the clock that was *)
(* read but a number congruent to it modulo IntSize.  Conversions to either  *)
(* type respect that congruence, and an int that is congruent to a small     *)
(* number is that number.  LoopIInv adds the congruence, and that no more     *)
(* time has passed since the last reading than an int can hold.              *)
(*                                                                         *)
(* The program is both a behaviour of the loop and one of the wheel, so the   *)
(* invariants of both hold of it; that a Tick is in progress only inside the *)
(* for loop of TakeAllTimeout is what connects the two.                      *)
(***************************************************************************)
EXTENDS TimerProgram, TimeWheelProofs

Cong(x, y) == \E k \in Int : x = y + IntSize * k

LoopIInv ==
    /\ LoopTypeOK
    /\ TicksExact
    /\ seen <= clock /\ clock - seen <= MaxGap
    /\ ~inside => Cong(starttime_, seen)
    /\ inside => Cong(now, seen) /\ i <= cnt

-----------------------------------------------------------------------------
(* Arithmetic                                                              *)

\* Division with remainder.
LEMMA DivMod ==
    ASSUME NEW m \in Nat \ {0}, NEW x \in Int
    PROVE  /\ x \div m \in Int
           /\ x % m \in 0..(m - 1)
           /\ x = m * (x \div m) + (x % m)
OBVIOUS

\* The only multiple of m between -m and m is 0.
LEMMA NoMultiple ==
    ASSUME NEW m \in Nat \ {0}, NEW k \in Int, -m < m * k, m * k < m
    PROVE  k = 0
<1>1. k >= 1 => m * k >= m
  OBVIOUS
<1>2. k <= -1 => m * k <= -m
  OBVIOUS
<1> QED BY <1>1, <1>2

\* Congruence is kept by differences.
LEMMA CongDifference ==
    ASSUME NEW a \in Int, NEW b \in Int, NEW c \in Int, NEW d \in Int,
           Cong(a, b), Cong(c, d)
    PROVE  Cong(a - c, b - d)
<1>1. PICK k \in Int : a = b + IntSize * k
  BY DEF Cong
<1>2. PICK l \in Int : c = d + IntSize * l
  BY DEF Cong
<1>3. a - c = (b - d) + IntSize * (k - l)
  BY <1>1, <1>2, SizesAssumption
<1>4. k - l \in Int
  OBVIOUS
<1> QED BY <1>3, <1>4 DEF Cong

\* It is transitive.
LEMMA CongTransitive ==
    ASSUME NEW a \in Int, NEW b \in Int, NEW c \in Int, Cong(a, b), Cong(b, c)
    PROVE  Cong(a, c)
<1>1. PICK k \in Int : a = b + IntSize * k
  BY DEF Cong
<1>2. PICK l \in Int : b = c + IntSize * l
  BY DEF Cong
<1>3. a = c + IntSize * (k + l)
  BY <1>1, <1>2, SizesAssumption
<1>4. k + l \in Int
  OBVIOUS
<1> QED BY <1>3, <1>4 DEF Cong

\* A conversion to int gives an int congruent to its argument.
LEMMA Int32Cong ==
    ASSUME NEW x \in Int
    PROVE  /\ Int32(x) \in Int
           /\ 2 * Int32(x) \in -IntSize..(IntSize - 1)
           /\ Cong(Int32(x), x)
<1> DEFINE q == x \div IntSize
           r == x % IntSize
<1>1. q \in Int /\ r \in 0..(IntSize - 1) /\ x = IntSize * q + r
  BY DivMod, SizesAssumption
<1> HIDE DEF q, r
<1>2. CASE 2 * r < IntSize
  <2>1. Int32(x) = r
    BY <1>2 DEF Int32, r
  <2>2. r = x + IntSize * (-q) /\ -q \in Int
    BY <1>1, SizesAssumption
  <2>3. Cong(r, x)
    BY <2>2 DEF Cong
  <2> QED BY <1>1, <1>2, <2>1, <2>3, SizesAssumption
<1>3. CASE ~(2 * r < IntSize)
  <2>1. Int32(x) = r - IntSize
    BY <1>3 DEF Int32, r
  <2>2. r - IntSize = x + IntSize * (-q - 1) /\ -q - 1 \in Int
    BY <1>1, SizesAssumption
  <2>3. Cong(r - IntSize, x)
    BY <2>2 DEF Cong
  <2> QED BY <1>1, <1>3, <2>1, <2>3, SizesAssumption
<1> QED BY <1>2, <1>3

\* So does a conversion to unsigned long long: its size is a multiple of int's.
LEMMA UllCong ==
    ASSUME NEW x \in Int
    PROVE  /\ Ull(x) \in 0..(UllSize - 1)
           /\ Cong(Ull(x), x)
<1>0. UllSize \in Nat \ {0}
  BY SizesAssumption, ClockAssumption
<1>1. PICK k \in Int : UllSize = IntSize * k
  <2>1. UllSize = IntSize * (UllSize \div IntSize) + (UllSize % IntSize) /\ UllSize \div IntSize \in Int
    BY DivMod, SizesAssumption
  <2>2. UllSize = IntSize * (UllSize \div IntSize)
    BY <2>1, SizesAssumption
  <2> QED BY <2>1, <2>2
<1> DEFINE q == x \div UllSize
           r == x % UllSize
<1>2. q \in Int /\ r \in 0..(UllSize - 1) /\ x = UllSize * q + r
  BY <1>0, DivMod
<1> HIDE DEF q, r
<1>3. UllSize * q = IntSize * (k * q) /\ k * q \in Int
  BY <1>1, <1>2, SizesAssumption
<1> DEFINE p == k * q
<1>4. p \in Int /\ UllSize * q = IntSize * p
  BY <1>3
<1> HIDE DEF p
<1>5. r = x + IntSize * (-p) /\ -p \in Int
  BY <1>2, <1>4, SizesAssumption
<1>6. Cong(r, x)
  BY <1>5 DEF Cong
<1> QED BY <1>2, <1>6 DEF Ull, r

\* A conversion to int of anything congruent to a small number is that number.
LEMMA Int32Exact ==
    ASSUME NEW x \in Int, NEW d \in Nat, 2 * d < IntSize, Cong(x, d)
    PROVE  Int32(x) = d
<1>1. PICK k \in Int : x = d + IntSize * k
  BY DEF Cong
<1> DEFINE q == x \div IntSize
           r == x % IntSize
<1>2. q \in Int /\ r \in 0..(IntSize - 1) /\ x = IntSize * q + r
  BY DivMod, SizesAssumption
<1> HIDE DEF q, r
<1>3. IntSize * (k - q) = r - d /\ k - q \in Int
  BY <1>1, <1>2, SizesAssumption
<1>4. -IntSize < IntSize * (k - q) /\ IntSize * (k - q) < IntSize
  BY <1>2, <1>3, SizesAssumption
<1>5. k - q = 0
  BY <1>3, <1>4, NoMultiple, SizesAssumption
<1>6. r = d
  BY <1>2, <1>3, <1>5, SizesAssumption
<1> QED BY <1>6 DEF Int32, r

-----------------------------------------------------------------------------
(* The invariant                                                           *)

LEMMA LoopInitIInv == LoopInit => LoopIInv
<1> SUFFICES ASSUME LoopInit PROVE LoopIInv
  OBVIOUS
<1>1. clock \in 0..MaxClock
  BY ClockAssumption DEF LoopInit
<1>2. clock \in Int /\ starttime_ = Ull(clock)
  BY <1>1, ClockAssumption DEF LoopInit
<1>3. Cong(starttime_, clock) /\ starttime_ \in 0..(UllSize - 1)
  BY <1>2, UllCong
<1>4. LoopTypeOK
  <2>1. made = clock /\ seen = clock /\ now = 0 /\ cnt = 0 /\ i = 0 /\ ticks = 0 /\ inside = FALSE
    BY DEF LoopInit
  <2>2. 2 * 0 \in -IntSize..(IntSize - 1)
    BY SizesAssumption
  <2>3. inside \in BOOLEAN
    BY <2>1
  <2>4. 2 * now \in -IntSize..(IntSize - 1) /\ 2 * cnt \in -IntSize..(IntSize - 1)
    BY <2>1, <2>2
  <2>5. now \in Int /\ cnt \in Int /\ i \in Nat /\ ticks \in Nat
    BY <2>1
  <2> QED BY <1>1, <1>3, <2>1, <2>3, <2>4, <2>5 DEF LoopTypeOK
<1>5. TicksExact
  BY <1>1, ClockAssumption DEF LoopInit, TicksExact
<1> QED BY <1>1, <1>3, <1>4, <1>5, ClockAssumption, GapAssumption DEF LoopInit, LoopIInv

LEMMA TakeAllTimeoutStep ==
    ASSUME LoopIInv, TakeAllTimeout
    PROVE  LoopIInv'
<1>1. /\ clock \in Int /\ seen \in Int /\ starttime_ \in Int /\ made \in Int /\ ticks \in Nat
      /\ Cong(starttime_, seen) /\ seen <= clock /\ clock - seen <= MaxGap
  BY SizesAssumption, ClockAssumption DEF LoopIInv, LoopTypeOK, TakeAllTimeout
<1>2. now' \in Int /\ 2 * now' \in -IntSize..(IntSize - 1) /\ Cong(now', clock)
  BY <1>1, Int32Cong DEF TakeAllTimeout
<1>3. Ull(now') \in Int /\ Cong(Ull(now'), now')
  BY <1>2, UllCong, SizesAssumption
<1>4. Cong(Ull(now'), clock)
  BY <1>1, <1>2, <1>3, CongTransitive
<1> DEFINE difference == Ull(now') - starttime_
<1>5. difference \in Int /\ Cong(difference, clock - seen)
  <2>1. PICK u \in Int : u = Ull(now')
    BY <1>3
  <2>2. Cong(u - starttime_, clock - seen)
    BY <1>1, <1>4, <2>1, CongDifference
  <2> QED BY <1>1, <2>1, <2>2
<1>6. Ull(difference) \in Int /\ Cong(Ull(difference), difference)
  BY <1>5, UllCong, SizesAssumption
<1>7. Cong(Ull(difference), clock - seen)
  <2>1. clock - seen \in Int
    BY <1>1
  <2> QED BY <2>1, <1>5, <1>6, CongTransitive
<1>8. cnt' = clock - seen
  <2>1. clock - seen \in Nat /\ 2 * (clock - seen) < IntSize
    BY <1>1, GapAssumption, SizesAssumption
  <2>2. cnt' = Int32(Ull(difference))
    BY DEF TakeAllTimeout
  <2> QED BY <1>6, <1>7, <2>1, <2>2, Int32Exact
<1>9. LoopTypeOK'
  <2>1. 2 * cnt' \in -IntSize..(IntSize - 1)
    BY <1>1, <1>8, GapAssumption, SizesAssumption
  <2> QED BY <1>2, <2>1 DEF LoopIInv, LoopTypeOK, TakeAllTimeout
<1>10. TicksExact'
  BY <1>1, <1>8 DEF LoopIInv, TicksExact, TakeAllTimeout
<1> QED BY <1>1, <1>2, <1>8, <1>9, <1>10, GapAssumption DEF LoopIInv, TakeAllTimeout, Cong

LEMMA FinishStep ==
    ASSUME LoopIInv, Finish
    PROVE  LoopIInv'
<1>1. /\ now \in Int /\ cnt \in Int /\ seen \in Int /\ i \in Nat
      /\ Cong(now, seen) /\ i = cnt
  BY ClockAssumption DEF LoopIInv, LoopTypeOK, Finish
<1>2. starttime_' \in 0..(UllSize - 1) /\ Cong(starttime_', now)
  BY <1>1, UllCong DEF Finish
<1>3. Cong(starttime_', seen)
  BY <1>1, <1>2, CongTransitive, SizesAssumption
<1>4. LoopTypeOK'
  BY <1>2 DEF LoopIInv, LoopTypeOK, Finish
<1>5. TicksExact'
  BY <1>1 DEF LoopIInv, LoopTypeOK, TicksExact, Finish
<1> QED BY <1>3, <1>4, <1>5 DEF LoopIInv, Finish, Cong

LEMMA TickStep ==
    ASSUME LoopIInv, LoopTick
    PROVE  LoopIInv'
<1>1. cnt \in Int /\ i \in Nat /\ ticks \in Nat /\ seen \in Int /\ made \in Int
  BY ClockAssumption DEF LoopIInv, LoopTypeOK
<1>2. LoopTypeOK'
  BY <1>1 DEF LoopIInv, LoopTypeOK, LoopTick
<1>3. TicksExact'
  BY <1>1 DEF LoopIInv, TicksExact, LoopTick
<1> QED BY <1>1, <1>2, <1>3 DEF LoopIInv, LoopTick, Cong

LEMMA AdvanceStep ==
    ASSUME LoopIInv, Advance
    PROVE  LoopIInv'
<1>1. clock \in Int /\ seen \in Int
  BY ClockAssumption DEF LoopIInv, LoopTypeOK
<1>2. LoopTypeOK'
  BY <1>1, ClockAssumption DEF LoopIInv, LoopTypeOK, Advance
<1>3. TicksExact'
  BY DEF LoopIInv, TicksExact, Advance
<1> QED BY <1>1, <1>2, <1>3, GapAssumption DEF LoopIInv, Advance, Cong

LEMMA LoopNextIInv == LoopIInv /\ [LoopNext]_loopVars => LoopIInv'
<1> SUFFICES ASSUME LoopIInv, [LoopNext]_loopVars PROVE LoopIInv'
  OBVIOUS
<1>1. CASE UNCHANGED loopVars
  BY <1>1 DEF loopVars, LoopIInv, LoopTypeOK, TicksExact, Cong
<1>2. CASE Advance
  BY <1>2, AdvanceStep
<1>3. CASE TakeAllTimeout
  BY <1>3, TakeAllTimeoutStep
<1>4. CASE LoopTick
  BY <1>4, TickStep
<1>5. CASE Finish
  BY <1>5, FinishStep
<1> QED BY <1>1, <1>2, <1>3, <1>4, <1>5 DEF LoopNext, Loop

LEMMA LoopIInvAlways == LoopSpec => []LoopIInv
BY LoopInitIInv, LoopNextIInv, PTL DEF LoopSpec

-----------------------------------------------------------------------------
(* The theorems about the loop                                             *)

\* The locals of TakeAllTimeout stay ints, and starttime_ an unsigned long long.
THEOREM LoopTypeCorrect == LoopSpec => []LoopTypeOK
<1>1. LoopIInv => LoopTypeOK
  BY DEF LoopIInv
<1> QED BY <1>1, LoopIInvAlways, PTL

\* TakeAllTimeout gives the wheel one Tick for each millisecond and no other,
\* however often the clock wraps the int it is read into.
THEOREM OneTickPerMillisecond == LoopSpec => []TicksExact
<1>1. LoopIInv => TicksExact
  BY DEF LoopIInv
<1> QED BY <1>1, LoopIInvAlways, PTL

\* The wheel is never ahead of the clock.
THEOREM WheelNeverAhead == LoopSpec => []NeverAhead
<1>1. LoopIInv => NeverAhead
  <2> SUFFICES ASSUME LoopIInv PROVE NeverAhead
    OBVIOUS
  <2>1. /\ clock \in Int /\ seen \in Int /\ made \in Int /\ cnt \in Int /\ i \in Nat /\ ticks \in Nat
        /\ seen <= clock
    BY ClockAssumption DEF LoopIInv, LoopTypeOK
  <2>2. ticks <= seen - made
    BY <2>1 DEF LoopIInv, TicksExact
  <2> QED BY <2>1, <2>2 DEF NeverAhead
<1> QED BY <1>1, LoopIInvAlways, PTL

-----------------------------------------------------------------------------
(* The program                                                             *)

\* A Tick in progress was called by the for loop of TakeAllTimeout.
TickInLoop == it # 0 => inside /\ i < cnt

\* Every step of the program is a step of the wheel, or leaves it alone.
LEMMA ProgramIsWheel == TimerSpec => Spec
<1>1. TimerInit => Init
  BY DEF TimerInit
<1>2. [TimerNext]_timerVars => [Next]_vars
  <2> SUFFICES ASSUME [TimerNext]_timerVars PROVE [Next]_vars
    OBVIOUS
  <2>1. CASE UNCHANGED timerVars
    BY <2>1 DEF timerVars
  <2>2. CASE Worker
    BY <2>2 DEF Worker, CallTick, InTick, TickReturns, Read, Return, Next, Tick
  <2>3. CASE TimePasses
    BY <2>3 DEF TimePasses
  <2>4. CASE ClientCalls
    BY <2>4 DEF ClientCalls, Next
  <2> QED
    BY <2>1, <2>2, <2>3, <2>4 DEF TimerNext
<1> QED
  BY <1>1, <1>2, PTL DEF TimerSpec, Spec

\* And a step of the loop, or leaves that alone.
LEMMA ProgramIsLoop == TimerSpec => LoopSpec
<1>1. TimerInit => LoopInit
  BY DEF TimerInit
<1>2. [TimerNext]_timerVars => [LoopNext]_loopVars
  <2> SUFFICES ASSUME [TimerNext]_timerVars PROVE [LoopNext]_loopVars
    OBVIOUS
  <2>1. CASE UNCHANGED timerVars
    BY <2>1 DEF timerVars
  <2>2. CASE Worker
    BY <2>2 DEF Worker, CallTick, InTick, TickReturns, Read, Return, LoopNext, Loop
  <2>3. CASE TimePasses
    BY <2>3 DEF TimePasses, LoopNext
  <2>4. CASE ClientCalls
    BY <2>4 DEF ClientCalls
  <2> QED
    BY <2>1, <2>2, <2>3, <2>4 DEF TimerNext
<1> QED
  BY <1>1, <1>2, PTL DEF TimerSpec, LoopSpec

LEMMA TickInLoopStep ==
    ASSUME IInv, TickInLoop, [TimerNext]_timerVars
    PROVE  TickInLoop'
<1>0. calling => it # 0
  BY CurrentFacts DEF IInv, TypeOK
<1>1. CASE UNCHANGED timerVars
  BY <1>1 DEF timerVars, vars, loopVars, TickInLoop
<1>2. CASE CallTick
  BY <1>2 DEF CallTick, BeginTick, loopVars, TickInLoop
<1>3. CASE InTick
  <2>1. it # 0
    BY <1>0, <1>3, CurrentFacts DEF InTick, SkipEntry, Activate, EraseEntry, IInv
  <2> QED
    BY <1>3, <2>1 DEF InTick, loopVars, TickInLoop
<1>4. CASE TickReturns
  BY <1>4 DEF TickReturns, EndTick, TickInLoop
<1>5. CASE Read
  BY <1>5 DEF Read, TakeAllTimeout, vars, TickInLoop
<1>6. CASE Return
  BY <1>6 DEF Return, vars, TickInLoop
<1>7. CASE TimePasses
  BY <1>7 DEF TimePasses, Advance, vars, TickInLoop
<1>8. CASE ClientCalls
  BY <1>8 DEF ClientCalls, Client, AddTimer, DelTimer, loopVars, TickInLoop
<1> QED
  BY <1>1, <1>2, <1>3, <1>4, <1>5, <1>6, <1>7, <1>8 DEF TimerNext, Worker

\* The invariants of the wheel and of the loop, and the one that joins them.
LEMMA ProgramIInv == TimerSpec => [](IInv /\ LoopIInv /\ TickInLoop)
<1>1. TimerInit => TickInLoop
  BY DEF TimerInit, Init, TickInLoop
<1>2. IInv /\ TickInLoop /\ [TimerNext]_timerVars => TickInLoop'
  BY TickInLoopStep
<1>3. TimerSpec => []IInv
  BY ProgramIsWheel, IInvAlways, PTL
<1>4. TimerSpec => []LoopIInv
  BY ProgramIsLoop, LoopIInvAlways, PTL
<1> QED
  BY <1>1, <1>2, <1>3, <1>4, PTL DEF TimerSpec

\* The timer whose function is being called has no tick left to wait.
LEMMA CalledIsDue ==
    ASSUME IInv, calling
    PROVE  Left(Current[it]) = 0
<1> DEFINE e == Current[it]
<1>1. it \in 1..Len(Current) /\ rotations_[e] = 0
  BY DEF IInv, TypeOK
<1>2. e \in Timers /\ Holds(curslot_, e) /\ e \notin Passed
  BY <1>1, CurrentFacts, PassedFacts DEF IInv
<1>3. slot_[e] = curslot_ /\ curslot_ \in Slots
  BY <1>2, Consistency DEF IInv, TypeOK
<1>4. e \in Armed /\ Dist(slot_[e], curslot_) = 0
  BY <1>2, <1>3, ArmedAt, DistFacts DEF IInv
<1>5. Left(e) = 0 * N + 0 + 0
  BY <1>1, <1>2, <1>4 DEF Left
<1> QED
  BY <1>5, NAssumption

LEMMA ArmedInTimers ==
    ASSUME TypeOK
    PROVE  Armed \subseteq Timers
<1> SUFFICES ASSUME NEW s \in Slots, NEW k \in 1..Len(slots_[s]) PROVE slots_[s][k] \in Timers
  BY DEF Armed, Elements
<1>1. slots_[s] \in Seq(Timers)
  BY DEF TypeOK
<1> QED
  BY <1>1, ElementOfSeq

-----------------------------------------------------------------------------
(* The theorems about the program                                          *)

\* A timer fires on the tick it is due at and when the clock has come to it, for any
\* number of slots, any timeouts and any sizes of int and unsigned long long; and
\* TakeAllTimeout returns with nothing left behind that was due when it read the
\* clock.
THEOREM TimersFireOnTime == TimerSpec => []FiresOnTime
<1>1. IInv /\ LoopIInv /\ TickInLoop => FiresOnTime
  <2> SUFFICES ASSUME IInv, LoopIInv, TickInLoop PROVE FiresOnTime
    OBVIOUS
  <2>1. /\ clock \in Int /\ seen \in Int /\ made \in Int /\ cnt \in Int /\ i \in Nat /\ ticks \in Nat
        /\ seen <= clock
        /\ ticks + (IF inside THEN cnt - i ELSE 0) = seen - made
    BY ClockAssumption DEF LoopIInv, LoopTypeOK, TicksExact
  <2>2. ASSUME calling PROVE Due(Current[it]) = ticks /\ ticks < clock - made
    <3>1. inside /\ i < cnt
      BY <2>2, CurrentFacts DEF IInv, TypeOK, TickInLoop
    <3>2. Due(Current[it]) = ticks
      BY <2>1, <2>2, CalledIsDue DEF Due
    <3> QED
      BY <2>1, <3>1, <3>2
  <2>3. ASSUME ~inside, NEW t \in Armed PROVE Due(t) >= seen - made
    <3>1. t \in Timers
      BY CurrentFacts, ArmedInTimers DEF IInv
    <3>2. Left(t) \in Nat
      BY <3>1, LeftFacts
    <3> QED
      BY <2>1, <2>3, <3>2 DEF Due
  <2> QED
    BY <2>2, <2>3 DEF FiresOnTime
<1> QED
  BY <1>1, ProgramIInv, PTL

\* Driven by TakeAllTimeout the wheel still is a timer queue: each function is called
\* on the tick its timeout asks for.
THEOREM ProgramRefinement == TimerSpec => Implements
BY ProgramIsWheel, Refinement, PTL

\* And in the program too each millisecond is worth one Tick.
THEOREM ProgramTicksExact == TimerSpec => []TicksExact
BY ProgramIsLoop, OneTickPerMillisecond, PTL
=============================================================================
