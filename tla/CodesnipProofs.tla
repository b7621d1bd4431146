--------------------------- MODULE CodesnipProofs ---------------------------
(***************************************************************************)
(* The program codesnip for command lines, loops and numbers of any size:     *)
(* the command line is obeyed, no process is left behind, the racing counter  *)
(* stays within its bounds, and readn and writen keep numbers whole.         *)
(*                                                                         *)
(* Each sample has an inductive invariant of its own; a step of one sample     *)
(* leaves the variables of the others alone.                                *)
(***************************************************************************)
EXTENDS Codesnip, SequenceTheorems, FiniteSetTheorems, TLAPS

-----------------------------------------------------------------------------
(* The inductive invariants                                                *)

\* The scan has dealt with the first m arguments: w of them, words, are still there,
\* and each setting is that of the last option among them.
SettledTo(m) ==
    \A key \in Keys :
        \/ (\A k \in Given(key) : k > m) /\ settings[key] = Default[key]
        \/ \E k \in Given(key) :
            /\ k <= m /\ \A j \in Given(key) : j > m \/ j <= k
            /\ settings[key] = Uint8(given[k].num)
AllSettled(m) == SettledTo(m) /\ \A k \in 1..Len(given) : given[k].kind = "option" => k <= m
Scanned(m, w) ==
    /\ w <= m /\ m <= Len(given) /\ Len(argv) = Len(given) - m + w
    /\ \A k \in 1..(Len(given) - m) : argv[w + k] = given[m + k]
    /\ \A k \in 1..w : argv[k].kind = "word"
    /\ SettledTo(m)

\* The path and the command are words, which are never taken out.
HeadKept ==
    /\ IsCommand(given[2]) /\ Len(given) >= ARG_NUM
    /\ Len(argv) >= ARG_NUM /\ argv[1] = given[1] /\ argv[2] = given[2]
ArgsIInv ==
    /\ at # "called" => given \in CommandLines
    /\ argv \in Seq(Arguments) /\ i \in Nat \ {0}
    /\ at = "start" => argv = given /\ i = 1 /\ settings = Default
    /\ settings \in [Keys -> 0..255]
    /\ at = "scan" =>
        /\ HeadKept
        /\ i <= Len(argv) + 1 /\ \A k \in 1..(i - 1) : argv[k].kind = "word"
        /\ \E m, w \in 0..Len(given) : Scanned(m, w)
    /\ at = "run" => argv = SubSeq(given, 1, ARG_NUM) /\ \E m \in 0..Len(given) : AllSettled(m)

\* A sample that has not been called has no processes; a grandchild is made last.
FamilyIInv ==
    /\ NobodyLeftBehind
    /\ sender = "off" => receiver = "off"
    /\ father = "off" => child = "none"
    /\ child \in {"none", "create", "join", "print", "fork"} => grandchild = "none"

\* Where the child is tells which threads it has made and joined.
CountType ==
    /\ child \in {"none", "create", "join", "print", "fork", "wait", "zombie", "gone"}
    /\ turn \in Workers
    /\ worker \in [Workers -> {"none", "failed", "load", "store", "ended"}]
    /\ left \in [Workers -> 0..Loops] /\ loaded \in [Workers -> Nat]
    /\ add_var \in Nat /\ printed \in Nat \cup {-1}
Joined ==
    /\ child = "none" => turn = 1 /\ \A t \in Workers : worker[t] = "none"
    /\ child = "create" => \A t \in Workers : t >= turn <=> worker[t] = "none"
    /\ child = "join" => \A t \in Workers :
        worker[t] # "none" /\ (t < turn => worker[t] \in {"ended", "failed"})
    /\ child \in {"print", "fork", "wait", "zombie", "gone"} =>
        \A t \in Workers : worker[t] \in {"ended", "failed"}
    /\ child \in {"none", "create", "join", "print"} => printed = -1
    /\ printed # -1 => printed = add_var

\* How far the threads have come bounds the counter from both sides.  Nothing is said
\* of a child that has crashed: its threads ended where they were.
Crashed == child \in {"zombie", "gone"} /\ printed = -1
Done(t) == Loops - left[t]
Progress(t) ==
    /\ worker[t] \in {"none", "failed"} => left[t] = Loops
    /\ worker[t] \in {"load", "store"} => left[t] > 0
    /\ worker[t] = "ended" => left[t] = 0
Bounded ==
    /\ add_var <= Done(1) + Done(2)
    /\ \A t \in Workers : loaded[t] <= Done(1) + Done(2)
Alone(t, u) ==
    worker[u] \in {"none", "failed"} => add_var = Done(t) /\ (worker[t] = "store" => loaded[t] = add_var)
Started(t) ==
    left[t] < Loops => add_var >= 1 /\ (worker[t] = "store" => loaded[t] >= 1)
Counted ==
    /\ \A t \in Workers : Progress(t) /\ Started(t)
    /\ Bounded
    /\ Alone(1, 2) /\ Alone(2, 1)
    /\ Loops > 1 /\ worker[1] = "ended" /\ worker[2] = "ended" => add_var >= 2
CountIInv == CountType /\ Joined /\ (~Crashed => Counted)

\* As long as Doit reads, what it has printed, what is in its buffer, what is in the
\* socket and what the client has still to write are the numbers, cut into pieces.
Line(m) == [ret |-> Size, num |-> Whole(m)]
WholeSoFar ==
    /\ \A k \in 1..Len(output) : output[k] = Line(k)
    /\ \A k \in 1..(Size - rleft) : buff[k] = <<Len(output) + 1, k>>
    /\ Len(stream) + Len(output) * Size + Size - rleft = written * Size + Size - wleft
    /\ \A k \in 1..Len(stream) : \E a \in Nat, b \in 1..Size :
        stream[k] = <<a, b>> /\ (a - 1) * Size + b = Len(output) * Size + Size - rleft + k
\* Or the last number was cut off, and only the end is to come.
CutOff ==
    /\ client = "killed" /\ stream = <<>> /\ rleft = Size
    /\ Len(output) = written + 1 /\ output[written + 1].ret # Size
StreamIInv ==
    /\ client \in {"off", "write", "closed", "killed"} /\ doit \in {"off", "read", "ended", "killed"}
    /\ written \in 0..Numbers /\ wleft \in 1..Size /\ rleft \in 1..Size
    /\ stream \in Seq(Nat \X Nat)
    /\ buff \in [1..Size -> Nat \X Nat]
    /\ output \in Seq([ret : 0..Size, num : [1..Size -> Nat \X Nat]])
    /\ client = "off" <=> doit = "off"
    /\ written = Numbers => wleft = Size
    /\ client = "closed" => written = Numbers
    /\ doit \in {"off", "read"} => WholeSoFar \/ CutOff

-----------------------------------------------------------------------------
(* One sample at a time                                                    *)

LEMMA Separately ==
    ASSUME [Next]_vars
    PROVE  /\ ArgsNext \/ Call \/ UNCHANGED argVars
           /\ SignalNext \/ LookSignal \/ UNCHANGED signalVars
           /\ ThreadNext \/ ForkProAndCreateT \/ UNCHANGED threadVars
           /\ StreamNext \/ StartStream \/ UNCHANGED streamVars
<1>1. ArgsNext \/ Call \/ UNCHANGED argVars
  BY DEF Next, vars, ParseArgs, RunSignal, RunThreads, RunInotify, RunStream
<1>2. SignalNext \/ LookSignal \/ UNCHANGED signalVars
  BY DEF Next, vars, ParseArgs, Call, RunSignal, RunThreads, RunInotify, RunStream
<1>3. ThreadNext \/ ForkProAndCreateT \/ UNCHANGED threadVars
  BY DEF Next, vars, ParseArgs, Call, RunSignal, RunThreads, RunInotify, RunStream
<1>4. StreamNext \/ StartStream \/ UNCHANGED streamVars
  BY DEF Next, vars, ParseArgs, Call, RunSignal, RunThreads, RunInotify, RunStream
<1> QED
  BY <1>1, <1>2, <1>3, <1>4

-----------------------------------------------------------------------------
(* Nobody is left behind                                                   *)

LEMMA SignalStep ==
    ASSUME sender = "off" => receiver = "off",
           sender = "done" => receiver \in {"off", "gone"},
           SignalNext \/ LookSignal \/ UNCHANGED signalVars
    PROVE  /\ sender' = "off" => receiver' = "off"
           /\ sender' = "done" => receiver' \in {"off", "gone"}
<1>1. CASE UNCHANGED signalVars
  BY <1>1 DEF signalVars
<1>2. CASE LookSignal
  BY <1>2 DEF LookSignal
<1>3. CASE Kill \/ WaitReceiver \/ InstallHandler \/ SignalExits \/ InstallEnds
  BY <1>3 DEF Kill, WaitReceiver, InstallHandler, SignalExits, InstallEnds
<1>4. CASE SpinEnds \/ ReportEnds \/ Deliver
  BY <1>4 DEF SpinEnds, ReportEnds, Deliver, UserSignalHandler
<1> QED
  BY <1>1, <1>2, <1>3, <1>4 DEF SignalNext

LEMMA FamilyNext == FamilyIInv /\ [Next]_vars => FamilyIInv'
<1> SUFFICES ASSUME FamilyIInv, [Next]_vars PROVE FamilyIInv'
  OBVIOUS
<1> DEFINE Threads == /\ father = "done" => child \in {"none", "gone"}
                      /\ child \in {"zombie", "gone"} => grandchild \in {"none", "gone"}
                      /\ father = "off" => child = "none"
                      /\ child \in {"none", "create", "join", "print", "fork"} => grandchild = "none"
<1>0. Threads
  BY DEF FamilyIInv, NobodyLeftBehind
<1>1. /\ sender' = "off" => receiver' = "off"
      /\ sender' = "done" => receiver' \in {"off", "gone"}
  BY Separately, SignalStep DEF FamilyIInv, NobodyLeftBehind
<1>2. CASE UNCHANGED threadVars
  BY <1>0, <1>1, <1>2 DEF threadVars, FamilyIInv, NobodyLeftBehind
<1>3. CASE ForkProAndCreateT \/ FatherWaits \/ CreateThread \/ JoinThread
  BY <1>0, <1>1, <1>3 DEF ForkProAndCreateT, FatherWaits, CreateThread, JoinThread, NextTurn,
                          FamilyIInv, NobodyLeftBehind
<1>4. CASE JoinCrashes \/ PrintCount \/ ForkAgain \/ ChildWaits
  BY <1>0, <1>1, <1>4 DEF JoinCrashes, PrintCount, ForkAgain, ChildWaits, FamilyIInv, NobodyLeftBehind
<1>5. CASE Execve \/ LsEnds \/ \E t \in Workers : LoadCount(t) \/ StoreCount(t)
  BY <1>0, <1>1, <1>5 DEF Execve, LsEnds, LoadCount, StoreCount, FamilyIInv, NobodyLeftBehind
<1> QED
  BY <1>2, <1>3, <1>4, <1>5, Separately DEF ThreadNext

LEMMA FamilyAlways == Spec => []FamilyIInv
<1>1. Init => FamilyIInv
  BY DEF Init, SignalInit, ThreadInit, FamilyIInv, NobodyLeftBehind
<1> QED
  BY <1>1, FamilyNext, PTL DEF Spec

\* Each parent outlives its child: signals that come too early, calls that fail and
\* threads that crash leave no process behind.
THEOREM NoProcessLeft == Spec => []NobodyLeftBehind
<1>1. FamilyIInv => NobodyLeftBehind
  BY DEF FamilyIInv
<1> QED
  BY <1>1, FamilyAlways, PTL

-----------------------------------------------------------------------------
(* The counter                                                             *)

LEMMA CountInit == Init => CountIInv
<1> SUFFICES ASSUME Init PROVE CountIInv
  OBVIOUS
<1>0. ThreadInit /\ Loops \in Nat \ {0}
  BY LoopsAssumption DEF Init
<1>1. CountType
  BY <1>0 DEF ThreadInit, CountType, Workers
<1>2. Joined
  BY <1>0 DEF ThreadInit, Joined, Workers
<1>3. Counted
  BY <1>0 DEF ThreadInit, Counted, Progress, Started, Bounded, Alone, Done, Workers
<1> QED
  BY <1>1, <1>2, <1>3 DEF CountIInv

\* The processes go on and the threads do not: nothing is counted.
LEMMA CountQuiet ==
    ASSUME FamilyIInv, CountIInv,
           \/ UNCHANGED threadVars \/ ForkProAndCreateT \/ FatherWaits \/ JoinThread \/ PrintCount
           \/ ForkAgain \/ ChildWaits \/ Execve \/ LsEnds
    PROVE  CountIInv'
<1>0. UNCHANGED counting
  BY DEF threadVars, ForkProAndCreateT, FatherWaits, JoinThread, PrintCount, ForkAgain, ChildWaits,
         Execve, LsEnds, counting
<1>1. /\ child' \in {"none", "create", "join", "print", "fork", "wait", "zombie", "gone"}
      /\ turn' \in Workers /\ printed' \in Nat \cup {-1}
  BY DEF threadVars, ForkProAndCreateT, FatherWaits, JoinThread, NextTurn, PrintCount, ForkAgain,
         ChildWaits, Execve, LsEnds, CountIInv, CountType, Workers
<1>2. CountType'
  BY <1>0, <1>1 DEF CountIInv, CountType, counting
<1>3. Crashed => Crashed'
  BY DEF threadVars, ForkProAndCreateT, FatherWaits, JoinThread, NextTurn, PrintCount, ForkAgain,
         ChildWaits, Execve, LsEnds, Crashed, FamilyIInv
<1>4. Counted => Counted'
  BY <1>0 DEF Counted, Progress, Started, Bounded, Alone, Done, counting
<1>5. Joined'
  <2>1. CASE UNCHANGED <<child, turn, printed>>
    BY <1>0, <2>1 DEF CountIInv, Joined, counting
  <2>2. CASE ForkProAndCreateT
    <3>1. child = "none"
      BY <2>2 DEF ForkProAndCreateT, FamilyIInv
    <3> QED
      BY <1>0, <2>1, <2>2, <3>1 DEF CountIInv, CountType, Joined, ForkProAndCreateT, counting, Workers
  <2>3. CASE FatherWaits \/ PrintCount \/ ForkAgain \/ ChildWaits
    BY <1>0, <2>3 DEF CountIInv, CountType, Joined, FatherWaits, PrintCount, ForkAgain, ChildWaits, counting
  <2>4. CASE JoinThread
    BY <1>0, <2>4 DEF CountIInv, CountType, Joined, JoinThread, NextTurn, counting, Workers
  <2> QED
    BY <2>1, <2>2, <2>3, <2>4 DEF threadVars, Execve, LsEnds
<1> QED
  BY <1>2, <1>3, <1>4, <1>5 DEF CountIInv

LEMMA CountCreate ==
    ASSUME CountIInv, CreateThread
    PROVE  CountIInv'
<1>0. /\ CountType /\ Joined /\ Counted /\ child = "create" /\ Loops \in Nat \ {0}
      /\ UNCHANGED <<left, loaded, add_var, printed>>
  BY LoopsAssumption DEF CountIInv, Crashed, CreateThread
<1>1. PICK s \in {"load", "failed"} : worker' = [worker EXCEPT ![turn] = s]
  BY DEF CreateThread
<1>2. worker[turn] = "none" /\ turn \in Workers
  BY <1>0 DEF CountType, Joined, Workers
<1>3. worker'[turn] = s /\ \A t \in Workers : t # turn => worker'[t] = worker[t]
  BY <1>0, <1>1, <1>2 DEF CountType
<1>4. CountType'
  BY <1>0, <1>1 DEF CreateThread, NextTurn, CountType, Workers
<1>5. Joined'
  BY <1>0, <1>2, <1>3 DEF CreateThread, NextTurn, CountType, Joined, Workers
<1>6. Counted'
  <2>1. \A t \in Workers : Progress(t)' /\ Started(t)'
    BY <1>0, <1>2, <1>3 DEF CountType, Counted, Progress, Started, Workers
  <2>2. Bounded'
    BY <1>0 DEF Counted, Bounded, Done
  <2>3. Alone(1, 2)' /\ Alone(2, 1)'
    BY <1>0, <1>2, <1>3 DEF CountType, Counted, Alone, Progress, Done, Workers
  <2>4. ~(worker'[1] = "ended" /\ worker'[2] = "ended")
    BY <1>2, <1>3 DEF Workers
  <2> QED
    BY <2>1, <2>2, <2>3, <2>4 DEF Counted
<1> QED
  BY <1>4, <1>5, <1>6 DEF CountIInv

LEMMA CountCrash ==
    ASSUME CountIInv, JoinCrashes
    PROVE  CountIInv'
<1>1. CountType'
  BY DEF CountIInv, CountType, JoinCrashes, Workers
<1>2. Joined' /\ Crashed'
  BY DEF CountIInv, Joined, JoinCrashes, Crashed
<1> QED
  BY <1>1, <1>2 DEF CountIInv

\* A thread that is still counting has not been joined, and the child has not crashed.
LEMMA CountingFacts ==
    ASSUME CountIInv, NEW t \in Workers, worker[t] \in {"load", "store"}
    PROVE  Counted /\ child \in {"create", "join"} /\ printed = -1 /\ left[t] \in 1..Loops
<1>1. child \in {"create", "join"} /\ printed = -1
  BY DEF CountIInv, CountType, Joined
<1>2. Counted
  BY <1>1 DEF CountIInv, Crashed
<1> QED
  BY <1>1, <1>2, LoopsAssumption DEF CountIInv, CountType, Counted, Progress

LEMMA CountLoad ==
    ASSUME CountIInv, NEW t \in Workers, LoadCount(t)
    PROVE  CountIInv'
<1>0. /\ CountType /\ Joined /\ Counted /\ child \in {"create", "join"} /\ left[t] \in 1..Loops
      /\ Loops \in Nat \ {0} /\ UNCHANGED <<left, add_var, printed, child, turn>>
  BY CountingFacts, LoopsAssumption DEF LoadCount, CountIInv
<1>1. /\ loaded'[t] = add_var /\ worker[t] = "load" /\ worker'[t] = "store"
      /\ \A u \in Workers : u # t => worker'[u] = worker[u] /\ loaded'[u] = loaded[u]
  BY <1>0 DEF LoadCount, CountType
<1>2. CountType'
  BY <1>0 DEF LoadCount, CountType
<1>3. Joined'
  BY <1>0, <1>1 DEF Joined
<1>4. Counted'
  <2>1. \A u \in Workers : Progress(u)' /\ Started(u)'
    BY <1>0, <1>1 DEF CountType, Counted, Progress, Started
  <2>2. Bounded'
    BY <1>0, <1>1 DEF Counted, Bounded, Done
  <2>3. Alone(1, 2)' /\ Alone(2, 1)'
    BY <1>0, <1>1 DEF Counted, Alone, Done, Workers
  <2>4. ~(worker'[1] = "ended" /\ worker'[2] = "ended")
    BY <1>1 DEF Workers
  <2> QED
    BY <2>1, <2>2, <2>3, <2>4 DEF Counted
<1> QED
  BY <1>2, <1>3, <1>4 DEF CountIInv

\* A store is no more than one ahead of what both have done, and the last store of a
\* thread follows a load that saw at least one.
LEMMA CountStore ==
    ASSUME CountIInv, NEW t \in Workers, StoreCount(t)
    PROVE  CountIInv'
<1>0. /\ CountType /\ Joined /\ Counted /\ child \in {"create", "join"} /\ left[t] \in 1..Loops
      /\ printed = -1 /\ Loops \in Nat \ {0} /\ UNCHANGED <<printed, child, turn>>
  BY CountingFacts, LoopsAssumption DEF StoreCount, CountIInv
<1>1. /\ loaded'[t] = 0 /\ worker[t] = "store" /\ left'[t] = left[t] - 1
      /\ worker'[t] = IF left[t] = 1 THEN "ended" ELSE "load"
      /\ add_var' = loaded[t] + 1
      /\ \A u \in Workers : u # t =>
           worker'[u] = worker[u] /\ loaded'[u] = loaded[u] /\ left'[u] = left[u]
  BY <1>0 DEF StoreCount, CountType
<1>2. CountType'
  BY <1>0 DEF StoreCount, CountType
<1>3. Joined'
  BY <1>0, <1>1 DEF Joined
<1>4. Counted'
  <2>0. /\ left[1] \in 0..Loops /\ left[2] \in 0..Loops /\ loaded[1] \in Nat /\ loaded[2] \in Nat
        /\ add_var \in Nat
    BY <1>0 DEF CountType, Workers
  <2>1. \A u \in Workers : Progress(u)'
    BY <1>0, <1>1, <2>0 DEF Counted, Progress, Workers
  <2>2. \A u \in Workers : Started(u)'
    BY <1>0, <1>1, <2>0 DEF Counted, Started, Workers
  <2>3. Bounded'
    BY <1>0, <1>1, <2>0 DEF Counted, Bounded, Done, Workers
  <2>4. Alone(1, 2)' /\ Alone(2, 1)'
    BY <1>0, <1>1, <2>0 DEF Counted, Alone, Progress, Done, Workers
  <2>5. Loops > 1 /\ worker'[1] = "ended" /\ worker'[2] = "ended" => add_var' >= 2
    BY <1>0, <1>1, <2>0 DEF Counted, Started, Workers
  <2> QED
    BY <2>1, <2>2, <2>3, <2>4, <2>5 DEF Counted
<1> QED
  BY <1>2, <1>3, <1>4 DEF CountIInv

LEMMA CountNext == FamilyIInv /\ CountIInv /\ [Next]_vars => CountIInv'
BY Separately, CountQuiet, CountCreate, CountCrash, CountLoad, CountStore DEF ThreadNext

LEMMA CountFollows == CountIInv => PrintedCount
<1> SUFFICES ASSUME CountIInv, printed # -1 PROVE PrintedCount
  BY DEF PrintedCount
<1> DEFINE made == {t \in Workers : worker[t] = "ended"}
           Right(S) == CASE S = {} -> printed = 0
                         [] Cardinality(S) = 1 -> printed = Loops
                         [] S = Workers -> printed <= 2 * Loops /\ (Loops > 1 => printed >= 2)
<1> SUFFICES Right(made)
  BY DEF PrintedCount
<1>0. /\ Loops \in Nat \ {0} /\ CountType /\ Counted /\ printed = add_var
      /\ \A t \in Workers : worker[t] \in {"ended", "failed"}
  BY LoopsAssumption DEF CountIInv, CountType, Joined, Crashed
<1>1. left[1] \in 0..Loops /\ left[2] \in 0..Loops
  BY <1>0 DEF CountType, Workers
<1>2. Cardinality({}) = 0 /\ Cardinality({1}) = 1 /\ Cardinality({2}) = 1 /\ Cardinality(Workers) = 2
  <2>1. Cardinality({}) = 0 /\ IsFiniteSet({1}) /\ Cardinality({1}) = 1 /\ Cardinality({2}) = 1
    BY FS_EmptySet, FS_Singleton
  <2>2. Cardinality({1} \cup {2}) = 2
    BY <2>1, FS_AddElement
  <2> QED
    BY <2>1, <2>2 DEF Workers
<1>3. CASE worker[1] = "failed" /\ worker[2] = "failed"
  <2>1. made = {} /\ printed = 0
    BY <1>0, <1>1, <1>3 DEF Counted, Progress, Alone, Done, Workers
  <2> HIDE DEF made
  <2>2. Cardinality(made) # 1 /\ made # Workers
    BY <1>2, <2>1
  <2> QED
    BY <2>1, <2>2
<1>4. CASE worker[1] = "ended" /\ worker[2] = "failed"
  <2>1. made = {1} /\ printed = Loops
    BY <1>0, <1>1, <1>4 DEF Counted, Progress, Alone, Done, Workers
  <2> HIDE DEF made
  <2>2. made # {} /\ Cardinality(made) = 1 /\ made # Workers
    BY <1>2, <2>1
  <2> QED
    BY <2>1, <2>2
<1>5. CASE worker[1] = "failed" /\ worker[2] = "ended"
  <2>1. made = {2} /\ printed = Loops
    BY <1>0, <1>1, <1>5 DEF Counted, Progress, Alone, Done, Workers
  <2> HIDE DEF made
  <2>2. made # {} /\ Cardinality(made) = 1 /\ made # Workers
    BY <1>2, <2>1
  <2> QED
    BY <2>1, <2>2
<1>6. CASE worker[1] = "ended" /\ worker[2] = "ended"
  <2>1. made = Workers /\ printed <= 2 * Loops /\ (Loops > 1 => printed >= 2)
    BY <1>0, <1>1, <1>6 DEF Counted, Progress, Bounded, Done, Workers
  <2> HIDE DEF made
  <2>2. made # {} /\ Cardinality(made) # 1
    BY <1>2, <2>1 DEF Workers
  <2> QED
    BY <2>1, <2>2
<1> QED
  BY <1>0, <1>3, <1>4, <1>5, <1>6 DEF Workers

\* Two threads that count without a lock lose increments, never all of them: with Loops
\* rounds each the count is between 2 and twice Loops, and with one thread it is exact.
THEOREM CountWithinBounds == Spec => []PrintedCount
BY CountInit, CountNext, CountFollows, FamilyAlways, PTL DEF Spec

-----------------------------------------------------------------------------
(* The command line                                                        *)

LEMMA ArgumentFacts ==
    ASSUME NEW arg \in Arguments, arg.kind = "option"
    PROVE  arg.key \in Keys /\ arg.num \in Nums /\ Uint8(arg.num) \in 0..255
<1>1. arg \in Option
  BY DEF Arguments, Word, Option, Throwing
<1>2. arg.key \in Keys /\ arg.num \in Nums
  BY <1>1 DEF Option
<1>3. \A n \in Int : n % 256 \in 0..255
  OBVIOUS
<1> QED
  BY <1>2, <1>3, NumsAssumption DEF Uint8

LEMMA GivenFacts ==
    ASSUME given \in CommandLines
    PROVE  /\ given \in Seq(Arguments) /\ Len(given) \in Nat \ {0}
           /\ \A k \in 1..Len(given) : given[k] \in Arguments
           /\ given[1].kind = "word"
<1>1. PICK n \in 1..MaxArgs : given \in [1..n -> Arguments] /\ given[1] = [kind |-> "word", word |-> "other"]
  BY DEF CommandLines
<1>2. n \in Nat \ {0}
  BY NumsAssumption
<1>3. given \in Seq(Arguments)
  BY <1>1, <1>2
<1>4. Len(given) = n
  BY <1>1, <1>2, <1>3, LenProperties
<1> QED
  BY <1>1, <1>2, <1>3, <1>4

\* AdjustArgs takes out one argument, and the ones behind it move up.
LEMMA AdjustFacts ==
    ASSUME argv \in Seq(Arguments), NEW k \in 1..Len(argv)
    PROVE  /\ AdjustArgs(k) \in Seq(Arguments)
           /\ Len(AdjustArgs(k)) = Len(argv) - 1
           /\ \A j \in 1..(k - 1) : AdjustArgs(k)[j] = argv[j]
           /\ \A j \in k..(Len(argv) - 1) : AdjustArgs(k)[j] = argv[j + 1]
<1> DEFINE s1 == SubSeq(argv, 1, k - 1)
           s2 == SubSeq(argv, k + 1, Len(argv))
<1>0. /\ Len(argv) \in Nat /\ k \in Nat /\ k - 1 \in Int /\ k + 1 \in Int
      /\ \A j \in 1..Len(argv) : argv[j] \in Arguments
  BY LenProperties, ElementOfSeq
<1>1. /\ s1 \in Seq(Arguments) /\ Len(s1) = k - 1
      /\ \A j \in 1..(k - 1) : s1[j] = argv[j]
  <2>1. \A j \in 1..(k - 1) : argv[j] \in Arguments
    BY <1>0
  <2>2. /\ s1 \in Seq(Arguments) /\ Len(s1) = IF 1 <= k - 1 THEN k - 1 - 1 + 1 ELSE 0
        /\ \A j \in 1..(k - 1 - 1 + 1) : s1[j] = argv[1 + j - 1]
    BY <1>0, <2>1, SubSeqProperties
  <2> QED
    BY <1>0, <2>2
<1>2. /\ s2 \in Seq(Arguments) /\ Len(s2) = Len(argv) - k
      /\ \A j \in 1..(Len(argv) - k) : s2[j] = argv[k + j]
  <2>1. \A j \in (k + 1)..Len(argv) : argv[j] \in Arguments
    BY <1>0
  <2>2. /\ s2 \in Seq(Arguments) /\ Len(s2) = IF k + 1 <= Len(argv) THEN Len(argv) - (k + 1) + 1 ELSE 0
        /\ \A j \in 1..(Len(argv) - (k + 1) + 1) : s2[j] = argv[k + 1 + j - 1]
    BY <1>0, <2>1, SubSeqProperties
  <2> QED
    BY <1>0, <2>2
<1>3. AdjustArgs(k) = s1 \o s2
  BY DEF AdjustArgs, RemoveAt
<1> HIDE DEF s1, s2
<1>4. /\ s1 \o s2 \in Seq(Arguments) /\ Len(s1 \o s2) = Len(argv) - 1
      /\ \A j \in 1..(Len(argv) - 1) : (s1 \o s2)[j] = IF j <= k - 1 THEN s1[j] ELSE s2[j - (k - 1)]
  BY <1>0, <1>1, <1>2, ConcatProperties
<1>5. ASSUME NEW j \in k..(Len(argv) - 1) PROVE (s1 \o s2)[j] = argv[j + 1]
  <2>1. j - (k - 1) \in 1..(Len(argv) - k) /\ k + (j - (k - 1)) = j + 1 /\ j \in 1..(Len(argv) - 1)
    BY <1>0
  <2>2. s2[j - (k - 1)] = argv[j + 1]
    BY <1>2, <2>1
  <2> QED
    BY <1>0, <1>4, <2>1, <2>2
<1>6. ASSUME NEW j \in 1..(k - 1) PROVE (s1 \o s2)[j] = argv[j]
  BY <1>0, <1>1, <1>4
<1> QED
  BY <1>3, <1>4, <1>5, <1>6

\* When all that is left is words, the settings are the bytes of the numbers given.
LEMMA SettledFacts ==
    ASSUME given \in CommandLines, NEW m \in Nat, AllSettled(m)
    PROVE  \A key \in Keys : Meaning(key) \in 0..255 => settings[key] = Meaning(key)
<1> SUFFICES ASSUME NEW key \in Keys, Meaning(key) \in 0..255 PROVE settings[key] = Meaning(key)
  OBVIOUS
<1>0. Len(given) \in Nat
  BY GivenFacts
<1>1. SettledTo(m) /\ \A k \in Given(key) : k \in 1..Len(given) /\ k <= m
  BY DEF AllSettled, Given
<1>2. CASE Given(key) = {}
  BY <1>1, <1>2 DEF SettledTo, Meaning
<1>3. CASE Given(key) # {}
  <2>1. PICK k \in Given(key) :
          (\A j \in Given(key) : j > m \/ j <= k) /\ settings[key] = Uint8(given[k].num)
    BY <1>0, <1>1, <1>3 DEF SettledTo
  <2>2. \A j \in Given(key) : j <= k
    BY <1>0, <1>1, <2>1
  <2> DEFINE c == CHOOSE h \in Given(key) : \A j \in Given(key) : j <= h
  <2>3. c \in Given(key) /\ \A j \in Given(key) : j <= c
    BY <2>2
  <2>4. c = k
    <3> HIDE DEF c
    <3> QED
      BY <1>0, <1>1, <2>1, <2>2, <2>3
  <2>5. Meaning(key) = given[c].num
    BY <1>3 DEF Meaning
  <2>6. \A n \in 0..255 : Uint8(n) = n
    BY DEF Uint8
  <2> QED
    BY <2>1, <2>4, <2>5, <2>6
<1> QED
  BY <1>2, <1>3

LEMMA ParaStep ==
    ASSUME ArgsIInv, ParaArgs
    PROVE  ArgsIInv'
<1>0. /\ given \in CommandLines /\ argv = given /\ i = 1 /\ settings = Default
      /\ UNCHANGED <<given, argv, i, settings>>
      /\ argv \in Seq(Arguments) /\ settings \in [Keys -> 0..255]
  BY DEF ArgsIInv, ParaArgs
<1>1. /\ Len(given) \in Nat \ {0} /\ given[1].kind = "word" /\ given \in Seq(Arguments)
      /\ \A k \in 1..Len(given) : given[k] \in Arguments
  BY <1>0, GivenFacts
<1>2. /\ at' \in {"usage", "run", "scan"}
      /\ at' = "run" => Len(given) = 2 /\ IsCommand(given[2])
      /\ at' = "scan" => Len(given) > 2 /\ IsCommand(given[2])
  <2>1. CASE Len(given) < 2
    <3>1. at' = "usage"
      BY <1>0, <1>1, <2>1 DEF ParaArgs, ARG_NUM
    <3> QED
      BY <3>1
  <2>2. CASE (Len(given) = 2 \/ Len(given) > 2) /\ ~IsCommand(given[2])
    <3>1. at' = "usage"
      BY <1>0, <1>1, <2>2 DEF ParaArgs, ARG_NUM
    <3> QED
      BY <3>1
  <2>3. CASE Len(given) = 2 /\ IsCommand(given[2])
    <3>1. at' = "run"
      BY <1>0, <1>1, <2>3 DEF ParaArgs, ARG_NUM
    <3> QED
      BY <2>3, <3>1
  <2>4. CASE Len(given) > 2 /\ IsCommand(given[2])
    <3>1. at' = "scan"
      BY <1>0, <1>1, <2>4 DEF ParaArgs, ARG_NUM
    <3> QED
      BY <2>4, <3>1
  <2>5. Len(given) < 2 \/ Len(given) = 2 \/ Len(given) > 2
    <3>1. \A n \in Nat : n < 2 \/ n = 2 \/ n > 2
      OBVIOUS
    <3> QED
      BY <1>1, <3>1
  <2> QED
    BY <2>1, <2>2, <2>3, <2>4, <2>5
<1>3. Scanned(0, 0)
  <2>1. \A key \in Keys : \A k \in Given(key) : k > 0
    BY <1>1 DEF Given
  <2>2. SettledTo(0)
    BY <1>0, <2>1 DEF SettledTo
  <2> QED
    BY <1>0, <1>1, <2>2 DEF Scanned
<1>4. Scanned(0, 0)'
  BY <1>0, <1>3 DEF Scanned, SettledTo, Given
<1>5. CASE at' = "run"
  <2>1. \A k \in 1..Len(given) : given[k].kind = "word"
    <3>1. Len(given) = 2 /\ given[2].kind = "word"
      BY <1>2, <1>5 DEF IsCommand
    <3>2. \A k \in 1..Len(given) : k = 1 \/ k = 2
      BY <3>1
    <3> QED
      BY <1>1, <3>1, <3>2
  <2>2. AllSettled(0)'
    BY <1>0, <1>4, <2>1 DEF Scanned, AllSettled
  <2>3. argv = SubSeq(given, 1, ARG_NUM)
    BY <1>0, <1>1, <1>2, <1>5, SubSeqFull DEF ARG_NUM
  <2>4. 0 \in 0..Len(given)
    BY <1>1
  <2> QED
    BY <1>0, <1>5, <2>2, <2>3, <2>4 DEF ArgsIInv
<1>6. CASE at' = "scan"
  <2>1. HeadKept'
    BY <1>0, <1>1, <1>2, <1>6 DEF HeadKept, ARG_NUM
  <2>2. 0 \in 0..Len(given)
    BY <1>1
  <2> QED
    BY <1>0, <1>1, <1>4, <1>6, <2>1, <2>2 DEF ArgsIInv
<1>7. CASE at' = "usage"
  BY <1>0, <1>7 DEF ArgsIInv
<1> QED
  BY <1>2, <1>5, <1>6, <1>7

LEMMA WordStep ==
    ASSUME ArgsIInv, ScanWord
    PROVE  ArgsIInv'
<1>0. /\ at = "scan" /\ i \in 1..Len(argv) /\ argv[i].kind = "word" /\ i' = i + 1
      /\ UNCHANGED <<given, argv, settings, at>> /\ Len(argv) \in Nat
  BY LenProperties DEF ArgsIInv, ScanWord
<1>1. \A k \in 1..(i' - 1) : argv[k].kind = "word"
  BY <1>0 DEF ArgsIInv
<1>2. HeadKept'
  BY <1>0 DEF ArgsIInv, HeadKept
<1>3. \E m, w \in 0..Len(given') : Scanned(m, w)'
  <2>1. PICK m \in 0..Len(given), w \in 0..Len(given) : Scanned(m, w)
    BY <1>0, SMTT(30) DEF ArgsIInv
  <2>2. Scanned(m, w)'
    BY <1>0, <2>1 DEF Scanned, SettledTo, Given
  <2> QED
    BY <1>0, <2>2
<1> QED
  BY <1>0, <1>1, <1>2, <1>3, SMTT(30) DEF ArgsIInv

\* The option that is taken out is the next of the command line as it was given: it
\* counts from now on, and only words are before it.
LEMMA OptionStep ==
    ASSUME ArgsIInv, ScanOption
    PROVE  ArgsIInv'
<1>0. /\ at = "scan" /\ i \in 1..Len(argv) /\ argv[i].kind = "option" /\ i' = 1
      /\ argv' = AdjustArgs(i) /\ UNCHANGED <<given, at>> /\ Len(argv) \in Nat
      /\ settings' = [settings EXCEPT ![argv[i].key] = Uint8(argv[i].num)]
      /\ argv \in Seq(Arguments) /\ settings \in [Keys -> 0..255] /\ given \in CommandLines
      /\ \A k \in 1..(i - 1) : argv[k].kind = "word"
  BY LenProperties, SMTT(30) DEF ArgsIInv, ScanOption
<1>1. argv[i] \in Arguments
  BY <1>0, ElementOfSeq
<1>2. argv[i].key \in Keys /\ Uint8(argv[i].num) \in 0..255
  BY <1>0, <1>1, ArgumentFacts
<1>3. settings' \in [Keys -> 0..255]
  BY <1>0, <1>2
<1>4. /\ argv' \in Seq(Arguments) /\ Len(argv') = Len(argv) - 1
      /\ \A j \in 1..(i - 1) : argv'[j] = argv[j]
      /\ \A j \in i..(Len(argv) - 1) : argv'[j] = argv[j + 1]
  BY <1>0, AdjustFacts
<1>5. i > 2 /\ HeadKept
  <2>1. HeadKept
    BY <1>0 DEF ArgsIInv
  <2>2. argv[1].kind = "word" /\ argv[2].kind = "word"
    BY <1>0, <2>1, GivenFacts DEF HeadKept, IsCommand
  <2>3. i # 1 /\ i # 2
    BY <1>0, <2>2
  <2> QED
    BY <1>0, <2>1, <2>3
<1>6. HeadKept'
  BY <1>0, <1>4, <1>5 DEF HeadKept, ARG_NUM, IsCommand
<1>7. PICK m \in 0..Len(given), w \in 0..Len(given) : Scanned(m, w)
  BY <1>0 DEF ArgsIInv
<1>8. Len(given) \in Nat
  BY <1>0, GivenFacts
<1>9. /\ w <= m /\ Len(argv) = Len(given) - m + w
      /\ \A k \in 1..(Len(given) - m) : argv[w + k] = given[m + k]
      /\ \A k \in 1..w : argv[k].kind = "word"
      /\ SettledTo(m)
  BY <1>7 DEF Scanned
<1>10. i > w
  BY <1>0, <1>8, <1>9
<1>11. PICK c \in Int, v \in Int : c = m + (i - w) /\ v = i - 1
  BY <1>0
<1>12. c \in (m + 1)..Len(given) /\ v \in 0..c /\ given[c] = argv[i]
  <2>1. i - w \in 1..(Len(given) - m) /\ w + (i - w) = i
    BY <1>0, <1>8, <1>9, <1>10
  <2>2. argv[w + (i - w)] = given[m + (i - w)]
    BY <1>9, <2>1
  <2>3. c \in (m + 1)..Len(given) /\ v \in 0..c
    BY <1>0, <1>8, <1>9, <1>10, <1>11, <2>1
  <2> QED
    BY <1>11, <2>1, <2>2, <2>3
<1>13. \A k \in (m + 1)..(c - 1) : given[k].kind = "word"
  <2> SUFFICES ASSUME NEW k \in (m + 1)..(c - 1) PROVE given[k].kind = "word"
    OBVIOUS
  <2>1. k - m \in 1..(Len(given) - m) /\ m + (k - m) = k /\ w + (k - m) \in 1..(i - 1)
    BY <1>0, <1>8, <1>9, <1>10, <1>11, <1>12
  <2>2. argv[w + (k - m)] = given[k]
    BY <1>9, <2>1
  <2> QED
    BY <1>0, <2>1, <2>2
<1>14. Len(argv') = Len(given) - c + v
  <2>1. i \in Int /\ m \in Int /\ w \in Int /\ Len(argv') = Len(argv) - 1
    BY <1>0, <1>4, <1>8
  <2>2. Len(argv) = Len(given) - m + w
    BY <1>9
  <2> QED
    BY <1>8, <1>11, <2>1, <2>2
<1>15. ASSUME NEW k \in 1..(Len(given) - c) PROVE argv'[v + k] = given[c + k]
  <2>1. /\ v + k \in i..(Len(argv) - 1) /\ (v + k) + 1 = w + (i - w + k)
        /\ i - w + k \in 1..(Len(given) - m) /\ m + (i - w + k) = c + k
    BY <1>0, <1>8, <1>9, <1>10, <1>11, <1>12
  <2>2. argv'[v + k] = argv[(v + k) + 1]
    BY <1>4, <2>1
  <2>3. argv[w + (i - w + k)] = given[m + (i - w + k)]
    BY <1>9, <2>1
  <2> QED
    BY <2>1, <2>2, <2>3
<1>16. \A k \in 1..v : argv'[k].kind = "word"
  BY <1>0, <1>4, <1>11
<1>17. SettledTo(c)'
  <2> SUFFICES ASSUME NEW key \in Keys
               PROVE  \/ (\A k \in Given(key) : k > c) /\ settings'[key] = Default[key]
                      \/ \E k \in Given(key) :
                           /\ k <= c /\ \A j \in Given(key) : j > c \/ j <= k
                           /\ settings'[key] = Uint8(given[k].num)
    BY <1>0 DEF SettledTo, Given
  <2>0. \A k \in Given(key) : k \in 1..Len(given) /\ given[k].kind = "option" /\ given[k].key = key
    BY DEF Given
  <2>1. CASE key = argv[i].key
    <3>1. settings'[key] = Uint8(given[c].num)
      BY <1>0, <1>2, <1>12, <2>1
    <3>2. c \in Given(key) /\ c <= c
      BY <1>0, <1>8, <1>12, <2>1 DEF Given
    <3>3. \A j \in Given(key) : j > c \/ j <= c
      BY <1>8, <1>12, <2>0
    <3> QED
      BY <3>1, <3>2, <3>3
  <2>2. CASE key # argv[i].key
    <3>1. settings'[key] = settings[key]
      BY <1>0, <1>2, <2>2
    <3>2. ASSUME NEW k \in Given(key), ~(k > c) PROVE k <= m
      <4>1. k # c
        BY <1>12, <2>0, <2>2
      <4>2. k \notin (m + 1)..(c - 1)
        BY <1>13, <2>0
      <4> QED
        BY <1>8, <1>12, <2>0, <3>2, <4>1, <4>2
    <3>3. \A k \in Given(key) : k > m <=> k > c
      BY <1>8, <1>12, <2>0, <3>2
    <3>4. CASE (\A k \in Given(key) : k > m) /\ settings[key] = Default[key]
      BY <3>1, <3>3, <3>4
    <3>5. ASSUME NEW k \in Given(key), k <= m, \A j \in Given(key) : j > m \/ j <= k,
                 settings[key] = Uint8(given[k].num)
          PROVE  /\ k <= c /\ \A j \in Given(key) : j > c \/ j <= k
                 /\ settings'[key] = Uint8(given[k].num)
      BY <1>8, <1>12, <2>0, <3>1, <3>3, <3>5
    <3> QED
      BY <1>9, <3>4, <3>5 DEF SettledTo
  <2> QED
    BY <2>1, <2>2
<1>18. Scanned(c, v)'
  BY <1>0, <1>8, <1>12, <1>14, <1>15, <1>16, <1>17 DEF Scanned
<1>19. c \in 0..Len(given) /\ v \in 0..Len(given)
  BY <1>8, <1>12
<1>20. i' \in Nat \ {0} /\ i' <= Len(argv') + 1 /\ \A k \in 1..(i' - 1) : argv'[k].kind = "word"
  BY <1>0, <1>4
<1>21. \E x, y \in 0..Len(given') : Scanned(x, y)'
  <2>1. c \in 0..Len(given') /\ v \in 0..Len(given')
    BY <1>0, <1>19
  <2> QED
    BY <1>18, <2>1, Zenon
<1> QED
  BY <1>0, <1>3, <1>4, <1>6, <1>20, <1>21 DEF ArgsIInv

LEMMA EndStep ==
    ASSUME ArgsIInv, ScanEnds
    PROVE  ArgsIInv'
<1>0. /\ at = "scan" /\ i = Len(argv) + 1 /\ Len(argv) \in Nat
      /\ UNCHANGED <<given, argv, i, settings>> /\ at' \in {"run", "usage"}
      /\ at' = "run" => Len(argv) = 2
      /\ given \in CommandLines /\ argv \in Seq(Arguments)
      /\ \A k \in 1..Len(argv) : argv[k].kind = "word"
  BY LenProperties DEF ArgsIInv, ScanEnds, ARG_NUM
<1>1. CASE at' = "run"
  <2>1. PICK m \in 0..Len(given), w \in 0..Len(given) : Scanned(m, w)
    BY <1>0 DEF ArgsIInv
  <2>2. Len(given) \in Nat /\ \A k \in 1..Len(given) : given[k] \in Arguments
    BY <1>0, GivenFacts
  <2>3. ASSUME NEW k \in 1..Len(given), given[k].kind = "option" PROVE k <= m
    <3> SUFFICES ASSUME k > m PROVE FALSE
      BY <2>2
    <3>1. k - m \in 1..(Len(given) - m) /\ m + (k - m) = k /\ w + (k - m) \in 1..Len(argv)
      BY <1>0, <2>1, <2>2 DEF Scanned
    <3>2. argv[w + (k - m)] = given[k]
      BY <2>1, <3>1 DEF Scanned
    <3> QED
      BY <1>0, <2>3, <3>1, <3>2
  <2>4. AllSettled(m)'
    <3>1. SettledTo(m)'
      <4>1. SettledTo(m) /\ given' = given /\ settings' = settings
        BY <1>0, <2>1 DEF Scanned
      <4> QED
        BY <4>1, SMTT(30) DEF SettledTo, Given
    <3> QED
      BY <1>0, <2>3, <3>1 DEF AllSettled
  <2>5. argv = SubSeq(given, 1, ARG_NUM)
    <3>1. HeadKept
      BY <1>0 DEF ArgsIInv
    <3> DEFINE s == SubSeq(given, 1, 2)
    <3>2. \A k \in 1..2 : given[k] \in Arguments
      BY <2>2, <3>1 DEF HeadKept, ARG_NUM
    <3>3. /\ s \in Seq(Arguments) /\ Len(s) = IF 1 <= 2 THEN 2 - 1 + 1 ELSE 0
          /\ \A k \in 1..(2 - 1 + 1) : s[k] = given[1 + k - 1]
      BY <3>2, SubSeqProperties
    <3>4. Len(s) = 2 /\ s[1] = given[1] /\ s[2] = given[2]
      <4>1. s[1] = given[1 + 1 - 1] /\ s[2] = given[1 + 2 - 1]
        BY <3>3
      <4> QED
        BY <3>3, <4>1
    <3> HIDE DEF s
    <3>5. \A k \in 1..Len(argv) : argv[k] = s[k]
      <4>1. Len(argv) = 2
        BY <1>0, <1>1
      <4>2. \A k \in 1..Len(argv) : k = 1 \/ k = 2
        BY <4>1
      <4> QED
        BY <3>1, <3>4, <4>2 DEF HeadKept
    <3>6. argv = s
      BY <1>0, <1>1, <3>3, <3>4, <3>5, SeqEqual
    <3> QED
      BY <3>6 DEF s, ARG_NUM
  <2> QED
    BY <1>0, <1>1, <2>4, <2>5 DEF ArgsIInv
<1>2. CASE at' = "usage"
  BY <1>0, <1>2 DEF ArgsIInv
<1> QED
  BY <1>0, <1>1, <1>2

LEMMA ArgsStep == ArgsIInv /\ [Next]_vars => ArgsIInv'
<1> SUFFICES ASSUME ArgsIInv, [Next]_vars PROVE ArgsIInv'
  OBVIOUS
<1>1. CASE UNCHANGED argVars
  <2>1. UNCHANGED <<given, argv, i, settings, at>>
    BY <1>1 DEF argVars
  <2>2. \A m, w : Scanned(m, w) => Scanned(m, w)'
    BY <2>1 DEF Scanned, SettledTo, Given
  <2>3. \A m : AllSettled(m) => AllSettled(m)'
    BY <2>1 DEF AllSettled, SettledTo, Given
  <2>4. HeadKept => HeadKept'
    BY <2>1 DEF HeadKept
  <2> QED
    BY <2>1, <2>2, <2>3, <2>4 DEF ArgsIInv
<1>2. CASE Call
  BY <1>2 DEF Call, ArgsIInv
<1>3. CASE ScanThrows
  BY <1>3 DEF ScanThrows, ArgsIInv, RunsAsAsked
<1> QED
  BY <1>1, <1>2, <1>3, ParaStep, WordStep, OptionStep, EndStep, Separately DEF ArgsNext

LEMMA ArgsFirst == Init => ArgsIInv
<1> SUFFICES ASSUME Init PROVE ArgsIInv
  OBVIOUS
<1>1. ArgsInit
  BY DEF Init
<1> QED
  BY <1>1, GivenFacts, DefaultAssumption DEF ArgsInit, ArgsIInv

\* A sample runs with the settings the command line means, however many options there
\* are, in whatever order, and however often the scan starts again.
THEOREM CommandObeyed == Spec => []RunsAsAsked
<1>1. ArgsIInv => RunsAsAsked
  BY SettledFacts DEF ArgsIInv, RunsAsAsked
<1> QED
  BY <1>1, ArgsFirst, ArgsStep, PTL DEF Spec

-----------------------------------------------------------------------------
(* readn and writen                                                        *)

Lines == [ret : 0..Size, num : [1..Size -> Nat \X Nat]]

LEMMA SizeFacts ==
    /\ \A x \in Int : x * Size \in Int
    /\ \A x \in Int : (x + 1) * Size = x * Size + Size
    /\ \A x, y \in Int : (x - y) * Size = x * Size - y * Size
    /\ \A x \in Int : x * Size < Size => x <= 0
    /\ \A x \in Int : -Size < x * Size => x >= 0
BY StreamAssumption

\* A byte of a number has one place in the stream.
LEMMA ByteFacts ==
    ASSUME NEW a \in Int, NEW b \in 1..Size, NEW c \in Int, NEW d \in 1..Size,
           a * Size + b = c * Size + d
    PROVE  a = c /\ b = d
<1>1. (a - c) * Size = d - b
  BY SizeFacts, StreamAssumption
<1>2. a - c \in Int /\ (a - c) * Size < Size /\ -Size < (a - c) * Size
  BY <1>1, StreamAssumption
<1>3. a - c = 0
  BY <1>2, SizeFacts
<1>4. a * Size = c * Size
  BY <1>3
<1> QED
  BY <1>3, <1>4, SizeFacts, StreamAssumption

\* While numbers arrive whole, none arrives that was not sent; if nothing is under way,
\* all that were sent have arrived, and as much of the next as was written.
LEMMA BalanceFacts ==
    ASSUME StreamIInv, WholeSoFar
    PROVE  /\ Len(output) <= written
           /\ Len(stream) >= rleft => Len(output) < written
           /\ stream = <<>> => Len(output) = written /\ rleft = wleft
<1>0. /\ Len(output) \in Nat /\ Len(stream) \in Nat /\ written \in Nat /\ Size \in Nat \ {0}
      /\ wleft \in 1..Size /\ rleft \in 1..Size
  BY LenProperties, StreamAssumption DEF StreamIInv
<1>1. Len(stream) + Len(output) * Size + Size - rleft = written * Size + Size - wleft
  BY DEF WholeSoFar
<1>2. Len(output) * Size \in Int /\ written * Size \in Int
  BY <1>0, SizeFacts
<1>3. (Len(output) - written) * Size = rleft - wleft - Len(stream)
  <2>1. (Len(output) - written) * Size = Len(output) * Size - written * Size
    BY <1>0, SizeFacts
  <2> QED
    BY <1>0, <1>1, <1>2, <2>1
<1>4. Len(output) - written \in Int
  BY <1>0
<1>5. Len(output) <= written
  <2>1. (Len(output) - written) * Size < Size
    BY <1>0, <1>3
  <2>2. Len(output) - written <= 0
    BY <1>4, <2>1, SizeFacts
  <2> QED
    BY <1>0, <2>2
<1>6. ASSUME Len(stream) >= rleft PROVE Len(output) < written
  <2>1. (Len(output) - written) * Size < 0
    BY <1>0, <1>3, <1>6
  <2>2. Len(output) - written # 0
    BY <2>1, SizeFacts, <1>0
  <2> QED
    BY <1>0, <1>5, <2>2
<1>7. ASSUME stream = <<>> PROVE Len(output) = written /\ rleft = wleft
  <2>0. Len(stream) = 0
    BY <1>7, EmptySeq
  <2>1. -Size < (Len(output) - written) * Size
    BY <1>0, <1>3, <2>0
  <2>2. Len(output) - written >= 0
    BY <1>4, <2>1, SizeFacts
  <2>3. Len(output) = written
    BY <1>0, <1>5, <2>2
  <2>4. Len(output) * Size = written * Size
    BY <2>3
  <2> QED
    BY <1>0, <1>1, <1>2, <2>0, <2>3, <2>4
<1> QED
  BY <1>5, <1>6, <1>7

LEMMA PieceFacts ==
    ASSUME StreamIInv, NEW n \in 1..wleft
    PROVE  /\ Piece(n) \in Seq(Nat \X Nat) /\ Len(Piece(n)) = n
           /\ \A k \in 1..n : Piece(n)[k] = <<written + 1, Size - wleft + k>> /\ Size - wleft + k \in 1..Size
<1>0. n \in Nat /\ written \in Nat /\ wleft \in 1..Size /\ Size \in Nat
  BY StreamAssumption DEF StreamIInv
<1>1. \A k \in 1..n : <<written + 1, Size - wleft + k>> \in Nat \X Nat
  BY <1>0
<1>2. Piece(n) \in [1..n -> Nat \X Nat]
  BY <1>1 DEF Piece
<1>3. Piece(n) \in Seq(Nat \X Nat)
  BY <1>0, <1>2
<1>4. Len(Piece(n)) = n
  BY <1>0, <1>2, <1>3, LenProperties
<1> QED
  BY <1>0, <1>3, <1>4 DEF Piece

LEMMA WriteStep ==
    ASSUME StreamIInv, NEW n \in 1..wleft, WriteSome(n)
    PROVE  StreamIInv'
<1>0. /\ client = "write" /\ doit = "read" /\ written < Numbers /\ stream' = stream \o Piece(n)
      /\ UNCHANGED <<client, doit, rleft, buff, output>>
      /\ stream \in Seq(Nat \X Nat) /\ Len(stream) \in Nat /\ Len(output) \in Nat
      /\ written \in Nat /\ Numbers \in Nat /\ wleft \in 1..Size /\ rleft \in 1..Size /\ Size \in Nat \ {0}
  BY StreamAssumption, LenProperties DEF WriteSome, StreamIInv
<1>1. WholeSoFar
  BY <1>0 DEF StreamIInv, CutOff
<1>2. /\ Piece(n) \in Seq(Nat \X Nat) /\ Len(Piece(n)) = n
      /\ \A k \in 1..n : Piece(n)[k] = <<written + 1, Size - wleft + k>> /\ Size - wleft + k \in 1..Size
  BY PieceFacts
<1>3. /\ stream' \in Seq(Nat \X Nat) /\ Len(stream') = Len(stream) + n
      /\ \A k \in 1..(Len(stream) + n) :
           stream'[k] = IF k <= Len(stream) THEN stream[k] ELSE Piece(n)[k - Len(stream)]
  BY <1>0, <1>2, ConcatProperties, ZenonT(30)
<1> DEFINE N == Len(output) * Size
           W == written * Size
<1>4. N \in Int /\ W \in Int /\ (written + 1) * Size = W + Size
  BY <1>0, SizeFacts
<1>5. Len(stream) + N + Size - rleft = W + Size - wleft
  BY <1>1 DEF WholeSoFar
<1>6. /\ written' \in 0..Numbers /\ wleft' \in 1..Size /\ (written' = Numbers => wleft' = Size)
      /\ written' * Size + Size - wleft' = W + Size - wleft + n
  <2>1. CASE n = wleft
    <3>1. written' = written + 1 /\ wleft' = Size
      BY <2>1 DEF WriteSome
    <3> QED
      BY <1>0, <1>4, <2>1, <3>1
  <2>2. CASE n # wleft
    <3>1. written' = written /\ wleft' = wleft - n
      BY <2>2 DEF WriteSome
    <3> QED
      BY <1>0, <1>4, <2>2, <3>1
  <2> QED
    BY <2>1, <2>2
<1>7. Len(stream') + Len(output') * Size + Size - rleft' = written' * Size + Size - wleft'
  <2>1. Len(output') * Size = N /\ rleft' = rleft
    BY <1>0
  <2> DEFINE W2 == written' * Size
             L == Len(stream)
             L2 == Len(stream')
  <2>2. W2 \in Int
    BY <1>6, SizeFacts
  <2>3. /\ N \in Int /\ W \in Int /\ L \in Int /\ L2 = L + n /\ n \in Int /\ Size \in Int
        /\ rleft \in Int /\ wleft \in Int /\ wleft' \in Int
        /\ L + N + Size - rleft = W + Size - wleft
        /\ W2 + Size - wleft' = W + Size - wleft + n
    <3>1. N \in Int /\ W \in Int
      BY <1>4
    <3>2. L \in Int /\ L2 = L + n /\ n \in Int /\ Size \in Int /\ rleft \in Int /\ wleft \in Int
      BY <1>0, <1>3
    <3>3. W2 + Size - wleft' = W + Size - wleft + n
      BY <1>6
    <3>5. wleft' \in Int
      BY <1>0, <1>6
    <3>4. L + N + Size - rleft = W + Size - wleft
      BY <1>5
    <3> QED
      BY <3>1, <3>2, <3>3, <3>4, <3>5
  <2> HIDE DEF N, W, W2, L, L2
  <2>4. L2 + N + Size - rleft = W2 + Size - wleft'
    <3>1. \A r, w, w2 \in Int :
            L + N + Size - r = W + Size - w /\ W2 + Size - w2 = W + Size - w + n
              => L2 + N + Size - r = W2 + Size - w2
      BY <2>2, <2>3
    <3> QED
      BY <2>3, <3>1
  <2> QED
    BY <2>1, <2>4 DEF N, W2, L2
<1>8. ASSUME NEW k \in 1..Len(stream')
      PROVE  \E a \in Nat, b \in 1..Size : stream'[k] = <<a, b>> /\ (a - 1) * Size + b = N + Size - rleft + k
  <2>1. CASE k <= Len(stream)
    <3>1. k \in 1..Len(stream) /\ stream'[k] = stream[k]
      BY <1>0, <1>3, <2>1
    <3> QED
      BY <1>1, <3>1 DEF WholeSoFar
  <2>2. CASE k > Len(stream)
    <3>1. k - Len(stream) \in 1..n /\ stream'[k] = Piece(n)[k - Len(stream)]
      BY <1>0, <1>3, <2>2
    <3> DEFINE a == written + 1
               b == Size - wleft + (k - Len(stream))
    <3>2. stream'[k] = <<a, b>> /\ b \in 1..Size
      BY <1>2, <3>1
    <3>3. a - 1 = written /\ a \in Nat
      BY <1>0
    <3>4. (a - 1) * Size + b = N + Size - rleft + k
      <4>1. (a - 1) * Size = W
        BY <3>3
      <4> DEFINE L == Len(stream)
      <4>2. /\ N \in Int /\ W \in Int /\ L \in Int /\ Size \in Int
            /\ rleft \in Int /\ wleft \in Int /\ k \in Int
            /\ L + N + Size - rleft = W + Size - wleft
            /\ b = Size - wleft + (k - L)
        BY <1>0, <1>4, <1>5
      <4> HIDE DEF N, W, L, a, b
      <4> QED
        BY <4>1, <4>2
    <3> HIDE DEF a, b
    <3> QED
      BY <3>2, <3>3, <3>4
  <2>3. k <= Len(stream) \/ k > Len(stream)
    <3>1. k \in Int /\ Len(stream) \in Int
      BY <1>0, <1>3
    <3> QED
      BY <3>1
  <2> QED
    BY <2>1, <2>2, <2>3
<1>9. WholeSoFar'
  BY <1>0, <1>1, <1>7, <1>8, ZenonT(30) DEF WholeSoFar
<1> QED
  BY <1>0, <1>3, <1>6, <1>9 DEF StreamIInv

\* The bytes that read() gives go on where the buffer stands.
LEMMA FilledFacts ==
    ASSUME StreamIInv, WholeSoFar, NEW n \in 1..rleft, n <= Len(stream)
    PROVE  /\ Filled(n) \in [1..Size -> Nat \X Nat]
           /\ \A k \in 1..(Size - rleft + n) : Filled(n)[k] = <<Len(output) + 1, k>>
<1>0. /\ stream \in Seq(Nat \X Nat) /\ Len(stream) \in Nat /\ Len(output) \in Nat
      /\ rleft \in 1..Size /\ Size \in Nat \ {0} /\ buff \in [1..Size -> Nat \X Nat]
      /\ \A k \in 1..Len(stream) : stream[k] \in Nat \X Nat
  BY StreamAssumption, LenProperties, ElementOfSeq DEF StreamIInv
<1>1. ASSUME NEW k \in 1..Size
      PROVE  (IF k > Size - rleft /\ k <= Size - rleft + n THEN stream[k - Size + rleft] ELSE buff[k]) \in Nat \X Nat
  <2>1. CASE k > Size - rleft /\ k <= Size - rleft + n
    <3>1. k - Size + rleft \in 1..Len(stream)
      BY <1>0, <2>1
    <3> QED
      BY <1>0, <2>1, <3>1
  <2>2. CASE ~(k > Size - rleft /\ k <= Size - rleft + n)
    BY <1>0, <2>2
  <2> QED
    BY <2>1, <2>2
<1>2. Filled(n) \in [1..Size -> Nat \X Nat]
  BY <1>1 DEF Filled
<1>3. ASSUME NEW k \in 1..(Size - rleft + n) PROVE Filled(n)[k] = <<Len(output) + 1, k>>
  <2>0. k \in 1..Size
    BY <1>0
  <2>1. CASE k <= Size - rleft
    <3>1. k \in 1..(Size - rleft) /\ ~(k > Size - rleft)
      BY <1>0, <2>1
    <3>2. Filled(n)[k] = buff[k]
      BY <2>0, <3>1 DEF Filled
    <3> QED
      BY <3>1, <3>2 DEF WholeSoFar
  <2>2. CASE k > Size - rleft
    <3>0. k <= Size - rleft + n
      BY <1>0
    <3> DEFINE j == k - Size + rleft
    <3>1. j \in 1..Len(stream) /\ Size - rleft + j = k
      BY <1>0, <2>2, <3>0
    <3>2. Filled(n)[k] = stream[j]
      BY <2>0, <2>2, <3>0 DEF Filled
    <3> HIDE DEF j
    <3>3. PICK a \in Nat, b \in 1..Size :
            stream[j] = <<a, b>> /\ (a - 1) * Size + b = Len(output) * Size + Size - rleft + j
      BY <3>1 DEF WholeSoFar
    <3>4. a - 1 \in Int /\ (a - 1) * Size + b = Len(output) * Size + k
      <4>1. Len(output) * Size \in Int
        BY <1>0, SizeFacts
      <4> DEFINE N == Len(output) * Size
                 A == (a - 1) * Size
      <4>2. /\ N \in Int /\ A + b = N + Size - rleft + j /\ Size - rleft + j = k
            /\ Size \in Int /\ rleft \in Int /\ j \in Int
        BY <1>0, <3>1, <3>3, <4>1
      <4>3. a - 1 \in Int
        OBVIOUS
      <4> HIDE DEF N, A
      <4>4. A + b = N + k
        BY <4>2
      <4> QED
        BY <4>3, <4>4 DEF N, A
    <3>5. a - 1 = Len(output) /\ b = k
      <4>1. Len(output) \in Int
        BY <1>0
      <4> QED
        BY <2>0, <3>4, <4>1, ByteFacts
    <3>6. a = Len(output) + 1
      BY <1>0, <3>5
    <3> QED
      BY <3>2, <3>3, <3>5, <3>6
  <2>3. k <= Size - rleft \/ k > Size - rleft
    <3>1. k \in Int /\ Size - rleft \in Int
      BY <1>0
    <3> QED
      BY <3>1
  <2> QED
    BY <2>1, <2>2, <2>3
<1> QED
  BY <1>2, <1>3

\* The bytes that are left in the socket.
LEMMA RestFacts ==
    ASSUME StreamIInv, NEW n \in Nat, n <= Len(stream), stream' = SubSeq(stream, n + 1, Len(stream))
    PROVE  /\ stream' \in Seq(Nat \X Nat) /\ Len(stream') = Len(stream) - n
           /\ \A k \in 1..(Len(stream) - n) : stream'[k] = stream[n + k]
<1>0. /\ Len(stream) \in Nat /\ n + 1 \in Int
      /\ \A k \in 1..Len(stream) : stream[k] \in Nat \X Nat
  BY LenProperties, ElementOfSeq DEF StreamIInv
<1>1. \A k \in (n + 1)..Len(stream) : stream[k] \in Nat \X Nat
  BY <1>0
<1>2. /\ stream' \in Seq(Nat \X Nat)
      /\ Len(stream') = IF n + 1 <= Len(stream) THEN Len(stream) - (n + 1) + 1 ELSE 0
      /\ \A k \in 1..(Len(stream) - (n + 1) + 1) : stream'[k] = stream[(n + 1) + k - 1]
  BY <1>0, <1>1, SubSeqProperties
<1> QED
  BY <1>0, <1>2

\* A number is complete: Doit prints it.
LEMMA WholeNumber ==
    ASSUME StreamIInv, NEW n \in 1..rleft, ReadSome(n), n = rleft
    PROVE  /\ WholeSoFar /\ Len(output) < written
           /\ output' = Append(output, Line(Len(output) + 1)) /\ rleft' = Size
<1>0. /\ n <= Len(stream) /\ doit = "read" /\ Len(stream) \in Nat /\ Len(output) \in Nat
      /\ rleft \in 1..Size /\ Size \in Nat \ {0}
  BY StreamAssumption, LenProperties DEF ReadSome, StreamIInv
<1>1. WholeSoFar
  <2>1. stream # <<>>
    BY <1>0, EmptySeq
  <2> QED
    BY <1>0, <2>1 DEF StreamIInv, CutOff
<1>2. Len(output) < written
  BY <1>0, <1>1, BalanceFacts
<1>3. output' = Append(output, [ret |-> Size, num |-> Filled(n)]) /\ rleft' = Size
  BY <1>0 DEF ReadSome, Printf
<1>4. Filled(n) = Whole(Len(output) + 1)
  <2>1. /\ Filled(n) \in [1..Size -> Nat \X Nat]
        /\ \A k \in 1..(Size - rleft + n) : Filled(n)[k] = <<Len(output) + 1, k>>
    BY <1>0, <1>1, FilledFacts
  <2>2. Size - rleft + n = Size
    BY <1>0
  <2> QED
    BY <2>1, <2>2 DEF Whole
<1> QED
  BY <1>1, <1>2, <1>3, <1>4 DEF Line

LEMMA ReadingWhole ==
    ASSUME StreamIInv, NEW n \in 1..rleft, ReadSome(n)
    PROVE  WholeSoFar
<1>0. n <= Len(stream) /\ doit = "read" /\ Len(stream) \in Nat
  BY LenProperties DEF ReadSome, StreamIInv
<1>1. stream # <<>>
  BY <1>0, EmptySeq
<1> QED
  BY <1>0, <1>1 DEF StreamIInv, CutOff

\* Where the buffer ends, in bytes of the whole stream, moves by what was read.
LEMMA ReadBalance ==
    ASSUME StreamIInv, NEW n \in 1..rleft, ReadSome(n)
    PROVE  /\ rleft' \in 1..Size /\ output' \in Seq(Lines) /\ Len(output') \in Nat
           /\ Len(output') * Size + Size - rleft' = Len(output) * Size + Size - rleft + n
           /\ \A k \in 1..Len(output') : output'[k] = Line(k)
           /\ \A k \in 1..(Size - rleft') : Filled(n)[k] = <<Len(output') + 1, k>>
<1>0. /\ Len(stream) \in Nat /\ Len(output) \in Nat /\ output \in Seq(Lines)
      /\ rleft \in 1..Size /\ Size \in Nat \ {0}
  BY StreamAssumption, LenProperties DEF StreamIInv, Lines
<1>1. WholeSoFar
  BY ReadingWhole
<1>2. n <= Len(stream)
  BY DEF ReadSome
<1>3. /\ Filled(n) \in [1..Size -> Nat \X Nat]
      /\ \A k \in 1..(Size - rleft + n) : Filled(n)[k] = <<Len(output) + 1, k>>
  BY <1>1, <1>2, FilledFacts
<1>4. CASE n = rleft
  <2>1. output' = Append(output, Line(Len(output) + 1)) /\ rleft' = Size
    BY <1>4, WholeNumber
  <2>2. Line(Len(output) + 1) \in Lines
    BY <1>0 DEF Line, Lines, Whole
  <2>3. /\ output' \in Seq(Lines) /\ Len(output') = Len(output) + 1
        /\ \A k \in 1..Len(output) : output'[k] = output[k]
        /\ output'[Len(output) + 1] = Line(Len(output) + 1)
    BY <1>0, <2>1, <2>2, AppendProperties
  <2>4. (Len(output) + 1) * Size = Len(output) * Size + Size /\ Len(output) * Size \in Int
    BY <1>0, SizeFacts
  <2>5. Len(output') * Size + Size - rleft' = Len(output) * Size + Size - rleft + n
    <3>1. Len(output') * Size = Len(output) * Size + Size
      BY <2>3, <2>4
    <3> DEFINE N == Len(output) * Size
    <3>2. N \in Int /\ Size \in Int /\ rleft \in Int
      BY <1>0, <2>4
    <3> HIDE DEF N
    <3>3. N + Size + Size - Size = N + Size - rleft + rleft
      BY <3>2
    <3> QED
      BY <1>4, <2>1, <3>1, <3>3 DEF N
  <2>6. ASSUME NEW k \in 1..Len(output') PROVE output'[k] = Line(k)
    <3>1. k \in 1..Len(output) \/ k = Len(output) + 1
      BY <1>0, <2>3
    <3> QED
      BY <1>1, <2>3, <3>1 DEF WholeSoFar
  <2>7. rleft' \in 1..Size /\ Len(output') \in Nat /\ \A k \in 1..(Size - rleft') : FALSE
    BY <1>0, <2>1, <2>3
  <2> QED
    BY <2>3, <2>5, <2>6, <2>7
<1>5. CASE n # rleft
  <2>1. rleft' = rleft - n /\ output' = output /\ n < rleft
    BY <1>5 DEF ReadSome
  <2>2. rleft' \in 1..Size /\ Size - rleft' = Size - rleft + n
    BY <1>0, <2>1
  <2>3. Len(output') * Size + Size - rleft' = Len(output) * Size + Size - rleft + n
    <3> DEFINE N == Len(output) * Size
    <3>1. N \in Int /\ Size \in Int /\ rleft \in Int
      BY <1>0, SizeFacts
    <3> HIDE DEF N
    <3>2. N + Size - (rleft - n) = N + Size - rleft + n
      BY <3>1
    <3> QED
      BY <2>1, <3>2 DEF N
  <2>4. \A k \in 1..Len(output') : output'[k] = Line(k)
    BY <1>1, <2>1 DEF WholeSoFar
  <2>5. \A k \in 1..(Size - rleft') : Filled(n)[k] = <<Len(output') + 1, k>>
    BY <1>3, <2>1, <2>2
  <2> QED
    BY <1>0, <2>1, <2>2, <2>3, <2>4, <2>5
<1> QED
  BY <1>4, <1>5

LEMMA ReadStep ==
    ASSUME StreamIInv, NEW n \in 1..rleft, ReadSome(n)
    PROVE  StreamIInv'
<1>0. /\ n \in Nat /\ n <= Len(stream) /\ Len(stream) \in Nat /\ Len(output) \in Nat
      /\ rleft \in 1..Size /\ wleft \in 1..Size /\ written \in Nat /\ Size \in Nat \ {0}
  BY StreamAssumption, LenProperties DEF ReadSome, StreamIInv
<1>1. WholeSoFar
  BY ReadingWhole
<1>2. /\ buff' = Filled(n) /\ stream' = SubSeq(stream, n + 1, Len(stream))
      /\ UNCHANGED <<client, written, wleft, doit>>
  BY DEF ReadSome
<1>3. /\ rleft' \in 1..Size /\ output' \in Seq(Lines) /\ Len(output') \in Nat
      /\ Len(output') * Size + Size - rleft' = Len(output) * Size + Size - rleft + n
      /\ \A k \in 1..Len(output') : output'[k] = Line(k)
      /\ \A k \in 1..(Size - rleft') : buff'[k] = <<Len(output') + 1, k>>
  BY <1>2, ReadBalance
<1>4. buff' \in [1..Size -> Nat \X Nat]
  BY <1>0, <1>1, <1>2, FilledFacts
<1>5. /\ stream' \in Seq(Nat \X Nat) /\ Len(stream') = Len(stream) - n
      /\ \A k \in 1..(Len(stream) - n) : stream'[k] = stream[n + k]
  BY <1>0, <1>2, RestFacts
<1> DEFINE N == Len(output) * Size
           N2 == Len(output') * Size
           W == written * Size
<1>6. N \in Int /\ N2 \in Int /\ W \in Int
  BY <1>0, <1>3, SizeFacts
<1>7. Len(stream') + N2 + Size - rleft' = written' * Size + Size - wleft'
  <2>1. Len(stream) + N + Size - rleft = W + Size - wleft
    BY <1>1 DEF WholeSoFar
  <2>2. Len(stream) \in Int /\ Size \in Int /\ rleft \in Int /\ rleft' \in Int /\ wleft \in Int
    BY <1>0, <1>3
  <2>3. N2 + Size - rleft' = N + Size - rleft + n
    BY <1>3
  <2> HIDE DEF N, N2, W
  <2>4. Len(stream) - n + N2 + Size - rleft' = W + Size - wleft
    <3> DEFINE l == Len(stream)
               r2 == rleft'
    <3>1. l \in Int /\ l + N + Size - rleft = W + Size - wleft
      BY <2>1, <2>2
    <3>4. r2 \in Int /\ rleft \in Int /\ wleft \in Int /\ Size \in Int /\ n \in Int
      BY <2>2
    <3>2. N2 + Size - r2 = N + Size - rleft + n
      BY <2>3
    <3> HIDE DEF l, r2
    <3>3. l - n + N2 + Size - r2 = W + Size - wleft
      BY <1>6, <3>1, <3>2, <3>4
    <3> QED
      BY <3>3 DEF l, r2
  <2> QED
    BY <1>2, <1>5, <2>4 DEF W
<1>8. ASSUME NEW k \in 1..Len(stream')
      PROVE  \E a \in Nat, b \in 1..Size : stream'[k] = <<a, b>> /\ (a - 1) * Size + b = N2 + Size - rleft' + k
  <2>1. n + k \in 1..Len(stream) /\ k \in 1..(Len(stream) - n)
    BY <1>0, <1>5
  <2>2. PICK a \in Nat, b \in 1..Size :
          stream[n + k] = <<a, b>> /\ (a - 1) * Size + b = N + Size - rleft + (n + k)
    BY <1>1, <2>1 DEF WholeSoFar
  <2>3. N + Size - rleft + (n + k) = N2 + Size - rleft' + k
    <3>1. Size \in Int /\ rleft \in Int /\ rleft' \in Int /\ k \in Int
      BY <1>0, <1>3, <2>1
    <3>2. N2 + Size - rleft' = N + Size - rleft + n
      BY <1>3
    <3> HIDE DEF N, N2
    <3>3. \A r, r2 \in Int : N2 + Size - r2 = N + Size - r + n => N + Size - r + (n + k) = N2 + Size - r2 + k
      BY <1>0, <1>6, <3>1
    <3> QED
      BY <3>1, <3>2, <3>3
  <2>4. stream'[k] = <<a, b>>
    BY <1>5, <2>1, <2>2
  <2>5. (a - 1) * Size + b = N2 + Size - rleft' + k
    BY <2>2, <2>3
  <2> QED
    BY <2>4, <2>5
<1>9. WholeSoFar'
  BY <1>3, <1>7, <1>8 DEF WholeSoFar
<1> QED
  BY <1>2, <1>3, <1>4, <1>5, <1>9 DEF StreamIInv, Lines

\* read() gives nothing more: either the number before was the last, or the client was
\* killed in the middle of one.
LEMMA EndBalance ==
    ASSUME StreamIInv, ReadEnd
    PROVE  \/ WholeSoFar /\ Len(output) = written /\ (rleft # Size => client = "killed")
           \/ CutOff
<1>0. doit = "read" /\ stream = <<>> /\ client \in {"closed", "killed"}
  BY DEF ReadEnd
<1>1. CASE WholeSoFar
  <2>1. Len(output) = written /\ rleft = wleft
    BY <1>0, <1>1, BalanceFacts
  <2>2. client = "closed" => wleft = Size
    BY DEF StreamIInv
  <2> QED
    BY <1>0, <1>1, <2>1, <2>2
<1> QED
  BY <1>0, <1>1 DEF StreamIInv

LEMMA ReadEndStep ==
    ASSUME StreamIInv, ReadEnd
    PROVE  StreamIInv'
<1>0. /\ doit = "read" /\ stream = <<>> /\ client \in {"closed", "killed"} /\ rleft' = Size
      /\ output' = Append(output, [ret |-> Size - rleft, num |-> buff])
      /\ doit' = IF rleft = Size THEN "ended" ELSE "read"
      /\ UNCHANGED <<client, written, wleft, stream, buff>>
  BY DEF ReadEnd, Printf
<1>1. /\ Size \in Nat \ {0} /\ rleft \in 1..Size /\ output \in Seq(Lines) /\ Len(output) \in Nat
      /\ buff \in [1..Size -> Nat \X Nat]
  BY StreamAssumption, LenProperties DEF StreamIInv, Lines
<1>2. [ret |-> Size - rleft, num |-> buff] \in Lines
  <2>1. Size - rleft \in 0..Size
    BY <1>1
  <2> QED
    BY <1>1, <2>1 DEF Lines
<1>3. /\ output' \in Seq(Lines) /\ Len(output') = Len(output) + 1
      /\ output'[Len(output) + 1] = [ret |-> Size - rleft, num |-> buff]
  BY <1>0, <1>1, <1>2, AppendProperties
<1>4. rleft' \in 1..Size
  BY <1>0, <1>1
<1>5. ASSUME doit' = "read" PROVE CutOff'
  <2>1. rleft # Size
    BY <1>0, <1>5
  <2>2. client = "killed" /\ Len(output) = written
    BY <2>1, EndBalance DEF CutOff
  <2>3. output'[written + 1].ret = Size - rleft
    BY <1>3, <2>2
  <2>4. Size - rleft # Size
    BY <1>1
  <2>5. Len(output') = written + 1
    BY <1>3, <2>2
  <2> QED
    BY <1>0, <2>2, <2>3, <2>4, <2>5 DEF CutOff
<1>6. doit' \in {"read", "ended"}
  BY <1>0
<1> QED
  BY <1>0, <1>3, <1>4, <1>5, <1>6 DEF StreamIInv, Lines

\* The steps that move no byte.
LEMMA QuietStep ==
    ASSUME StreamIInv, UNCHANGED <<written, wleft, stream, rleft, buff, output>>,
           \/ UNCHANGED <<client, doit>>
           \/ client = "off" /\ client' = "write" /\ doit' = "read"
           \/ client = "write" /\ client' = "killed" /\ UNCHANGED doit
           \/ client = "write" /\ written = Numbers /\ client' = "closed" /\ UNCHANGED doit
           \/ doit = "read" /\ doit' = "killed" /\ UNCHANGED client
    PROVE  StreamIInv'
<1>1. WholeSoFar => WholeSoFar'
  BY DEF WholeSoFar
<1>2. client # "write" /\ client # "off" /\ CutOff => client = "killed"
  BY DEF CutOff
<1>3. client' = client /\ CutOff => CutOff'
  BY DEF CutOff
<1>4. client \in {"off", "write"} => ~CutOff
  BY DEF CutOff
<1>5. doit' \in {"off", "read"} => doit \in {"off", "read"}
  BY DEF StreamIInv
<1>6. doit' \in {"off", "read"} => (WholeSoFar \/ CutOff)'
  BY <1>1, <1>3, <1>4, <1>5 DEF StreamIInv
<1> QED
  BY <1>6 DEF StreamIInv

LEMMA StreamNextStep == StreamIInv /\ [Next]_vars => StreamIInv'
<1> SUFFICES ASSUME StreamIInv, [Next]_vars PROVE StreamIInv'
  OBVIOUS
<1>1. CASE UNCHANGED streamVars
  BY <1>1, QuietStep DEF streamVars
<1>2. CASE StartStream
  BY <1>2, QuietStep DEF StartStream
<1>3. CASE StreamNext
  <2>1. CASE \E n \in 1..wleft : WriteSome(n)
    BY <2>1, WriteStep
  <2>2. CASE \E n \in 1..rleft : ReadSome(n)
    BY <2>2, ReadStep
  <2>3. CASE WriteFails \/ ClientExits
    BY <2>3, QuietStep DEF WriteFails, ClientExits
  <2>4. CASE CloseStream
    BY <2>4, QuietStep DEF CloseStream
  <2>5. CASE ReadEnd
    BY <2>5, ReadEndStep
  <2>6. CASE ReadFails
    BY <2>6, QuietStep DEF ReadFails
  <2> QED
    BY <1>3, <2>1, <2>2, <2>3, <2>4, <2>5, <2>6 DEF StreamNext, StreamStep, StreamFaults
<1> QED
  BY <1>1, <1>2, <1>3 DEF Next, vars, ParseArgs, Call, RunSignal, RunThreads, RunInotify, RunStream

LEMMA StreamFirst == Init => StreamIInv
<1> SUFFICES ASSUME StreamInit PROVE StreamIInv
  BY DEF Init
<1>0. Size \in Nat \ {0} /\ Numbers \in Nat
  BY StreamAssumption
<1>1. Len(output) = 0 /\ Len(stream) = 0 /\ stream \in Seq(Nat \X Nat) /\ output \in Seq(Lines)
  BY EmptySeq DEF StreamInit
<1>2. buff \in [1..Size -> Nat \X Nat]
  BY DEF StreamInit, Garbage
<1>3. WholeSoFar
  <2>1. written = 0 /\ wleft = Size /\ rleft = Size
    BY DEF StreamInit
  <2>2. Size - rleft = 0 /\ \A k \in 1..0 : FALSE
    BY <1>0, <2>1
  <2>3. Len(stream) + Len(output) * Size + Size - rleft = written * Size + Size - wleft
    BY <1>0, <1>1, <2>1
  <2> QED
    BY <1>1, <2>2, <2>3 DEF WholeSoFar
<1> QED
  BY <1>0, <1>1, <1>2, <1>3 DEF StreamInit, StreamIInv, Lines

-----------------------------------------------------------------------------
(* readn and writen implement the channel                                  *)

\* What Doit makes of the lines it has printed: what Channel calls received.
Made(lines) == [k \in 1..Len(lines) |-> Meant(lines[k])]

\* A line with a whole number stands for that number, a shorter one for 0.
LEMMA MeantFacts ==
    /\ \A m \in 1..Numbers : Meant(Line(m)) = m
    /\ \A l \in Lines : l.ret # Size => Meant(l) = 0
<1>0. Size \in Nat \ {0} /\ Numbers \in Nat
  BY StreamAssumption
<1>1. ASSUME NEW m \in 1..Numbers PROVE Meant(Line(m)) = m
  <2> DEFINE P(x) == Line(m).num = Whole(x) \/ (x = -1 /\ \A j \in 1..Numbers : Line(m).num # Whole(j))
  <2>1. Line(m).ret = Size /\ Line(m).num = Whole(m)
    BY DEF Line
  <2>2. m \in -1..Numbers /\ P(m)
    BY <1>0, <2>1
  <2>3. ASSUME NEW x \in -1..Numbers, P(x) PROVE x = m
    <3>1. Whole(m) = Whole(x)
      BY <2>1, <2>3
    <3>2. 1 \in 1..Size
      BY <1>0
    <3>3. Whole(m)[1] = <<m, 1>> /\ Whole(x)[1] = <<x, 1>>
      BY <3>2 DEF Whole
    <3> QED
      BY <3>1, <3>3
  <2>4. ~(Line(m).ret < Size)
    BY <1>0, <2>1
  <2>5. Meant(Line(m)) = CHOOSE x \in -1..Numbers : P(x)
    BY <2>4 DEF Meant
  <2> HIDE DEF P
  <2>6. (CHOOSE x \in -1..Numbers : P(x)) = m
    BY <2>2, <2>3
  <2> QED
    BY <2>5, <2>6
<1>2. ASSUME NEW l \in Lines, l.ret # Size PROVE Meant(l) = 0
  <2>1. l.ret \in 0..Size
    BY DEF Lines
  <2>2. l.ret < Size
    BY <1>0, <1>2, <2>1
  <2> QED
    BY <2>2 DEF Meant
<1> QED
  BY <1>1, <1>2

LEMMA MadeFacts ==
    ASSUME NEW lines \in Seq(Lines)
    PROVE  /\ Made(lines) \in Seq({Meant(l) : l \in Lines}) /\ Len(Made(lines)) = Len(lines)
           /\ \A k \in 1..Len(lines) : Made(lines)[k] = Meant(lines[k])
<1> DEFINE S == {Meant(l) : l \in Lines}
<1>0. Len(lines) \in Nat /\ \A k \in 1..Len(lines) : lines[k] \in Lines
  BY LenProperties, ElementOfSeq
<1>1. Made(lines) \in [1..Len(lines) -> S]
  BY <1>0 DEF Made
<1> HIDE DEF S
<1>2. Made(lines) \in Seq(S)
  BY <1>0, <1>1
<1>3. Len(Made(lines)) = Len(lines)
  BY <1>0, <1>1, <1>2, LenProperties
<1> QED
  BY <1>2, <1>3 DEF Made, S

LEMMA MadeAppend ==
    ASSUME NEW lines \in Seq(Lines), NEW l \in Lines
    PROVE  Made(Append(lines, l)) = Append(Made(lines), Meant(l))
<1> DEFINE S == {Meant(x) : x \in Lines}
           more == Append(lines, l)
           made == Append(Made(lines), Meant(l))
<1>0. Len(lines) \in Nat /\ Meant(l) \in S
  BY LenProperties
<1>1. /\ more \in Seq(Lines) /\ Len(more) = Len(lines) + 1
      /\ \A k \in 1..Len(lines) : more[k] = lines[k]
      /\ more[Len(lines) + 1] = l
  BY AppendProperties
<1>2. /\ Made(lines) \in Seq(S) /\ Len(Made(lines)) = Len(lines)
      /\ \A k \in 1..Len(lines) : Made(lines)[k] = Meant(lines[k])
  BY MadeFacts
<1>3. /\ Made(more) \in Seq(S) /\ Len(Made(more)) = Len(more)
      /\ \A k \in 1..Len(more) : Made(more)[k] = Meant(more[k])
  BY <1>1, MadeFacts
<1> HIDE DEF S, more
<1>4. /\ made \in Seq(S) /\ Len(made) = Len(Made(lines)) + 1
      /\ \A k \in 1..Len(Made(lines)) : made[k] = Made(lines)[k]
      /\ made[Len(Made(lines)) + 1] = Meant(l)
  BY <1>0, <1>2, AppendProperties
<1> HIDE DEF made
<1>5. ASSUME NEW k \in 1..Len(made) PROVE Made(more)[k] = made[k]
  <2>1. k \in 1..Len(lines) \/ k = Len(lines) + 1
    BY <1>0, <1>2, <1>4
  <2>2. CASE k \in 1..Len(lines)
    <3>1. k \in 1..Len(more)
      BY <1>0, <1>1, <2>2
    <3> QED
      BY <1>1, <1>2, <1>3, <1>4, <2>2, <3>1
  <2>3. CASE k = Len(lines) + 1
    <3>1. k \in 1..Len(more)
      BY <1>0, <1>1, <2>3
    <3> QED
      BY <1>1, <1>2, <1>3, <1>4, <2>3, <3>1
  <2> QED
    BY <2>1, <2>2, <2>3
<1>6. Len(Made(more)) = Len(made)
  BY <1>1, <1>2, <1>3, <1>4
<1>7. Made(more) = made
  BY <1>3, <1>4, <1>5, <1>6, SeqEqual
<1> QED
  BY <1>7 DEF more, made

\* While numbers arrive whole, nothing that Doit has made of them is 0.
LEMMA IntactFacts ==
    ASSUME StreamIInv, WholeSoFar
    PROVE  Len(Made(output)) = Len(output) /\ \A k \in 1..Len(output) : Made(output)[k] # 0
<1>1. /\ output \in Seq(Lines) /\ written \in 0..Numbers /\ Numbers \in Nat /\ Len(output) \in Nat
  BY StreamAssumption, LenProperties DEF StreamIInv, Lines
<1>2. Len(Made(output)) = Len(output) /\ \A k \in 1..Len(output) : Made(output)[k] = Meant(output[k])
  BY <1>1, MadeFacts
<1>3. Len(output) <= written
  BY BalanceFacts
<1>4. ASSUME NEW k \in 1..Len(output) PROVE Made(output)[k] # 0
  <2>1. k \in 1..Numbers
    BY <1>1, <1>3
  <2>2. output[k] = Line(k)
    BY DEF WholeSoFar
  <2>3. Made(output)[k] = k
    BY <1>2, <2>1, <2>2, MeantFacts
  <2> QED
    BY <2>1, <2>3
<1> QED
  BY <1>2, <1>4

\* Each call of read or write that completes a number, and each that ends the stream, is
\* a step of the channel; the others are not seen there.
LEMMA ChannelStep == StreamIInv /\ [Next]_vars => [Channel!Next]_(Channel!vars)
<1> SUFFICES ASSUME StreamIInv, [Next]_vars PROVE [Channel!Next]_(Channel!vars)
  OBVIOUS
<1> DEFINE received == [k \in 1..Len(output) |-> Meant(output[k])]
<1>0. /\ output \in Seq(Lines) /\ written \in Nat /\ Numbers \in Nat /\ Len(output) \in Nat
      /\ rleft \in 1..Size /\ Size \in Nat
  BY StreamAssumption, LenProperties DEF StreamIInv, Lines
<1>1. received = Made(output) /\ Len(received) = Len(output)
  BY <1>0, MadeFacts DEF Made
<1>2. output' = output => received' = received
  OBVIOUS
<1>3. received' = [k \in 1..Len(output') |-> Meant(output'[k])]
  OBVIOUS
<1>4. \A l \in Lines : output' = Append(output, l) => received' = Append(received, Meant(l))
  BY <1>0, <1>1, <1>3, MadeAppend DEF Made
<1> HIDE DEF received
<1>5. CASE UNCHANGED streamVars
  BY <1>2, <1>5 DEF streamVars, Channel!vars, received
<1>6. CASE StartStream
  <2>1. Channel!Open
    BY <1>2, <1>6 DEF StartStream, Channel!Open, received
  <2> QED
    BY <2>1 DEF Channel!Next
<1>7. ASSUME NEW n \in 1..wleft, WriteSome(n) PROVE [Channel!Next]_(Channel!vars)
  <2>1. /\ client = "write" /\ doit = "read" /\ written < Numbers
        /\ UNCHANGED <<client, doit>> /\ received' = received
    BY <1>2, <1>7 DEF WriteSome
  <2>2. written' = written + 1 \/ written' = written
    BY <1>7 DEF WriteSome
  <2>3. CASE written' = written + 1
    BY <2>1, <2>3 DEF Channel!Next, Channel!Send, received
  <2>4. CASE written' = written
    BY <2>1, <2>4 DEF Channel!vars, received
  <2> QED
    BY <2>2, <2>3, <2>4
<1>8. CASE WriteFails \/ ClientExits \/ CloseStream
  <2>1. Channel!Close
    BY <1>2, <1>8 DEF WriteFails, ClientExits, CloseStream, Channel!Close, received
  <2> QED
    BY <2>1 DEF Channel!Next
<1>9. CASE ReadFails
  <2>1. Channel!ReceiverKilled
    BY <1>2, <1>9 DEF ReadFails, Channel!ReceiverKilled, received
  <2> QED
    BY <2>1 DEF Channel!Next
<1>10. ASSUME NEW n \in 1..rleft, ReadSome(n) PROVE [Channel!Next]_(Channel!vars)
  <2>1. doit = "read" /\ UNCHANGED <<client, written, doit>>
    BY <1>10 DEF ReadSome
  <2>2. CASE n = rleft
    <3>1. /\ WholeSoFar /\ Len(output) < written
          /\ output' = Append(output, Line(Len(output) + 1))
      BY <1>10, <2>2, WholeNumber
    <3>2. Len(output) + 1 \in 1..Numbers
      <4>1. written <= Numbers
        BY <1>0 DEF StreamIInv
      <4> QED
        BY <1>0, <3>1, <4>1
    <3>3. Line(Len(output) + 1) \in Lines
      BY <1>0 DEF Line, Lines, Whole
    <3>4. received' = Append(received, Len(received) + 1)
      BY <1>1, <1>4, <3>1, <3>2, <3>3, MeantFacts
    <3>5. Channel!Intact
      <4>1. \A k \in 1..Len(received) : received[k] # 0
        BY <1>1, <3>1, IntactFacts
      <4>2. Len(received) <= written
        BY <1>0, <1>1, <3>1
      <4> QED
        BY <4>1, <4>2 DEF Channel!Intact, received
    <3>6. Channel!Receive
      BY <1>1, <2>1, <3>1, <3>4, <3>5 DEF Channel!Receive, received
    <3> QED
      BY <3>6 DEF Channel!Next
  <2>3. CASE n # rleft
    <3>1. received' = received
      BY <1>2, <1>10, <2>3 DEF ReadSome
    <3> QED
      BY <2>1, <3>1 DEF Channel!vars, received
  <2> QED
    BY <2>2, <2>3
<1>11. CASE ReadEnd
  <2> DEFINE l == [ret |-> Size - rleft, num |-> buff]
  <2>1. /\ doit = "read" /\ client \in {"closed", "killed"} /\ output' = Append(output, l)
        /\ doit' = IF rleft = Size THEN "ended" ELSE "read"
        /\ UNCHANGED <<client, written>>
    BY <1>11 DEF ReadEnd, Printf
  <2>2. l \in Lines /\ l.ret # Size
    <3>1. Size - rleft \in 0..Size /\ Size - rleft # Size
      BY <1>0
    <3>2. buff \in [1..Size -> Nat \X Nat]
      BY DEF StreamIInv
    <3> QED
      BY <3>1, <3>2 DEF Lines
  <2> HIDE DEF l
  <2>3. received' = Append(received, 0)
    BY <1>4, <2>1, <2>2, MeantFacts
  <2>4. CASE rleft = Size
    <3>1. Len(received) >= written
      BY <1>0, <1>1, <1>11, EndBalance DEF CutOff
    <3>2. Channel!End
      BY <2>1, <2>3, <2>4, <3>1 DEF Channel!End, received
    <3> QED
      BY <3>2 DEF Channel!Next
  <2>5. CASE rleft # Size
    <3>1. WholeSoFar /\ Len(output) = written /\ client = "killed"
      BY <1>11, <2>5, EndBalance DEF CutOff
    <3>2. Channel!Intact
      <4>1. \A k \in 1..Len(received) : received[k] # 0
        BY <1>1, <3>1, IntactFacts
      <4>2. Len(received) <= written
        BY <1>0, <1>1, <3>1
      <4> QED
        BY <4>1, <4>2 DEF Channel!Intact, received
    <3>3. Channel!Cut
      BY <1>1, <2>1, <2>3, <2>5, <3>1, <3>2 DEF Channel!Cut, received
    <3> QED
      BY <3>3 DEF Channel!Next
  <2> QED
    BY <2>4, <2>5
<1> QED
  BY <1>5, <1>6, <1>7, <1>8, <1>9, <1>10, <1>11
  DEF Next, vars, ParseArgs, Call, RunSignal, RunThreads, RunInotify, RunStream,
      StreamNext, StreamStep, StreamFaults

\* However read and write split the bytes of numbers of whatever size, in a socket of
\* whatever capacity, and whichever side dies, Doit gets the numbers that were sent,
\* whole, once and in order, and at most one that was cut off, after which only the end
\* comes.
THEOREM NumbersKeptWhole == Spec => KeepsNumbersWhole
<1>1. Init => Channel!Init
  <2> SUFFICES ASSUME Init PROVE Channel!Init
    OBVIOUS
  <2>1. output = <<>> /\ Len(output) = 0
    BY EmptySeq DEF Init, StreamInit
  <2>2. [k \in 1..Len(output) |-> Meant(output[k])] = <<>>
    BY <2>1
  <2> QED
    BY <2>2 DEF Init, StreamInit, Channel!Init
<1> QED
  BY <1>1, StreamFirst, StreamNextStep, ChannelStep, PTL DEF Spec, KeepsNumbersWhole, Channel!Spec

=============================================================================
