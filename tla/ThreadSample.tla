---------------------------- MODULE ThreadSample ----------------------------
(***************************************************************************)
(* The threads and processes sample, ForkProAndCreateT of                    *)
(* codesnip/src/lwp/lwp.cpp: a father that waits for a child, which makes     *)
(* two threads that count without a lock, joins them, prints the count,      *)
(* and has a child of its own execute ls.                                    *)
(*                                                                         *)
(* add_var++ is a load and a store.  (A build that adds up in a register      *)
(* and stores once has fewer outcomes.)  A join on a pthread_t which was     *)
(* never set returns at once or crashes the process.                         *)
(***************************************************************************)
EXTENDS Integers, FiniteSets

CONSTANTS
    Loops,          \* increments of each thread, 1000 in the code
    MaxFailures     \* calls that fail, a bound of the model

ASSUME LoopsAssumption == Loops \in Nat \ {0} /\ MaxFailures \in Nat

Workers == {1, 2}

VARIABLES
    father,      \* "off", "wait", "done"
    child,       \* "none", "create", "join", "print", "fork", "wait", "zombie", "gone"
    grandchild,  \* "none", "exec", "ls", "zombie", "gone"
    turn,        \* the thread to be created or joined next
    worker,      \* each thread: "none", "failed", "load", "store", "ended"
    left,        \* increments it has still to do
    loaded,      \* the value it has read
    add_var,
    printed,     \* the final value the child prints, -1 before
    threadFailures

threadVars == <<father, child, grandchild, turn, worker, left, loaded, add_var, printed, threadFailures>>
counting == <<worker, left, loaded, add_var>>

ThreadInit ==
    /\ father = "off" /\ child = "none" /\ grandchild = "none" /\ turn = 1
    /\ worker = [t \in Workers |-> "none"]
    /\ left = [t \in Workers |-> Loops]
    /\ loaded = [t \in Workers |-> 0]
    /\ add_var = 0 /\ printed = -1 /\ threadFailures = 0

Fails == threadFailures < MaxFailures /\ threadFailures' = threadFailures + 1

\* Nobody waits for anything if the first fork fails.
ForkProAndCreateT ==
    /\ father = "off"
    /\ \/ father' = "wait" /\ child' = "create" /\ UNCHANGED threadFailures
       \/ father' = "done" /\ UNCHANGED child /\ Fails
    /\ UNCHANGED <<grandchild, turn, printed>> /\ UNCHANGED counting

\* Mutant: the father does not block, as a comment in the code proposes.
FatherNoHang ==
    /\ father = "wait"
    /\ father' = "done"
    /\ child' = IF child = "zombie" THEN "gone" ELSE child
    /\ UNCHANGED <<grandchild, turn, printed, threadFailures>> /\ UNCHANGED counting

FatherWaits ==
    /\ father = "wait" /\ child = "zombie"
    /\ father' = "done" /\ child' = "gone"
    /\ UNCHANGED <<grandchild, turn, printed, threadFailures>> /\ UNCHANGED counting

\* On to the next thread, or to what comes behind both.
NextTurn(next) ==
    \/ turn = 1 /\ turn' = 2 /\ UNCHANGED child
    \/ turn = 2 /\ turn' = 1 /\ child' = next

CreateThread ==
    /\ child = "create"
    /\ \/ worker' = [worker EXCEPT ![turn] = "load"] /\ UNCHANGED threadFailures
       \/ worker' = [worker EXCEPT ![turn] = "failed"] /\ Fails
    /\ NextTurn("join")
    /\ UNCHANGED <<father, grandchild, left, loaded, add_var, printed>>

\* Mutant: only the first thread is joined.
JoinThreadFirst ==
    /\ child = "join"
    /\ worker[1] \in {"ended", "failed"}
    /\ NextTurn("print")
    /\ UNCHANGED <<father, grandchild, printed, threadFailures>> /\ UNCHANGED counting

JoinThread ==
    /\ child = "join"
    /\ worker[turn] \in {"ended", "failed"}
    /\ NextTurn("print")
    /\ UNCHANGED <<father, grandchild, printed, threadFailures>> /\ UNCHANGED counting

\* The crash ends the other thread as well.
JoinCrashes ==
    /\ child = "join" /\ worker[turn] = "failed"
    /\ child' = "zombie"
    /\ worker' = [t \in Workers |-> "ended"]
    /\ UNCHANGED <<father, grandchild, turn, left, loaded, add_var, printed, threadFailures>>

PrintCount ==
    /\ child = "print"
    /\ printed' = add_var
    /\ child' = "fork"
    /\ UNCHANGED <<father, grandchild, turn, threadFailures>> /\ UNCHANGED counting

ForkAgain ==
    /\ child = "fork"
    /\ child' = "wait"
    /\ \/ grandchild' = "exec" /\ UNCHANGED threadFailures
       \/ UNCHANGED grandchild /\ Fails
    /\ UNCHANGED <<father, turn, printed>> /\ UNCHANGED counting

\* waitpid(pid, ...) where pid is 0: any child of the process group; none, if the
\* fork failed.
ChildWaits ==
    /\ child = "wait" /\ grandchild \in {"none", "zombie"}
    /\ grandchild' = IF grandchild = "zombie" THEN "gone" ELSE grandchild
    /\ child' = "zombie"
    /\ UNCHANGED <<father, turn, printed, threadFailures>> /\ UNCHANGED counting

\* If execve fails the grandchild just returns to main.
Execve ==
    /\ grandchild = "exec"
    /\ \/ grandchild' = "ls" /\ UNCHANGED threadFailures
       \/ grandchild' = "zombie" /\ Fails
    /\ UNCHANGED <<father, child, turn, printed>> /\ UNCHANGED counting

LsEnds ==
    /\ grandchild = "ls"
    /\ grandchild' = "zombie"
    /\ UNCHANGED <<father, child, turn, printed, threadFailures>> /\ UNCHANGED counting

LoadCount(t) ==
    /\ worker[t] = "load" /\ left[t] > 0
    /\ loaded' = [loaded EXCEPT ![t] = add_var]
    /\ worker' = [worker EXCEPT ![t] = "store"]
    /\ UNCHANGED <<father, child, grandchild, turn, left, add_var, printed, threadFailures>>

StoreCount(t) ==
    /\ worker[t] = "store"
    /\ add_var' = loaded[t] + 1
    /\ left' = [left EXCEPT ![t] = @ - 1]
    /\ loaded' = [loaded EXCEPT ![t] = 0]
    /\ worker' = [worker EXCEPT ![t] = IF left[t] = 1 THEN "ended" ELSE "load"]
    /\ UNCHANGED <<father, child, grandchild, turn, printed, threadFailures>>

ThreadNext ==
    \/ FatherWaits \/ CreateThread \/ JoinThread \/ JoinCrashes \/ PrintCount
    \/ ForkAgain \/ ChildWaits \/ Execve \/ LsEnds
    \/ \E t \in Workers : LoadCount(t) \/ StoreCount(t)

ThreadTypeOK ==
    /\ father \in {"off", "wait", "done"}
    /\ child \in {"none", "create", "join", "print", "fork", "wait", "zombie", "gone"}
    /\ grandchild \in {"none", "exec", "ls", "zombie", "gone"}
    /\ turn \in Workers
    /\ worker \in [Workers -> {"none", "failed", "load", "store", "ended"}]
    /\ left \in [Workers -> 0..Loops] /\ loaded \in [Workers -> 0..(2 * Loops)]
    /\ add_var \in 0..(2 * Loops) /\ printed \in -1..(2 * Loops)
    /\ threadFailures \in 0..MaxFailures

\* What the child prints when it has joined its threads.  Increments are lost, but not
\* all of them: with two threads the count is at least 2, and with one it is exact.
PrintedCount ==
    LET made == {t \in Workers : worker[t] = "ended"} IN
    printed # -1 =>
        CASE made = {} -> printed = 0
          [] Cardinality(made) = 1 -> printed = Loops
          [] made = Workers -> printed <= 2 * Loops /\ (Loops > 1 => printed >= 2)
=============================================================================
