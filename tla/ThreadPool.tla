----------------------------- MODULE ThreadPool -----------------------------
(***************************************************************************)
(* The pool on the HEAD side of the unresolved merge in                    *)
(* codesnip/include/common/threadpool.h: SafeQueue, ThreadPool::Init,      *)
(* Shutdown and Submit, and ThreadWorker::operator().  This is the pool     *)
(* that net.cpp's servers use.                                             *)
(*                                                                         *)
(* Two mutexes: SafeQueue's m_mutex makes each queue operation one step;    *)
(* m_conditional_mutex is held by a worker from its test of the queue to    *)
(* its wait, and again from waking to its dequeue.  Submit and Shutdown     *)
(* never take it, so they run between any two steps of a worker.           *)
(***************************************************************************)
EXTENDS Naturals, Sequences, FiniteSets, CondVar

CONSTANTS
    NumWorkers,  \* n_threads
    Submitters,  \* threads that call Submit
    Tasks,       \* the calls they make; each is submitted at most once
    NoTask       \* the worker's func is empty

ASSUME NumWorkersAssumption == NumWorkers \in Nat \ {0}
ASSUME NoTaskAssumption == NoTask \notin Tasks

Workers == 1..NumWorkers

VARIABLES
    m_shutdown,
    m_queue,            \* SafeQueue
    m_conditional_lock, \* workers blocked in wait
    wpc,                \* where each worker is
    func,               \* the function object of each worker: it outlives the call
    notifying,          \* submitters between enqueue and notify_one
    opc,                \* where the thread that owns the pool is
    finished            \* tasks whose future is ready

vars == <<m_shutdown, m_queue, m_conditional_lock, wpc, func, notifying, opc, finished>>

WorkerPlaces ==
    {"unborn",   \* its std::thread does not exist yet
     "loop",     \* about to read m_shutdown
     "lock",     \* about to take m_conditional_mutex and test the queue
     "empty",    \* saw an empty queue, holds the mutex, about to wait
     "wait",     \* in wait: asleep, or woken and not back with the mutex
     "dequeue",  \* holds the mutex, about to dequeue
     "run",      \* in func()
     "done"}     \* left operator()

OwnerPlaces == {"init", "up", "notify", "join", "down"}

Queued == {m_queue[i] : i \in 1..Len(m_queue)}

Submitted == Queued \cup {func[w] : w \in Workers} \cup finished

\* m_conditional_mutex is free.
MutexFree == \A w \in Workers : wpc[w] \notin {"empty", "dequeue"}

Init ==
    /\ m_shutdown = FALSE
    /\ m_queue = <<>>
    /\ m_conditional_lock = {}
    /\ wpc = [w \in Workers |-> "unborn"]
    /\ func = [w \in Workers |-> NoTask]
    /\ notifying = {}
    /\ opc = "init"
    /\ finished = {}

Goto(w, place) == wpc' = [wpc EXCEPT ![w] = place]

-----------------------------------------------------------------------------
(* ThreadWorker::operator()                                                *)

\* while (!m_shutdown): a plain bool, read without a lock.
Loop(w) ==
    /\ wpc[w] = "loop"
    /\ Goto(w, IF m_shutdown THEN "done" ELSE "lock")
    /\ UNCHANGED <<m_shutdown, m_queue, m_conditional_lock, func, notifying, opc, finished>>

\* Take the mutex and ask the queue whether it is empty.
TestEmpty(w) ==
    /\ wpc[w] = "lock"
    /\ MutexFree
    /\ Goto(w, IF m_queue = <<>> THEN "empty" ELSE "dequeue")
    /\ UNCHANGED <<m_shutdown, m_queue, m_conditional_lock, func, notifying, opc, finished>>

\* wait: joins the waiters and frees the mutex in one step.
Wait(w) ==
    /\ wpc[w] = "empty"
    /\ m_conditional_lock' = m_conditional_lock \cup {w}
    /\ Goto(w, "wait")
    /\ UNCHANGED <<m_shutdown, m_queue, func, notifying, opc, finished>>

\* Woken: the mutex again, and straight on to dequeue, with no second test.
Wake(w) ==
    /\ wpc[w] = "wait"
    /\ w \notin m_conditional_lock
    /\ MutexFree
    /\ Goto(w, "dequeue")
    /\ UNCHANGED <<m_shutdown, m_queue, m_conditional_lock, func, notifying, opc, finished>>

\* Mutant: dequeue leaves the task in the queue.
DequeueNoPop(w) ==
    /\ wpc[w] = "dequeue"
    /\ m_queue # <<>>
    /\ func' = [func EXCEPT ![w] = Head(m_queue)]
    /\ Goto(w, "run")
    /\ UNCHANGED <<m_shutdown, m_queue, m_conditional_lock, notifying, opc, finished>>

\* dequeue, which says whether func was assigned; then the mutex is released.
Dequeue(w) ==
    /\ wpc[w] = "dequeue"
    /\ \/ /\ m_queue = <<>>
          /\ Goto(w, "loop")
          /\ UNCHANGED <<m_queue, func>>
       \/ /\ m_queue # <<>>
          /\ func' = [func EXCEPT ![w] = Head(m_queue)]
          /\ m_queue' = Tail(m_queue)
          /\ Goto(w, "run")
    /\ UNCHANGED <<m_shutdown, m_conditional_lock, notifying, opc, finished>>

\* func() returns: the packaged task has made its future ready.
Run(w) ==
    /\ wpc[w] = "run"
    /\ finished' = finished \cup {func[w]}
    /\ Goto(w, "loop")
    /\ UNCHANGED <<m_shutdown, m_queue, m_conditional_lock, func, notifying, opc>>

SpuriousWakeup(w) ==
    /\ w \in m_conditional_lock
    /\ m_conditional_lock' = m_conditional_lock \ {w}
    /\ UNCHANGED <<m_shutdown, m_queue, wpc, func, notifying, opc, finished>>

-----------------------------------------------------------------------------
(* Submit, from any thread and at any time: it looks at neither m_shutdown  *)
(* nor the workers.                                                        *)

Enqueue(s, t) ==
    /\ s \notin notifying
    /\ t \notin Submitted
    /\ m_queue' = Append(m_queue, t)
    /\ notifying' = notifying \cup {s}
    /\ UNCHANGED <<m_shutdown, m_conditional_lock, wpc, func, opc, finished>>

\* Mutant: Submit does not notify.
NotifyNobody(s) ==
    /\ s \in notifying
    /\ notifying' = notifying \ {s}
    /\ UNCHANGED <<m_shutdown, m_queue, m_conditional_lock, wpc, func, opc, finished>>

Notify(s) ==
    /\ s \in notifying
    /\ m_conditional_lock' \in NotifyOne(m_conditional_lock)
    /\ notifying' = notifying \ {s}
    /\ UNCHANGED <<m_shutdown, m_queue, wpc, func, opc, finished>>

-----------------------------------------------------------------------------
(* The owner: Init, then Shutdown.                                         *)

\* Init creates the threads in the order of m_threads.
StartThread(w) ==
    /\ opc = "init"
    /\ wpc[w] = "unborn"
    /\ \A v \in 1..(w - 1) : wpc[v] # "unborn"
    /\ Goto(w, "loop")
    /\ opc' = IF w = NumWorkers THEN "up" ELSE "init"
    /\ UNCHANGED <<m_shutdown, m_queue, m_conditional_lock, func, notifying, finished>>

ShutdownFlag ==
    /\ opc = "up"
    /\ m_shutdown' = TRUE
    /\ opc' = "notify"
    /\ UNCHANGED <<m_queue, m_conditional_lock, wpc, func, notifying, finished>>

\* Mutant: Shutdown wakes one worker only.
ShutdownNotifyOne ==
    /\ opc = "notify"
    /\ m_conditional_lock' \in NotifyOne(m_conditional_lock)
    /\ opc' = "join"
    /\ UNCHANGED <<m_shutdown, m_queue, wpc, func, notifying, finished>>

ShutdownNotify ==
    /\ opc = "notify"
    /\ m_conditional_lock' = {}
    /\ opc' = "join"
    /\ UNCHANGED <<m_shutdown, m_queue, wpc, func, notifying, finished>>

\* All the joins: they return once every worker has.
Join ==
    /\ opc = "join"
    /\ \A w \in Workers : wpc[w] = "done"
    /\ opc' = "down"
    /\ UNCHANGED <<m_shutdown, m_queue, m_conditional_lock, wpc, func, notifying, finished>>

-----------------------------------------------------------------------------

Step(w) == Loop(w) \/ TestEmpty(w) \/ Wait(w) \/ Wake(w) \/ Dequeue(w)

Submit(s) == (\E t \in Tasks : Enqueue(s, t)) \/ Notify(s)

Shutdown == ShutdownFlag \/ ShutdownNotify \/ Join

Next ==
    \/ \E w \in Workers : Step(w) \/ Run(w) \/ SpuriousWakeup(w) \/ StartThread(w)
    \/ \E s \in Submitters : Submit(s)
    \/ Shutdown

Spec == Init /\ [][Next]_vars

\* Every thread that can go on does, and a caller of Submit or Shutdown
\* finishes the call; nobody is obliged to call either.
Progress ==
    /\ \A w \in Workers : WF_vars(Step(w)) /\ WF_vars(StartThread(w))
    /\ \A s \in Submitters : WF_vars(Notify(s))
    /\ WF_vars(ShutdownNotify) /\ WF_vars(Join)

\* The tasks return.
TasksReturn == \A w \in Workers : WF_vars(Run(w))

FairSpec == Spec /\ Progress /\ TasksReturn

\* The tasks may run for ever, like Doit on a connection that stays open.
FairSpecLongTasks == Spec /\ Progress

-----------------------------------------------------------------------------
(* Properties                                                              *)

\* Types; a sleeper is in wait, and a running worker has a function to run.
TypeOK ==
    /\ m_shutdown \in BOOLEAN
    /\ m_queue \in Seq(Tasks)
    /\ m_conditional_lock \subseteq {w \in Workers : wpc[w] = "wait"}
    /\ wpc \in [Workers -> WorkerPlaces]
    /\ func \in [Workers -> Tasks \cup {NoTask}]
    /\ \A w \in Workers : wpc[w] = "run" => func[w] # NoTask
    /\ notifying \subseteq Submitters
    /\ opc \in OwnerPlaces
    /\ finished \subseteq Tasks

\* The worker is on its way to a test of the queue or to a dequeue.
WillLook(w) ==
    \/ wpc[w] \in {"unborn", "loop", "lock", "dequeue", "run"}
    \/ wpc[w] = "wait" /\ w \notin m_conditional_lock

\* With two workers or more a task is never left to workers that all sleep or
\* are about to: a notification that finds nobody asleep can be lost on only
\* one worker, the one that holds m_conditional_mutex, and every other worker
\* is still on its way to the queue.
SomebodyWillLook ==
    m_queue # <<>> /\ notifying = {} /\ ~m_shutdown =>
        \E w \in Workers : WillLook(w)

\* A submitted task runs to its end, unless the pool is shut down first.
EveryTaskRuns ==
    \A t \in Tasks : t \in Queued ~> (t \in finished \/ m_shutdown)

\* A submitted task is started even if the tasks before it never return, while
\* there are no more tasks than workers.
EveryTaskStarts ==
    \A t \in Tasks : t \in Queued ~> (t \notin Queued \/ m_shutdown)

\* Shutdown returns.
ShutdownReturns == opc = "notify" ~> opc = "down"

\* No worker is between its test of m_shutdown and its wait.
Settled == \A w \in Workers : wpc[w] \notin {"lock", "empty"}

\* Shutdown returns if, when it is about to notify, no worker is between its
\* test of m_shutdown and its wait: sleepers are woken, and the others read
\* the flag next.
SettledShutdownReturns == (opc = "notify" /\ Settled) ~> opc = "down"

-----------------------------------------------------------------------------

Abstract == INSTANCE TaskPool WITH
    queue   <- m_queue,
    running <- [w \in Workers |-> IF wpc[w] = "run" THEN func[w] ELSE NoTask]

\* Tasks are taken in submission order, once each, by one worker at a time.
Implements == Abstract!Spec
=============================================================================
