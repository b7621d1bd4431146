------------------------- MODULE ThreadPoolIncoming -------------------------
(***************************************************************************)
(* The pool on the other side (e03b497) of the unresolved merge in          *)
(* codesnip/include/common/threadpool.h: the constructor's worker lambda    *)
(* and enqueue.  The task is pushed under the mutex the workers wait with,  *)
(* and the wait has a predicate.                                           *)
(*                                                                         *)
(* Nothing on this side ever sets stop (the class has no destructor and no  *)
(* shutdown), so the branches that test it (the worker's return, the throw  *)
(* of enqueue) are never taken and stop is not a variable here.            *)
(***************************************************************************)
EXTENDS Naturals, Sequences, FiniteSets, CondVar

CONSTANTS
    Workers,     \* the threads the constructor launches
    Submitters,  \* threads that call enqueue
    Tasks,       \* the calls they make; each is submitted at most once
    NoTask       \* the worker's task is empty

ASSUME WorkersFinite == IsFiniteSet(Workers)
ASSUME SubmittersFinite == IsFiniteSet(Submitters)
ASSUME NoTaskIsNoTask == NoTask \notin Tasks

VARIABLES
    tasks,      \* std::queue
    condition,  \* workers blocked in condition.wait
    wpc,        \* where each worker is
    task,       \* the task a worker has moved out of the queue
    notifying,  \* callers of enqueue past the unlock, about to notify
    finished    \* tasks whose future is ready

vars == <<tasks, condition, wpc, task, notifying, finished>>

\* "unborn": not launched; "fetch": about to take queue_mutex;
\* "wait": in condition.wait, asleep or woken; "run": in task().
Places == {"unborn", "fetch", "wait", "run"}

Queued == {tasks[i] : i \in 1..Len(tasks)}

Submitted == Queued \cup {task[w] : w \in Workers} \cup finished

Init ==
    /\ tasks = <<>>
    /\ condition = {}
    /\ wpc = [w \in Workers |-> "unborn"]
    /\ task = [w \in Workers |-> NoTask]
    /\ notifying = {}
    /\ finished = {}

Goto(w, place) == wpc' = [wpc EXCEPT ![w] = place]

\* The constructor launches the workers; one may run before the next exists.
Launch(w) ==
    /\ wpc[w] = "unborn"
    /\ Goto(w, "fetch")
    /\ UNCHANGED <<tasks, condition, task, notifying, finished>>

\* The worker has queue_mutex or may take it: it is not asleep and not running.
Awake(w) == wpc[w] = "fetch" \/ (wpc[w] = "wait" /\ w \notin condition)

\* Mutant: wait without the predicate, entered whatever the queue holds.
FetchBlind(w) ==
    /\ Awake(w)
    /\ \/ /\ wpc[w] = "fetch" \/ tasks = <<>>
          /\ condition' = condition \cup {w}
          /\ Goto(w, "wait")
          /\ UNCHANGED <<tasks, task>>
       \/ /\ wpc[w] = "wait" /\ tasks # <<>>
          /\ task' = [task EXCEPT ![w] = Head(tasks)]
          /\ tasks' = Tail(tasks)
          /\ Goto(w, "run")
          /\ UNCHANGED condition
    /\ UNCHANGED <<notifying, finished>>

\* The block under queue_mutex, up to the next sleep or to the unlock.
Fetch(w) ==
    /\ Awake(w)
    /\ \/ /\ tasks = <<>>
          /\ condition' = condition \cup {w}
          /\ Goto(w, "wait")
          /\ UNCHANGED <<tasks, task>>
       \/ /\ tasks # <<>>
          /\ task' = [task EXCEPT ![w] = Head(tasks)]
          /\ tasks' = Tail(tasks)
          /\ Goto(w, "run")
          /\ UNCHANGED condition
    /\ UNCHANGED <<notifying, finished>>

\* task() returns and its future is ready.
Run(w) ==
    /\ wpc[w] = "run"
    /\ finished' = finished \cup {task[w]}
    /\ task' = [task EXCEPT ![w] = NoTask]
    /\ Goto(w, "fetch")
    /\ UNCHANGED <<tasks, condition, notifying>>

SpuriousWakeup(w) ==
    /\ w \in condition
    /\ condition' = condition \ {w}
    /\ UNCHANGED <<tasks, wpc, task, notifying, finished>>

\* Mutant: enqueue pushes at the wrong end of the queue.
EnqueueFront(s, t) ==
    /\ s \notin notifying
    /\ \A w \in Workers : wpc[w] # "unborn"
    /\ t \notin Submitted
    /\ tasks' = <<t>> \o tasks
    /\ notifying' = notifying \cup {s}
    /\ UNCHANGED <<condition, wpc, task, finished>>

\* enqueue, on a constructed pool: the push under queue_mutex ...
Enqueue(s, t) ==
    /\ s \notin notifying
    /\ \A w \in Workers : wpc[w] # "unborn"
    /\ t \notin Submitted
    /\ tasks' = Append(tasks, t)
    /\ notifying' = notifying \cup {s}
    /\ UNCHANGED <<condition, wpc, task, finished>>

\* Mutant: no notification.
NotifyNobody(s) ==
    /\ s \in notifying
    /\ notifying' = notifying \ {s}
    /\ UNCHANGED <<tasks, condition, wpc, task, finished>>

\* ... and the notification after the unlock.
Notify(s) ==
    /\ s \in notifying
    /\ condition' \in NotifyOne(condition)
    /\ notifying' = notifying \ {s}
    /\ UNCHANGED <<tasks, wpc, task, finished>>

Next ==
    \/ \E w \in Workers : Launch(w) \/ Fetch(w) \/ Run(w) \/ SpuriousWakeup(w)
    \/ \E s \in Submitters : (\E t \in Tasks : Enqueue(s, t)) \/ Notify(s)

Spec == Init /\ [][Next]_vars

\* Every thread that can go on does; the tasks themselves may run for ever.
FairSpec ==
    /\ Spec
    /\ \A w \in Workers : WF_vars(Launch(w)) /\ WF_vars(Fetch(w))
    /\ \A s \in Submitters : WF_vars(Notify(s))

-----------------------------------------------------------------------------
(* Properties                                                              *)

\* Types; a sleeper is in wait, and a worker has a task exactly while it runs.
TypeOK ==
    /\ tasks \in Seq(Tasks)
    /\ wpc \in [Workers -> Places]
    /\ condition \subseteq {w \in Workers : wpc[w] = "wait"}
    /\ task \in [Workers -> Tasks \cup {NoTask}]
    /\ \A w \in Workers : task[w] = NoTask <=> wpc[w] # "run"
    /\ notifying \subseteq Submitters
    /\ finished \subseteq Tasks

AwakeWorkers == {w \in Workers : Awake(w)}

\* No lost wakeup: while a worker sleeps, every queued task has an awake worker
\* or a notification on its way.
WakeupOwed ==
    condition # {} => Len(tasks) <= Cardinality(notifying) + Cardinality(AwakeWorkers)

\* A queued task is started, even if tasks never return, unless every worker is
\* held for ever by such a task.
EveryTaskStarts ==
    \A t \in Tasks :
        t \in Queued ~> (t \notin Queued \/ []\A w \in Workers : wpc[w] = "run")

Abstract == INSTANCE TaskPool WITH
    queue   <- tasks,
    running <- task

\* Tasks are taken in submission order, once each, by one worker at a time.
Implements == Abstract!Spec
=============================================================================
