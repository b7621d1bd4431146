----------------------------- MODULE ServerPool -----------------------------
(***************************************************************************)
(* The thread pool as ThreadPools and EPollServer of net.cpp use it: tasks  *)
(* are descriptors, taken in the order of their submission by any free      *)
(* worker.  This is what module TaskPool promises and module ThreadPool     *)
(* implements; that no task is left lying, which fairness of Take assumes,  *)
(* is EveryTaskRuns of ThreadPool (two workers or more, tasks that end).     *)
(***************************************************************************)
EXTENDS Sockets

CONSTANT Workers

VARIABLES
    tasks,   \* descriptors submitted and not yet taken
    busy     \* the descriptor each worker is at, or None

poolVars == <<tasks, busy>>

PoolInit ==
    /\ tasks = <<>>
    /\ busy = [w \in Workers |-> None]

Submit(fd) == tasks' = Append(tasks, fd)

Take(w) ==
    /\ busy[w] = None /\ tasks # <<>>
    /\ busy' = [busy EXCEPT ![w] = Head(tasks)]
    /\ tasks' = Tail(tasks)

TaskReturns(w) == busy' = [busy EXCEPT ![w] = None]

PoolTypeOK ==
    /\ tasks \in Seq(Fds)
    /\ busy \in [Workers -> Fds \cup {None}]
=============================================================================
