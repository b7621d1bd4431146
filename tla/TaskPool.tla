------------------------------ MODULE TaskPool ------------------------------
(***************************************************************************)
(* What a pool of threads promises its clients, whichever way it is built:  *)
(* tasks are taken in the order they were submitted, each by one worker and *)
(* once, and a worker has one task at a time.                               *)
(***************************************************************************)
EXTENDS Sequences, Naturals

CONSTANTS Workers, Tasks, NoTask

VARIABLES
    queue,      \* submitted and not yet taken, oldest first
    running,    \* the task each worker is running
    finished    \* the tasks that have run to their end

vars == <<queue, running, finished>>

Init ==
    /\ queue = <<>>
    /\ running = [w \in Workers |-> NoTask]
    /\ finished = {}

\* Submitted at some time: each task stands for one call, so it is new once.
Known == {queue[i] : i \in 1..Len(queue)} \cup {running[w] : w \in Workers} \cup finished

Submit(t) ==
    /\ t \notin Known
    /\ queue' = Append(queue, t)
    /\ UNCHANGED <<running, finished>>

Take(w) ==
    /\ running[w] = NoTask
    /\ queue # <<>>
    /\ running' = [running EXCEPT ![w] = Head(queue)]
    /\ queue' = Tail(queue)
    /\ UNCHANGED finished

Finish(w) ==
    /\ running[w] # NoTask
    /\ finished' = finished \cup {running[w]}
    /\ running' = [running EXCEPT ![w] = NoTask]
    /\ UNCHANGED queue

Next ==
    \/ \E t \in Tasks : Submit(t)
    \/ \E w \in Workers : Take(w) \/ Finish(w)

Spec == Init /\ [][Next]_vars
=============================================================================
