------------------------------ MODULE CondVar ------------------------------
(***************************************************************************)
(* std::condition_variable as the lock and the pools use it.  The state of  *)
(* one is the set of the threads blocked in its wait(); a thread that is no *)
(* longer in the set has been woken and still has to take the mutex again.  *)
(***************************************************************************)

\* The sets of waiters notify_one may leave: one fewer, if there is any.
NotifyOne(waiters) ==
    IF waiters = {} THEN {{}} ELSE {waiters \ {t} : t \in waiters}
=============================================================================
