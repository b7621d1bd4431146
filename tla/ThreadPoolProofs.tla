-------------------------- MODULE ThreadPoolProofs --------------------------
(***************************************************************************)
(* ThreadPool for any number of workers, submitters and tasks: types, who     *)
(* holds m_conditional_mutex, that two workers or more are never all asleep   *)
(* beside a queued task, and the refinement of TaskPool.                      *)
(*                                                                         *)
(* Submit notifies without the mutex, so a notification can be lost on a      *)
(* worker that has seen an empty queue and does not wait yet.  It is lost on  *)
(* one only, because such a worker holds the mutex (OneHolder), and no worker *)
(* has left before Shutdown (NoneLeft): these two make SomebodyWillLook       *)
(* inductive.                                                              *)
(***************************************************************************)
EXTENDS ThreadPool, SequenceTheorems, TLAPS

\* m_conditional_mutex has one holder.
OneHolder ==
    \A v, w \in Workers :
        wpc[v] \in {"empty", "dequeue"} /\ wpc[w] \in {"empty", "dequeue"} => v = w

\* No worker leaves its loop before Shutdown has set the flag.
NoneLeft == \A w \in Workers : wpc[w] = "done" => m_shutdown

IInv == TypeOK /\ OneHolder /\ NoneLeft

-----------------------------------------------------------------------------
(* The inductive invariant.                                                *)

LEMMA InitIInv == Init => IInv
<1> SUFFICES ASSUME Init PROVE IInv
  OBVIOUS
<1>1. TypeOK
  BY EmptySeq DEF Init, TypeOK, WorkerPlaces, OwnerPlaces
<1>2. OneHolder /\ NoneLeft
  BY DEF Init, OneHolder, NoneLeft
<1> QED
  BY <1>1, <1>2 DEF IInv

LEMMA StepIInv ==
    ASSUME IInv, NEW w \in Workers, Step(w)
    PROVE  IInv'
<1>1. CASE Loop(w)
  BY <1>1 DEF Loop, Goto, IInv, TypeOK, OneHolder, NoneLeft, WorkerPlaces
<1>2. CASE TestEmpty(w)
  BY <1>2 DEF TestEmpty, MutexFree, Goto, IInv, TypeOK, OneHolder, NoneLeft, WorkerPlaces
<1>3. CASE Wait(w)
  BY <1>3 DEF Wait, Goto, IInv, TypeOK, OneHolder, NoneLeft, WorkerPlaces
<1>4. CASE Wake(w)
  BY <1>4 DEF Wake, MutexFree, Goto, IInv, TypeOK, OneHolder, NoneLeft, WorkerPlaces
<1>5. CASE Dequeue(w)
  <2>1. CASE m_queue = <<>>
    BY <1>5, <2>1 DEF Dequeue, Goto, IInv, TypeOK, OneHolder, NoneLeft, WorkerPlaces
  <2>2. CASE m_queue # <<>>
    <3>1. Head(m_queue) \in Tasks /\ Tail(m_queue) \in Seq(Tasks)
      BY <2>2, HeadTailProperties DEF IInv, TypeOK
    <3> QED
      BY <1>5, <2>2, <3>1, NoTaskAssumption, ZenonT(30)
      DEF Dequeue, Goto, IInv, TypeOK, OneHolder, NoneLeft, WorkerPlaces
  <2> QED
    BY <2>1, <2>2
<1> QED
  BY <1>1, <1>2, <1>3, <1>4, <1>5 DEF Step

LEMMA OtherWorkerIInv ==
    ASSUME IInv, NEW w \in Workers, Run(w) \/ SpuriousWakeup(w) \/ StartThread(w)
    PROVE  IInv'
<1>1. CASE Run(w)
  BY <1>1, NoTaskAssumption DEF Run, Goto, IInv, TypeOK, OneHolder, NoneLeft, WorkerPlaces
<1>2. CASE SpuriousWakeup(w)
  BY <1>2 DEF SpuriousWakeup, IInv, TypeOK, OneHolder, NoneLeft
<1>3. CASE StartThread(w)
  BY <1>3 DEF StartThread, Goto, IInv, TypeOK, OneHolder, NoneLeft, WorkerPlaces, OwnerPlaces
<1> QED
  BY <1>1, <1>2, <1>3

\* notify_one leaves some of the waiters asleep.
LEMMA NotifyOneFacts ==
    ASSUME NEW waiters, NEW rest \in NotifyOne(waiters)
    PROVE  rest \subseteq waiters /\ (waiters # {} => \E w \in waiters : w \notin rest)
BY DEF NotifyOne

LEMMA SubmitIInv ==
    ASSUME IInv, NEW s \in Submitters, Submit(s)
    PROVE  IInv'
<1>1. ASSUME NEW t \in Tasks, Enqueue(s, t)
      PROVE  IInv'
  <2>1. Append(m_queue, t) \in Seq(Tasks)
    BY AppendProperties DEF IInv, TypeOK
  <2> QED
    BY <1>1, <2>1 DEF Enqueue, IInv, TypeOK, OneHolder, NoneLeft
<1>2. CASE Notify(s)
  BY <1>2, NotifyOneFacts DEF Notify, IInv, TypeOK, OneHolder, NoneLeft
<1> QED
  BY <1>1, <1>2 DEF Submit

LEMMA ShutdownIInv == ASSUME IInv, Shutdown PROVE IInv'
BY DEF Shutdown, ShutdownFlag, ShutdownNotify, Join, IInv, TypeOK, OneHolder, NoneLeft, OwnerPlaces

LEMMA NextIInv == IInv /\ [Next]_vars => IInv'
<1> SUFFICES ASSUME IInv, [Next]_vars PROVE IInv'
  OBVIOUS
<1>1. CASE UNCHANGED vars
  BY <1>1 DEF vars, IInv, TypeOK, OneHolder, NoneLeft
<1> QED
  BY <1>1, StepIInv, OtherWorkerIInv, SubmitIInv, ShutdownIInv DEF Next

LEMMA IInvAlways == Spec => []IInv
BY InitIInv, NextIInv, PTL DEF Spec

\* The queue holds tasks only, a sleeper is in wait, and a worker that calls func()
\* has been given a function, for any number of workers, submitters and tasks.
THEOREM TypeCorrect == Spec => []TypeOK
<1>1. IInv => TypeOK
  BY DEF IInv
<1> QED
  BY <1>1, IInvAlways, PTL

-----------------------------------------------------------------------------
(* No task is left to workers that are all asleep or about to be.           *)

\* A step of worker w after which it will look itself.
LEMMA LooksItself ==
    ASSUME NEW w \in Workers, WillLook(w)'
    PROVE  SomebodyWillLook'
BY DEF SomebodyWillLook

LEMMA StepLooks ==
    ASSUME IInv, SomebodyWillLook, NEW w \in Workers, Step(w)
    PROVE  SomebodyWillLook'
<1>1. CASE Loop(w)
  BY <1>1 DEF Loop, Goto, IInv, TypeOK, SomebodyWillLook, WillLook
<1>2. CASE TestEmpty(w)
  BY <1>2 DEF TestEmpty, Goto, IInv, TypeOK, SomebodyWillLook, WillLook
<1>3. CASE Wait(w)
  BY <1>3 DEF Wait, Goto, IInv, TypeOK, SomebodyWillLook, WillLook
<1>4. CASE Wake(w)
  <2>1. WillLook(w)'
    BY <1>4 DEF Wake, Goto, IInv, TypeOK, WillLook
  <2> QED
    BY <2>1, LooksItself
<1>5. CASE Dequeue(w)
  <2>1. WillLook(w)'
    BY <1>5 DEF Dequeue, Goto, IInv, TypeOK, WillLook
  <2> QED
    BY <2>1, LooksItself
<1> QED
  BY <1>1, <1>2, <1>3, <1>4, <1>5 DEF Step

LEMMA OtherWorkerLooks ==
    ASSUME IInv, NEW w \in Workers, Run(w) \/ SpuriousWakeup(w) \/ StartThread(w)
    PROVE  SomebodyWillLook'
<1>1. WillLook(w)'
  BY DEF Run, SpuriousWakeup, StartThread, Goto, IInv, TypeOK, WillLook
<1> QED
  BY <1>1, LooksItself

\* When nobody is asleep, of two workers at most one holds the mutex, and the other
\* is on its way to the queue.
LEMMA OneOfTwoLooks ==
    ASSUME IInv, ~m_shutdown, m_conditional_lock = {}, NEW v \in Workers, NEW w \in Workers, v # w
    PROVE  WillLook(v) \/ WillLook(w)
BY DEF IInv, TypeOK, OneHolder, NoneLeft, WillLook, WorkerPlaces

LEMMA NotifyLooks ==
    ASSUME NumWorkers > 1, IInv, NEW s \in Submitters, Notify(s)
    PROVE  SomebodyWillLook'
<1>1. ASSUME NEW w \in m_conditional_lock, w \notin m_conditional_lock'
      PROVE  SomebodyWillLook'
  <2>1. w \in Workers /\ WillLook(w)'
    BY <1>1 DEF Notify, IInv, TypeOK, WillLook
  <2> QED
    BY <2>1, LooksItself
<1>2. CASE m_conditional_lock = {}
  <2>1. 1 \in Workers /\ 2 \in Workers
    BY NumWorkersAssumption DEF Workers
  <2>2. ~m_shutdown => WillLook(1) \/ WillLook(2)
    BY <1>2, <2>1, OneOfTwoLooks
  <2>3. UNCHANGED <<m_shutdown, wpc>> /\ m_conditional_lock' = {}
    BY <1>2 DEF Notify, NotifyOne
  <2> QED
    BY <1>2, <2>1, <2>2, <2>3 DEF SomebodyWillLook, WillLook
<1> QED
  BY <1>1, <1>2, NotifyOneFacts DEF Notify

LEMMA EnqueueLooks ==
    ASSUME NEW s \in Submitters, NEW t \in Tasks, Enqueue(s, t)
    PROVE  SomebodyWillLook'
BY DEF Enqueue, SomebodyWillLook

LEMMA ShutdownLooks ==
    ASSUME SomebodyWillLook, Shutdown
    PROVE  SomebodyWillLook'
BY DEF Shutdown, ShutdownFlag, ShutdownNotify, Join, SomebodyWillLook, WillLook

LEMMA NextLooks ==
    ASSUME NumWorkers > 1
    PROVE  IInv /\ SomebodyWillLook /\ [Next]_vars => SomebodyWillLook'
<1> SUFFICES ASSUME IInv, SomebodyWillLook, [Next]_vars PROVE SomebodyWillLook'
  OBVIOUS
<1>1. CASE UNCHANGED vars
  BY <1>1 DEF vars, SomebodyWillLook, WillLook
<1> QED
  BY <1>1, StepLooks, OtherWorkerLooks, NotifyLooks, EnqueueLooks, ShutdownLooks DEF Next, Submit

\* A pool of two workers or more that is not shut down never has a task in its queue,
\* all notifications made, and every worker asleep or about to sleep.
THEOREM TaskIsLookedFor ==
    ASSUME NumWorkers > 1
    PROVE  Spec => []SomebodyWillLook
<1>1. Init => SomebodyWillLook
  BY DEF Init, SomebodyWillLook
<1>2. IInv /\ SomebodyWillLook /\ [Next]_vars => SomebodyWillLook'
  BY NextLooks
<1> QED
  BY <1>1, <1>2, IInvAlways, PTL DEF Spec

-----------------------------------------------------------------------------
(* The refinement of TaskPool.                                             *)

\* The task each worker is running, as the abstract pool sees it.
running == [w \in Workers |-> IF wpc[w] = "run" THEN func[w] ELSE NoTask]

\* A step that neither starts nor ends a task changes nothing there.
LEMMA SameRunning ==
    ASSUME IInv, func' = func, NEW w \in Workers, NEW p, p # "run", wpc[w] # "run", Goto(w, p)
    PROVE  running' = running
BY DEF running, Goto, IInv, TypeOK

LEMMA StepRefines ==
    ASSUME IInv, NEW w \in Workers, Step(w)
    PROVE  Abstract!Take(w) \/ UNCHANGED Abstract!vars
<1>1. CASE Loop(w) \/ TestEmpty(w) \/ Wait(w) \/ Wake(w)
  <2>1. running' = running
    BY <1>1, SameRunning DEF Loop, TestEmpty, Wait, Wake
  <2> QED
    BY <1>1, <2>1 DEF Loop, TestEmpty, Wait, Wake, running, Abstract!vars
<1>2. CASE Dequeue(w) /\ m_queue = <<>>
  <2>1. running' = running
    BY <1>2, SameRunning DEF Dequeue
  <2> QED
    BY <1>2, <2>1 DEF Dequeue, running, Abstract!vars
<1>3. CASE Dequeue(w) /\ m_queue # <<>>
  <2>1. running[w] = NoTask
    BY <1>3 DEF Dequeue, running
  <2>2. running' = [running EXCEPT ![w] = Head(m_queue)]
    BY <1>3 DEF Dequeue, Goto, running, IInv, TypeOK
  <2> QED
    BY <1>3, <2>1, <2>2 DEF Dequeue, running, Abstract!Take
<1> QED
  BY <1>1, <1>2, <1>3 DEF Step

LEMMA RunRefines ==
    ASSUME IInv, NEW w \in Workers, Run(w)
    PROVE  Abstract!Finish(w)
<1>1. running[w] = func[w] /\ func[w] # NoTask
  BY DEF Run, running, IInv, TypeOK
<1>2. running' = [running EXCEPT ![w] = NoTask]
  BY DEF Run, Goto, running, IInv, TypeOK
<1> QED
  BY <1>1, <1>2 DEF Run, running, Abstract!Finish

LEMMA StartThreadRefines ==
    ASSUME IInv, NEW w \in Workers, StartThread(w) \/ SpuriousWakeup(w)
    PROVE  UNCHANGED Abstract!vars
<1>1. running' = running
  BY SameRunning DEF StartThread, SpuriousWakeup, running
<1> QED
  BY <1>1 DEF StartThread, SpuriousWakeup, running, Abstract!vars

LEMMA SubmitRefines ==
    ASSUME IInv, NEW s \in Submitters, NEW t \in Tasks, Enqueue(s, t)
    PROVE  Abstract!Submit(t)
<1>1. \A w \in Workers : running[w] # t
  BY NoTaskAssumption DEF Enqueue, Submitted, running
<1>2. t \notin Abstract!Known
  BY <1>1 DEF Enqueue, Submitted, Queued, running, Abstract!Known
<1>3. running' = running
  BY DEF Enqueue, running
<1> QED
  BY <1>2, <1>3 DEF Enqueue, running, Abstract!Submit

LEMMA OwnerRefines ==
    ASSUME (\E s \in Submitters : Notify(s)) \/ Shutdown \/ UNCHANGED vars
    PROVE  UNCHANGED Abstract!vars
BY DEF Notify, Shutdown, ShutdownFlag, ShutdownNotify, Join, vars, Abstract!vars

LEMMA NextRefines == IInv /\ [Next]_vars => [Abstract!Next]_(Abstract!vars)
<1> SUFFICES ASSUME IInv, [Next]_vars PROVE [Abstract!Next]_(Abstract!vars)
  OBVIOUS
<1>1. ASSUME NEW w \in Workers, Step(w) \/ Run(w) \/ SpuriousWakeup(w) \/ StartThread(w)
      PROVE  [Abstract!Next]_(Abstract!vars)
  BY <1>1, StepRefines, RunRefines, StartThreadRefines DEF Abstract!Next
<1>2. ASSUME NEW s \in Submitters, Submit(s)
      PROVE  [Abstract!Next]_(Abstract!vars)
  BY <1>2, SubmitRefines, OwnerRefines DEF Submit, Abstract!Next
<1>3. CASE Shutdown \/ UNCHANGED vars
  BY <1>3, OwnerRefines
<1> QED
  BY <1>1, <1>2, <1>3 DEF Next

\* Tasks are taken in submission order, once each, by one worker at a time: the pool
\* implements TaskPool for any number of workers, submitters and tasks.
THEOREM Refinement == Spec => Implements
<1>1. Init => Abstract!Init
  BY DEF Init, Abstract!Init
<1>2. IInv /\ [Next]_vars => [Abstract!Next]_(Abstract!vars)
  BY NextRefines
<1> QED
  BY <1>1, <1>2, IInvAlways, PTL DEF Spec, Implements, Abstract!Spec
=============================================================================
