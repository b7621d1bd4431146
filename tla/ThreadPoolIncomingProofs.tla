----------------------- MODULE ThreadPoolIncomingProofs -----------------------
(***************************************************************************)
(* ThreadPoolIncoming for any workers, submitters and tasks: types, no lost  *)
(* wakeup, and the refinement of TaskPool.                                   *)
(*                                                                         *)
(* WakeupOwed counts: a queued task is paid for by a caller that has still to *)
(* notify or by a worker that has still to look.  Each step that takes a task  *)
(* or a debtor away does so in pairs, so it is inductive together with the    *)
(* types.                                                                   *)
(***************************************************************************)
EXTENDS ThreadPoolIncoming, FiniteSetTheorems, SequenceTheorems, TLAPS

IInv == TypeOK /\ WakeupOwed

-----------------------------------------------------------------------------
(* Counting.                                                               *)

\* The sets counted are finite, and their numbers natural.
LEMMA Counts ==
    ASSUME TypeOK
    PROVE  /\ IsFiniteSet(notifying) /\ IsFiniteSet(AwakeWorkers)
           /\ Cardinality(notifying) \in Nat /\ Cardinality(AwakeWorkers) \in Nat
<1>1. notifying \in SUBSET Submitters /\ AwakeWorkers \in SUBSET Workers
  BY DEF TypeOK, AwakeWorkers
<1>2. IsFiniteSet(notifying) /\ IsFiniteSet(AwakeWorkers)
  BY <1>1, FS_Subset, WorkersFinite, SubmittersFinite
<1> QED
  BY <1>2, FS_CardinalityType

\* What a set gains or loses with one element.
LEMMA OneMore ==
    ASSUME NEW S, IsFiniteSet(S), NEW x, x \notin S
    PROVE  Cardinality(S \cup {x}) = Cardinality(S) + 1
BY FS_AddElement

LEMMA OneLess ==
    ASSUME NEW S, IsFiniteSet(S), NEW x \in S
    PROVE  Cardinality(S \ {x}) = Cardinality(S) - 1
BY FS_RemoveElement

LEMMA TailFacts ==
    ASSUME NEW s \in Seq(Tasks), s # <<>>
    PROVE  /\ Head(s) \in Tasks /\ Tail(s) \in Seq(Tasks)
           /\ Len(s) \in Nat /\ Len(Tail(s)) = Len(s) - 1
BY HeadTailProperties, LenProperties

-----------------------------------------------------------------------------
(* The inductive invariant.                                                *)

LEMMA InitIInv == Init => IInv
<1> SUFFICES ASSUME Init PROVE IInv
  OBVIOUS
<1>1. TypeOK
  BY EmptySeq DEF Init, TypeOK, Places
<1>2. WakeupOwed
  BY DEF Init, WakeupOwed
<1> QED
  BY <1>1, <1>2 DEF IInv

LEMMA LaunchStep ==
    ASSUME IInv, NEW w \in Workers, Launch(w)
    PROVE  IInv'
<1>1. TypeOK'
  BY DEF IInv, TypeOK, Launch, Goto, Places
<1>2. AwakeWorkers' = AwakeWorkers \cup {w} /\ w \notin AwakeWorkers
  BY DEF IInv, TypeOK, Launch, Goto, AwakeWorkers, Awake
<1>3. Cardinality(AwakeWorkers') = Cardinality(AwakeWorkers) + 1
  BY <1>2, Counts, OneMore DEF IInv
<1>4. UNCHANGED <<tasks, condition, notifying>> /\ Len(tasks) \in Nat
  BY LenProperties DEF Launch, IInv, TypeOK
<1>5. WakeupOwed'
  BY <1>3, <1>4, Counts DEF IInv, WakeupOwed
<1> QED
  BY <1>1, <1>5 DEF IInv

LEMMA FetchStep ==
    ASSUME IInv, NEW w \in Workers, Fetch(w)
    PROVE  IInv'
<1>1. CASE /\ tasks = <<>> /\ condition' = condition \cup {w} /\ Goto(w, "wait")
           /\ UNCHANGED <<tasks, task>>
  <2>1. TypeOK'
    BY <1>1 DEF IInv, TypeOK, Fetch, Awake, Goto, Places
  <2>2. WakeupOwed'
    <3>1. Len(tasks') = 0
      BY <1>1
    <3>2. Cardinality(notifying') \in Nat /\ Cardinality(AwakeWorkers') \in Nat
      <4>1. notifying' \in SUBSET Submitters /\ AwakeWorkers' \in SUBSET Workers
        BY <2>1 DEF TypeOK, AwakeWorkers
      <4> QED
        BY <4>1, FS_Subset, FS_CardinalityType, WorkersFinite, SubmittersFinite
    <3> QED
      BY <3>1, <3>2 DEF WakeupOwed
  <2> QED
    BY <2>1, <2>2 DEF IInv
<1>2. CASE /\ tasks # <<>> /\ task' = [task EXCEPT ![w] = Head(tasks)]
           /\ tasks' = Tail(tasks) /\ Goto(w, "run") /\ UNCHANGED condition
  <2>0. /\ Head(tasks) \in Tasks /\ Tail(tasks) \in Seq(Tasks)
        /\ Len(tasks) \in Nat /\ Len(Tail(tasks)) = Len(tasks) - 1
    BY <1>2, TailFacts, SMTT(30) DEF IInv, TypeOK
  <2>1. TypeOK'
    BY <1>2, <2>0, NoTaskIsNoTask DEF IInv, TypeOK, Fetch, Awake, Goto, Places
  <2>2. AwakeWorkers' = AwakeWorkers \ {w} /\ w \in AwakeWorkers
    BY <1>2 DEF IInv, TypeOK, Fetch, Goto, AwakeWorkers, Awake
  <2>3. Cardinality(AwakeWorkers') = Cardinality(AwakeWorkers) - 1
    BY <2>2, Counts, OneLess DEF IInv
  <2>4. /\ Len(tasks') = Len(tasks) - 1 /\ Len(tasks) \in Nat
        /\ UNCHANGED <<notifying, condition>>
        /\ Cardinality(notifying) \in Nat /\ Cardinality(AwakeWorkers) \in Nat
    BY <1>2, <2>0, Counts DEF IInv, Fetch
  <2>5. WakeupOwed'
    BY <2>3, <2>4 DEF IInv, WakeupOwed
  <2> QED
    BY <2>1, <2>5 DEF IInv
<1> QED
  BY <1>1, <1>2 DEF Fetch

LEMMA RunStep ==
    ASSUME IInv, NEW w \in Workers, Run(w)
    PROVE  IInv'
<1>1. TypeOK'
  BY DEF IInv, TypeOK, Run, Goto, Places
<1>2. AwakeWorkers' = AwakeWorkers \cup {w} /\ w \notin AwakeWorkers
  BY DEF IInv, TypeOK, Run, Goto, AwakeWorkers, Awake
<1>3. Cardinality(AwakeWorkers') = Cardinality(AwakeWorkers) + 1
  BY <1>2, Counts, OneMore DEF IInv
<1>4. UNCHANGED <<tasks, condition, notifying>> /\ Len(tasks) \in Nat
  BY LenProperties DEF Run, IInv, TypeOK
<1>5. WakeupOwed'
  BY <1>3, <1>4, Counts DEF IInv, WakeupOwed
<1> QED
  BY <1>1, <1>5 DEF IInv

\* Taking a sleeper out of the waiters makes it an awake worker.
LEMMA Waking ==
    ASSUME TypeOK, NEW w \in condition, condition' = condition \ {w}, UNCHANGED wpc
    PROVE  /\ AwakeWorkers' = AwakeWorkers \cup {w} /\ w \notin AwakeWorkers
           /\ Cardinality(AwakeWorkers') = Cardinality(AwakeWorkers) + 1
<1>1. AwakeWorkers' = AwakeWorkers \cup {w} /\ w \notin AwakeWorkers
  BY DEF TypeOK, AwakeWorkers, Awake
<1> QED
  BY <1>1, Counts, OneMore

LEMMA SpuriousWakeupStep ==
    ASSUME IInv, NEW w \in Workers, SpuriousWakeup(w)
    PROVE  IInv'
<1>1. TypeOK'
  BY DEF IInv, TypeOK, SpuriousWakeup
<1>2. Cardinality(AwakeWorkers') = Cardinality(AwakeWorkers) + 1
  BY Waking DEF IInv, SpuriousWakeup
<1>3. UNCHANGED <<tasks, notifying>> /\ Len(tasks) \in Nat /\ condition # {}
  BY LenProperties DEF SpuriousWakeup, IInv, TypeOK
<1>4. WakeupOwed'
  BY <1>2, <1>3, Counts DEF IInv, WakeupOwed
<1> QED
  BY <1>1, <1>4 DEF IInv

LEMMA EnqueueStep ==
    ASSUME IInv, NEW s \in Submitters, NEW t \in Tasks, Enqueue(s, t)
    PROVE  IInv'
<1>0. Append(tasks, t) \in Seq(Tasks) /\ Len(Append(tasks, t)) = Len(tasks) + 1 /\ Len(tasks) \in Nat
  BY AppendProperties, LenProperties DEF IInv, TypeOK
<1>1. TypeOK'
  BY <1>0 DEF IInv, TypeOK, Enqueue
<1>2. Cardinality(notifying') = Cardinality(notifying) + 1
  BY Counts, OneMore DEF IInv, Enqueue
<1>3. AwakeWorkers' = AwakeWorkers /\ condition' = condition /\ tasks' = Append(tasks, t)
  BY DEF Enqueue, AwakeWorkers, Awake
<1>4. WakeupOwed'
  BY <1>0, <1>2, <1>3, Counts DEF IInv, WakeupOwed
<1> QED
  BY <1>1, <1>4 DEF IInv

LEMMA NotifyStep ==
    ASSUME IInv, NEW s \in Submitters, Notify(s)
    PROVE  IInv'
<1>0. /\ s \in notifying /\ notifying' = notifying \ {s}
      /\ UNCHANGED <<tasks, wpc, task, finished>>
      /\ \/ condition' = {}
         \/ \E w \in condition : condition' = condition \ {w}
  BY DEF Notify, NotifyOne
<1>1. TypeOK'
  BY <1>0 DEF IInv, TypeOK
<1>2. CASE condition' = {}
  BY <1>1, <1>2 DEF IInv, WakeupOwed
<1>3. ASSUME NEW w \in condition, condition' = condition \ {w}
      PROVE  IInv'
  <2>1. Cardinality(AwakeWorkers') = Cardinality(AwakeWorkers) + 1
    BY <1>0, <1>3, Waking DEF IInv
  <2>2. Cardinality(notifying') = Cardinality(notifying) - 1
    BY <1>0, Counts, OneLess DEF IInv
  <2>3. Len(tasks) \in Nat /\ condition # {}
    BY LenProperties DEF IInv, TypeOK
  <2>4. WakeupOwed'
    BY <1>0, <2>1, <2>2, <2>3, Counts DEF IInv, WakeupOwed
  <2> QED
    BY <1>1, <2>4 DEF IInv
<1> QED
  BY <1>0, <1>2, <1>3

LEMMA NextIInv == IInv /\ [Next]_vars => IInv'
<1> SUFFICES ASSUME IInv, [Next]_vars PROVE IInv'
  OBVIOUS
<1>1. CASE UNCHANGED vars
  BY <1>1 DEF IInv, TypeOK, WakeupOwed, AwakeWorkers, Awake, vars
<1>2. ASSUME NEW w \in Workers, Launch(w) \/ Fetch(w) \/ Run(w) \/ SpuriousWakeup(w)
      PROVE  IInv'
  BY <1>2, LaunchStep, FetchStep, RunStep, SpuriousWakeupStep
<1>3. ASSUME NEW s \in Submitters, (\E t \in Tasks : Enqueue(s, t)) \/ Notify(s)
      PROVE  IInv'
  BY <1>3, EnqueueStep, NotifyStep
<1> QED
  BY <1>1, <1>2, <1>3 DEF Next

LEMMA IInvAlways == Spec => []IInv
BY InitIInv, NextIInv, PTL DEF Spec

\* The queue holds tasks only, a sleeper is in its wait, and a worker has a task
\* exactly while it runs one, for any number of workers and callers of enqueue.
THEOREM TypeCorrect == Spec => []TypeOK
<1>1. IInv => TypeOK
  BY DEF IInv
<1> QED
  BY <1>1, IInvAlways, PTL

\* No wakeup is lost although enqueue notifies after it has released queue_mutex:
\* while a worker sleeps, every queued task has an awake worker or a notification
\* on its way.
THEOREM NoWakeupLost == Spec => []WakeupOwed
<1>1. IInv => WakeupOwed
  BY DEF IInv
<1> QED
  BY <1>1, IInvAlways, PTL

-----------------------------------------------------------------------------
(* The refinement of TaskPool.                                             *)

LEMMA StepRefines == TypeOK /\ [Next]_vars => [Abstract!Next]_(Abstract!vars)
<1> SUFFICES ASSUME TypeOK, [Next]_vars PROVE [Abstract!Next]_(Abstract!vars)
  OBVIOUS
<1>1. CASE UNCHANGED vars
  BY <1>1 DEF vars, Abstract!vars
<1>2. ASSUME NEW w \in Workers, Launch(w) \/ SpuriousWakeup(w)
      PROVE  UNCHANGED Abstract!vars
  BY <1>2 DEF Launch, SpuriousWakeup, Abstract!vars
<1>3. ASSUME NEW w \in Workers, Fetch(w)
      PROVE  Abstract!Take(w) \/ UNCHANGED Abstract!vars
  <2>1. task[w] = NoTask
    BY <1>3 DEF TypeOK, Fetch, Awake
  <2> QED
    BY <1>3, <2>1 DEF Fetch, Abstract!Take, Abstract!vars
<1>4. ASSUME NEW w \in Workers, Run(w)
      PROVE  Abstract!Finish(w)
  BY <1>4 DEF Run, Abstract!Finish, TypeOK
<1>5. ASSUME NEW s \in Submitters, NEW t \in Tasks, Enqueue(s, t)
      PROVE  Abstract!Submit(t)
  BY <1>5 DEF Enqueue, Submitted, Queued, Abstract!Submit, Abstract!Known
<1>6. ASSUME NEW s \in Submitters, Notify(s)
      PROVE  UNCHANGED Abstract!vars
  BY <1>6 DEF Notify, Abstract!vars
<1> QED
  BY <1>1, <1>2, <1>3, <1>4, <1>5, <1>6 DEF Next, Abstract!Next

\* Tasks are taken in submission order, once each, by one worker at a time: the pool
\* implements TaskPool for any number of workers, callers and tasks.
THEOREM Refinement == Spec => Implements
<1>1. Init => Abstract!Init
  BY DEF Init, Abstract!Init
<1>2. TypeOK /\ [Next]_vars => [Abstract!Next]_(Abstract!vars)
  BY StepRefines
<1> QED
  BY <1>1, <1>2, TypeCorrect, PTL DEF Spec, Implements, Abstract!Spec
=============================================================================
