---------------------------- MODULE RWLockProofs ----------------------------
(***************************************************************************)
(* RWLock for any finite set of threads and any max_reader: types, exact   *)
(* counting, exclusion, and the refinement of ReadersWriters.              *)
(*                                                                         *)
(* Exclusion is not inductive by itself.  A writer enters on reading        *)
(* reader_count_ = 0, which says nothing of the threads inside unless the   *)
(* counter is exact; and readers stay out because writing_ stays set, which *)
(* needs that nobody but its one owner ever clears it.  IInv puts the three *)
(* together.                                                               *)
(***************************************************************************)
EXTENDS RWLock, FiniteSetTheorems, TLAPS

\* A writer inside has no reader beside it.
WriterAlone == At("writing") # {} => At("reading") = {}

\* The inductive invariant.
IInv == TypeOK /\ CountExact /\ WritingOwned /\ WriterAlone

-----------------------------------------------------------------------------
(* The counter and the set of readers.                                     *)

\* The readers are finitely many, so the counter is 0 exactly when there are
\* none, and it is never 0 while a thread is between RLock and RUnlock.
LEMMA ReadersFinite ==
    /\ IsFiniteSet(At("reading"))
    /\ Cardinality(At("reading")) \in Nat
    /\ Cardinality(At("reading")) = 0 <=> At("reading") = {}
<1>1. IsFiniteSet(At("reading"))
  BY ThreadsAssumption, FS_Subset DEF At
<1> QED
  BY <1>1, FS_CardinalityType, FS_EmptySet

\* A thread that starts reading adds one to the exact count.
LEMMA OneReaderMore ==
    ASSUME NEW t \in Threads, t \notin At("reading"),
           At("reading")' = At("reading") \cup {t}
    PROVE  Cardinality(At("reading"))' = Cardinality(At("reading")) + 1
BY ReadersFinite, FS_AddElement

\* A reader that leaves takes one off.
LEMMA OneReaderFewer ==
    ASSUME NEW t \in Threads, t \in At("reading"),
           At("reading")' = At("reading") \ {t}
    PROVE  /\ Cardinality(At("reading"))' = Cardinality(At("reading")) - 1
           /\ Cardinality(At("reading")) > 0
BY ReadersFinite, FS_RemoveElement
-----------------------------------------------------------------------------
(* The invariant, action by action.                                        *)

LEMMA InitIInv == Init => IInv
<1> SUFFICES ASSUME Init PROVE IInv
  OBVIOUS
<1>1. \A q \in Places : q # "idle" => At(q) = {}
  BY DEF Init, At
<1>2. TypeOK
  <2>1. pc \in [Threads -> Places]
    BY DEF Init, Places
  <2>2. 0 \in 0..MaxReader
    BY MaxReaderAssumption
  <2> QED
    BY <2>1, <2>2 DEF Init, TypeOK
<1>3. CountExact
  BY <1>1, FS_EmptySet DEF Init, CountExact, Places
<1>4. WritingOwned /\ WriterAlone
  BY <1>1 DEF Init, WritingOwned, WriterAlone, Places
<1> QED
  BY <1>2, <1>3, <1>4 DEF IInv

\* A pass of RLock by a thread that is not inside.
LEMMA RLockStep ==
    ASSUME IInv, NEW t \in Threads, pc[t] \in {"idle", "rlock"}, t \notin reader_,
           RLock(t)
    PROVE  IInv'
<1> USE DEF IInv
<1>0. /\ pc \in [Threads -> Places]
      /\ t \notin At("reading") /\ t \notin At("wlock")
      /\ t \notin At("drain") /\ t \notin At("writing")
  BY DEF TypeOK, At
<1>1. CASE /\ writing_ \/ reader_count_ >= MaxReader
           /\ reader_' = reader_ \cup {t}
           /\ pc' = [pc EXCEPT ![t] = "rlock"]
           /\ UNCHANGED <<writing_, reader_count_, writer_>>
  <2>1. /\ At("reading")' = At("reading") /\ At("wlock")' = At("wlock")
        /\ At("drain")' = At("drain") /\ At("writing")' = At("writing")
        /\ At("rlock")' = At("rlock") \cup {t}
    BY <1>0, <1>1 DEF At, Places
  <2>2. TypeOK'
    BY <1>1, <2>1 DEF TypeOK, Places
  <2>3. CountExact' /\ WritingOwned' /\ WriterAlone'
    BY <1>1, <2>1 DEF CountExact, WritingOwned, WriterAlone
  <2> QED
    BY <2>2, <2>3
<1>2. CASE /\ ~(writing_ \/ reader_count_ >= MaxReader)
           /\ reader_count_' = Increment(reader_count_)
           /\ pc' = [pc EXCEPT ![t] = "reading"]
           /\ UNCHANGED <<writing_, reader_, writer_>>
  <2>1. /\ At("reading")' = At("reading") \cup {t}
        /\ At("wlock")' = At("wlock")
        /\ At("drain")' = At("drain") /\ At("writing")' = At("writing")
        /\ At("rlock")' = At("rlock") \ {t}
    BY <1>0, <1>2 DEF At, Places
  <2>2. reader_count_ < MaxReader /\ reader_count_' = reader_count_ + 1
    BY <1>2, MaxReaderAssumption DEF TypeOK, Increment
  <2>3. reader_ \subseteq At("rlock")' \cup At("wlock")'
    BY <1>0, <2>1 DEF TypeOK
  <2>4. TypeOK'
    BY <1>2, <2>1, <2>2, <2>3, MaxReaderAssumption DEF TypeOK, Places
  <2>5. CountExact'
    BY <1>0, <2>1, <2>2, OneReaderMore DEF CountExact
  <2>6. WritingOwned' /\ WriterAlone'
    BY <1>2, <2>1 DEF WritingOwned, WriterAlone
  <2> QED
    BY <2>4, <2>5, <2>6
<1> QED
  BY <1>1, <1>2 DEF RLock, RLockPass

\* A reader leaves; the notifications only shrink the wait sets.
LEMMA RUnlockStep ==
    ASSUME IInv, NEW t \in Threads, RUnlock(t)
    PROVE  IInv'
<1> USE DEF IInv
<1>0. /\ pc \in [Threads -> Places]
      /\ pc[t] = "reading"
      /\ pc' = [pc EXCEPT ![t] = "idle"]
      /\ reader_count_' = Decrement(reader_count_)
      /\ UNCHANGED writing_
  BY DEF TypeOK, RUnlock, RUnlockAt
<1>1. /\ t \in At("reading")
      /\ At("reading")' = At("reading") \ {t}
      /\ At("rlock")' = At("rlock") /\ At("wlock")' = At("wlock")
      /\ At("drain")' = At("drain") /\ At("writing")' = At("writing")
  BY <1>0 DEF At, Places
<1>2. reader_' \subseteq reader_ /\ writer_' \subseteq writer_
  BY DEF RUnlock, RUnlockAt, NotifyOne
<1>3. reader_count_ > 0 /\ reader_count_' = reader_count_ - 1
  BY <1>0, <1>1, OneReaderFewer DEF CountExact, Decrement
<1>4. TypeOK'
  BY <1>0, <1>1, <1>2, <1>3, MaxReaderAssumption DEF TypeOK, Places
<1>5. CountExact'
  BY <1>1, <1>3, OneReaderFewer DEF CountExact
<1>6. WritingOwned' /\ WriterAlone'
  BY <1>0, <1>1 DEF WritingOwned, WriterAlone
<1> QED
  BY <1>4, <1>5, <1>6

\* The owner of writing_ goes to sleep on writer_, or enters: then the exact
\* counter is 0 and nobody reads.
LEMMA DrainStep ==
    ASSUME IInv, NEW t \in Threads,
           \/ pc[t] = "drain"
           \/ pc[t] \in {"idle", "wlock"} /\ t \notin reader_ /\ ~writing_,
           t \notin writer_, Drain(t), writing_' = TRUE,
           UNCHANGED <<reader_count_, reader_>>
    PROVE  IInv'
<1> USE DEF IInv
<1>0. /\ pc \in [Threads -> Places]
      /\ t \notin reader_
      /\ At("drain") \cup At("writing") \subseteq {t}
      /\ t \notin At("reading") /\ t \notin At("writing")
  BY DEF TypeOK, WritingOwned, At
<1>1. CASE /\ reader_count_ > 0
           /\ writer_' = writer_ \cup {t}
           /\ pc' = [pc EXCEPT ![t] = "drain"]
  <2>1. /\ At("reading")' = At("reading")
        /\ At("rlock")' = At("rlock") /\ At("wlock")' = At("wlock") \ {t}
        /\ At("drain")' = {t} /\ At("writing")' = {}
    BY <1>0, <1>1 DEF At, Places
  <2>2. TypeOK'
    BY <1>0, <1>1, <2>1 DEF TypeOK, Places
  <2>3. CountExact' /\ WritingOwned' /\ WriterAlone'
    BY <2>1 DEF CountExact, WritingOwned, WriterAlone
  <2> QED
    BY <2>2, <2>3
<1>2. CASE /\ reader_count_ = 0
           /\ pc' = [pc EXCEPT ![t] = "writing"]
           /\ UNCHANGED writer_
  <2>1. /\ At("reading")' = At("reading")
        /\ At("rlock")' = At("rlock") /\ At("wlock")' = At("wlock") \ {t}
        /\ At("drain")' = {} /\ At("writing")' = {t}
    BY <1>0, <1>2 DEF At, Places
  <2>2. writer_ = {}
    BY <1>0 DEF TypeOK
  <2>3. TypeOK'
    BY <1>0, <1>2, <2>1, <2>2 DEF TypeOK, Places
  <2>4. At("reading") = {}
    BY <1>2, ReadersFinite DEF CountExact
  <2>5. CountExact' /\ WritingOwned' /\ WriterAlone'
    BY <2>1, <2>4 DEF CountExact, WritingOwned, WriterAlone
  <2> QED
    BY <2>3, <2>5
<1> QED
  BY <1>1, <1>2 DEF Drain

\* A pass of WLock: a thread that finds writing_ set joins reader_, any other
\* becomes the owner.
LEMMA WLockStep ==
    ASSUME IInv, NEW t \in Threads, pc[t] \in {"idle", "wlock"}, t \notin reader_,
           WLock(t)
    PROVE  IInv'
<1> USE DEF IInv
<1>0. /\ pc \in [Threads -> Places]
      /\ t \notin writer_ /\ t \notin At("rlock")
      /\ t \notin At("reading") /\ t \notin At("drain") /\ t \notin At("writing")
  BY DEF TypeOK, At
<1>1. CASE /\ writing_
           /\ reader_' = reader_ \cup {t}
           /\ pc' = [pc EXCEPT ![t] = "wlock"]
           /\ UNCHANGED <<writing_, reader_count_, writer_>>
  <2>1. /\ At("reading")' = At("reading") /\ At("rlock")' = At("rlock")
        /\ At("drain")' = At("drain") /\ At("writing")' = At("writing")
        /\ At("wlock")' = At("wlock") \cup {t}
    BY <1>0, <1>1 DEF At, Places
  <2>2. TypeOK'
    BY <1>0, <1>1, <2>1 DEF TypeOK, Places
  <2>3. CountExact' /\ WritingOwned' /\ WriterAlone'
    BY <1>1, <2>1 DEF CountExact, WritingOwned, WriterAlone
  <2> QED
    BY <2>2, <2>3
<1>2. CASE ~writing_ /\ writing_' = TRUE /\ Drain(t) /\ UNCHANGED <<reader_count_, reader_>>
  BY <1>0, <1>2, DrainStep
<1> QED
  BY <1>1, <1>2 DEF WLock

\* The owner leaves, clears writing_ and empties reader_.
LEMMA WULockStep ==
    ASSUME IInv, NEW t \in Threads, WULock(t)
    PROVE  IInv'
<1> USE DEF IInv
<1>0. /\ pc \in [Threads -> Places]
      /\ pc[t] = "writing"
      /\ writing_' = FALSE
      /\ reader_' = {}
      /\ pc' = [pc EXCEPT ![t] = "idle"]
      /\ UNCHANGED <<reader_count_, writer_>>
  BY DEF TypeOK, WULock, WULockWaking
<1>1. At("drain") \cup At("writing") \subseteq {t}
  BY <1>0 DEF WritingOwned, At
<1>2. /\ At("reading")' = At("reading")
      /\ At("drain")' = At("drain") /\ At("drain") = {} /\ At("writing")' = {}
  BY <1>0, <1>1 DEF At, Places
<1>3. TypeOK' /\ CountExact' /\ WritingOwned' /\ WriterAlone'
  BY <1>0, <1>2 DEF TypeOK, CountExact, WritingOwned, WriterAlone, Places
<1> QED
  BY <1>3

LEMMA NextIInv == IInv /\ [Next]_vars => IInv'
<1> SUFFICES ASSUME IInv, [Next]_vars PROVE IInv'
  OBVIOUS
<1>1. CASE UNCHANGED vars
  BY <1>1 DEF vars, IInv, TypeOK, CountExact, WritingOwned, WriterAlone, At
<1>2. ASSUME NEW t \in Threads,
             Call(t) \/ Resume(t) \/ Unlock(t) \/ SpuriousWakeup(t)
      PROVE  IInv'
  <2>0. pc[t] = "idle" => t \notin reader_
    BY DEF IInv, TypeOK, At
  <2>1. CASE CallRLock(t) \/ ResumeRLock(t)
    BY <2>0, <2>1, RLockStep DEF CallRLock, ResumeRLock
  <2>2. CASE CallWLock(t) \/ ResumeWLock(t)
    BY <2>0, <2>2, WLockStep DEF CallWLock, ResumeWLock
  <2>3. CASE ResumeDrain(t)
    <3>1. writing_ = TRUE
      BY <2>3 DEF ResumeDrain, IInv, WritingOwned, TypeOK, At
    <3> QED
      BY <2>3, <3>1, DrainStep DEF ResumeDrain
  <2>4. CASE RUnlock(t)
    BY <2>4, RUnlockStep
  <2>5. CASE WULock(t)
    BY <2>5, WULockStep
  <2>6. CASE SpuriousWakeup(t)
    BY <2>6 DEF SpuriousWakeup, IInv, TypeOK, CountExact, WritingOwned,
                WriterAlone, At
  <2> QED
    BY <1>2, <2>1, <2>2, <2>3, <2>4, <2>5, <2>6 DEF Call, Resume, Unlock
<1> QED
  BY <1>1, <1>2 DEF Next

-----------------------------------------------------------------------------
(* The theorems.                                                           *)

LEMMA IInvAlways == Spec => []IInv
BY InitIInv, NextIInv, PTL DEF Spec

\* Every reachable state is well typed: in particular reader_count_ stays
\* within its 32 bits and a sleeper is inside the call that put it to sleep.
THEOREM TypeCorrect == Spec => []TypeOK
<1>1. IInv => TypeOK
  BY DEF IInv
<1> QED
  BY <1>1, IInvAlways, PTL

\* RWLock excludes: between WLock and WULock no other thread reads or writes.
THEOREM Exclusion == Spec => []MutualExclusion
<1>1. IInv => MutualExclusion
  BY DEF IInv, MutualExclusion, WritingOwned, WriterAlone, At
<1> QED
  BY <1>1, IInvAlways, PTL

\* reader_count_ is the number of threads between RLock and RUnlock.
THEOREM CountIsExact == Spec => []CountExact
<1>1. IInv => CountExact
  BY DEF IInv
<1> QED
  BY <1>1, IInvAlways, PTL

\* writing_ is set exactly while one thread owns or drains the lock.
THEOREM OneOwner == Spec => []WritingOwned
<1>1. IInv => WritingOwned
  BY DEF IInv
<1> QED
  BY <1>1, IInvAlways, PTL

-----------------------------------------------------------------------------
(* No lost wakeup.                                                         *)

\* With one thread more than a full lock has readers, at most one thread sleeps.
LEMMA OneSleeperWhenFull ==
    ASSUME IInv, reader_count_ = MaxReader, Cardinality(Threads) <= MaxReader + 1,
           NEW t \in reader_, NEW u \in reader_
    PROVE  t = u
<1> SUFFICES ASSUME t # u PROVE FALSE
  OBVIOUS
<1>1. t \in Threads \ At("reading") /\ u \in Threads \ At("reading")
  BY DEF IInv, TypeOK, At
<1>2. /\ IsFiniteSet(At("reading") \cup {t})
      /\ Cardinality(At("reading") \cup {t}) = Cardinality(At("reading")) + 1
  BY <1>1, ReadersFinite, FS_AddElement
<1>3. u \notin At("reading") \cup {t}
  BY <1>1
<1>4. Cardinality((At("reading") \cup {t}) \cup {u}) = Cardinality(At("reading") \cup {t}) + 1
  BY <1>2, <1>3, FS_AddElement
<1>5. (At("reading") \cup {t}) \cup {u} \subseteq Threads
  BY <1>1 DEF At
<1>6. /\ Cardinality((At("reading") \cup {t}) \cup {u}) <= Cardinality(Threads)
      /\ Cardinality(Threads) \in Nat
  BY <1>5, ThreadsAssumption, FS_Subset, FS_CardinalityType
<1> QED
  BY <1>2, <1>4, <1>6, ReadersFinite, MaxReaderAssumption DEF IInv, CountExact

LEMMA NextNoLostWakeup == IInv /\ NoLostWakeup /\ [Next]_vars => NoLostWakeup'
<1> SUFFICES ASSUME IInv, NoLostWakeup, [Next]_vars PROVE NoLostWakeup'
  OBVIOUS
<1>0. reader_count_ \in 0..MaxReader /\ MaxReader \in Nat \ {0} /\ Cardinality(Threads) \in Nat
  BY ThreadsAssumption, MaxReaderAssumption, FS_CardinalityType DEF IInv, TypeOK
<1>1. CASE UNCHANGED vars
  BY <1>1 DEF vars, NoLostWakeup
<1>2. ASSUME NEW t \in Threads,
             Call(t) \/ Resume(t) \/ Unlock(t) \/ SpuriousWakeup(t)
      PROVE  NoLostWakeup'
  <2>1. CASE CallRLock(t) \/ ResumeRLock(t)
    <3>3. CASE /\ writing_ \/ reader_count_ >= MaxReader
               /\ UNCHANGED <<writing_, reader_count_, writer_>>
      BY <1>0, <3>3 DEF NoLostWakeup
    <3>4. CASE /\ ~(writing_ \/ reader_count_ >= MaxReader)
               /\ reader_count_' = Increment(reader_count_)
               /\ UNCHANGED <<writing_, reader_, writer_>>
      BY <1>0, <3>4 DEF NoLostWakeup, Increment
    <3> QED
      BY <2>1, <3>3, <3>4 DEF CallRLock, ResumeRLock, RLock, RLockPass
  <2>2. CASE CallWLock(t) \/ ResumeWLock(t)
    <3>1. CASE writing_ /\ UNCHANGED <<writing_, reader_count_, writer_>>
      BY <3>1 DEF NoLostWakeup
    <3>2. CASE writing_' = TRUE /\ Drain(t) /\ UNCHANGED <<reader_count_, reader_>>
      BY <1>0, <3>2 DEF NoLostWakeup, Drain
    <3> QED
      BY <2>2, <3>1, <3>2 DEF CallWLock, ResumeWLock, WLock
  <2>3. CASE ResumeDrain(t)
    BY <1>0, <2>3 DEF ResumeDrain, Drain, NoLostWakeup
  <2>4. CASE RUnlock(t)
    <3>1. reader_count_ > 0 /\ reader_count_' = reader_count_ - 1
      <4>1. t \in At("reading")
        BY <2>4 DEF RUnlock, RUnlockAt, At
      <4>2. reader_count_ # 0
        BY <4>1, ReadersFinite DEF IInv, CountExact
      <4> QED
        BY <1>0, <2>4, <4>2 DEF RUnlock, RUnlockAt, Decrement
    <3>2. reader_' \subseteq reader_ /\ writer_' \subseteq writer_ /\ UNCHANGED writing_
      BY <2>4 DEF RUnlock, RUnlockAt, NotifyOne
    <3>3. \A u, v \in writer_ : u = v
      BY DEF IInv, TypeOK, WritingOwned
    <3>4. reader_count_' = 0 => writer_' = {}
      <4>1. SUFFICES ASSUME reader_count_' = 0 PROVE writer_' = {}
        OBVIOUS
      <4>2. CASE writing_
        BY <2>4, <3>3, <4>1, <4>2 DEF RUnlock, RUnlockAt, NotifyOne
      <4>3. CASE ~writing_
        BY <3>2, <4>3 DEF IInv, TypeOK, WritingOwned
      <4> QED
        BY <4>2, <4>3
    <3>5. Cardinality(Threads) <= MaxReader + 1 => (reader_' # {} => writing_')
      <4>1. SUFFICES ASSUME Cardinality(Threads) <= MaxReader + 1, ~writing_
                     PROVE  reader_' = {}
        BY <3>2
      <4>2. CASE reader_count_ # MaxReader
        BY <3>2, <4>1, <4>2 DEF NoLostWakeup
      <4>3. CASE reader_count_ = MaxReader
        <5>1. \A u, v \in reader_ : u = v
          BY <4>1, <4>3, OneSleeperWhenFull
        <5>2. reader_' \in NotifyOne(reader_)
          BY <1>0, <2>4, <3>1, <4>1, <4>3 DEF RUnlock, RUnlockAt
        <5> QED
          BY <5>1, <5>2 DEF NotifyOne
      <4> QED
        BY <4>2, <4>3
    <3> QED
      BY <1>0, <3>1, <3>2, <3>4, <3>5 DEF NoLostWakeup
  <2>5. CASE WULock(t)
    BY <2>5 DEF WULock, WULockWaking, NoLostWakeup
  <2>6. CASE SpuriousWakeup(t)
    BY <2>6 DEF SpuriousWakeup, NoLostWakeup
  <2> QED
    BY <1>2, <2>1, <2>2, <2>3, <2>4, <2>5, <2>6 DEF Call, Resume, Unlock
<1> QED
  BY <1>1, <1>2 DEF Next

\* No thread sleeps through its wakeup: a drainer sleeps only while a reader is
\* inside, and, with up to max_reader + 1 threads, a waiter of reader_ only while
\* a writer owns or drains the lock or max_reader threads read.
THEOREM NoWakeupLost == Spec => []NoLostWakeup
<1>1. Init => NoLostWakeup
  BY DEF Init, NoLostWakeup
<1> QED
  BY <1>1, NextNoLostWakeup, IInvAlways, PTL DEF Spec

-----------------------------------------------------------------------------
(* Refinement of the abstract lock.                                        *)

LEMMA InitRefines == Init => Abstract!Init
BY DEF Init, Abstract!Init, At

\* A pass of RLock is AcquireRead, or invisible.
LEMMA RLockRefines ==
    ASSUME IInv, NEW t \in Threads, pc[t] \in {"idle", "rlock"}, RLock(t)
    PROVE  [Abstract!Next]_(Abstract!vars)
<1>0. pc \in [Threads -> Places] /\ (~writing_ => At("drain") \cup At("writing") = {})
  BY DEF IInv, TypeOK, WritingOwned
<1>1. CASE pc' = [pc EXCEPT ![t] = "rlock"]
  <2>1. /\ At("reading")' = At("reading")
        /\ At("drain")' = At("drain") /\ At("writing")' = At("writing")
    BY <1>0, <1>1 DEF At, Places
  <2> QED
    BY <2>1 DEF Abstract!vars
<1>2. CASE ~writing_ /\ pc' = [pc EXCEPT ![t] = "reading"]
  <2>1. /\ At("reading")' = At("reading") \cup {t} /\ t \notin At("reading")
        /\ At("drain")' = At("drain") /\ At("writing")' = At("writing")
    BY <1>0, <1>2 DEF At, Places
  <2>2. Abstract!AcquireRead(t)
    BY <1>0, <1>2, <2>1 DEF Abstract!AcquireRead
  <2> QED
    BY <2>2 DEF Abstract!Next
<1> QED
  BY <1>1, <1>2 DEF RLock, RLockPass

\* RUnlock is ReleaseRead.
LEMMA RUnlockRefines ==
    ASSUME IInv, NEW t \in Threads, RUnlock(t)
    PROVE  Abstract!Next
<1>1. /\ t \in At("reading")
      /\ At("reading")' = At("reading") \ {t}
      /\ At("drain")' = At("drain") /\ At("writing")' = At("writing")
  BY DEF IInv, TypeOK, RUnlock, RUnlockAt, At, Places
<1>2. Abstract!ReleaseRead(t)
  BY <1>1 DEF Abstract!ReleaseRead
<1> QED
  BY <1>2 DEF Abstract!Next

\* The first visit to the second loop of WLock is Claim.
LEMMA ClaimRefines ==
    ASSUME IInv, NEW t \in Threads, pc[t] \in {"idle", "wlock"}, ~writing_, Drain(t)
    PROVE  Abstract!Next
<1>0. /\ pc \in [Threads -> Places]
      /\ At("drain") = {} /\ At("writing") = {}
      /\ t \notin At("reading")
  BY DEF IInv, TypeOK, WritingOwned, At
<1>1. At("reading") = {} <=> reader_count_ = 0
  BY ReadersFinite DEF IInv, CountExact
<1>2. CASE reader_count_ > 0 /\ pc' = [pc EXCEPT ![t] = "drain"]
  <2>1. /\ At("reading")' = At("reading")
        /\ At("drain")' = {t} /\ At("writing")' = {}
    BY <1>0, <1>2 DEF At, Places
  <2>2. Abstract!Claim(t)
    BY <1>0, <1>1, <1>2, <2>1 DEF Abstract!Claim
  <2> QED
    BY <2>2 DEF Abstract!Next
<1>3. CASE reader_count_ = 0 /\ pc' = [pc EXCEPT ![t] = "writing"]
  <2>1. /\ At("reading")' = At("reading")
        /\ At("drain")' = {} /\ At("writing")' = {t}
    BY <1>0, <1>3 DEF At, Places
  <2>2. Abstract!Claim(t)
    BY <1>0, <1>1, <1>3, <2>1 DEF Abstract!Claim
  <2> QED
    BY <2>2 DEF Abstract!Next
<1> QED
  BY <1>2, <1>3 DEF Drain

\* A later visit is Enter, or invisible.
LEMMA EnterRefines ==
    ASSUME IInv, NEW t \in Threads, pc[t] = "drain", Drain(t)
    PROVE  [Abstract!Next]_(Abstract!vars)
<1>0. /\ pc \in [Threads -> Places]
      /\ At("drain") = {t} /\ At("writing") = {}
  BY DEF IInv, TypeOK, WritingOwned, At
<1>1. At("reading") = {} <=> reader_count_ = 0
  BY ReadersFinite DEF IInv, CountExact
<1>2. CASE pc' = [pc EXCEPT ![t] = "drain"]
  <2>1. /\ At("reading")' = At("reading")
        /\ At("drain")' = At("drain") /\ At("writing")' = At("writing")
    BY <1>0, <1>2 DEF At, Places
  <2> QED
    BY <2>1 DEF Abstract!vars
<1>3. CASE reader_count_ = 0 /\ pc' = [pc EXCEPT ![t] = "writing"]
  <2>1. /\ At("reading")' = At("reading")
        /\ At("drain")' = {} /\ At("writing")' = {t}
    BY <1>0, <1>3 DEF At, Places
  <2>2. Abstract!Enter(t)
    BY <1>0, <1>1, <1>3, <2>1 DEF Abstract!Enter
  <2> QED
    BY <2>2 DEF Abstract!Next
<1> QED
  BY <1>2, <1>3 DEF Drain

\* WULock is ReleaseWrite.
LEMMA WULockRefines ==
    ASSUME IInv, NEW t \in Threads, WULock(t)
    PROVE  Abstract!Next
<1>0. pc \in [Threads -> Places] /\ At("drain") = {} /\ At("writing") = {t}
  BY DEF IInv, TypeOK, WritingOwned, At, WULock, WULockWaking
<1>1. /\ At("reading")' = At("reading")
      /\ At("drain")' = {} /\ At("writing")' = {}
  BY <1>0 DEF WULock, WULockWaking, At, Places
<1>2. Abstract!ReleaseWrite(t)
  BY <1>0, <1>1 DEF Abstract!ReleaseWrite
<1> QED
  BY <1>2 DEF Abstract!Next

LEMMA NextRefines == IInv /\ [Next]_vars => [Abstract!Next]_(Abstract!vars)
<1> SUFFICES ASSUME IInv, [Next]_vars PROVE [Abstract!Next]_(Abstract!vars)
  OBVIOUS
<1>1. CASE UNCHANGED vars
  BY <1>1 DEF vars, Abstract!vars, At
<1>2. ASSUME NEW t \in Threads,
             Call(t) \/ Resume(t) \/ Unlock(t) \/ SpuriousWakeup(t)
      PROVE  [Abstract!Next]_(Abstract!vars)
  <2>1. CASE CallRLock(t) \/ ResumeRLock(t)
    BY <2>1, RLockRefines DEF CallRLock, ResumeRLock
  <2>2. CASE CallWLock(t) \/ ResumeWLock(t)
    <3>1. CASE writing_ /\ pc' = [pc EXCEPT ![t] = "wlock"]
      <4>1. pc \in [Threads -> Places] /\ pc[t] \in {"idle", "wlock"}
        BY <2>2 DEF IInv, TypeOK, CallWLock, ResumeWLock
      <4>2. /\ At("reading")' = At("reading")
            /\ At("drain")' = At("drain") /\ At("writing")' = At("writing")
        BY <3>1, <4>1 DEF At, Places
      <4> QED
        BY <4>2 DEF Abstract!vars
    <3>2. CASE ~writing_ /\ Drain(t)
      BY <2>2, <3>2, ClaimRefines DEF CallWLock, ResumeWLock
    <3> QED
      BY <2>2, <3>1, <3>2 DEF CallWLock, ResumeWLock, WLock
  <2>3. CASE ResumeDrain(t)
    BY <2>3, EnterRefines DEF ResumeDrain
  <2>4. CASE RUnlock(t)
    BY <2>4, RUnlockRefines
  <2>5. CASE WULock(t)
    BY <2>5, WULockRefines
  <2>6. CASE SpuriousWakeup(t)
    BY <2>6 DEF SpuriousWakeup, Abstract!vars, At
  <2> QED
    BY <1>2, <2>1, <2>2, <2>3, <2>4, <2>5, <2>6 DEF Call, Resume, Unlock
<1> QED
  BY <1>1, <1>2 DEF Next

\* RWLock implements the abstract readers/writer lock.
THEOREM Refinement == Spec => Implements
<1>1. Spec => Abstract!Init /\ [][Abstract!Next]_(Abstract!vars)
  BY InitRefines, NextRefines, IInvAlways, PTL DEF Spec
<1> QED
  BY <1>1 DEF Implements, Abstract!Spec

=============================================================================
