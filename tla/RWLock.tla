------------------------------- MODULE RWLock -------------------------------
(***************************************************************************)
(* class RWLock of codesnip/include/common/rwlock.h: a readers/writer lock  *)
(* made of one mutex, two condition variables, a flag and a counter.        *)
(*                                                                         *)
(* mu_ is held from one wait to the next, so the code between two waits is  *)
(* one action.  A condition variable is the set of the threads blocked in   *)
(* its wait(): notify_one removes some member, notify_all all of them, and  *)
(* a thread may also leave spuriously.  A thread that has left still has to *)
(* take mu_ again and re-test its condition: that is its Resume action.     *)
(* reader_ is shared by the readers and by the writers queued behind        *)
(* another writer, as in the code.                                          *)
(***************************************************************************)
EXTENDS Naturals, FiniteSets, CondVar

CONSTANTS
    Threads,    \* the threads that share the lock
    MaxReader   \* max_reader, UINT_MAX: also the largest value of the counter

ASSUME ThreadsAssumption == IsFiniteSet(Threads)
ASSUME MaxReaderAssumption == MaxReader \in Nat \ {0}

VARIABLES
    writing_,       \* a writer owns the lock or waits for the readers to leave
    reader_count_,  \* uint32_t
    reader_,        \* threads blocked in reader_.wait
    writer_,        \* threads blocked in writer_.wait
    pc              \* where each thread is, see Places

vars == <<writing_, reader_count_, reader_, writer_, pc>>

\* "rlock": in the loop of RLock; "wlock": in the first loop of WLock;
\* "drain": in its second loop, writing_ already set.
Places == {"idle", "rlock", "reading", "wlock", "drain", "writing"}

At(place) == {t \in Threads : pc[t] = place}

\* The counter is unsigned: it wraps at both ends.
Increment(c) == IF c = MaxReader THEN 0 ELSE c + 1
Decrement(c) == IF c = 0 THEN MaxReader ELSE c - 1

Init ==
    /\ writing_ = FALSE
    /\ reader_count_ = 0
    /\ reader_ = {}
    /\ writer_ = {}
    /\ pc = [t \in Threads |-> "idle"]

-----------------------------------------------------------------------------
(* RLock and RUnlock                                                       *)

\* Mutant: a reader that must wait does so on writer_.
RLockWaitsOnWriter(t, mustWait) ==
    \/ /\ mustWait
       /\ writer_' = writer_ \cup {t}
       /\ pc' = [pc EXCEPT ![t] = "rlock"]
       /\ UNCHANGED <<writing_, reader_count_, reader_>>
    \/ /\ ~mustWait
       /\ reader_count_' = Increment(reader_count_)
       /\ pc' = [pc EXCEPT ![t] = "reading"]
       /\ UNCHANGED <<writing_, reader_, writer_>>

\* One pass of RLock, from taking mu_ to the next wait or to the return.
RLockPass(t, mustWait) ==
    \/ /\ mustWait
       /\ reader_' = reader_ \cup {t}
       /\ pc' = [pc EXCEPT ![t] = "rlock"]
       /\ UNCHANGED <<writing_, reader_count_, writer_>>
    \/ /\ ~mustWait
       /\ reader_count_' = Increment(reader_count_)
       /\ pc' = [pc EXCEPT ![t] = "reading"]
       /\ UNCHANGED <<writing_, reader_, writer_>>

\* Mutants of RLock: without the writing_ test, and without the max_reader test.
RLockIgnoresWriter(t) == RLockPass(t, reader_count_ >= MaxReader)
RLockUnbounded(t) == RLockPass(t, writing_)

\* Mutant of RLock: while readers are inside, one more may always join them.
RLockBarges(t) ==
    RLockPass(t, (writing_ /\ reader_count_ = 0) \/ reader_count_ >= MaxReader)

RLock(t) == RLockPass(t, writing_ \/ reader_count_ >= MaxReader)

CallRLock(t) == pc[t] = "idle" /\ RLock(t)

ResumeRLock(t) == pc[t] = "rlock" /\ t \notin reader_ /\ RLock(t)

\* RUnlock with the counter values at which it notifies as parameters.
RUnlockAt(t, last, room) ==
    /\ pc[t] = "reading"
    /\ pc' = [pc EXCEPT ![t] = "idle"]
    /\ reader_count_' = Decrement(reader_count_)
    /\ \/ /\ writing_ /\ reader_count_' = last
          /\ writer_' \in NotifyOne(writer_)
          /\ UNCHANGED reader_
       \/ /\ ~writing_ /\ reader_count_' = room
          /\ reader_' \in NotifyOne(reader_)
          /\ UNCHANGED writer_
       \/ /\ reader_count_' # IF writing_ THEN last ELSE room
          /\ UNCHANGED <<reader_, writer_>>
    /\ UNCHANGED writing_

\* Mutant: the writer is woken one reader early.
RUnlockEarly(t) == RUnlockAt(t, 1, MaxReader - 1)

\* The last reader out wakes a writer that waits for the readers; with no
\* writer about, leaving a full lock wakes one waiter of reader_.
RUnlock(t) == RUnlockAt(t, 0, MaxReader - 1)

-----------------------------------------------------------------------------
(* WLock and WULock                                                        *)

\* The second loop of WLock, entered with writing_ set.
Drain(t) ==
    \/ /\ reader_count_ > 0
       /\ writer_' = writer_ \cup {t}
       /\ pc' = [pc EXCEPT ![t] = "drain"]
    \/ /\ reader_count_ = 0
       /\ pc' = [pc EXCEPT ![t] = "writing"]
       /\ UNCHANGED writer_

\* One pass of WLock, from taking mu_ to the next wait or to the return.
WLock(t) ==
    \/ /\ writing_
       /\ reader_' = reader_ \cup {t}
       /\ pc' = [pc EXCEPT ![t] = "wlock"]
       /\ UNCHANGED <<writing_, reader_count_, writer_>>
    \/ /\ ~writing_
       /\ writing_' = TRUE
       /\ Drain(t)
       /\ UNCHANGED <<reader_count_, reader_>>

CallWLock(t) == pc[t] = "idle" /\ WLock(t)

ResumeWLock(t) == pc[t] = "wlock" /\ t \notin reader_ /\ WLock(t)

ResumeDrain(t) ==
    /\ pc[t] = "drain" /\ t \notin writer_
    /\ Drain(t)
    /\ UNCHANGED <<writing_, reader_count_, reader_>>

\* WULock with the outcomes of its notification as a parameter.
WULockWaking(t, outcomes) ==
    /\ pc[t] = "writing"
    /\ writing_' = FALSE
    /\ reader_' \in outcomes
    /\ pc' = [pc EXCEPT ![t] = "idle"]
    /\ UNCHANGED <<reader_count_, writer_>>

\* Mutant: notify_one in place of notify_all.
WULockNotifyOne(t) == WULockWaking(t, NotifyOne(reader_))

WULock(t) == WULockWaking(t, {{}})

-----------------------------------------------------------------------------

\* A condition variable may release a waiter nobody notified.
SpuriousWakeup(t) ==
    /\ t \in reader_ \cup writer_
    /\ reader_' = reader_ \ {t}
    /\ writer_' = writer_ \ {t}
    /\ UNCHANGED <<writing_, reader_count_, pc>>

Call(t) == CallRLock(t) \/ CallWLock(t)

Resume(t) == ResumeRLock(t) \/ ResumeWLock(t) \/ ResumeDrain(t)

Unlock(t) == RUnlock(t) \/ WULock(t)

Next == \E t \in Threads : Call(t) \/ Resume(t) \/ Unlock(t) \/ SpuriousWakeup(t)

Spec == Init /\ [][Next]_vars

\* A woken thread gets mu_ eventually, and a client that holds the lock gives
\* it back.  No thread is obliged to call, and no wakeup is spurious by right.
Fairness == \A t \in Threads : WF_vars(Resume(t)) /\ WF_vars(Unlock(t))

FairSpec == Spec /\ Fairness

-----------------------------------------------------------------------------
(* Properties                                                              *)

\* Every variable keeps its declared type; a waiter is inside the matching call.
TypeOK ==
    /\ writing_ \in BOOLEAN
    /\ reader_count_ \in 0..MaxReader
    /\ pc \in [Threads -> Places]
    /\ reader_ \subseteq At("rlock") \cup At("wlock")
    /\ writer_ \subseteq At("drain")

\* Between WLock and WULock a thread is alone: no second writer and no reader,
\* whatever the order of wakeups and whichever loop each waiter is in.
MutualExclusion ==
    \A w \in At("writing") :
        /\ At("writing") = {w}
        /\ At("reading") = {}

\* reader_count_ counts the threads between RLock and RUnlock: it neither
\* drifts nor wraps.
CountExact == reader_count_ = Cardinality(At("reading"))

\* writing_ is set exactly while one thread owns or drains the lock.
WritingOwned ==
    /\ writing_ <=> At("drain") \cup At("writing") # {}
    /\ \A t, u \in At("drain") \cup At("writing") : t = u

\* No lost wakeup: a thread sleeps only while what it waits for has not come.
\* A drainer sleeps only while a reader is inside; a waiter of reader_ sleeps
\* only while a writer is about or the lock is full.  (The second half is for up to
\* max_reader + 1 threads: with more of them the one wakeup of RUnlock at a full
\* lock is not enough when two readers leave in turn.)
NoLostWakeup ==
    /\ writer_ # {} => reader_count_ > 0
    /\ Cardinality(Threads) <= MaxReader + 1 =>
        (reader_ # {} => writing_ \/ reader_count_ = MaxReader)

\* A writer that has set writing_ gets the lock, although readers and writers
\* keep calling: new readers are kept out.
WriterDrains == \A t \in Threads : pc[t] = "drain" ~> pc[t] = "writing"

\* If the threads stop making new calls, every blocked RLock and WLock returns.
EveryCallReturns ==
    <>[][\A t \in Threads : ~Call(t)]_vars =>
        \A t \in Threads :
            /\ pc[t] = "rlock" ~> pc[t] = "reading"
            /\ pc[t] = "wlock" ~> pc[t] = "writing"

-----------------------------------------------------------------------------
(* The lock implements the abstract readers/writer lock.                   *)

Abstract == INSTANCE ReadersWriters WITH
    readers <- At("reading"),
    claim   <- At("drain") \cup At("writing"),
    writer  <- At("writing")

\* Every step of the code is a step of the abstract lock or invisible there.
Implements == Abstract!Spec
=============================================================================
