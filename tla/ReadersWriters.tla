--------------------------- MODULE ReadersWriters ---------------------------
(***************************************************************************)
(* What a client of RWLock may rely on, without the mutex, the counter and  *)
(* the two condition variables: who reads, who writes, and which thread has *)
(* claimed the lock for writing.  A claim closes the lock to new readers,   *)
(* so the readers inside only ever get fewer until the claimant enters.     *)
(***************************************************************************)
EXTENDS FiniteSets

CONSTANT Threads

VARIABLES
    readers,    \* the threads between RLock and RUnlock
    claim,      \* the thread, if any, that has closed the lock to readers
    writer      \* the thread, if any, between WLock and WULock

vars == <<readers, claim, writer>>

Init ==
    /\ readers = {}
    /\ claim = {}
    /\ writer = {}

\* A reader enters only while nobody has claimed the lock.
AcquireRead(t) ==
    /\ t \notin readers
    /\ claim = {}
    /\ readers' = readers \cup {t}
    /\ UNCHANGED <<claim, writer>>

ReleaseRead(t) ==
    /\ t \in readers
    /\ readers' = readers \ {t}
    /\ UNCHANGED <<claim, writer>>

\* A thread that is not itself reading claims the lock.  It enters at once
\* when there is no reader; otherwise it enters after the last one left.
Claim(t) ==
    /\ t \notin readers
    /\ claim = {}
    /\ claim' = {t}
    /\ writer' = IF readers = {} THEN {t} ELSE {}
    /\ UNCHANGED readers

Enter(t) ==
    /\ t \in claim
    /\ t \notin writer
    /\ readers = {}
    /\ writer' = {t}
    /\ UNCHANGED <<readers, claim>>

ReleaseWrite(t) ==
    /\ t \in writer
    /\ writer' = {}
    /\ claim' = {}
    /\ UNCHANGED readers

Next ==
    \E t \in Threads :
        \/ AcquireRead(t)
        \/ ReleaseRead(t)
        \/ Claim(t)
        \/ Enter(t)
        \/ ReleaseWrite(t)

Spec == Init /\ [][Next]_vars
=============================================================================
