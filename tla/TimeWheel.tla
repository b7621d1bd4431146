----------------------------- MODULE TimeWheel -----------------------------
(***************************************************************************)
(* class TimeWheel of codesnip/include/common/timer.h: N vectors of timers, *)
(* a current slot, and a number of further rotations in each timer.        *)
(*                                                                         *)
(* Tick is modelled entry by entry, with its iterator, because the callback *)
(* of a timer runs inside the loop and may itself add and delete timers.    *)
(* What such a callback may do is the client's side of the contract: it     *)
(* leaves the vector being iterated alone (a push_back or an erase there     *)
(* invalidates the iterator), so a timeout it asks for is no multiple of N. *)
(* Nobody deletes a timer that has fired: the object is gone.               *)
(* Timeouts are small enough for timeout / N to fit an int.                 *)
(***************************************************************************)
EXTENDS Integers, Sequences

CONSTANTS
    N,         \* nslosts_
    Timers,    \* names for Timer objects; free ones are reused
    Timeout,   \* the timeout asked for with each of them, in ticks
    None       \* no timer, no tick (used in the mapping to TimerQueue)

ASSUME NAssumption == N \in Nat \ {0}
ASSUME TimeoutAssumption == Timeout \in [Timers -> Nat]
ASSUME NoneAssumption == None \notin Int \cup Timers

VARIABLES
    curslot_,
    slots_,      \* the vector of each slot
    rotations_,  \* of each Timer object; 0 while it does not exist
    slot_,       \* of each Timer object; 0 while it does not exist
    leaked,      \* Timer objects taken out by DelTimer, which does not free them
    it,          \* Tick's iterator, as a position; 0 outside Tick
    calling      \* Tick is inside Active() of the timer at it

vars == <<curslot_, slots_, rotations_, slot_, leaked, it, calling>>

Slots == 0..(N - 1)

Elements(s) == {s[i] : i \in 1..Len(s)}

\* The timers in some vector, and the names no object has.
Armed == UNION {Elements(slots_[s]) : s \in Slots}
Free == Timers \ (Armed \cup leaked)

\* vector::erase of the element at position i.
Erase(s, i) == [k \in 1..(Len(s) - 1) |-> IF k < i THEN s[k] ELSE s[k + 1]]

\* The vector being iterated by Tick.
Current == slots_[curslot_]

Init ==
    /\ curslot_ = 0
    /\ slots_ = [s \in Slots |-> <<>>]
    /\ rotations_ = [t \in Timers |-> 0]
    /\ slot_ = [t \in Timers |-> 0]
    /\ leaked = {}
    /\ it = 0
    /\ calling = FALSE

-----------------------------------------------------------------------------
(* AddTimer and DelTimer, outside Tick or from a callback.                 *)

SlotOf(timeout) == (curslot_ + (timeout % N)) % N

\* The client may touch the vector of slot s now.
MayTouch(s) == it = 0 \/ (calling /\ s # curslot_)

\* Mutant: a timeout of a whole number of turns waits one turn less.
AddTimerShort(t) ==
    LET slot == SlotOf(Timeout[t]) IN
    /\ t \in Free
    /\ MayTouch(slot)
    /\ slots_' = [slots_ EXCEPT ![slot] = Append(@, t)]
    /\ rotations_' = [rotations_ EXCEPT ![t] = IF Timeout[t] = 0 THEN 0 ELSE (Timeout[t] - 1) \div N]
    /\ slot_' = [slot_ EXCEPT ![t] = slot]
    /\ UNCHANGED <<curslot_, leaked, it, calling>>

AddTimer(t) ==
    LET slot == SlotOf(Timeout[t]) IN
    /\ t \in Free
    /\ MayTouch(slot)
    /\ slots_' = [slots_ EXCEPT ![slot] = Append(@, t)]
    /\ rotations_' = [rotations_ EXCEPT ![t] = Timeout[t] \div N]
    /\ slot_' = [slot_ EXCEPT ![t] = slot]
    /\ UNCHANGED <<curslot_, leaked, it, calling>>

\* A timer that is in the vector of its slot is taken out, and leaked.
DelTimer(t) ==
    /\ t \in Armed \cup leaked
    /\ MayTouch(slot_[t])
    /\ \/ \E i \in 1..Len(slots_[slot_[t]]) :
            /\ slots_[slot_[t]][i] = t
            /\ slots_' = [slots_ EXCEPT ![slot_[t]] = Erase(@, i)]
            /\ leaked' = leaked \cup {t}
       \/ /\ t \notin Elements(slots_[slot_[t]])
          /\ UNCHANGED <<slots_, leaked>>
    /\ UNCHANGED <<curslot_, rotations_, slot_, it, calling>>

-----------------------------------------------------------------------------
(* Tick                                                                    *)

BeginTick ==
    /\ it = 0
    /\ it' = 1
    /\ UNCHANGED <<curslot_, slots_, rotations_, slot_, leaked, calling>>

\* Mutant: the rotations are not counted down.
SkipEntryIdle ==
    /\ it \in 1..Len(Current) /\ ~calling
    /\ rotations_[Current[it]] > 0
    /\ it' = it + 1
    /\ UNCHANGED <<curslot_, slots_, rotations_, slot_, leaked, calling>>

\* The entry at the iterator has rotations left: one fewer, next entry.
SkipEntry ==
    /\ it \in 1..Len(Current) /\ ~calling
    /\ rotations_[Current[it]] > 0
    /\ rotations_' = [rotations_ EXCEPT ![Current[it]] = @ - 1]
    /\ it' = it + 1
    /\ UNCHANGED <<curslot_, slots_, slot_, leaked, calling>>

\* It has none: its function is called ...
Activate ==
    /\ it \in 1..Len(Current) /\ ~calling
    /\ rotations_[Current[it]] = 0
    /\ calling' = TRUE
    /\ UNCHANGED <<curslot_, slots_, rotations_, slot_, leaked, it>>

\* Mutant: the iterator is moved past the erased entry.
EraseEntryAdvance ==
    /\ calling
    /\ slots_' = [slots_ EXCEPT ![curslot_] = Erase(@, it)]
    /\ rotations_' = [rotations_ EXCEPT ![Current[it]] = 0]
    /\ slot_' = [slot_ EXCEPT ![Current[it]] = 0]
    /\ calling' = FALSE
    /\ it' = it + 1
    /\ UNCHANGED <<curslot_, leaked>>

\* Mutant: the object is deleted and its entry stays.
EraseEntryForgets ==
    /\ calling
    /\ rotations_' = [rotations_ EXCEPT ![Current[it]] = 0]
    /\ slot_' = [slot_ EXCEPT ![Current[it]] = 0]
    /\ calling' = FALSE
    /\ it' = it + 1
    /\ UNCHANGED <<curslot_, slots_, leaked>>

\* ... and returns: the entry is erased, the iterator is on the next one, and
\* the object is deleted.
EraseEntry ==
    /\ calling
    /\ slots_' = [slots_ EXCEPT ![curslot_] = Erase(@, it)]
    /\ rotations_' = [rotations_ EXCEPT ![Current[it]] = 0]
    /\ slot_' = [slot_ EXCEPT ![Current[it]] = 0]
    /\ calling' = FALSE
    /\ UNCHANGED <<curslot_, leaked, it>>

EndTick ==
    /\ it > Len(Current)
    /\ curslot_' = (curslot_ + 1) % N
    /\ it' = 0
    /\ UNCHANGED <<slots_, rotations_, slot_, leaked, calling>>

Tick == BeginTick \/ SkipEntry \/ Activate \/ EraseEntry \/ EndTick

Client == \E t \in Timers : AddTimer(t) \/ DelTimer(t)

Next == Client \/ Tick

Spec == Init /\ [][Next]_vars

-----------------------------------------------------------------------------
(* Properties                                                              *)

\* Types; the iterator is within the current vector or at its end, and inside a
\* callback it is on the timer being fired, which has no rotations left.
TypeOK ==
    /\ curslot_ \in Slots
    /\ slots_ \in [Slots -> Seq(Timers)]
    /\ rotations_ \in [Timers -> Nat]
    /\ slot_ \in [Timers -> Slots]
    /\ leaked \subseteq Timers
    /\ it \in 0..(Len(Current) + 1)
    /\ calling \in BOOLEAN
    /\ calling => it \in 1..Len(Current) /\ rotations_[Current[it]] = 0

\* Every vector holds only timers whose slot_ says so, each at one place, and
\* none that DelTimer has taken out: DelTimer finds what it looks for.
WheelConsistent ==
    \A s \in Slots : \A i \in 1..Len(slots_[s]) :
        /\ slot_[slots_[s][i]] = s
        /\ slots_[s][i] \notin leaked
        /\ \A j \in 1..Len(slots_[s]) : slots_[s][i] = slots_[s][j] => i = j

-----------------------------------------------------------------------------
(* The wheel implements TimerQueue.                                        *)

\* Ticks from slot c to slot s.
Dist(s, c) == IF s >= c THEN s - c ELSE s + N - c

\* The timers of the current vector this Tick has passed: their next turn counts
\* from the next tick.
Passed == {Current[i] : i \in 1..(it - 1)}

Left(t) ==
    IF t \notin Armed THEN None
    ELSE rotations_[t] * N + Dist(slot_[t], curslot_) + (IF t \in Passed THEN N ELSE 0)

Abstract == INSTANCE TimerQueue WITH
    left      <- [t \in Timers |-> Left(t)],
    active    <- IF calling THEN Current[it] ELSE None,
    cancelled <- leaked

\* A timer fires exactly on the tick its timeout asks for, never before and never
\* after, whatever is added, deleted or fired around it and in its callback.
Implements == Abstract!Spec
=============================================================================
