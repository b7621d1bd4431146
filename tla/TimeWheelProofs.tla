-------------------------- MODULE TimeWheelProofs --------------------------
(***************************************************************************)
(* TimeWheel for any number of slots, timers and timeouts: types, the       *)
(* consistency of the vectors, and the refinement of TimerQueue.            *)
(***************************************************************************)
EXTENDS TimeWheel, SequenceTheorems, TLAPS

IInv == TypeOK /\ WheelConsistent

-----------------------------------------------------------------------------
(* Vectors.                                                                *)

\* Each entry of the vector occurs once.
Distinct(s) == \A i, j \in 1..Len(s) : s[i] = s[j] => i = j

LEMMA EraseFacts ==
    ASSUME NEW S, NEW s \in Seq(S), NEW i \in 1..Len(s)
    PROVE  /\ Erase(s, i) \in Seq(S)
           /\ Len(Erase(s, i)) = Len(s) - 1
           /\ \A k \in 1..(Len(s) - 1) :
                Erase(s, i)[k] = IF k < i THEN s[k] ELSE s[k + 1]
<1>1. Len(s) \in Nat /\ Len(s) - 1 \in Nat
  BY LenProperties
<1>2. \A k \in 1..(Len(s) - 1) : (IF k < i THEN s[k] ELSE s[k + 1]) \in S
  BY <1>1, ElementOfSeq
<1>3. Erase(s, i) \in Seq(S)
  BY <1>1, <1>2, IsASeq DEF Erase
<1>4. Erase(s, i) \in [1..(Len(s) - 1) -> S]
  BY <1>2 DEF Erase
<1>5. Len(Erase(s, i)) = Len(s) - 1
  BY <1>1, <1>3, <1>4, LenProperties
<1> QED
  BY <1>3, <1>5 DEF Erase

\* Erasing from a vector without repetitions removes that entry only, and the
\* entries before it keep their places.
LEMMA EraseElements ==
    ASSUME NEW S, NEW s \in Seq(S), NEW i \in 1..Len(s), Distinct(s)
    PROVE  /\ Distinct(Erase(s, i))
           /\ Elements(Erase(s, i)) = Elements(s) \ {s[i]}
           /\ \A k \in 1..(i - 1) : Erase(s, i)[k] = s[k]
<1> DEFINE e == Erase(s, i)
<1>0. /\ Len(s) \in Nat
      /\ Len(e) = Len(s) - 1
      /\ \A k \in 1..(Len(s) - 1) : e[k] = IF k < i THEN s[k] ELSE s[k + 1]
  BY EraseFacts, LenProperties
<1> HIDE DEF e
<1>1. Distinct(e)
  <2> SUFFICES ASSUME NEW j \in 1..Len(e), NEW k \in 1..Len(e), e[j] = e[k] PROVE j = k
    BY DEF Distinct
  <2>1. PICK p \in 1..Len(s) : p = (IF j < i THEN j ELSE j + 1) /\ e[j] = s[p]
    BY <1>0
  <2>2. PICK q \in 1..Len(s) : q = (IF k < i THEN k ELSE k + 1) /\ e[k] = s[q]
    BY <1>0
  <2>3. p = q
    BY <2>1, <2>2 DEF Distinct
  <2> QED
    BY <1>0, <2>1, <2>2, <2>3
<1>2. Elements(e) \subseteq Elements(s) \ {s[i]}
  <2> SUFFICES ASSUME NEW j \in 1..Len(e) PROVE e[j] \in Elements(s) /\ e[j] # s[i]
    BY DEF Elements
  <2>1. PICK p \in 1..Len(s) : p # i /\ e[j] = s[p]
    BY <1>0
  <2> QED
    BY <2>1 DEF Elements, Distinct
<1>3. Elements(s) \ {s[i]} \subseteq Elements(e)
  <2> SUFFICES ASSUME NEW p \in 1..Len(s), s[p] # s[i] PROVE s[p] \in Elements(e)
    BY DEF Elements
  <2>1. p # i
    OBVIOUS
  <2>2. CASE p < i
    <3>1. p \in 1..Len(e) /\ e[p] = s[p]
      BY <1>0, <2>2
    <3> QED
      BY <3>1 DEF Elements
  <2>3. CASE p > i
    <3>1. p - 1 \in 1..Len(e) /\ e[p - 1] = s[p]
      BY <1>0, <2>3
    <3> QED
      BY <3>1 DEF Elements
  <2> QED
    BY <1>0, <2>1, <2>2, <2>3
<1>4. \A k \in 1..(i - 1) : e[k] = s[k]
  BY <1>0
<1> QED
  BY <1>1, <1>2, <1>3, <1>4 DEF e

\* push_back of a new entry adds it and keeps every other in its place.
LEMMA AppendElements ==
    ASSUME NEW S, NEW s \in Seq(S), NEW t \in S, t \notin Elements(s), Distinct(s)
    PROVE  /\ Append(s, t) \in Seq(S)
           /\ Distinct(Append(s, t))
           /\ Elements(Append(s, t)) = Elements(s) \cup {t}
<1>0. /\ Append(s, t) \in Seq(S)
      /\ Len(s) \in Nat
      /\ Len(Append(s, t)) = Len(s) + 1
      /\ \A k \in 1..Len(s) : Append(s, t)[k] = s[k]
      /\ Append(s, t)[Len(s) + 1] = t
  BY AppendProperties, LenProperties
<1>1. \A k \in 1..Len(s) : s[k] # t
  BY DEF Elements
<1>2. Distinct(Append(s, t))
  BY <1>0, <1>1 DEF Distinct
<1>3. Elements(Append(s, t)) = Elements(s) \cup {t}
  BY <1>0 DEF Elements
<1> QED
  BY <1>0, <1>2, <1>3

-----------------------------------------------------------------------------
(* The wheel in terms of which timers each vector holds.                   *)

Holds(s, t) == t \in Elements(slots_[s])

LEMMA Consistency ==
    WheelConsistent <=>
        \A s \in Slots :
            /\ Distinct(slots_[s])
            /\ \A t : Holds(s, t) => slot_[t] = s /\ t \notin leaked
BY DEF WheelConsistent, Distinct, Holds, Elements

\* A timer is in the vector of its slot_ or in none.
LEMMA ArmedAt ==
    ASSUME WheelConsistent, NEW t
    PROVE  t \in Armed <=> \E s \in Slots : Holds(s, t)
BY DEF Armed, Holds

LEMMA CurrentFacts ==
    ASSUME TypeOK
    PROVE  /\ Current \in Seq(Timers)
           /\ Len(Current) \in Nat
           /\ \A i \in 1..Len(Current) : Current[i] \in Timers /\ Holds(curslot_, Current[i])
<1>1. Current \in Seq(Timers) /\ curslot_ \in Slots
  BY DEF TypeOK, Current
<1>2. Len(Current) \in Nat /\ \A i \in 1..Len(Current) : Current[i] \in Timers
  BY <1>1, LenProperties, ElementOfSeq
<1> QED
  BY <1>1, <1>2 DEF Holds, Elements, Current

LEMMA SlotType ==
    ASSUME TypeOK, NEW n \in Nat
    PROVE  /\ (curslot_ + (n % N)) % N \in Slots
           /\ (curslot_ + 1) % N \in Slots
BY NAssumption DEF TypeOK, Slots

-----------------------------------------------------------------------------
(* The invariant, action by action.                                        *)

LEMMA InitIInv == Init => IInv
<1> SUFFICES ASSUME Init PROVE IInv
  OBVIOUS
<1>1. 0 \in Slots
  BY NAssumption DEF Slots
<1>2. <<>> \in Seq(Timers) /\ Len(<<>>) = 0
  BY EmptySeq, LenProperties
<1>3. Current = <<>>
  BY <1>1 DEF Init, Current
<1>4. TypeOK
  <2>1. slots_ \in [Slots -> Seq(Timers)]
    BY <1>2 DEF Init
  <2>2. rotations_ \in [Timers -> Nat] /\ slot_ \in [Timers -> Slots]
    BY <1>1 DEF Init
  <2>3. it \in 0..(Len(Current) + 1)
    BY <1>2, <1>3 DEF Init
  <2> QED
    BY <1>1, <2>1, <2>2, <2>3 DEF Init, TypeOK
<1>5. WheelConsistent
  BY <1>2 DEF Init, WheelConsistent
<1> QED
  BY <1>4, <1>5 DEF IInv

\* AddTimer appends a new name to one vector; inside Tick, not to the current.
LEMMA AddTimerStep ==
    ASSUME IInv, NEW t \in Timers, AddTimer(t)
    PROVE  /\ IInv'
           /\ \A s \in Slots : \A u : Holds(s, u)' <=> Holds(s, u) \/ (u = t /\ s = slot_'[t])
           /\ slot_'[t] = SlotOf(Timeout[t])
           /\ it # 0 => Current' = Current
<1> DEFINE n == SlotOf(Timeout[t])
<1>0. /\ TypeOK /\ WheelConsistent
      /\ t \notin Armed /\ t \notin leaked
      /\ MayTouch(n)
      /\ slots_' = [slots_ EXCEPT ![n] = Append(@, t)]
      /\ rotations_' = [rotations_ EXCEPT ![t] = Timeout[t] \div N]
      /\ slot_' = [slot_ EXCEPT ![t] = n]
      /\ UNCHANGED <<curslot_, leaked, it, calling>>
  BY DEF IInv, AddTimer, Free
<1>1. n \in Slots /\ Timeout[t] \div N \in Nat
  BY <1>0, SlotType, TimeoutAssumption, NAssumption, SMTT(30) DEF SlotOf
<1> HIDE DEF n
<1>2. \A s \in Slots : ~Holds(s, t)
  BY <1>0, ArmedAt
<1>3. slots_[n] \in Seq(Timers) /\ Distinct(slots_[n])
  BY <1>0, <1>1, Consistency DEF TypeOK
<1>4. /\ slots_'[n] \in Seq(Timers) /\ Distinct(slots_'[n])
      /\ Elements(slots_'[n]) = Elements(slots_[n]) \cup {t}
      /\ \A s \in Slots : s # n => slots_'[s] = slots_[s]
  <2>1. slots_'[n] = Append(slots_[n], t) /\ \A s \in Slots : s # n => slots_'[s] = slots_[s]
    BY <1>0, <1>1 DEF TypeOK
  <2> QED
    BY <1>1, <1>2, <1>3, <2>1, AppendElements DEF Holds
<1>5. \A u \in Timers : slot_'[u] = IF u = t THEN n ELSE slot_[u]
  BY <1>0, <1>1 DEF TypeOK
<1>6. \A s \in Slots : \A u : Holds(s, u)' <=> Holds(s, u) \/ (u = t /\ s = n)
  BY <1>4 DEF Holds
<1>7. it # 0 => Current' = Current
  BY <1>0, <1>1, <1>4 DEF MayTouch, Current, TypeOK
<1>8. TypeOK'
  <2>1. slots_' \in [Slots -> Seq(Timers)]
    BY <1>0, <1>1, <1>3, AppendElements, <1>2 DEF TypeOK, Holds
  <2>2. rotations_' \in [Timers -> Nat] /\ slot_' \in [Timers -> Slots]
    BY <1>0, <1>1 DEF TypeOK
  <2>3. it' \in 0..(Len(Current') + 1)
    <3>1. CASE it = 0
      <4>1. Current' \in Seq(Timers)
        BY <1>0, <2>1 DEF Current, TypeOK
      <4>2. Len(Current') \in Nat
        BY <4>1, LenProperties
      <4> QED
        BY <1>0, <3>1, <4>2
    <3>2. CASE it # 0
      BY <1>0, <1>7, <3>2 DEF TypeOK
    <3> QED
      BY <3>1, <3>2
  <2>4. calling' => it' \in 1..Len(Current') /\ rotations_'[Current'[it']] = 0
    <3> SUFFICES ASSUME calling PROVE it \in 1..Len(Current') /\ rotations_'[Current'[it]] = 0
      BY <1>0
    <3>1. it \in 1..Len(Current) /\ rotations_[Current[it]] = 0 /\ Current' = Current
      BY <1>0, <1>7 DEF TypeOK
    <3>2. Current[it] \in Timers /\ Current[it] # t
      BY <1>0, <1>2, <3>1, CurrentFacts DEF TypeOK
    <3> QED
      BY <1>0, <3>1, <3>2 DEF TypeOK
  <2> QED
    BY <1>0, <2>1, <2>2, <2>3, <2>4 DEF TypeOK
<1>9. WheelConsistent'
  <2>1. \A s \in Slots : Distinct(slots_'[s])
    BY <1>0, <1>4, Consistency
  <2>2. ASSUME NEW s \in Slots, NEW u, Holds(s, u)' PROVE slot_'[u] = s /\ u \notin leaked'
    <3>1. CASE u = t /\ s = n
      BY <1>0, <1>5, <3>1
    <3>2. CASE Holds(s, u)
      <4>1. slot_[u] = s /\ u \notin leaked /\ u # t
        BY <1>0, <1>2, <3>2, Consistency
      <4>2. u \in Timers
        BY <1>0, <3>2, ElementOfSeq DEF Holds, Elements, TypeOK
      <4> QED
        BY <1>0, <1>5, <4>1, <4>2
    <3> QED
      BY <1>6, <2>2, <3>1, <3>2
  <2> QED
    BY <2>1, <2>2 DEF WheelConsistent, Distinct, Holds, Elements
<1> QED
  BY <1>1, <1>5, <1>6, <1>7, <1>8, <1>9 DEF IInv, n

\* What an erase does to the wheel.
LEMMA EraseFromWheel ==
    ASSUME IInv, NEW s \in Slots, NEW i \in 1..Len(slots_[s]),
           slots_' = [slots_ EXCEPT ![s] = Erase(@, i)]
    PROVE  /\ slots_' \in [Slots -> Seq(Timers)]
           /\ slots_[s][i] \in Timers
           /\ \A r \in Slots : Distinct(slots_'[r])
           /\ \A r \in Slots : \A u : Holds(r, u)' <=> Holds(r, u) /\ u # slots_[s][i]
           /\ \A r \in Slots : r # s => slots_'[r] = slots_[r]
           /\ Len(slots_[s]) \in Nat
           /\ Len(slots_'[s]) = Len(slots_[s]) - 1
           /\ \A k \in 1..(i - 1) : slots_'[s][k] = slots_[s][k]
<1>0. /\ slots_ \in [Slots -> Seq(Timers)]
      /\ slots_[s] \in Seq(Timers) /\ Distinct(slots_[s])
  BY Consistency DEF IInv, TypeOK
<1>1. /\ slots_'[s] = Erase(slots_[s], i)
      /\ \A r \in Slots : r # s => slots_'[r] = slots_[r]
  BY <1>0
<1>2. /\ slots_'[s] \in Seq(Timers)
      /\ Len(slots_'[s]) = Len(slots_[s]) - 1
      /\ Distinct(slots_'[s])
      /\ Elements(slots_'[s]) = Elements(slots_[s]) \ {slots_[s][i]}
      /\ \A k \in 1..(i - 1) : slots_'[s][k] = slots_[s][k]
  BY <1>0, <1>1, EraseFacts, EraseElements
<1>3. slots_' \in [Slots -> Seq(Timers)]
  BY <1>0, <1>1, <1>2
<1>4. slots_[s][i] \in Timers /\ Len(slots_[s]) \in Nat
  BY <1>0, ElementOfSeq, LenProperties
<1>5. \A r \in Slots : Distinct(slots_'[r])
  BY <1>1, <1>2, Consistency DEF IInv
<1>6. ASSUME NEW r \in Slots, NEW u
      PROVE  Holds(r, u)' <=> Holds(r, u) /\ u # slots_[s][i]
  <2>1. CASE r = s
    BY <1>2, <2>1 DEF Holds
  <2>2. CASE r # s
    <3>1. Holds(s, slots_[s][i])
      BY DEF Holds, Elements
    <3>2. Holds(r, u) => u # slots_[s][i]
      BY <2>2, <3>1, Consistency DEF IInv
    <3> QED
      BY <1>1, <2>2, <3>2 DEF Holds
  <2> QED
    BY <2>1, <2>2
<1> QED
  BY <1>1, <1>2, <1>3, <1>4, <1>5, <1>6

\* DelTimer takes t out of the vector of its slot, or finds nothing to do.
LEMMA DelTimerStep ==
    ASSUME IInv, NEW t \in Timers, DelTimer(t)
    PROVE  /\ IInv'
           /\ \/ /\ t \in Armed /\ leaked' = leaked \cup {t}
                 /\ \A s \in Slots : \A u : Holds(s, u)' <=> Holds(s, u) /\ u # t
                 /\ calling => t # Current[it]
              \/ UNCHANGED vars
           /\ it # 0 => Current' = Current
<1>0. /\ TypeOK /\ WheelConsistent
      /\ slot_[t] \in Slots
      /\ MayTouch(slot_[t])
      /\ UNCHANGED <<curslot_, rotations_, slot_, it, calling>>
  BY DEF IInv, DelTimer, TypeOK
<1>1. CASE UNCHANGED <<slots_, leaked>>
  BY <1>0, <1>1 DEF vars, IInv, TypeOK, WheelConsistent, Current
<1>2. ASSUME NEW i \in 1..Len(slots_[slot_[t]]),
             slots_[slot_[t]][i] = t,
             slots_' = [slots_ EXCEPT ![slot_[t]] = Erase(@, i)],
             leaked' = leaked \cup {t}
      PROVE  /\ IInv'
             /\ t \in Armed /\ leaked' = leaked \cup {t}
             /\ \A s \in Slots : \A u : Holds(s, u)' <=> Holds(s, u) /\ u # t
             /\ calling => t # Current[it]
             /\ it # 0 => Current' = Current
  <2>1. /\ slots_' \in [Slots -> Seq(Timers)]
        /\ \A r \in Slots : Distinct(slots_'[r])
        /\ \A s \in Slots : \A u : Holds(s, u)' <=> Holds(s, u) /\ u # t
        /\ \A r \in Slots : r # slot_[t] => slots_'[r] = slots_[r]
    <3>1. PICK s \in Slots : s = slot_[t]
      BY <1>0
    <3>2. i \in 1..Len(slots_[s]) /\ slots_' = [slots_ EXCEPT ![s] = Erase(@, i)] /\ slots_[s][i] = t
      BY <1>2, <3>1
    <3>3. /\ slots_' \in [Slots -> Seq(Timers)]
          /\ \A r \in Slots : Distinct(slots_'[r])
          /\ \A r \in Slots : \A u : Holds(r, u)' <=> Holds(r, u) /\ u # slots_[s][i]
          /\ \A r \in Slots : r # s => slots_'[r] = slots_[r]
      BY <3>2, EraseFromWheel
    <3> QED
      BY <3>1, <3>2, <3>3
  <2>2. Holds(slot_[t], t)
    BY <1>2 DEF Holds, Elements
  <2>3. t \in Armed
    BY <1>0, <2>2, ArmedAt
  <2>4. it # 0 => Current' = Current
    BY <1>0, <2>1 DEF MayTouch, Current, TypeOK
  <2>5. calling => t # Current[it]
    <3> SUFFICES ASSUME calling, t = Current[it] PROVE FALSE
      OBVIOUS
    <3>1. Holds(curslot_, t) /\ curslot_ \in Slots /\ it # 0
      BY <1>0, CurrentFacts, SMTT(30) DEF TypeOK
    <3>2. slot_[t] = curslot_
      BY <1>0, <3>1, Consistency
    <3> QED
      BY <1>0, <3>1, <3>2 DEF MayTouch
  <2>6. TypeOK'
    <3>1. it' \in 0..(Len(Current') + 1)
      <4>1. CASE it = 0
        <5>1. Len(Current') \in Nat
          BY <1>0, <2>1, LenProperties DEF Current, TypeOK
        <5> QED
          BY <1>0, <4>1, <5>1
      <4>2. CASE it # 0
        BY <1>0, <2>4, <4>2 DEF TypeOK
      <4> QED
        BY <4>1, <4>2
    <3>2. calling' => it' \in 1..Len(Current') /\ rotations_'[Current'[it']] = 0
      <4> SUFFICES ASSUME calling PROVE it \in 1..Len(Current') /\ rotations_[Current'[it]] = 0
        BY <1>0
      <4>1. it # 0
        BY <1>0 DEF TypeOK
      <4> QED
        BY <1>0, <2>4, <4>1 DEF TypeOK
    <3> QED
      BY <1>0, <1>2, <2>1, <3>1, <3>2 DEF TypeOK
  <2>7. WheelConsistent'
    <3>1. \A s \in Slots : \A u : Holds(s, u)' => slot_'[u] = s /\ u \notin leaked'
      BY <1>0, <1>2, <2>1, Consistency
    <3> QED
      BY <2>1, <3>1 DEF WheelConsistent, Distinct, Holds, Elements
  <2> QED
    BY <1>2, <2>1, <2>3, <2>4, <2>5, <2>6, <2>7 DEF IInv
<1> QED
  BY <1>0, <1>1, <1>2 DEF DelTimer, vars

LEMMA BeginTickStep ==
    ASSUME IInv, BeginTick
    PROVE  IInv'
<1>1. /\ it' = 1 /\ UNCHANGED <<curslot_, slots_, rotations_, slot_, leaked, calling>>
      /\ Current' = Current /\ ~calling
  BY DEF BeginTick, Current, IInv, TypeOK
<1>2. it' \in 0..(Len(Current') + 1)
  BY <1>1, CurrentFacts DEF IInv
<1> QED
  BY <1>1, <1>2 DEF IInv, TypeOK, WheelConsistent

LEMMA SkipEntryStep ==
    ASSUME IInv, SkipEntry
    PROVE  IInv'
<1>1. /\ it \in 1..Len(Current) /\ ~calling
      /\ rotations_[Current[it]] > 0
      /\ rotations_' = [rotations_ EXCEPT ![Current[it]] = @ - 1]
      /\ it' = it + 1
      /\ UNCHANGED <<curslot_, slots_, slot_, leaked, calling>>
      /\ Current' = Current
  BY DEF SkipEntry, Current
<1>2. Current[it] \in Timers /\ Len(Current) \in Nat
  BY <1>1, CurrentFacts DEF IInv
<1>3. rotations_' \in [Timers -> Nat]
  BY <1>1, <1>2 DEF IInv, TypeOK
<1>4. it' \in 0..(Len(Current') + 1)
  BY <1>1, <1>2
<1> QED
  BY <1>1, <1>3, <1>4 DEF IInv, TypeOK, WheelConsistent

LEMMA ActivateStep ==
    ASSUME IInv, Activate
    PROVE  IInv'
<1>1. Current' = Current
  BY DEF Activate, Current
<1> QED
  BY <1>1 DEF Activate, IInv, TypeOK, WheelConsistent

\* The fired timer leaves the wheel; the entries before the iterator stay.
LEMMA EraseEntryStep ==
    ASSUME IInv, EraseEntry
    PROVE  /\ IInv'
           /\ \A s \in Slots : \A u : Holds(s, u)' <=> Holds(s, u) /\ u # Current[it]
           /\ \A k \in 1..(it - 1) : Current'[k] = Current[k]
<1>0. /\ TypeOK /\ WheelConsistent /\ calling
      /\ curslot_ \in Slots /\ it \in 1..Len(slots_[curslot_])
      /\ slots_' = [slots_ EXCEPT ![curslot_] = Erase(@, it)]
      /\ rotations_' = [rotations_ EXCEPT ![Current[it]] = 0]
      /\ slot_' = [slot_ EXCEPT ![Current[it]] = 0]
      /\ calling' = FALSE
      /\ UNCHANGED <<curslot_, leaked, it>>
  BY DEF IInv, TypeOK, EraseEntry, Current
<1>1. /\ slots_' \in [Slots -> Seq(Timers)]
      /\ Current[it] \in Timers
      /\ \A r \in Slots : Distinct(slots_'[r])
      /\ \A s \in Slots : \A u : Holds(s, u)' <=> Holds(s, u) /\ u # Current[it]
      /\ Len(Current) \in Nat
      /\ Len(Current') = Len(Current) - 1
      /\ \A k \in 1..(it - 1) : Current'[k] = Current[k]
  BY <1>0, EraseFromWheel DEF Current
<1>2. TypeOK'
  <2>1. rotations_' \in [Timers -> Nat]
    BY <1>0, <1>1 DEF TypeOK
  <2>2. slot_' \in [Timers -> Slots]
    <3>1. 0 \in Slots
      BY NAssumption DEF Slots
    <3> QED
      BY <1>0, <1>1, <3>1 DEF TypeOK
  <2>3. it' \in 0..(Len(Current') + 1)
    BY <1>0, <1>1 DEF Current
  <2> QED
    BY <1>0, <1>1, <2>1, <2>2, <2>3 DEF TypeOK
<1>3. WheelConsistent'
  <2>1. ASSUME NEW s \in Slots, NEW u, Holds(s, u)' PROVE slot_'[u] = s /\ u \notin leaked'
    <3>1. Holds(s, u) /\ u # Current[it]
      BY <1>1, <2>1
    <3>2. slot_[u] = s /\ u \notin leaked
      BY <1>0, <3>1, Consistency
    <3>3. u \in Timers
      BY <1>0, <3>1, ElementOfSeq DEF Holds, Elements, TypeOK
    <3> QED
      BY <1>0, <1>1, <3>1, <3>2, <3>3 DEF TypeOK
  <2> QED
    BY <1>1, <2>1 DEF WheelConsistent, Distinct, Holds, Elements
<1> QED
  BY <1>1, <1>2, <1>3 DEF IInv

LEMMA EndTickStep ==
    ASSUME IInv, EndTick
    PROVE  IInv'
<1>1. /\ it > Len(Current) /\ curslot_' \in Slots /\ it' = 0
      /\ UNCHANGED <<slots_, rotations_, slot_, leaked, calling>>
  BY SlotType DEF EndTick, IInv
<1>2. ~calling
  BY <1>1, CurrentFacts DEF IInv, TypeOK
<1>3. it' \in 0..(Len(Current') + 1)
  <2>1. Current' \in Seq(Timers)
    BY <1>1 DEF Current, IInv, TypeOK
  <2>2. Len(Current') \in Nat
    BY <2>1, LenProperties
  <2> QED
    BY <1>1, <2>2
<1> QED
  BY <1>1, <1>2, <1>3 DEF IInv, TypeOK, WheelConsistent

LEMMA NextIInv == IInv /\ [Next]_vars => IInv'
<1> SUFFICES ASSUME IInv, [Next]_vars PROVE IInv'
  OBVIOUS
<1>1. CASE UNCHANGED vars
  BY <1>1 DEF vars, IInv, TypeOK, WheelConsistent, Current
<1>2. CASE Client
  BY <1>2, AddTimerStep, DelTimerStep DEF Client
<1>3. CASE Tick
  BY <1>3, BeginTickStep, SkipEntryStep, ActivateStep, EraseEntryStep, EndTickStep DEF Tick
<1> QED
  BY <1>1, <1>2, <1>3 DEF Next

LEMMA IInvAlways == Spec => []IInv
BY InitIInv, NextIInv, PTL DEF Spec

\* Tick's iterator never leaves the vector it walks, and every variable keeps its
\* type, although callbacks add and delete timers while Tick runs.
THEOREM TypeCorrect == Spec => []TypeOK
<1>1. IInv => TypeOK
  BY DEF IInv
<1> QED
  BY <1>1, IInvAlways, PTL

\* No vector holds a timer twice, or one that belongs elsewhere or is deleted.
THEOREM VectorsConsistent == Spec => []WheelConsistent
<1>1. IInv => WheelConsistent
  BY DEF IInv
<1> QED
  BY <1>1, IInvAlways, PTL

-----------------------------------------------------------------------------
(* Arithmetic of the wheel.                                                *)

LEMMA DistFacts ==
    ASSUME NEW s \in Slots, NEW c \in Slots
    PROVE  Dist(s, c) \in Nat /\ (Dist(s, c) = 0 <=> s = c)
BY NAssumption DEF Slots, Dist

\* A tick brings every slot one nearer; the one just served is a turn away.
LEMMA DistNext ==
    ASSUME NEW s \in Slots, NEW c \in Slots
    PROVE  Dist(s, (c + 1) % N) = IF s = c THEN N - 1 ELSE Dist(s, c) - 1
<1>1. (c + 1) % N = IF c = N - 1 THEN 0 ELSE c + 1
  BY NAssumption DEF Slots
<1> QED
  BY <1>1, NAssumption DEF Slots, Dist

\* AddTimer's slot and rotations add up to the timeout.
LEMMA DistAdd ==
    ASSUME NEW c \in Slots, NEW n \in Nat
    PROVE  (n \div N) * N + Dist((c + (n % N)) % N, c) = n
<1> DEFINE r == n % N
<1>1. r \in 0..(N - 1) /\ (n \div N) \in Nat /\ (n \div N) * N + r = n
  BY NAssumption
<1> HIDE DEF r
<1>2. (c + r) % N = IF c + r < N THEN c + r ELSE c + r - N
  BY <1>1, NAssumption DEF Slots
<1>3. Dist((c + r) % N, c) = r
  BY <1>1, <1>2, NAssumption DEF Slots, Dist
<1> QED
  BY <1>1, <1>3 DEF r

-----------------------------------------------------------------------------
(* Refinement of TimerQueue.                                               *)

LEMMA ArmedAtPrime ==
    ASSUME NEW t
    PROVE  t \in Armed' <=> \E s \in Slots : Holds(s, t)'
BY DEF Armed, Holds

\* The value of the mapping in a consistent wheel.
LEMMA LeftFacts ==
    ASSUME IInv, NEW t \in Timers
    PROVE  /\ t \notin Armed => Left(t) = None
           /\ t \in Armed =>
                /\ Left(t) = rotations_[t] * N + Dist(slot_[t], curslot_)
                               + (IF t \in Passed THEN N ELSE 0)
                /\ Left(t) \in Nat
                /\ Left(t) # None
<1>1. ASSUME t \in Armed PROVE Left(t) \in Nat
  <2>1. Dist(slot_[t], curslot_) \in Nat
    <3>1. slot_[t] \in Slots /\ curslot_ \in Slots
      BY DEF IInv, TypeOK
    <3> QED
      BY <3>1, DistFacts
  <2>2. rotations_[t] * N \in Nat
    BY NAssumption DEF IInv, TypeOK
  <2> QED
    BY <1>1, <2>1, <2>2, NAssumption DEF Left
<1> QED
  BY <1>1, NoneAssumption DEF Left

\* A timer the iterator has yet to reach has not been passed, and every timer of
\* the current vector has been passed once the iterator is at the end.
LEMMA PassedFacts ==
    ASSUME IInv
    PROVE  /\ it \in 1..Len(Current) => Current[it] \notin Passed
           /\ it > Len(Current) => \A t : Holds(curslot_, t) => t \in Passed
           /\ \A t \in Passed : Holds(curslot_, t)
           /\ it = 0 => Passed = {}
<1>0. /\ Len(Current) \in Nat /\ it \in 0..(Len(Current) + 1)
      /\ curslot_ \in Slots /\ Distinct(Current)
  BY CurrentFacts, Consistency DEF IInv, TypeOK, Current
<1>1. it \in 1..Len(Current) => Current[it] \notin Passed
  BY <1>0 DEF Passed, Distinct
<1>2. it > Len(Current) => \A t : Holds(curslot_, t) => t \in Passed
  BY <1>0 DEF Passed, Holds, Elements, Current
<1>3. \A t \in Passed : Holds(curslot_, t)
  BY <1>0 DEF Passed, Holds, Elements, Current
<1>4. it = 0 => Passed = {}
  BY DEF Passed
<1> QED
  BY <1>1, <1>2, <1>3, <1>4

LEMMA InitRefines == Init => Abstract!Init
<1> SUFFICES ASSUME Init PROVE Abstract!Init
  OBVIOUS
<1>1. \A s \in Slots : slots_[s] = <<>>
  BY DEF Init
<1>2. Armed = {}
  BY <1>1 DEF Armed, Elements
<1> QED
  BY <1>2 DEF Init, Abstract!Init, Left

LEMMA AddTimerRefines ==
    ASSUME IInv, NEW t \in Timers, AddTimer(t)
    PROVE  Abstract!Add(t)
<1>0. /\ t \notin Armed /\ t \notin leaked
      /\ rotations_' = [rotations_ EXCEPT ![t] = Timeout[t] \div N]
      /\ slot_' = [slot_ EXCEPT ![t] = SlotOf(Timeout[t])]
      /\ UNCHANGED <<curslot_, leaked, it, calling>>
  BY DEF AddTimer, Free
<1>1. /\ IInv'
      /\ \A s \in Slots : \A u : Holds(s, u)' <=> Holds(s, u) \/ (u = t /\ s = slot_'[t])
      /\ slot_'[t] = SlotOf(Timeout[t])
      /\ it # 0 => Current' = Current
  BY AddTimerStep
<1>2. slot_'[t] \in Slots
  BY <1>1 DEF IInv, TypeOK
<1>3. \A u : u \in Armed' <=> u \in Armed \/ u = t
  BY <1>1, <1>2, ArmedAt, ArmedAtPrime DEF IInv
<1>4. Passed' = Passed
  <2>1. CASE it = 0
    BY <1>0, <2>1 DEF Passed
  <2>2. CASE it # 0
    BY <1>0, <1>1, <2>2 DEF Passed
  <2> QED
    BY <2>1, <2>2
<1>5. t \notin Passed
  BY <1>0, PassedFacts, ArmedAt DEF IInv, TypeOK
<1>6. \A u \in Timers : u # t => Left(u)' = Left(u)
  BY <1>0, <1>3, <1>4 DEF Left, IInv, TypeOK
<1>7. Left(t)' = Timeout[t]
  <2>1. /\ Left(t)' = rotations_'[t] * N + Dist(slot_'[t], curslot_)
        /\ rotations_'[t] = Timeout[t] \div N
    <3>1. rotations_'[t] = Timeout[t] \div N
      BY <1>0 DEF IInv, TypeOK
    <3>2. Left(t)' = rotations_'[t] * N + Dist(slot_'[t], curslot_) + 0
      BY <1>0, <1>3, <1>4, <1>5 DEF Left
    <3>3. rotations_'[t] * N \in Nat /\ Dist(slot_'[t], curslot_) \in Nat
      <4>1. curslot_ \in Slots
        BY DEF IInv, TypeOK
      <4>2. rotations_'[t] \in Nat
        BY <1>1 DEF IInv, TypeOK
      <4> QED
        BY <1>2, <4>1, <4>2, DistFacts, NAssumption
    <3> QED
      BY <3>1, <3>2, <3>3
  <2> QED
    BY <1>1, <2>1, DistAdd, TimeoutAssumption DEF SlotOf, IInv, TypeOK
<1>8. Left(t) = None
  BY <1>0 DEF Left
<1>9. calling => Current' = Current
  BY <1>1 DEF IInv, TypeOK
<1> QED
  BY <1>0, <1>6, <1>7, <1>8, <1>9 DEF Abstract!Add

LEMMA DelTimerRefines ==
    ASSUME IInv, NEW t \in Timers, DelTimer(t)
    PROVE  Abstract!Cancel(t) \/ UNCHANGED vars
<1>0. UNCHANGED <<curslot_, rotations_, slot_, it, calling>>
  BY DEF DelTimer
<1>1. CASE /\ t \in Armed /\ leaked' = leaked \cup {t}
           /\ \A s \in Slots : \A u : Holds(s, u)' <=> Holds(s, u) /\ u # t
           /\ calling => t # Current[it]
           /\ it # 0 => Current' = Current
  <2>1. \A u : u \in Armed' <=> u \in Armed /\ u # t
    BY <1>1, ArmedAt, ArmedAtPrime DEF IInv
  <2>2. Passed' = Passed
    <3>1. CASE it = 0
      BY <1>0, <3>1 DEF Passed
    <3>2. CASE it # 0
      BY <1>0, <1>1, <3>2 DEF Passed
    <3> QED
      BY <3>1, <3>2
  <2>3. \A u \in Timers : u # t => Left(u)' = Left(u)
    BY <1>0, <2>1, <2>2 DEF Left
  <2>4. Left(t)' = None
    BY <2>1 DEF Left
  <2>5. Left(t) # None
    BY <1>1, LeftFacts
  <2>6. calling => Current' = Current
    BY <1>1 DEF IInv, TypeOK
  <2>7. t # IF calling THEN Current[it] ELSE None
    BY <1>1, NoneAssumption
  <2> QED
    BY <1>0, <1>1, <2>3, <2>4, <2>5, <2>6, <2>7 DEF Abstract!Cancel
<1> QED
  BY <1>1, DelTimerStep

LEMMA BeginTickRefines ==
    ASSUME IInv, BeginTick
    PROVE  UNCHANGED Abstract!vars
<1>1. Passed = {} /\ Passed' = {}
  BY PassedFacts DEF BeginTick, Passed
<1>2. Armed' = Armed /\ ~calling
  BY DEF BeginTick, Armed, IInv, TypeOK
<1>3. \A u \in Timers : Left(u)' = Left(u)
  BY <1>1, <1>2 DEF BeginTick, Left
<1> QED
  BY <1>2, <1>3 DEF Abstract!vars, BeginTick

\* One rotation fewer, but a whole turn to the next visit: nothing changes.
LEMMA SkipEntryRefines ==
    ASSUME IInv, SkipEntry
    PROVE  UNCHANGED Abstract!vars
<1>a. PICK e \in Timers : e = Current[it]
  BY CurrentFacts DEF SkipEntry, IInv
<1>0. /\ it \in 1..Len(Current) /\ ~calling
      /\ rotations_[e] > 0
      /\ rotations_' = [rotations_ EXCEPT ![e] = @ - 1]
      /\ it' = it + 1
      /\ UNCHANGED <<curslot_, slots_, slot_, leaked, calling>>
      /\ Current' = Current /\ Armed' = Armed
  BY <1>a DEF SkipEntry, Current, Armed
<1>1. e \in Timers /\ Holds(curslot_, e) /\ e \notin Passed /\ Len(Current) \in Nat
  BY <1>a, <1>0, CurrentFacts, PassedFacts DEF IInv
<1>2. Passed' = Passed \cup {e}
  BY <1>a, <1>0, <1>1 DEF Passed
<1>3. ASSUME NEW u \in Timers, u # e PROVE Left(u)' = Left(u)
  BY <1>0, <1>1, <1>2, <1>3 DEF Left, IInv, TypeOK
<1>4. Left(e)' = Left(e)
  <2>1. e \in Armed
    BY <1>1, ArmedAt DEF IInv, TypeOK
  <2> DEFINE d == Dist(slot_[e], curslot_)
  <2>2. /\ rotations_[e] \in Nat /\ rotations_'[e] = rotations_[e] - 1
        /\ d \in Nat
    <3>1. slot_[e] \in Slots /\ curslot_ \in Slots
      BY DEF IInv, TypeOK
    <3>2. rotations_[e] \in Nat /\ rotations_'[e] = rotations_[e] - 1
      BY <1>0 DEF IInv, TypeOK
    <3> QED
      BY <3>1, <3>2, DistFacts
  <2>3. Left(e) = rotations_[e] * N + d + 0
    BY <1>1, <2>1 DEF Left
  <2>4. Left(e)' = (rotations_[e] - 1) * N + d + N
    BY <1>0, <1>2, <2>1, <2>2 DEF Left
  <2> HIDE DEF d
  <2>5. (rotations_[e] - 1) * N + N = rotations_[e] * N
    BY <2>2, NAssumption
  <2>6. rotations_[e] * N \in Int /\ (rotations_[e] - 1) * N \in Int
    BY <2>2, NAssumption
  <2> QED
    BY <2>2, <2>3, <2>4, <2>5, <2>6, NAssumption
<1>5. \A u \in Timers : Left(u)' = Left(u)
  BY <1>3, <1>4
<1> QED
  BY <1>0, <1>5 DEF Abstract!vars

\* The function of a timer is called with no tick left to wait.
LEMMA ActivateRefines ==
    ASSUME IInv, Activate
    PROVE  \E t \in Timers : Abstract!Fire(t)
<1> DEFINE e == Current[it]
<1>0. /\ it \in 1..Len(Current) /\ ~calling
      /\ rotations_[e] = 0
      /\ calling' = TRUE
      /\ UNCHANGED <<curslot_, slots_, rotations_, slot_, leaked, it>>
      /\ Current' = Current /\ Armed' = Armed /\ Passed' = Passed
  BY DEF Activate, Current, Armed, Passed
<1>1. e \in Timers /\ Holds(curslot_, e) /\ e \notin Passed
  BY <1>0, CurrentFacts, PassedFacts DEF IInv
<1>2. slot_[e] = curslot_ /\ curslot_ \in Slots
  BY <1>1, Consistency DEF IInv, TypeOK
<1>3. e \in Armed /\ Dist(slot_[e], curslot_) = 0
  BY <1>1, <1>2, ArmedAt, DistFacts DEF IInv
<1>4. Left(e) = 0 * N + 0 + 0
  BY <1>0, <1>1, <1>3 DEF Left
<1>5. Left(e) = 0
  BY <1>4, NAssumption
<1>6. \A u \in Timers : Left(u)' = Left(u)
  BY <1>0 DEF Left
<1>7. Abstract!Fire(e)
  BY <1>0, <1>1, <1>5, <1>6 DEF Abstract!Fire
<1> QED
  BY <1>1, <1>7

LEMMA EraseEntryRefines ==
    ASSUME IInv, EraseEntry
    PROVE  \E t \in Timers : Abstract!Return(t)
<1>a. PICK e \in Timers : e = Current[it]
  BY CurrentFacts DEF EraseEntry, IInv, TypeOK
<1>0. /\ calling /\ it \in 1..Len(Current)
      /\ rotations_' = [rotations_ EXCEPT ![e] = 0]
      /\ slot_' = [slot_ EXCEPT ![e] = 0]
      /\ calling' = FALSE
      /\ UNCHANGED <<curslot_, leaked, it>>
  BY <1>a DEF EraseEntry, IInv, TypeOK
<1>1. /\ \A s \in Slots : \A u : Holds(s, u)' <=> Holds(s, u) /\ u # e
      /\ \A k \in 1..(it - 1) : Current'[k] = Current[k]
  BY <1>a, EraseEntryStep
<1>3. \A u : u \in Armed' <=> u \in Armed /\ u # e
  BY <1>1, ArmedAt, ArmedAtPrime DEF IInv
<1>4. Passed' = Passed
  BY <1>0, <1>1 DEF Passed
<1>5. \A u \in Timers : u # e => Left(u)' = Left(u)
  BY <1>0, <1>3, <1>4 DEF Left, IInv, TypeOK
<1>6. Left(e)' = None
  BY <1>3 DEF Left
<1>7. Abstract!Return(e)
  BY <1>a, <1>0, <1>5, <1>6 DEF Abstract!Return
<1> QED
  BY <1>7

\* The wheel moves on only when nothing due is left, and everything is one tick
\* nearer.
LEMMA EndTickRefines ==
    ASSUME IInv, EndTick
    PROVE  Abstract!Tick
<1>0. /\ it > Len(Current)
      /\ curslot_' = (curslot_ + 1) % N
      /\ it' = 0
      /\ UNCHANGED <<slots_, rotations_, slot_, leaked, calling>>
      /\ Armed' = Armed
  BY DEF EndTick, Armed
<1>1. ~calling
  BY <1>0, CurrentFacts DEF IInv, TypeOK
<1>2. Passed' = {}
  BY <1>0 DEF Passed
<1>3. ASSUME NEW u \in Timers, u \in Armed
      PROVE  Left(u) # 0 /\ Left(u)' = Left(u) - 1
  <2> DEFINE d == Dist(slot_[u], curslot_)
  <2>0. slot_[u] \in Slots /\ curslot_ \in Slots
    BY DEF IInv, TypeOK
  <2>1. rotations_[u] * N \in Nat
    BY NAssumption DEF IInv, TypeOK
  <2>2. /\ d \in Nat /\ (d = 0 <=> slot_[u] = curslot_)
        /\ Dist(slot_[u], curslot_') = IF slot_[u] = curslot_ THEN N - 1 ELSE d - 1
    <3>1. PICK s \in Slots, c \in Slots : s = slot_[u] /\ c = curslot_
      BY <2>0
    <3>2. /\ Dist(s, c) \in Nat /\ (Dist(s, c) = 0 <=> s = c)
          /\ Dist(s, (c + 1) % N) = IF s = c THEN N - 1 ELSE Dist(s, c) - 1
      BY DistFacts, DistNext
    <3> QED
      BY <1>0, <3>1, <3>2
  <2>3. u \in Passed <=> slot_[u] = curslot_
    <3>1. PICK s \in Slots : Holds(s, u)
      BY <1>3, ArmedAt DEF IInv
    <3>2. s = slot_[u]
      BY <3>1, Consistency DEF IInv
    <3>3. u \in Passed => Holds(curslot_, u)
      BY PassedFacts
    <3>4. Holds(curslot_, u) => u \in Passed
      BY <1>0, PassedFacts
    <3>5. Holds(curslot_, u) => slot_[u] = curslot_
      BY <2>0, Consistency DEF IInv
    <3> QED
      BY <3>1, <3>2, <3>3, <3>4, <3>5
  <2>4. Left(u) = rotations_[u] * N + d + (IF slot_[u] = curslot_ THEN N ELSE 0)
    BY <1>3, <2>3 DEF Left
  <2>5. Left(u)' = rotations_[u] * N + Dist(slot_[u], curslot_') + 0
    BY <1>0, <1>2, <1>3 DEF Left
  <2> HIDE DEF d
  <2> QED
    BY <2>1, <2>2, <2>4, <2>5, NAssumption
<1>4. ASSUME NEW u \in Timers, u \notin Armed
      PROVE  Left(u) = None /\ Left(u)' = None
  BY <1>0, <1>4 DEF Left
<1>5. \A u \in Timers : u \in Armed => Left(u) # None
  BY LeftFacts
<1>6. \A u \in Timers : /\ Left(u) # 0
                        /\ Left(u)' = IF Left(u) = None THEN None ELSE Left(u) - 1
  BY <1>3, <1>4, <1>5, NoneAssumption
<1> QED
  BY <1>0, <1>1, <1>6 DEF Abstract!Tick

LEMMA NextRefines == IInv /\ [Next]_vars => [Abstract!Next]_(Abstract!vars)
<1> SUFFICES ASSUME IInv, [Next]_vars PROVE [Abstract!Next]_(Abstract!vars)
  OBVIOUS
<1>1. ASSUME UNCHANGED vars PROVE UNCHANGED Abstract!vars
  BY <1>1 DEF vars, Abstract!vars, Left, Armed, Passed, Current
<1>2. CASE Client
  BY <1>1, <1>2, AddTimerRefines, DelTimerRefines DEF Client, Abstract!Next
<1>3. CASE Tick
  <2>1. CASE BeginTick
    BY <2>1, BeginTickRefines
  <2>2. CASE SkipEntry
    BY <2>2, SkipEntryRefines
  <2>3. CASE Activate
    BY <2>3, ActivateRefines DEF Abstract!Next
  <2>4. CASE EraseEntry
    BY <2>4, EraseEntryRefines DEF Abstract!Next
  <2>5. CASE EndTick
    BY <2>5, EndTickRefines DEF Abstract!Next
  <2> QED
    BY <1>3, <2>1, <2>2, <2>3, <2>4, <2>5 DEF Tick
<1> QED
  BY <1>1, <1>2, <1>3 DEF Next

\* Every timer's function is called exactly on the tick its timeout asks for, for
\* any number of slots, any timeouts and any interleaving of adds and deletes,
\* inside callbacks too: the slot and rotations of AddTimer, the countdown of
\* Tick and the move of curslot_ add up.
THEOREM Refinement == Spec => Implements
<1>1. Spec => Abstract!Init /\ [][Abstract!Next]_(Abstract!vars)
  BY InitRefines, NextRefines, IInvAlways, PTL DEF Spec
<1> QED
  BY <1>1 DEF Implements, Abstract!Spec

=============================================================================
