-------------------------- MODULE GuestInitProofs --------------------------
(***************************************************************************)
(* BusyBox init for any inittab, any number of processes and signals: types, *)
(* what the list and the processes have to do with each other, which exits    *)
(* are noticed, and what a table becomes when it is read.                   *)
(*                                                                         *)
(* None of the properties is inductive alone.  That an entry has one process *)
(* needs that every live process of an entry is in the list, or in the hands  *)
(* of the Store that follows its fork, and that no two entries have one key, *)
(* unless the key is one that is cut; that a pid names its child needs that    *)
(* no two entries have one pid, for mark_terminated clears the first it finds. *)
(* That an exit is noticed needs where in the main loop a SIGCHLD may have    *)
(* been taken already.  And what the list is when a table has been read needs *)
(* what it is after each line.                                              *)
(***************************************************************************)
EXTENDS GuestInit, SequenceTheorems, WellFoundedInduction, TLAPS

Entries == [type : Types \cup {"none"}, key : Keys, pid : Pids \cup {0, -1}]

\* The list has what is kept of a key, and no two entries for one that is kept whole.
KeysUnique ==
    /\ \A k \in 1..Len(list) : Cut[list[k].key] = list[k].key
    /\ \A j, k \in 1..Len(list) : list[j].key = list[k].key /\ Whole(list[k].key) => j = k

\* A live process of an entry is in the list, or about to be stored in an entry
\* that has none.
TrackedListed ==
    \A p \in Living : procs[p].kind = "tracked" =>
        \/ \E k \in 1..Len(list) : list[k].key = procs[p].key /\ list[k].pid = p
        \/ at = "store" /\ got = p /\ list[cursor].key = procs[p].key
StoreEmpty == at = "store" => list[cursor].pid = 0

\* Entry k has process p.
Names(k, p) ==
    /\ p \in Pids /\ procs[p] # NoProcess
    /\ procs[p].kind = "tracked" /\ procs[p].key = list[k].key
PidsUnique ==
    /\ \A j, k \in 1..Len(list) : list[j].pid # 0 /\ list[j].pid = list[k].pid => j = k
    /\ at = "store" => \A k \in 1..Len(list) : list[k].pid # got
PidsExact ==
    /\ stops = 0 => ~stopped
    /\ stops = 0 /\ failures = 0 =>
        /\ \A k \in 1..Len(list) : list[k].pid # 0 => Names(k, list[k].pid)
        /\ at = "store" => Names(cursor, got)
        /\ PidsUnique

\* On its way down init does not come back to the main loop, and after the boot it
\* does not go back to it.
PlacesAgree ==
    /\ group = "shutdown" => at \in {"walk", "store", "wait", "kill", "down", "replaced"}
    /\ at \in {"kill", "down", "replaced"} => group = "shutdown"
    /\ after = "reap" => group \in {"respawn", "ctrlaltdel", "shutdown"}

\* There are processes of entries only from the first respawn on.
Late ==
    \/ after = "reap" \/ group = "shutdown"
    \/ group = "respawn" /\ at \in {"walk", "store", "wait"}
TrackedLate == (\E p \in Pids : procs[p] # NoProcess /\ procs[p].kind = "tracked") => Late

\* Only where children are being collected has the SIGCHLD of a dead one been taken.
Noticed == "CHLD" \in pending \/ at = "reap" \/ group = "shutdown"
ExitsPending == (\E p \in Zombies : procs[p].kind = "tracked") => Noticed

\* TableLoaded for the lines that have been read.
Parsing == at \in {"parse", "append"}
Seen == IF at = "append" THEN cursor ELSE cursor - 1
LastSoFar(k) ==
    /\ reading[k].type # "bad"
    /\ \A j \in (k + 1)..Seen : reading[j].type # "bad" => reading[j].key # reading[k].key
TableSoFar ==
    Parsing =>
        /\ Seen \in 0..Len(reading)
        /\ \A k \in 1..Seen : LastSoFar(k) /\ Whole(reading[k].key) =>
            /\ \E j \in 1..Len(list) : list[j].type = reading[k].type /\ list[j].key = reading[k].key
            /\ \A m \in 1..(k - 1) : LastSoFar(m) /\ Whole(reading[m].key) =>
                \A h, j \in 1..Len(list) :
                    list[h].key = reading[m].key /\ list[j].key = reading[k].key => h < j
        /\ \A j \in 1..Len(list) : list[j].type # "none" =>
            \E k \in 1..Seen : LastSoFar(k) /\ Cut[reading[k].key] = list[j].key

ListInv == KeysUnique /\ TrackedListed /\ StoreEmpty /\ PidsExact
ControlInv == PlacesAgree /\ TrackedLate /\ ExitsPending

IInv == TypeOK /\ WaitedForUntilGone /\ ListInv /\ ControlInv /\ TableSoFar

-----------------------------------------------------------------------------
(* The list                                                                *)

LEMMA ListFacts ==
    ASSUME TypeOK
    PROVE  /\ list \in Seq(Entries) /\ Len(list) \in Nat
           /\ \A k \in 1..Len(list) : list[k] \in Entries
<1>1. list \in Seq(Entries)
  BY DEF TypeOK, Entries
<1> QED
  BY <1>1, LenProperties, ElementOfSeq

LEMMA ReadingFacts ==
    ASSUME TypeOK
    PROVE  /\ reading \in Seq(Lines) /\ Len(reading) \in Nat
           /\ \A k \in 1..Len(reading) : reading[k] \in Lines
<1>1. reading \in Seq(Lines)
  BY TablesAssumption, EmptySeq DEF TypeOK
<1> QED
  BY <1>1, LenProperties, ElementOfSeq

\* new is old without its entry at k: f says where in old each entry of new stood.
Thins(f, new, old, k) ==
    /\ f \in [1..Len(new) -> 1..Len(old)]
    /\ \A j \in 1..Len(new) : new[j] = old[f[j]] /\ f[j] # k
    /\ \A i, j \in 1..Len(new) : i < j => f[i] < f[j]
    /\ \A h \in 1..Len(old) : h # k => \E j \in 1..Len(new) : f[j] = h

\* The list without one entry has all the others, in their order.
LEMMA WithoutFacts ==
    ASSUME NEW s \in Seq(Entries), NEW k \in 1..Len(s)
    PROVE  /\ Without(s, k) \in Seq(Entries)
           /\ Len(Without(s, k)) = Len(s) - 1
           /\ \E f : Thins(f, Without(s, k), s, k)
<1>1. Len(s) \in Nat /\ Len(s) - 1 \in Nat
  BY LenProperties
<1>2. \A j \in 1..(Len(s) - 1) : (IF j < k THEN s[j] ELSE s[j + 1]) \in Entries
  BY <1>1, ElementOfSeq
<1>3. Without(s, k) \in Seq(Entries)
  BY <1>1, <1>2, IsASeq DEF Without
<1>4. Without(s, k) \in [1..(Len(s) - 1) -> Entries]
  BY <1>2 DEF Without
<1>5. Len(Without(s, k)) = Len(s) - 1
  BY <1>1, <1>3, <1>4, LenProperties
<1> DEFINE f == [j \in 1..(Len(s) - 1) |-> IF j < k THEN j ELSE j + 1]
<1>6. f \in [1..(Len(s) - 1) -> 1..Len(s)]
  BY <1>1
<1>7. \A j \in 1..(Len(s) - 1) : Without(s, k)[j] = s[f[j]]
  BY <1>1 DEF Without
<1>8. \A i, j \in 1..(Len(s) - 1) : i < j => f[i] < f[j]
  BY <1>1
<1>10. \A j \in 1..(Len(s) - 1) : f[j] # k
  BY <1>1
<1>11. ASSUME NEW h \in 1..Len(s), h # k PROVE \E j \in 1..(Len(s) - 1) : f[j] = h
  <2>1. CASE h < k
    <3>1. h \in 1..(Len(s) - 1) /\ f[h] = h
      BY <1>1, <2>1
    <3> QED
      BY <3>1
  <2>2. CASE h > k
    <3>1. h - 1 \in 1..(Len(s) - 1) /\ f[h - 1] = h
      BY <1>1, <2>2
    <3> QED
      BY <3>1
  <2> QED
    BY <1>1, <1>11, <2>1, <2>2
<1> HIDE DEF f
<1>12. Thins(f, Without(s, k), s, k)
  BY <1>5, <1>6, <1>7, <1>8, <1>10, <1>11 DEF Thins
<1> QED
  BY <1>3, <1>5, <1>12

\* What the list is after a line has been read: an entry for what is kept of the key is
\* at the end, and all but the one at g are before it in their order.  If g is an entry,
\* it was the one for this key, and its process has moved with it.
Updated(new, type, key, n, f, g) ==
    /\ new \in Seq(Entries) /\ n \in Nat /\ Len(new) = n + 1
    /\ new[n + 1].type = type /\ new[n + 1].key = Cut[key]
    /\ g \in 1..Len(list) => list[g].key = key /\ new[n + 1].pid = list[g].pid
    /\ g \notin 1..Len(list) =>
         new[n + 1].pid = 0 /\ \A h \in 1..Len(list) : list[h].key # key
    /\ f \in [1..n -> 1..Len(list)]
    /\ \A j \in 1..n : new[j] = list[f[j]] /\ f[j] # g
    /\ \A i, j \in 1..n : i < j => f[i] < f[j]
    /\ \A h \in 1..Len(list) : h # g => \E j \in 1..n : f[j] = h

\* Of the entries for a key there is a first one.
LEMMA FirstEntry ==
    ASSUME TypeOK, NEW key, \E k \in 1..Len(list) : list[k].key = key
    PROVE  \E j \in 1..Len(list) : list[j].key = key /\ \A h \in 1..(j - 1) : list[h].key # key
<1> DEFINE S == {k \in 1..Len(list) : list[k].key = key}
<1>1. S \subseteq Nat /\ S # {} /\ Len(list) \in Nat
  BY ListFacts
<1>2. PICK j \in S : \A h \in S : <<h, j>> \notin OpToRel(<, Nat)
  BY <1>1, NatLessThanWellFounded, WFMin
<1>3. \A h \in 1..(j - 1) : h \in 1..Len(list) /\ <<h, j>> \in OpToRel(<, Nat)
  BY <1>1 DEF OpToRel
<1> QED
  BY <1>2, <1>3

LEMMA NewInitActionFacts ==
    ASSUME TypeOK, NEW type \in Types, NEW key \in Keys
    PROVE  \E n, f, g : Updated(NewInitAction(type, key), type, key, n, f, g)
<1>0. /\ list \in Seq(Entries) /\ Len(list) \in Nat
      /\ \A k \in 1..Len(list) : list[k] \in Entries
      /\ Cut[key] \in Keys
  BY ListFacts, CutAssumption
<1>1. CASE \E k \in 1..Len(list) : list[k].key = key
  <2>1. PICK k \in 1..Len(list) :
          /\ list[k].key = key
          /\ NewInitAction(type, key) = Append(Without(list, k), Entry(type, Cut[key], list[k].pid))
    <3> DEFINE First(j) == list[j].key = key /\ \A h \in 1..(j - 1) : list[h].key # key
               c == CHOOSE j \in 1..Len(list) : First(j)
    <3>1. c \in 1..Len(list) /\ First(c)
      BY <1>1, FirstEntry
    <3>2. NewInitAction(type, key) = Append(Without(list, c), Entry(type, Cut[key], list[c].pid))
      BY <1>1 DEF NewInitAction
    <3> QED
      BY <3>1, <3>2
  <2> DEFINE e == Entry(type, Cut[key], list[k].pid)
             w == Without(list, k)
             new == Append(w, e)
             n == Len(list) - 1
  <2>2. e \in Entries /\ e.type = type /\ e.key = Cut[key] /\ e.pid = list[k].pid
    BY <1>0 DEF Entry, Entries
  <2> HIDE DEF e
  <2>3. w \in Seq(Entries) /\ Len(w) = n
    BY <1>0, WithoutFacts
  <2>4. PICK f : Thins(f, w, list, k)
    BY <1>0, WithoutFacts
  <2> HIDE DEF w
  <2>5. n \in Nat /\ n + 1 = Len(list)
    BY <1>0
  <2> HIDE DEF n
  <2>6. /\ new \in Seq(Entries) /\ Len(new) = n + 1
        /\ \A j \in 1..n : new[j] = w[j]
        /\ new[n + 1] = e
    BY <2>2, <2>3, <2>5, AppendProperties
  <2> HIDE DEF new
  <2>7. /\ f \in [1..n -> 1..Len(list)]
        /\ \A j \in 1..n : new[j] = list[f[j]] /\ f[j] # k
        /\ \A i, j \in 1..n : i < j => f[i] < f[j]
        /\ \A h \in 1..Len(list) : h # k => \E j \in 1..n : f[j] = h
    BY <2>3, <2>4, <2>6 DEF Thins
  <2>8. Updated(new, type, key, n, f, k)
    BY <2>1, <2>2, <2>5, <2>6, <2>7 DEF Updated
  <2>9. new = NewInitAction(type, key)
    BY <2>1 DEF new, w, e
  <2> QED
    BY <2>8, <2>9
<1>2. CASE \A k \in 1..Len(list) : list[k].key # key
  <2> DEFINE e == Entry(type, Cut[key], 0)
             new == Append(list, e)
             f == [j \in 1..Len(list) |-> j]
  <2>2. e \in Entries /\ e.type = type /\ e.key = Cut[key] /\ e.pid = 0
    BY <1>0 DEF Entry, Entries
  <2>3. new = NewInitAction(type, key)
    BY <1>2 DEF NewInitAction
  <2> HIDE DEF e
  <2>4. /\ new \in Seq(Entries) /\ Len(new) = Len(list) + 1
        /\ \A j \in 1..Len(list) : new[j] = list[j]
        /\ new[Len(list) + 1] = e
    BY <1>0, <2>2, AppendProperties
  <2> HIDE DEF new
  <2>5. /\ f \in [1..Len(list) -> 1..Len(list)]
        /\ \A j \in 1..Len(list) : f[j] = j
    OBVIOUS
  <2> HIDE DEF f
  <2>6. 0 \notin 1..Len(list)
    BY <1>0
  <2>7. Updated(new, type, key, Len(list), f, 0)
    BY <1>0, <1>2, <2>2, <2>4, <2>5, <2>6 DEF Updated
  <2> QED
    BY <2>3, <2>7
<1> QED
  BY <1>1, <1>2

\* Of a key that is kept whole there is no other entry; of any other, what is kept of it
\* is no key that is kept whole.
KeysAfter(new, key, n, g) ==
    /\ Whole(key) => new[n + 1].key = key /\ \A j \in 1..n : new[j].key # key
    /\ Whole(Cut[key]) => Cut[key] = key
    /\ g \in 1..Len(list) => new[n + 1].key = list[g].key

LEMMA NewInitActionKeys ==
    ASSUME TypeOK, KeysUnique, NEW type \in Types, NEW key \in Keys
    PROVE  \E n, f, g : /\ Updated(NewInitAction(type, key), type, key, n, f, g)
                       /\ KeysAfter(NewInitAction(type, key), key, n, g)
<1>0. PICK n, f, g : Updated(NewInitAction(type, key), type, key, n, f, g)
  BY NewInitActionFacts
<1> DEFINE new == NewInitAction(type, key)
<1>1. Whole(key) => Cut[key] = key
  BY DEF Whole
<1>2. Whole(Cut[key]) => Cut[key] = key
  BY DEF Whole
<1>3. /\ new[n + 1].key = Cut[key]
      /\ g \in 1..Len(list) => list[g].key = key
      /\ g \notin 1..Len(list) => \A h \in 1..Len(list) : list[h].key # key
      /\ \A j \in 1..n : f[j] \in 1..Len(list) /\ new[j] = list[f[j]] /\ f[j] # g
  BY <1>0 DEF Updated
<1> HIDE DEF new
<1>4. ASSUME Whole(key), NEW j \in 1..n PROVE new[j].key # key
  <2>1. f[j] \in 1..Len(list) /\ new[j] = list[f[j]] /\ f[j] # g
    BY <1>3
  <2>2. g \in 1..Len(list) /\ list[f[j]].key = key => f[j] = g
    BY <1>3, <1>4, <2>1 DEF KeysUnique
  <2> QED
    BY <1>3, <2>1, <2>2
<1>5. g \in 1..Len(list) => new[n + 1].key = list[g].key
  BY <1>3 DEF KeysUnique
<1>6. KeysAfter(new, key, n, g)
  BY <1>1, <1>2, <1>3, <1>4, <1>5 DEF KeysAfter
<1> QED
  BY <1>0, <1>6 DEF new

\* mark_terminated changes pids only, and only that of an entry with this process.
LEMMA MarkFacts ==
    ASSUME TypeOK, NEW p
    PROVE  LET new == MarkTerminated(p) IN
           /\ new \in Seq(Entries) /\ Len(new) = Len(list)
           /\ \A k \in 1..Len(list) :
                /\ new[k].type = list[k].type /\ new[k].key = list[k].key
                /\ new[k].pid = list[k].pid \/ (new[k].pid = 0 /\ list[k].pid = p)
                /\ Linked(k) /\ (\A j \in 1..(k - 1) : list[j].pid # p) /\ list[k].pid = p
                     => new[k].pid = 0
<1>0. /\ list \in Seq(Entries) /\ Len(list) \in Nat
      /\ \A k \in 1..Len(list) : list[k] \in Entries
  BY ListFacts
<1> DEFINE g(k) == IF list[k].pid = p /\ Linked(k) /\ \A j \in 1..(k - 1) : list[j].pid # p
                   THEN [list[k] EXCEPT !.pid = 0] ELSE list[k]
<1>1. ASSUME NEW k \in 1..Len(list)
      PROVE  /\ g(k) \in Entries
             /\ g(k).type = list[k].type /\ g(k).key = list[k].key
             /\ g(k).pid = list[k].pid \/ (g(k).pid = 0 /\ list[k].pid = p)
             /\ Linked(k) /\ (\A j \in 1..(k - 1) : list[j].pid # p) /\ list[k].pid = p
                  => g(k).pid = 0
  <2>1. list[k] \in [type : Types \cup {"none"}, key : Keys, pid : Pids \cup {0, -1}]
    BY <1>0 DEF Entries
  <2>2. CASE list[k].pid = p /\ Linked(k) /\ \A j \in 1..(k - 1) : list[j].pid # p
    <3>1. g(k) = [list[k] EXCEPT !.pid = 0]
      BY <2>2
    <3> QED
      BY <2>1, <2>2, <3>1 DEF Entries
  <2>3. CASE ~(list[k].pid = p /\ Linked(k) /\ \A j \in 1..(k - 1) : list[j].pid # p)
    <3>1. g(k) = list[k]
      BY <2>3
    <3> QED
      BY <2>1, <2>3, <3>1 DEF Entries
  <2> QED
    BY <2>2, <2>3
<1>2. MarkTerminated(p) = [k \in 1..Len(list) |-> g(k)]
  BY DEF MarkTerminated
<1> HIDE DEF g
<1>3. MarkTerminated(p) \in [1..Len(list) -> Entries]
  BY <1>1, <1>2
<1>4. MarkTerminated(p) \in Seq(Entries)
  BY <1>0, <1>1, <1>2, IsASeq
<1>5. Len(MarkTerminated(p)) = Len(list)
  BY <1>0, <1>3, <1>4, LenProperties
<1>6. \A k \in 1..Len(list) : MarkTerminated(p)[k] = g(k)
  BY <1>2
<1> QED
  BY <1>1, <1>4, <1>5, <1>6

-----------------------------------------------------------------------------
(* The processes                                                           *)

Process == [state : {"ask", "run", "zombie"}, key : Keys \cup {"none"},
            kind : {"waited", "once", "tracked", "orphan"}]

LEMMA ProcFacts ==
    ASSUME TypeOK, NEW p \in Pids
    PROVE  /\ p \in FreePids <=> procs[p] = NoProcess
           /\ procs[p] # NoProcess => procs[p] \in Process
           /\ p \in Zombies <=> procs[p] # NoProcess /\ procs[p].state = "zombie"
           /\ p \in Living <=> procs[p] # NoProcess /\ procs[p].state # "zombie"
<1>1. procs[p] \in {NoProcess} \cup Process
  BY DEF TypeOK, Processes, Process
<1>2. procs[p] = NoProcess => procs[p].state = "free"
  BY DEF NoProcess
<1>3. procs[p] \in Process => procs[p].state \in {"ask", "run", "zombie"}
  BY DEF Process
<1> QED
  BY <1>1, <1>2, <1>3 DEF FreePids, Zombies, Living

LEMMA ProcFactsPrime ==
    ASSUME TypeOK', NEW p \in Pids
    PROVE  /\ p \in FreePids' <=> procs'[p] = NoProcess
           /\ procs'[p] # NoProcess => procs'[p] \in Process
           /\ p \in Zombies' <=> procs'[p] # NoProcess /\ procs'[p].state = "zombie"
           /\ p \in Living' <=> procs'[p] # NoProcess /\ procs'[p].state # "zombie"
<1>1. procs'[p] \in {NoProcess} \cup Process
  BY DEF TypeOK, Processes, Process
<1>2. procs'[p] = NoProcess => procs'[p].state = "free"
  BY DEF NoProcess
<1>3. procs'[p] \in Process => procs'[p].state \in {"ask", "run", "zombie"}
  BY DEF Process
<1> QED
  BY <1>1, <1>2, <1>3 DEF FreePids, Zombies, Living

LEMMA ChildFacts ==
    ASSUME NEW state \in {"ask", "run", "zombie"}, NEW key \in Keys \cup {"none"},
           NEW kind \in {"waited", "once", "tracked", "orphan"}
    PROVE  /\ Child(state, key, kind) \in Process
           /\ Child(state, key, kind) # NoProcess
           /\ Child(state, key, kind).state = state
           /\ Child(state, key, kind).key = key
           /\ Child(state, key, kind).kind = kind
<1>1. Child(state, key, kind) \in Process
  BY DEF Child, Process
<1>2. /\ Child(state, key, kind).state = state
      /\ Child(state, key, kind).key = key
      /\ Child(state, key, kind).kind = kind
  BY DEF Child
<1>3. NoProcess.state = "free"
  BY DEF NoProcess
<1> QED
  BY <1>1, <1>2, <1>3

\* A process ends or goes on: it stays what it is.
LEMMA StateFacts ==
    ASSUME TypeOK, NEW p \in Pids, procs[p] # NoProcess, NEW state \in {"ask", "run", "zombie"}
    PROVE  LET new == [procs[p] EXCEPT !.state = state] IN
           /\ new \in Process /\ new # NoProcess
           /\ new.state = state /\ new.key = procs[p].key /\ new.kind = procs[p].kind
<1>1. procs[p] \in Process
  BY ProcFacts
<1> DEFINE new == [procs[p] EXCEPT !.state = state]
<1>2. /\ new \in Process
      /\ new.state = state /\ new.key = procs[p].key /\ new.kind = procs[p].kind
  BY <1>1 DEF Process
<1>3. NoProcess.state = "free"
  BY DEF NoProcess
<1> QED
  BY <1>2, <1>3

\* A child is collected.
LEMMA CollectFacts ==
    ASSUME TypeOK, NEW p \in Pids, Collect(p)
    PROVE  /\ procs[p] # NoProcess /\ procs[p].state = "zombie"
           /\ procs' \in [Pids -> Processes]
           /\ \A q \in Pids : procs'[q] = IF q = p THEN NoProcess ELSE procs[q]
           /\ list' \in Seq(Entries) /\ Len(list') = Len(list)
           /\ \A k \in 1..Len(list) :
                /\ list'[k].type = list[k].type /\ list'[k].key = list[k].key
                /\ list'[k].pid = list[k].pid \/ (list'[k].pid = 0 /\ list[k].pid = p)
                /\ Linked(k) /\ (\A j \in 1..(k - 1) : list[j].pid # p) /\ list[k].pid = p
                     => list'[k].pid = 0
<1>1. procs[p] # NoProcess /\ procs[p].state = "zombie"
  BY ProcFacts DEF Collect
<1>2. procs' = [procs EXCEPT ![p] = NoProcess] /\ procs \in [Pids -> Processes]
  BY DEF Collect, TypeOK
<1>3. /\ procs' \in [Pids -> Processes]
      /\ \A q \in Pids : procs'[q] = IF q = p THEN NoProcess ELSE procs[q]
  BY <1>2 DEF Processes
<1>4. list' = MarkTerminated(p)
  BY DEF Collect
<1> QED
  BY <1>1, <1>3, <1>4, MarkFacts

-----------------------------------------------------------------------------
(* Types                                                                   *)

LEMMA InitType == Init => TypeOK
<1> SUFFICES ASSUME Init PROVE TypeOK
  OBVIOUS
<1>1. list \in Seq(Entries) /\ Len(list) = 0
  BY EmptySeq DEF Init
<1>2. procs \in [Pids -> Processes]
  BY DEF Init, Processes
<1>3. /\ sent \in 0..MaxSignals /\ stops \in 0..MaxFaults /\ failures \in 0..MaxFaults
      /\ orphans \in 0..MaxFaults
  BY BoundsAssumption DEF Init
<1>4. reading \in Tables \cup {Single, <<>>}
  BY DEF Init
<1>5. /\ at \in Places /\ group \in Groups /\ after \in {"sysinit", "wait", "once", "reap"}
      /\ cursor \in Nat \ {0} /\ got \in Pids \cup {0, -1} /\ cause \in Signals \cup {"none"}
      /\ pending \subseteq Signals /\ at \notin {"store", "wait"}
  BY DEF Init, Places, Groups
<1>6. stopped \in BOOLEAN
  BY DEF Init
<1> QED
  BY <1>1, <1>2, <1>3, <1>4, <1>5, <1>6 DEF TypeOK, Entries

\* Steps that leave the list and the processes alone.
LEMMA QuietType ==
    ASSUME TypeOK,
           \/ LinkEntry \/ ParseEnd \/ PurgeEnd \/ Skip \/ WalkEnd \/ WaitNone \/ NoSignal \/ ReapEnd
           \/ Stop \/ Continue \/ \E s \in Signals : Send(s)
    PROVE  TypeOK'
<1>0. Len(list) \in Nat
  BY ListFacts
<1>1. CASE ParseEnd
  BY <1>1 DEF ParseEnd, Run, TypeOK, Places, Groups, bounds
<1>2. CASE PurgeEnd
  BY <1>2 DEF PurgeEnd, Return, Run, TypeOK, Places, Groups, bounds
<1>3. CASE Skip
  BY <1>3 DEF Skip, TypeOK, Places, Groups, bounds
<1>4. CASE WalkEnd
  BY <1>4 DEF WalkEnd, Return, Run, TypeOK, Places, Groups, bounds
<1>5. CASE WaitNone
  BY <1>5 DEF WaitNone, NextEntry, TypeOK, Places, Groups, bounds
<1>6. CASE NoSignal
  BY <1>6 DEF NoSignal, Return, Run, TypeOK, Places, Groups, bounds
<1>7. CASE ReapEnd
  BY <1>7 DEF ReapEnd, Run, TypeOK, Places, Groups, bounds
<1>8. CASE Stop
  BY <1>8, BoundsAssumption DEF Stop, control, TypeOK, faults
<1>9. CASE Continue
  BY <1>9, ZenonT(30) DEF Continue, TypeOK, Places, bounds
<1>10. ASSUME NEW s \in Signals, Send(s) PROVE TypeOK'
  BY <1>10, BoundsAssumption DEF Send, control, TypeOK
<1>11. CASE LinkEntry
  BY <1>11 DEF LinkEntry, TypeOK, Places, bounds
<1> QED
  BY <1>1, <1>2, <1>3, <1>4, <1>5, <1>6, <1>7, <1>8, <1>9, <1>10, <1>11

\* Steps that change the list only.
LEMMA ListType ==
    ASSUME TypeOK, ParseLine \/ Purge \/ Store
    PROVE  TypeOK'
<1>0. /\ Len(list) \in Nat /\ list \in Seq(Entries)
      /\ \A k \in 1..Len(list) : list[k] \in Entries
  BY ListFacts
<1>1. CASE ParseLine
  <2>1. reading[cursor] \in Lines /\ cursor \in 1..Len(reading)
    BY <1>1, ReadingFacts DEF ParseLine, TypeOK
  <2>2. list' \in Seq(Entries)
    <3>1. CASE reading[cursor].type = "bad"
      BY <1>0, <1>1, <3>1 DEF ParseLine
    <3>2. CASE reading[cursor].type # "bad"
      <4>1. reading[cursor].type \in Types /\ reading[cursor].key \in Keys
        BY <2>1, <3>2 DEF Lines
      <4> QED
        BY <1>1, <3>2, <4>1, NewInitActionFacts DEF ParseLine, Updated
    <3> QED
      BY <3>1, <3>2
  <2> QED
    BY <1>1, <2>2 DEF ParseLine, TypeOK, Entries, Places, bounds
<1>2. CASE Purge
  <2>1. cursor \in 1..Len(list)
    BY <1>0, <1>2 DEF Purge, TypeOK
  <2>2. list' \in Seq(Entries)
    BY <1>0, <1>2, <2>1, WithoutFacts DEF Purge
  <2> QED
    BY <1>2, <2>1, <2>2 DEF Purge, TypeOK, Entries, bounds
<1>3. CASE Store
  <2>1. cursor \in 1..Len(list) /\ got \in Pids \cup {0, -1}
    BY <1>3 DEF Store, TypeOK
  <2>2. [list[cursor] EXCEPT !.pid = got] \in Entries
    BY <1>0, <2>1 DEF Entries
  <2>3. list' = [list EXCEPT ![cursor] = [list[cursor] EXCEPT !.pid = got]]
    BY <1>3 DEF Store
  <2>4. list' \in Seq(Entries)
    BY <1>0, <2>1, <2>2, <2>3, ExceptSeq
  <2> QED
    BY <1>3, <2>1, <2>4 DEF Store, NextEntry, TypeOK, Entries, Places, bounds
<1> QED
  BY <1>1, <1>2, <1>3

\* Steps that change the processes.
LEMMA ProcType ==
    ASSUME TypeOK, NEW p \in Pids,
           Exit(p) \/ PressEnter(p) \/ Orphan(p) \/ RunEntry(p)
    PROVE  TypeOK'
<1>0. procs \in [Pids -> Processes] /\ Process \subseteq Processes
  BY DEF TypeOK, Processes, Process
<1>1. CASE Exit(p)
  <2>1. procs[p] # NoProcess
    BY <1>1, ProcFacts DEF Exit
  <2>2. procs' = [procs EXCEPT ![p] = [procs[p] EXCEPT !.state = "zombie"]]
    BY <1>1 DEF Exit
  <2>3. procs' \in [Pids -> Processes]
    BY <1>0, <2>1, <2>2, StateFacts
  <2>4. pending' \subseteq Signals
    BY <1>1 DEF Exit, TypeOK, Signals
  <2> QED
    BY <1>1, <2>3, <2>4 DEF Exit, TypeOK, control, bounds
<1>2. CASE PressEnter(p)
  <2>1. procs[p] # NoProcess
    BY <1>2 DEF PressEnter, NoProcess
  <2>2. procs' = [procs EXCEPT ![p] = [procs[p] EXCEPT !.state = "run"]]
    BY <1>2 DEF PressEnter
  <2>3. procs' \in [Pids -> Processes]
    BY <1>0, <2>1, <2>2, StateFacts
  <2> QED
    BY <1>2, <2>3 DEF PressEnter, TypeOK, control, bounds
<1>3. CASE Orphan(p)
  <2>1. procs' \in [Pids -> Processes]
    BY <1>0, <1>3, ChildFacts DEF Orphan
  <2> QED
    BY <1>3, <2>1, BoundsAssumption DEF Orphan, TypeOK, control, faults
<1>4. CASE RunEntry(p)
  <2>0. cursor \in 1..Len(list) /\ list[cursor] \in Entries
    BY <1>4, ListFacts DEF RunEntry, TypeOK
  <2>1. list[cursor].key \in Keys
    BY <2>0 DEF Entries
  <2>2. procs' \in [Pids -> Processes]
    BY <1>0, <1>4, <2>1, ChildFacts DEF RunEntry
  <2>3. /\ at' \in Places /\ cursor' \in Nat \ {0} /\ got' \in Pids \cup {0, -1}
        /\ at' \in {"store", "wait"} => cursor' \in 1..Len(list)
        /\ at' = "wait" => got' \in Pids
    BY <1>4, <2>0 DEF RunEntry, TypeOK, Places
  <2> QED
    BY <1>4, <2>2, <2>3 DEF RunEntry, TypeOK, bounds
<1> QED
  BY <1>1, <1>2, <1>3, <1>4

LEMMA CollectType ==
    ASSUME TypeOK, NEW p \in Pids, WaitChild(p) \/ Reap(p) \/ StopReap(p)
    PROVE  TypeOK'
<1>1. Collect(p)
  BY DEF WaitChild, Reap, StopReap
<1>2. procs' \in [Pids -> Processes] /\ list' \in Seq(Entries) /\ Len(list') = Len(list)
  BY <1>1, CollectFacts
<1>3. CASE WaitChild(p)
  BY <1>2, <1>3, ListFacts DEF WaitChild, NextEntry, TypeOK, Entries, Places, bounds
<1>4. CASE Reap(p) \/ StopReap(p)
  BY <1>2, <1>4 DEF Reap, StopReap, TypeOK, Entries, control, bounds
<1> QED
  BY <1>3, <1>4

LEMMA ForkFailsType ==
    ASSUME TypeOK, ForkFails
    PROVE  TypeOK'
<1>1. cursor \in 1..Len(list)
  BY ListFacts DEF ForkFails, TypeOK
<1>2. /\ at' \in Places /\ cursor' \in Nat \ {0} /\ got' \in Pids \cup {0, -1}
      /\ at' \in {"store", "wait"} => cursor' \in 1..Len(list)
      /\ at' # "wait"
  BY <1>1 DEF ForkFails, TypeOK, Places
<1>3. failures' \in 0..MaxFaults /\ stops' \in 0..MaxFaults
  BY BoundsAssumption DEF ForkFails, TypeOK, faults
<1> QED
  BY <1>2, <1>3 DEF ForkFails, TypeOK

\* SIGTERM and SIGKILL to all: those that lived are zombies.
LEMMA KillFacts ==
    ASSUME TypeOK, KillAll
    PROVE  /\ procs' \in [Pids -> Processes]
           /\ \A p \in Pids : procs'[p] = NoProcess \/ (procs'[p] # NoProcess /\ procs'[p].state = "zombie")
           /\ \A p \in Pids : procs'[p] = NoProcess <=> procs[p] = NoProcess
           /\ \A p \in Pids : procs[p] # NoProcess =>
                procs'[p].key = procs[p].key /\ procs'[p].kind = procs[p].kind
<1> DEFINE k(p) == IF p \in Living THEN [procs[p] EXCEPT !.state = "zombie"] ELSE procs[p]
<1>1. procs' = [p \in Pids |-> k(p)]
  BY DEF KillAll
<1>2. ASSUME NEW p \in Pids
      PROVE  /\ k(p) \in Processes
             /\ k(p) = NoProcess \/ (k(p) # NoProcess /\ k(p).state = "zombie")
             /\ k(p) = NoProcess <=> procs[p] = NoProcess
             /\ procs[p] # NoProcess => k(p).key = procs[p].key /\ k(p).kind = procs[p].kind
  <2>1. CASE p \in Living
    <3>1. procs[p] # NoProcess
      BY <2>1, ProcFacts
    <3>2. k(p) = [procs[p] EXCEPT !.state = "zombie"]
      BY <2>1
    <3>3. Process \subseteq Processes
      BY DEF Process, Processes
    <3> QED
      BY <3>1, <3>2, <3>3, StateFacts
  <2>2. CASE p \notin Living
    <3>1. k(p) = procs[p]
      BY <2>2
    <3> QED
      BY <2>2, <3>1, ProcFacts DEF TypeOK
  <2> QED
    BY <2>1, <2>2
<1> HIDE DEF k
<1> QED
  BY <1>1, <1>2

LEMMA KillAllType ==
    ASSUME TypeOK, KillAll
    PROVE  TypeOK'
BY KillFacts DEF KillAll, TypeOK, Places, bounds

\* reload_inittab begins by disabling every entry.
LEMMA DisableFacts ==
    ASSUME TypeOK
    PROVE  LET new == [k \in 1..Len(list) |-> [list[k] EXCEPT !.type = "none"]] IN
           /\ new \in Seq(Entries) /\ Len(new) = Len(list)
           /\ \A k \in 1..Len(list) :
                new[k].type = "none" /\ new[k].key = list[k].key /\ new[k].pid = list[k].pid
<1>0. /\ Len(list) \in Nat
      /\ \A k \in 1..Len(list) : list[k] \in Entries
  BY ListFacts
<1> DEFINE g(k) == [list[k] EXCEPT !.type = "none"]
           new == [k \in 1..Len(list) |-> g(k)]
<1>1. ASSUME NEW k \in 1..Len(list)
      PROVE  /\ g(k) \in Entries
             /\ g(k).type = "none" /\ g(k).key = list[k].key /\ g(k).pid = list[k].pid
  BY <1>0 DEF Entries
<1> HIDE DEF g
<1>2. new \in [1..Len(list) -> Entries]
  BY <1>1
<1>3. new \in Seq(Entries)
  BY <1>0, <1>1, IsASeq
<1>4. Len(new) = Len(list)
  BY <1>0, <1>2, <1>3, LenProperties
<1>5. \A k \in 1..Len(list) : new[k] = g(k)
  OBVIOUS
<1>6. /\ new \in Seq(Entries) /\ Len(new) = Len(list)
      /\ \A k \in 1..Len(list) :
           new[k].type = "none" /\ new[k].key = list[k].key /\ new[k].pid = list[k].pid
  BY <1>1, <1>3, <1>4, <1>5
<1> QED
  BY <1>6 DEF g

LEMMA TakeSignalType ==
    ASSUME TypeOK, NEW s \in Signals, TakeSignal(s)
    PROVE  TypeOK'
<1>1. CASE s = "HUP"
  <2>1. list' \in Seq(Entries)
    BY <1>1, DisableFacts DEF TakeSignal, Halting
  <2>2. reading' \in Tables /\ at' = "parse" /\ cursor' = 1 /\ UNCHANGED <<group, cause>> /\ pending' \subseteq Signals
    BY <1>1 DEF TakeSignal, Halting, TypeOK
  <2> QED
    BY <2>1, <2>2 DEF TakeSignal, TypeOK, Entries, Places, bounds
<1>2. CASE s # "HUP"
  <2>1. UNCHANGED <<list, reading>> /\ pending' \subseteq Signals
    BY <1>2 DEF TakeSignal, GoDown, TypeOK
  <2>2. /\ at' \in {"walk", "reap"} /\ group' \in Groups /\ cursor' \in Nat \ {0}
        /\ cause' \in Signals \cup {"none"}
    BY <1>2 DEF TakeSignal, GoDown, Return, Run, TypeOK, Groups
  <2> QED
    BY <2>1, <2>2 DEF TakeSignal, TypeOK, Places, bounds
<1> QED
  BY <1>1, <1>2

LEMMA NextType == TypeOK /\ [Next]_vars => TypeOK'
<1> SUFFICES ASSUME TypeOK, [Next]_vars PROVE TypeOK'
  OBVIOUS
<1>1. CASE UNCHANGED vars
  BY <1>1 DEF vars, control, bounds, TypeOK
<1>2. CASE Step
  BY <1>2, QuietType, ListType, ProcType, CollectType, ForkFailsType, KillAllType, TakeSignalType DEF Step
<1>3. CASE Outside
  BY <1>3, QuietType, ProcType, CollectType DEF Outside
<1> QED
  BY <1>1, <1>2, <1>3 DEF Next

-----------------------------------------------------------------------------
(* The list and the processes                                              *)

\* Neither changes, and init comes neither from a Store nor to one.
LEMMA QuietList ==
    ASSUME TypeOK, ListInv,
           UNCHANGED <<list, procs>>,
           \/ UNCHANGED <<at, got, cursor>>
           \/ at # "store" /\ at' # "store",
           \/ UNCHANGED <<stops, failures, stopped>>
           \/ UNCHANGED <<stops, failures>> /\ ~stopped'
           \/ stops' # 0
    PROVE  ListInv'
<1>1. KeysUnique'
  BY DEF ListInv, KeysUnique, Whole
<1>2. TrackedListed'
  BY DEF ListInv, TrackedListed, Living, FreePids, Zombies
<1>3. StoreEmpty'
  BY DEF ListInv, StoreEmpty
<1>4. PidsExact'
  BY DEF ListInv, PidsExact, PidsUnique, Names
<1> QED
  BY <1>1, <1>2, <1>3, <1>4 DEF ListInv

\* The list that NewInitAction returns.
LEMMA ParseLineList ==
    ASSUME TypeOK, ListInv, ParseLine
    PROVE  ListInv'
<1>0. /\ at = "parse" /\ at' # "store" /\ procs' = procs
      /\ UNCHANGED <<stops, failures, stopped>>
  BY DEF ParseLine, bounds
<1>1. CASE reading[cursor].type = "bad"
  BY <1>0, <1>1, QuietList DEF ParseLine
<1>2. CASE reading[cursor].type # "bad"
  <2> DEFINE type == reading[cursor].type
             key == reading[cursor].key
  <2>1. type \in Types /\ key \in Keys
    BY <1>2, ReadingFacts DEF ParseLine, TypeOK, Lines
  <2>2. list' = NewInitAction(type, key)
    BY <1>2 DEF ParseLine
  <2>3. PICK n, f, g : Updated(list', type, key, n, f, g) /\ KeysAfter(list', key, n, g)
    BY <2>1, <2>2, NewInitActionKeys DEF ListInv
  <2> HIDE DEF type, key
  <2>k. /\ Whole(key) => list'[n + 1].key = key /\ \A j \in 1..n : list'[j].key # key
        /\ Whole(Cut[key]) => Cut[key] = key
        /\ g \in 1..Len(list) => list'[n + 1].key = list[g].key
    BY <2>3 DEF KeysAfter
  <2>a. n \in Nat /\ Len(list') = n + 1 /\ list'[n + 1].key = Cut[key] /\ Cut[Cut[key]] = Cut[key]
    BY <2>1, <2>3, CutAssumption DEF Updated
  <2>b. /\ g \in 1..Len(list) => list'[n + 1].pid = list[g].pid
        /\ g \notin 1..Len(list) => list'[n + 1].pid = 0
    BY <2>3 DEF Updated
  <2>c. \A j \in 1..n : f[j] \in 1..Len(list) /\ list'[j] = list[f[j]] /\ f[j] # g
    BY <2>3 DEF Updated
  <2>d. \A i, j \in 1..n : i < j => f[i] < f[j]
    BY <2>3 DEF Updated
  <2>e. \A h \in 1..Len(list) : h # g => \E j \in 1..n : f[j] = h
    BY <2>3 DEF Updated
  <2>f. ASSUME NEW i \in 1..n, NEW j \in 1..n, f[i] = f[j] PROVE i = j
    <3>1. ~(i < j) /\ ~(j < i) /\ i \in Int /\ j \in Int
      BY <2>a, <2>c, <2>d, <2>f
    <3> QED
      BY <3>1
  <2>4. \A j \in 1..Len(list') : j = n + 1 \/ j \in 1..n
    BY <2>a
  <2>5. KeysUnique'
    <3>0. \A j \in 1..Len(list') : Cut[list'[j].key] = list'[j].key
      BY <2>4, <2>a, <2>c DEF ListInv, KeysUnique
    <3>1. ASSUME NEW j \in 1..n, NEW k \in 1..n, list'[j].key = list'[k].key, Whole(list'[k].key)
          PROVE  j = k
      <4>1. f[j] = f[k]
        BY <2>c, <3>1 DEF ListInv, KeysUnique
      <4> QED
        BY <2>f, <4>1
    <3>2. ASSUME NEW j \in 1..n, list'[j].key = list'[n + 1].key, Whole(list'[j].key)
          PROVE  FALSE
      <4>1. Cut[key] = key /\ Whole(key)
        BY <2>a, <2>k, <3>2
      <4> QED
        BY <2>a, <2>k, <3>2, <4>1
    <3>3. ASSUME NEW j \in 1..Len(list'), NEW k \in 1..Len(list'),
                 list'[j].key = list'[k].key, Whole(list'[k].key)
          PROVE  j = k
      BY <2>4, <3>1, <3>2, <3>3
    <3> QED
      BY <3>0, <3>3 DEF KeysUnique, Whole
  <2>6. ASSUME NEW h \in 1..Len(list)
        PROVE  \E j \in 1..Len(list') : list'[j].key = list[h].key /\ list'[j].pid = list[h].pid
    <3>1. CASE h = g
      BY <2>a, <2>b, <2>k, <3>1
    <3>2. CASE h # g
      <4>1. PICK j \in 1..n : f[j] = h
        BY <2>e, <3>2
      <4>2. list'[j] = list[h] /\ j \in 1..Len(list')
        BY <2>a, <2>c, <4>1
      <4> QED
        BY <4>2
    <3> QED
      BY <3>1, <3>2
  <2>7. TrackedListed'
    <3>1. Living' = Living
      BY <1>0 DEF Living, FreePids, Zombies
    <3> QED
      BY <1>0, <2>6, <3>1 DEF ListInv, TrackedListed
  <2>8. StoreEmpty'
    BY <1>0 DEF StoreEmpty
  <2> DEFINE from(j) == IF j = n + 1 THEN g ELSE f[j]
  <2>9. ASSUME NEW j \in 1..Len(list'), list'[j].pid # 0
        PROVE  /\ from(j) \in 1..Len(list)
               /\ list'[j].key = list[from(j)].key /\ list'[j].pid = list[from(j)].pid
    <3>1. CASE j = n + 1
      BY <2>9, <2>b, <2>k, <3>1
    <3>2. CASE j \in 1..n
      <4>1. from(j) = f[j]
        BY <2>a, <3>2
      <4> QED
        BY <2>c, <3>2, <4>1
    <3> QED
      BY <2>4, <3>1, <3>2
  <2>10. ASSUME NEW i \in 1..Len(list'), NEW j \in 1..Len(list'), from(i) = from(j) PROVE i = j
    <3>1. \A k \in 1..n : from(k) = f[k] /\ f[k] # g
      BY <2>a, <2>c
    <3>2. from(n + 1) = g
      OBVIOUS
    <3> HIDE DEF from
    <3> QED
      BY <2>4, <2>10, <2>f, <3>1, <3>2
  <2> HIDE DEF from
  <2>11. PidsExact'
    <3>1. ASSUME stops = 0, failures = 0, NEW j \in 1..Len(list'), list'[j].pid # 0
          PROVE  Names(j, list[j].pid)'
      BY <1>0, <2>9, <3>1 DEF ListInv, PidsExact, Names
    <3>2. ASSUME stops = 0, failures = 0, NEW i \in 1..Len(list'), NEW j \in 1..Len(list'),
                 list'[i].pid # 0, list'[i].pid = list'[j].pid
          PROVE  i = j
      <4>1. from(i) = from(j)
        BY <2>9, <3>2 DEF ListInv, PidsExact, PidsUnique
      <4> QED
        BY <2>10, <4>1
    <3> QED
      BY <1>0, <3>1, <3>2 DEF ListInv, PidsExact, PidsUnique
  <2> QED
    BY <2>5, <2>7, <2>8, <2>11 DEF ListInv
<1> QED
  BY <1>1, <1>2

LEMMA PurgeList ==
    ASSUME TypeOK, ListInv, Purge
    PROVE  ListInv'
<1>0. at = "purge" /\ at' = "purge" /\ procs' = procs /\ UNCHANGED <<stops, failures, stopped>>
  BY DEF Purge, bounds
<1>1. CASE ~Stale(list[cursor])
  BY <1>0, <1>1, QuietList DEF Purge
<1>2. CASE Stale(list[cursor])
  <2>1. cursor \in 1..Len(list) /\ list' = Without(list, cursor) /\ list[cursor].pid = 0
    BY <1>2, ListFacts DEF Purge, TypeOK, Stale
  <2>2. PICK f : Thins(f, list', list, cursor)
    BY <2>1, WithoutFacts, ListFacts
  <2>3. /\ f \in [1..Len(list') -> 1..Len(list)]
        /\ \A j \in 1..Len(list') : list'[j] = list[f[j]]
        /\ \A i, j \in 1..Len(list') : i < j => f[i] < f[j]
        /\ \A h \in 1..Len(list) : h # cursor => \E j \in 1..Len(list') : f[j] = h
    BY <2>2 DEF Thins
  <2>a. ASSUME NEW i \in 1..Len(list'), NEW j \in 1..Len(list'), f[i] = f[j] PROVE i = j
    <3>1. ~(i < j) /\ ~(j < i) /\ i \in Int /\ j \in Int
      BY <2>3, <2>a
    <3> QED
      BY <3>1
  <2>4. KeysUnique'
    <3>1. ASSUME NEW j \in 1..Len(list'), NEW k \in 1..Len(list'),
                 list'[j].key = list'[k].key, Whole(list'[k].key)
          PROVE  j = k
      BY <2>3, <2>a, <3>1 DEF ListInv, KeysUnique
    <3>2. \A j \in 1..Len(list') : Cut[list'[j].key] = list'[j].key
      BY <2>3 DEF ListInv, KeysUnique
    <3> QED
      BY <3>1, <3>2 DEF KeysUnique, Whole
  <2>5. TrackedListed'
    <3> SUFFICES ASSUME NEW p \in Living, procs[p].kind = "tracked"
                 PROVE  \E k \in 1..Len(list') : list'[k].key = procs[p].key /\ list'[k].pid = p
      BY <1>0 DEF TrackedListed, Living, FreePids, Zombies
    <3>1. PICK h \in 1..Len(list) : list[h].key = procs[p].key /\ list[h].pid = p
      BY <1>0 DEF ListInv, TrackedListed
    <3>2. p # 0
      BY PidsAssumption DEF Living
    <3>3. PICK j \in 1..Len(list') : f[j] = h
      BY <2>1, <2>3, <3>1, <3>2
    <3>4. list'[j] = list[h]
      BY <2>3, <3>3
    <3> QED
      BY <3>1, <3>4
  <2>6. StoreEmpty'
    BY <1>0 DEF StoreEmpty
  <2>7. PidsExact'
    <3>1. stops = 0 /\ failures = 0 => PidsUnique'
      BY <1>0, <2>3, <2>a DEF ListInv, PidsExact, PidsUnique
    <3> QED
      BY <1>0, <2>3, <3>1 DEF ListInv, PidsExact, Names
  <2> QED
    BY <2>4, <2>5, <2>6, <2>7 DEF ListInv
<1> QED
  BY <1>1, <1>2

LEMMA StoreList ==
    ASSUME TypeOK, ListInv, Store
    PROVE  ListInv'
<1>0. /\ at = "store" /\ at' = "walk" /\ procs' = procs /\ UNCHANGED <<stops, failures, stopped>>
      /\ cursor \in 1..Len(list) /\ list \in Seq(Entries)
      /\ list' = [list EXCEPT ![cursor] = [list[cursor] EXCEPT !.pid = got]]
  BY ListFacts DEF Store, NextEntry, bounds, TypeOK
<1>1. /\ Len(list') = Len(list)
      /\ \A k \in 1..Len(list) : /\ list'[k].key = list[k].key
                                /\ list'[k].pid = IF k = cursor THEN got ELSE list[k].pid
  <2>1. list[cursor] \in Entries
    BY <1>0, ListFacts
  <2>2. /\ [list[cursor] EXCEPT !.pid = got].pid = got
        /\ [list[cursor] EXCEPT !.pid = got].key = list[cursor].key
    BY <2>1 DEF Entries
  <2>3. list \in [1..Len(list) -> Entries] /\ Len(list) \in Nat
    BY <1>0, LenProperties
  <2>4. Len(list') = Len(list)
    BY <1>0, <2>3
  <2> QED
    BY <1>0, <2>2, <2>3, <2>4
<1>2. KeysUnique'
  BY <1>1 DEF ListInv, KeysUnique, Whole
<1>3. TrackedListed'
  <2> SUFFICES ASSUME NEW p \in Living, procs[p].kind = "tracked"
               PROVE  \E k \in 1..Len(list') : list'[k].key = procs[p].key /\ list'[k].pid = p
    BY <1>0 DEF TrackedListed, Living, FreePids, Zombies
  <2>1. p # 0
    BY PidsAssumption DEF Living
  <2>2. CASE \E k \in 1..Len(list) : list[k].key = procs[p].key /\ list[k].pid = p
    <3>1. PICK k \in 1..Len(list) : list[k].key = procs[p].key /\ list[k].pid = p
      BY <2>2
    <3>2. k # cursor
      BY <1>0, <2>1, <3>1 DEF ListInv, StoreEmpty
    <3> QED
      BY <1>1, <3>1, <3>2
  <2>3. CASE got = p /\ list[cursor].key = procs[p].key
    BY <1>0, <1>1, <2>3
  <2> QED
    BY <2>2, <2>3 DEF ListInv, TrackedListed
<1>4. StoreEmpty'
  BY <1>0 DEF StoreEmpty
<1>5. PidsExact'
  BY <1>0, <1>1 DEF ListInv, PidsExact, PidsUnique, Names
<1> QED
  BY <1>2, <1>3, <1>4, <1>5 DEF ListInv

LEMMA ForkFailsList ==
    ASSUME TypeOK, ListInv, ForkFails
    PROVE  ListInv'
<1>0. /\ at = "walk" /\ UNCHANGED <<list, procs>> /\ cursor \in 1..Len(list)
      /\ failures' # 0 /\ UNCHANGED <<stops, stopped>>
      /\ at' = "store" => list[cursor].type \in Tracked /\ cursor' = cursor
  BY ListFacts DEF ForkFails, TypeOK
<1>1. KeysUnique'
  BY <1>0 DEF ListInv, KeysUnique, Whole
<1>2. TrackedListed'
  BY <1>0 DEF ListInv, TrackedListed, Living, FreePids, Zombies
<1>3. StoreEmpty'
  BY <1>0 DEF StoreEmpty, ForkFails, Due
<1>4. PidsExact'
  BY <1>0 DEF ListInv, PidsExact
<1> QED
  BY <1>1, <1>2, <1>3, <1>4 DEF ListInv

\* Collecting a child: the entry that named it no longer does, and it was alone.
LEMMA CollectList ==
    ASSUME TypeOK, ListInv, NEW p \in Pids, WaitChild(p) \/ Reap(p) \/ StopReap(p)
    PROVE  ListInv'
<1>0. /\ Collect(p) /\ UNCHANGED <<stops, failures, stopped>>
      /\ \/ UNCHANGED <<at, got, cursor>> /\ (stopped \/ at = "reap" \/ at = "wait")
         \/ at = "wait" /\ at' = "walk"
  BY DEF WaitChild, Reap, StopReap, NextEntry, control, bounds
<1>1. /\ procs[p] # NoProcess /\ procs[p].state = "zombie"
      /\ \A q \in Pids : procs'[q] = IF q = p THEN NoProcess ELSE procs[q]
      /\ Len(list') = Len(list)
  BY <1>0, CollectFacts
<1>2. \A k \in 1..Len(list) :
        /\ list'[k].type = list[k].type /\ list'[k].key = list[k].key
        /\ list'[k].pid = list[k].pid \/ (list'[k].pid = 0 /\ list[k].pid = p)
        /\ Linked(k) /\ (\A j \in 1..(k - 1) : list[j].pid # p) /\ list[k].pid = p
             => list'[k].pid = 0
  BY <1>0, CollectFacts
<1>3. KeysUnique'
  BY <1>1, <1>2 DEF ListInv, KeysUnique, Whole
<1>4. TypeOK'
  BY CollectType
<1>5. ASSUME NEW q \in Pids, q \in Living' PROVE q \in Living /\ q # p /\ procs'[q] = procs[q]
  BY <1>1, <1>4, <1>5, ProcFacts DEF Living, FreePids, Zombies, NoProcess
<1>6. TrackedListed'
  <2> SUFFICES ASSUME NEW q \in Pids, q \in Living', procs'[q].kind = "tracked"
               PROVE  \/ \E k \in 1..Len(list') : list'[k].key = procs'[q].key /\ list'[k].pid = q
                      \/ at' = "store" /\ got' = q /\ list'[cursor'].key = procs'[q].key
    BY DEF TrackedListed, Living
  <2>1. q \in Living /\ q # p /\ procs'[q] = procs[q]
    BY <1>5
  <2>2. CASE \E k \in 1..Len(list) : list[k].key = procs[q].key /\ list[k].pid = q
    BY <1>1, <1>2, <2>1, <2>2
  <2>3. CASE at = "store" /\ got = q /\ list[cursor].key = procs[q].key
    BY <1>0, <1>1, <1>2, <2>1, <2>3 DEF TypeOK
  <2> QED
    BY <2>1, <2>2, <2>3 DEF ListInv, TrackedListed
<1>7. StoreEmpty'
  BY <1>0, <1>1, <1>2 DEF ListInv, StoreEmpty, TypeOK
<1>8. PidsExact'
  <2>1. stops' = 0 => ~stopped'
    BY <1>0 DEF ListInv, PidsExact
  <2>2. ASSUME stops = 0, failures = 0, NEW k \in 1..Len(list), list'[k].pid # 0
        PROVE  Names(k, list[k].pid)'
    <3>1. list'[k].pid = list[k].pid /\ list'[k].key = list[k].key
      BY <1>2, <2>2
    <3>2. Names(k, list[k].pid)
      BY <2>2, <3>1 DEF ListInv, PidsExact
    <3>3. list[k].pid # p
      <4> SUFFICES ASSUME list[k].pid = p PROVE FALSE
        OBVIOUS
      <4>1. Linked(k)
        BY <1>0, <2>2 DEF Linked, ListInv, PidsExact
      <4>2. PICK j \in 1..(k - 1) : list[j].pid = p
        BY <1>2, <2>2, <3>1, <4>1
      <4>3. j \in 1..Len(list) /\ p # 0 /\ j # k
        BY PidsAssumption, ListFacts
      <4> QED
        BY <2>2, <4>2, <4>3 DEF ListInv, PidsExact, PidsUnique
    <3> QED
      BY <1>1, <3>1, <3>2, <3>3 DEF Names
  <2>3. stops = 0 => at' # "store"
    BY <1>0 DEF ListInv, PidsExact
  <2>4. stops = 0 /\ failures = 0 => PidsUnique'
    BY <1>0, <1>1, <1>2, <2>3 DEF ListInv, PidsExact, PidsUnique
  <2> QED
    BY <1>0, <1>1, <2>1, <2>2, <2>3, <2>4 DEF PidsExact
<1> QED
  BY <1>3, <1>6, <1>7, <1>8 DEF ListInv

\* Entries are disabled and keep their processes; any other signal leaves the list.
LEMMA TakeSignalList ==
    ASSUME TypeOK, ListInv, NEW s \in Signals, TakeSignal(s)
    PROVE  ListInv'
<1>0. at = "check" /\ UNCHANGED <<procs, stops, failures, stopped, got>>
  BY DEF TakeSignal, bounds
<1>1. CASE s # "HUP"
  <2>1. list' = list /\ at' # "store"
    BY <1>1 DEF TakeSignal, GoDown, Run, Return
  <2> QED
    BY <1>0, <2>1, QuietList
<1>2. CASE s = "HUP"
  <2>1. /\ at' = "parse" /\ Len(list') = Len(list)
        /\ \A k \in 1..Len(list) : list'[k].key = list[k].key /\ list'[k].pid = list[k].pid
    BY <1>2, DisableFacts DEF TakeSignal, Halting
  <2>2. KeysUnique'
    BY <2>1 DEF ListInv, KeysUnique, Whole
  <2>3. TrackedListed'
    BY <1>0, <2>1 DEF ListInv, TrackedListed, Living, FreePids, Zombies
  <2>4. StoreEmpty'
    BY <2>1 DEF StoreEmpty
  <2>5. PidsExact'
    BY <1>0, <2>1 DEF ListInv, PidsExact, PidsUnique, Names
  <2> QED
    BY <2>2, <2>3, <2>4, <2>5 DEF ListInv
<1> QED
  BY <1>1, <1>2

\* Processes end or go on, and stay what they are.
LEMMA StateList ==
    ASSUME TypeOK, TypeOK', ListInv, UNCHANGED <<list, stops, failures, stopped>>,
           UNCHANGED <<at, got, cursor>> \/ (at # "store" /\ at' # "store"),
           \A p \in Pids : procs'[p] = NoProcess <=> procs[p] = NoProcess,
           \A p \in Pids : procs[p] # NoProcess =>
               procs'[p].key = procs[p].key /\ procs'[p].kind = procs[p].kind,
           \A p \in Pids : p \in Living' => p \in Living
    PROVE  ListInv'
<1>1. KeysUnique'
  BY DEF ListInv, KeysUnique, Whole
<1>2. TrackedListed'
  <2> SUFFICES ASSUME NEW q \in Pids, q \in Living', procs'[q].kind = "tracked"
               PROVE  \/ \E k \in 1..Len(list') : list'[k].key = procs'[q].key /\ list'[k].pid = q
                      \/ at' = "store" /\ got' = q /\ list'[cursor'].key = procs'[q].key
    BY DEF TrackedListed, Living
  <2>1. q \in Living /\ procs[q] # NoProcess
    BY ProcFacts
  <2>2. procs'[q].key = procs[q].key /\ procs[q].kind = "tracked"
    BY <2>1
  <2> QED
    BY <2>1, <2>2 DEF ListInv, TrackedListed
<1>3. StoreEmpty'
  BY DEF ListInv, StoreEmpty
<1>4. PidsExact'
  BY DEF ListInv, PidsExact, PidsUnique, Names
<1> QED
  BY <1>1, <1>2, <1>3, <1>4 DEF ListInv

LEMMA EndList ==
    ASSUME TypeOK, ListInv, NEW p \in Pids, Exit(p) \/ PressEnter(p)
    PROVE  ListInv'
<1>1. PICK state \in {"zombie", "run"} :
        /\ procs[p] # NoProcess
        /\ procs' = [procs EXCEPT ![p] = [procs[p] EXCEPT !.state = state]]
        /\ p \in Living
  <2>1. CASE Exit(p)
    <3>1. procs[p] # NoProcess /\ p \in Living
      BY <2>1, ProcFacts DEF Exit
    <3>2. procs' = [procs EXCEPT ![p] = [procs[p] EXCEPT !.state = "zombie"]]
      BY <2>1 DEF Exit
    <3> QED
      BY <3>1, <3>2
  <2>2. CASE PressEnter(p)
    <3>1. procs[p].state = "ask"
      BY <2>2 DEF PressEnter
    <3>2. procs[p] # NoProcess /\ p \in Living
      BY <3>1 DEF NoProcess, Living, FreePids, Zombies
    <3>3. procs' = [procs EXCEPT ![p] = [procs[p] EXCEPT !.state = "run"]]
      BY <2>2 DEF PressEnter
    <3> QED
      BY <3>2, <3>3
  <2> QED
    BY <2>1, <2>2
<1>2. TypeOK'
  BY ProcType
<1>3. \A q \in Pids : procs'[q] = IF q = p THEN [procs[p] EXCEPT !.state = state] ELSE procs[q]
  BY <1>1 DEF TypeOK
<1>4. /\ \A q \in Pids : procs'[q] = NoProcess <=> procs[q] = NoProcess
      /\ \A q \in Pids : procs[q] # NoProcess =>
               procs'[q].key = procs[q].key /\ procs'[q].kind = procs[q].kind
  <2>0. state \in {"ask", "run", "zombie"} /\ procs'[p] = [procs[p] EXCEPT !.state = state]
    BY <1>3
  <2>1. /\ procs'[p] # NoProcess
        /\ procs'[p].key = procs[p].key /\ procs'[p].kind = procs[p].kind
    BY <1>1, <2>0, StateFacts, ZenonT(30)
  <2> QED
    BY <1>1, <1>3, <2>1
<1>5. ASSUME NEW q \in Pids, q \in Living' PROVE q \in Living
  <2>1. procs'[q] # NoProcess /\ procs'[q].state # "zombie"
    BY <1>2, <1>5, ProcFactsPrime
  <2> QED
    BY <1>1, <1>3, <2>1, ProcFacts
<1>6. UNCHANGED <<list, stops, failures, stopped, at, got, cursor>>
  BY DEF Exit, PressEnter, control, bounds
<1> QED
  BY <1>2, <1>4, <1>5, <1>6, StateList

LEMMA KillAllList ==
    ASSUME TypeOK, ListInv, KillAll
    PROVE  ListInv'
<1>1. TypeOK'
  BY KillAllType
<1>2. UNCHANGED <<list, stops, failures, stopped>> /\ at # "store" /\ at' # "store"
  BY DEF KillAll, bounds
<1>3. ASSUME NEW p \in Pids, p \in Living' PROVE p \in Living
  BY <1>1, <1>3, KillFacts, ProcFactsPrime
<1> QED
  BY <1>1, <1>2, <1>3, KillFacts, StateList

\* A new process has a number nobody has.
LEMMA NewFacts ==
    ASSUME TypeOK, TypeOK', NEW p \in Pids, Fresh(p), NEW c \in Process, c # NoProcess,
           procs' = [procs EXCEPT ![p] = c]
    PROVE  /\ procs[p] = NoProcess /\ procs'[p] = c
           /\ \A q \in Pids : q # p => procs'[q] = procs[q] /\ (q \in Living' <=> q \in Living)
<1>1. procs[p] = NoProcess
  BY ProcFacts DEF Fresh
<1>2. procs'[p] = c /\ \A q \in Pids : q # p => procs'[q] = procs[q]
  BY DEF TypeOK
<1>3. \A q \in Pids : q # p => (q \in Living' <=> q \in Living)
  BY <1>2, ProcFacts, ProcFactsPrime
<1> QED
  BY <1>1, <1>2, <1>3

\* A process init has not made is of no entry.
LEMMA OrphanList ==
    ASSUME TypeOK, ListInv, NEW p \in Pids, Orphan(p)
    PROVE  ListInv'
<1>0. /\ Fresh(p) /\ procs' = [procs EXCEPT ![p] = Child("run", "none", "orphan")]
      /\ UNCHANGED <<list, at, got, cursor, stops, failures, stopped>>
  BY DEF Orphan, control
<1>1. TypeOK'
  BY ProcType
<1> DEFINE c == Child("run", "none", "orphan")
<1>2. c \in Process /\ c # NoProcess /\ c.kind = "orphan"
  BY ChildFacts
<1>3. /\ procs[p] = NoProcess /\ procs'[p] = c
      /\ \A q \in Pids : q # p => procs'[q] = procs[q] /\ (q \in Living' <=> q \in Living)
  BY <1>0, <1>1, <1>2, NewFacts
<1> HIDE DEF c
<1>4. KeysUnique'
  BY <1>0 DEF ListInv, KeysUnique, Whole
<1>5. TrackedListed'
  <2> SUFFICES ASSUME NEW q \in Pids, q \in Living', procs'[q].kind = "tracked"
               PROVE  \/ \E k \in 1..Len(list') : list'[k].key = procs'[q].key /\ list'[k].pid = q
                      \/ at' = "store" /\ got' = q /\ list'[cursor'].key = procs'[q].key
    BY DEF TrackedListed, Living
  <2>1. q # p
    BY <1>2, <1>3
  <2> QED
    BY <1>0, <1>3, <2>1 DEF ListInv, TrackedListed
<1>6. StoreEmpty'
  BY <1>0 DEF ListInv, StoreEmpty
<1>7. PidsExact'
  BY <1>0, <1>3 DEF ListInv, PidsExact, PidsUnique, Names
<1> QED
  BY <1>4, <1>5, <1>6, <1>7 DEF ListInv

\* run(): what the new process is, and where init goes on.
LEMMA RunEntryFacts ==
    ASSUME TypeOK, NEW p \in Pids, RunEntry(p)
    PROVE  /\ cursor \in 1..Len(list) /\ at = "walk" /\ Due(list[cursor])
           /\ procs[p] = NoProcess /\ procs'[p] \in Process /\ procs'[p] # NoProcess
           /\ procs'[p].state # "zombie" /\ procs'[p].key = list[cursor].key
           /\ \A q \in Pids : q # p => procs'[q] = procs[q] /\ (q \in Living' <=> q \in Living)
           /\ \/ /\ list[cursor].type \in Waited /\ procs'[p].kind = "waited"
                 /\ at' = "wait" /\ got' = p /\ cursor' = cursor
              \/ /\ list[cursor].type = "once" /\ procs'[p].kind = "once"
                 /\ at' = "walk" /\ got' = got /\ cursor' = cursor + 1
              \/ /\ list[cursor].type \in Tracked /\ procs'[p].kind = "tracked"
                 /\ at' = "store" /\ got' = p /\ cursor' = cursor
           /\ UNCHANGED <<list, stops, failures, stopped>>
<1>1. /\ cursor \in 1..Len(list) /\ at = "walk" /\ Due(list[cursor]) /\ Fresh(p)
      /\ UNCHANGED <<list, stops, failures, stopped>>
  BY ListFacts DEF RunEntry, TypeOK, bounds
<1>2. list[cursor].key \in Keys
  BY <1>1, ListFacts DEF Entries
<1>3. PICK state \in {"ask", "run"}, kind \in {"waited", "once", "tracked"} :
        /\ procs' = [procs EXCEPT ![p] = Child(state, list[cursor].key, kind)]
        /\ \/ /\ list[cursor].type \in Waited /\ kind = "waited"
              /\ at' = "wait" /\ got' = p /\ cursor' = cursor
           \/ /\ list[cursor].type = "once" /\ kind = "once"
              /\ at' = "walk" /\ got' = got /\ cursor' = cursor + 1
           \/ /\ list[cursor].type \in Tracked /\ kind = "tracked"
              /\ at' = "store" /\ got' = p /\ cursor' = cursor
  BY DEF RunEntry
<1> DEFINE c == Child(state, list[cursor].key, kind)
<1>4. c \in Process /\ c # NoProcess /\ c.state = state /\ c.key = list[cursor].key /\ c.kind = kind
  BY <1>2, ChildFacts
<1>5. TypeOK'
  BY ProcType
<1>6. /\ procs[p] = NoProcess /\ procs'[p] = c
      /\ \A q \in Pids : q # p => procs'[q] = procs[q] /\ (q \in Living' <=> q \in Living)
  BY <1>1, <1>3, <1>4, <1>5, NewFacts
<1> HIDE DEF c
<1> QED
  BY <1>1, <1>3, <1>4, <1>6

LEMMA RunEntryList ==
    ASSUME TypeOK, ListInv, NEW p \in Pids, RunEntry(p)
    PROVE  ListInv'
<1>0. /\ cursor \in 1..Len(list) /\ at = "walk" /\ Due(list[cursor])
      /\ procs[p] = NoProcess /\ procs'[p] # NoProcess /\ procs'[p].key = list[cursor].key
      /\ \A q \in Pids : q # p => procs'[q] = procs[q] /\ (q \in Living' <=> q \in Living)
      /\ procs'[p].kind = "tracked" <=> at' = "store"
      /\ at' = "store" => list[cursor].type \in Tracked /\ got' = p /\ cursor' = cursor
      /\ UNCHANGED <<list, stops, failures, stopped>>
  BY RunEntryFacts
<1>1. KeysUnique'
  BY <1>0 DEF ListInv, KeysUnique, Whole
<1>2. TrackedListed'
  <2> SUFFICES ASSUME NEW q \in Pids, q \in Living', procs'[q].kind = "tracked"
               PROVE  \/ \E k \in 1..Len(list') : list'[k].key = procs'[q].key /\ list'[k].pid = q
                      \/ at' = "store" /\ got' = q /\ list'[cursor'].key = procs'[q].key
    BY DEF TrackedListed, Living
  <2>1. CASE q = p
    BY <1>0, <2>1
  <2>2. CASE q # p
    BY <1>0, <2>2 DEF ListInv, TrackedListed
  <2> QED
    BY <2>1, <2>2
<1>3. StoreEmpty'
  BY <1>0 DEF StoreEmpty, Due
<1>4. PidsExact'
  <2>1. p # 0
    BY PidsAssumption
  <2>2. stops = 0 /\ failures = 0 => \A k \in 1..Len(list) : list[k].pid # p
    BY <1>0, <2>1 DEF ListInv, PidsExact, Names
  <2>3. stops = 0 /\ failures = 0 => PidsUnique'
    BY <1>0, <2>2 DEF ListInv, PidsExact, PidsUnique
  <2> QED
    BY <1>0, <2>3 DEF ListInv, PidsExact, Names
<1> QED
  BY <1>1, <1>2, <1>3, <1>4 DEF ListInv

LEMMA NextList == TypeOK /\ ListInv /\ [Next]_vars => ListInv'
<1> SUFFICES ASSUME TypeOK, ListInv, [Next]_vars PROVE ListInv'
  OBVIOUS
<1>1. CASE UNCHANGED vars
  BY <1>1, QuietList DEF vars, control, bounds
<1>2. CASE LinkEntry \/ ParseEnd \/ PurgeEnd \/ Skip \/ WalkEnd \/ WaitNone \/ NoSignal \/ ReapEnd
  <2>1. UNCHANGED <<list, procs, stops, failures, stopped>> /\ at # "store" /\ at' # "store"
    BY <1>2 DEF LinkEntry, ParseEnd, PurgeEnd, Skip, WalkEnd, WaitNone, NoSignal, ReapEnd, Run,
                Return, NextEntry, bounds
  <2> QED
    BY <2>1, QuietList
<1>3. CASE Stop \/ Continue \/ \E s \in Signals : Send(s)
  <2>1. UNCHANGED <<list, procs>>
    BY <1>3 DEF Stop, Continue, Send
  <2>2. UNCHANGED <<at, got, cursor>> \/ (at # "store" /\ at' # "store")
    BY <1>3 DEF Stop, Continue, Send, control
  <2>3. \/ UNCHANGED <<stops, failures, stopped>>
        \/ UNCHANGED <<stops, failures>> /\ ~stopped'
        \/ stops' # 0
    BY <1>3 DEF Stop, Continue, Send, bounds, TypeOK
  <2> QED
    BY <2>1, <2>2, <2>3, QuietList
<1>4. CASE Step
  BY <1>2, <1>4, ParseLineList, PurgeList, StoreList, ForkFailsList, CollectList, TakeSignalList,
     KillAllList, RunEntryList DEF Step
<1>5. CASE Outside
  BY <1>3, <1>5, CollectList, EndList, OrphanList DEF Outside
<1> QED
  BY <1>1, <1>4, <1>5 DEF Next

-----------------------------------------------------------------------------
(* What happens to a process in a step                                     *)

\* A process of the next state is an old one, no more alive than before, or the new
\* one of a fork or of a parent that has gone.
LEMMA ProcessStep ==
    ASSUME TypeOK, TypeOK', [Next]_vars, NEW q \in Pids, procs'[q] # NoProcess
    PROVE  \/ /\ procs[q] # NoProcess /\ procs'[q].kind = procs[q].kind
              /\ q \in Living' => q \in Living
              /\ q \in Zombies' => q \in Zombies \/ Exit(q) \/ KillAll
           \/ RunEntry(q) /\ q \notin Zombies'
           \/ Orphan(q) /\ q \notin Zombies' /\ procs'[q].kind = "orphan"
<1> DEFINE Old == /\ procs[q] # NoProcess /\ procs'[q].kind = procs[q].kind
                  /\ q \in Living' => q \in Living
                  /\ q \in Zombies' => q \in Zombies \/ Exit(q) \/ KillAll
<1>1. ASSUME procs'[q] = procs[q] PROVE Old
  <2>1. (q \in Living' => q \in Living) /\ (q \in Zombies' => q \in Zombies)
    BY <1>1, ProcFacts, ProcFactsPrime
  <2> QED
    BY <1>1, <2>1
<1> HIDE DEF Old
<1>2. procs' = procs => Old
  BY <1>1
<1>3. ASSUME NEW p \in Pids, Collect(p) PROVE Old
  BY <1>1, <1>3, CollectFacts
<1>4. ASSUME NEW p \in Pids, Exit(p) \/ PressEnter(p) PROVE Old
  <2>1. CASE p # q
    BY <1>1, <1>4, <2>1 DEF Exit, PressEnter, TypeOK, Old
  <2>2. CASE p = q
    <3>0. procs[q].state = "ask" => procs[q] # NoProcess
      BY DEF NoProcess
    <3>1. procs[q] # NoProcess /\ q \in Living
      BY <1>4, <2>2, <3>0, ProcFacts DEF Exit, PressEnter
    <3>2. PICK state \in {"run", "zombie"} :
            /\ procs'[q] = [procs[q] EXCEPT !.state = state]
            /\ state = "zombie" => Exit(q)
      BY <1>4, <2>2 DEF Exit, PressEnter, TypeOK
    <3>3. procs'[q].kind = procs[q].kind /\ procs'[q].state = state
      BY <3>1, <3>2, StateFacts
    <3> QED
      BY <3>1, <3>2, <3>3, ProcFactsPrime DEF Old
  <2> QED
    BY <2>1, <2>2
<1>5. CASE KillAll
  <2>1. procs[q] # NoProcess /\ procs'[q].kind = procs[q].kind /\ procs'[q].state = "zombie"
    BY <1>5, KillFacts
  <2> QED
    BY <1>5, <2>1, ProcFactsPrime DEF Old
<1>6. ASSUME NEW p \in Pids, RunEntry(p) PROVE Old \/ (RunEntry(q) /\ q \notin Zombies')
  BY <1>1, <1>6, RunEntryFacts, ProcFactsPrime DEF Old
<1>7. ASSUME NEW p \in Pids, Orphan(p)
      PROVE  Old \/ (Orphan(q) /\ q \notin Zombies' /\ procs'[q].kind = "orphan")
  <2>1. CASE p # q
    BY <1>1, <1>7, <2>1 DEF Orphan, TypeOK, Old
  <2>2. CASE p = q
    <3>1. procs'[q] = Child("run", "none", "orphan")
      BY <1>7, <2>2 DEF Orphan, TypeOK
    <3>2. procs'[q].state = "run" /\ procs'[q].kind = "orphan"
      BY <3>1, ChildFacts
    <3> QED
      BY <1>7, <2>2, <3>2, ProcFactsPrime
  <2> QED
    BY <2>1, <2>2
<1>8. ASSUME \/ ParseLine \/ LinkEntry \/ ParseEnd \/ Purge \/ PurgeEnd
             \/ Skip \/ ForkFails \/ Store \/ WalkEnd \/ WaitNone
             \/ NoSignal \/ ReapEnd \/ Stop \/ Continue
             \/ \E s \in Signals : TakeSignal(s) \/ Send(s)
      PROVE  procs' = procs
  BY <1>8 DEF ParseLine, LinkEntry, ParseEnd, Purge, PurgeEnd, Skip, ForkFails, Store, WalkEnd, WaitNone,
              NoSignal, ReapEnd, Stop, Continue, TakeSignal, Send
<1>9. CASE UNCHANGED vars
  BY <1>2, <1>9 DEF vars, Old
<1>10. CASE Step
  BY <1>2, <1>3, <1>5, <1>6, <1>8, <1>10 DEF Step, WaitChild, Reap, Old
<1>11. CASE Outside
  BY <1>2, <1>3, <1>4, <1>7, <1>8, <1>11 DEF Outside, StopReap, Old
<1> QED
  BY <1>9, <1>10, <1>11 DEF Next, Old

-----------------------------------------------------------------------------
(* Waiting, and the way round the main loop                                *)

\* waitfor() is not left while the process it waits for lives.
LEMMA WaitStays ==
    ASSUME TypeOK, at = "wait", got \in Living, [Next]_vars
    PROVE  at' = "wait" /\ got' = got
<1>1. got \notin Zombies /\ got \notin FreePids /\ got \in Pids
  BY ProcFacts DEF Living
<1>2. CASE UNCHANGED vars
  BY <1>2 DEF vars, control
<1>3. CASE Step
  <2>1. ASSUME NEW p \in Pids, WaitChild(p) PROVE at' = "wait" /\ got' = got
    BY <1>1, <2>1 DEF WaitChild, Collect
  <2>2. ~WaitNone
    BY <1>1 DEF WaitNone
  <2>3. /\ ~ParseLine /\ ~LinkEntry /\ ~ParseEnd /\ ~Purge /\ ~PurgeEnd /\ ~Skip /\ ~ForkFails /\ ~Store
        /\ ~WalkEnd /\ ~NoSignal /\ ~ReapEnd /\ ~KillAll
        /\ \A p \in Pids : ~RunEntry(p) /\ ~Reap(p)
        /\ \A s \in Signals : ~TakeSignal(s)
    BY DEF ParseLine, LinkEntry, ParseEnd, Purge, PurgeEnd, Skip, ForkFails, Store, WalkEnd, NoSignal,
           ReapEnd, KillAll, RunEntry, Reap, TakeSignal
  <2> QED
    BY <1>3, <2>1, <2>2, <2>3 DEF Step
<1>4. CASE Outside
  BY <1>4 DEF Outside, Exit, PressEnter, Orphan, StopReap, Send, Stop, Continue, control
<1> QED
  BY <1>2, <1>3, <1>4 DEF Next

LEMMA NextWaited ==
    ASSUME TypeOK, TypeOK', WaitedForUntilGone, [Next]_vars
    PROVE  WaitedForUntilGone'
<1> SUFFICES ASSUME NEW q \in Pids, q \in Living', procs'[q].kind = "waited"
             PROVE  at' = "wait" /\ got' = q
  BY DEF WaitedForUntilGone, Living
<1>1. procs'[q] # NoProcess
  BY ProcFactsPrime
<1>2. CASE q \in Living /\ procs[q].kind = "waited"
  BY <1>2, WaitStays DEF WaitedForUntilGone
<1>3. CASE RunEntry(q)
  BY <1>3, RunEntryFacts
<1> QED
  BY <1>1, <1>2, <1>3, ProcessStep

LEMMA NextPlaces ==
    ASSUME TypeOK, PlacesAgree, [Next]_vars
    PROVE  PlacesAgree'
<1>1. CASE UNCHANGED vars
  BY <1>1 DEF vars, control, PlacesAgree
<1>2. CASE ParseLine \/ LinkEntry \/ ParseEnd \/ Purge \/ PurgeEnd
  BY <1>2 DEF ParseLine, LinkEntry, ParseEnd, Purge, PurgeEnd, Run, Return, PlacesAgree, TypeOK
<1>3. CASE Skip \/ ForkFails \/ Store \/ WaitNone
  BY <1>3 DEF Skip, ForkFails, Store, WaitNone, NextEntry, PlacesAgree, TypeOK
<1>4. CASE WalkEnd \/ NoSignal
  BY <1>4 DEF WalkEnd, NoSignal, Run, Return, PlacesAgree, TypeOK
<1>5. CASE ReapEnd \/ KillAll
  BY <1>5 DEF ReapEnd, KillAll, Run, PlacesAgree, TypeOK
<1>6. ASSUME NEW p \in Pids, RunEntry(p) PROVE PlacesAgree'
  BY <1>6, RunEntryFacts DEF RunEntry, PlacesAgree
<1>7. ASSUME NEW p \in Pids, WaitChild(p) \/ Reap(p) PROVE PlacesAgree'
  BY <1>7 DEF WaitChild, Reap, NextEntry, control, PlacesAgree
<1>8. ASSUME NEW s \in Signals, TakeSignal(s) PROVE PlacesAgree'
  BY <1>8 DEF TakeSignal, GoDown, Run, Return, PlacesAgree, TypeOK
<1>9. CASE Step
  BY <1>2, <1>3, <1>4, <1>5, <1>6, <1>7, <1>8, <1>9 DEF Step
<1>10. CASE Outside
  BY <1>10 DEF Outside, Exit, PressEnter, Orphan, StopReap, Send, Stop, Continue, control, PlacesAgree
<1> QED
  BY <1>1, <1>9, <1>10 DEF Next

\* Once in the main loop or on its way down, init does not go back to the boot.
LEMMA LateStays ==
    ASSUME TypeOK, PlacesAgree, Late, [Next]_vars
    PROVE  Late'
<1>1. CASE UNCHANGED vars
  BY <1>1 DEF vars, control, Late
<1>2. CASE ParseLine \/ LinkEntry \/ ParseEnd \/ Purge \/ PurgeEnd
  BY <1>2 DEF ParseLine, LinkEntry, ParseEnd, Purge, PurgeEnd, Run, Return, PlacesAgree, Late
<1>3. CASE Skip \/ ForkFails \/ Store \/ WaitNone
  BY <1>3 DEF Skip, ForkFails, Store, WaitNone, NextEntry, Late
<1>4. CASE WalkEnd \/ NoSignal
  BY <1>4 DEF WalkEnd, NoSignal, Run, Return, PlacesAgree, Late
<1>5. CASE ReapEnd \/ KillAll
  BY <1>5 DEF ReapEnd, KillAll, Run, Late
<1>6. ASSUME NEW p \in Pids, RunEntry(p) PROVE Late'
  BY <1>6, RunEntryFacts DEF RunEntry, Late
<1>7. ASSUME NEW p \in Pids, WaitChild(p) \/ Reap(p) PROVE Late'
  BY <1>7 DEF WaitChild, Reap, NextEntry, control, Late
<1>8. ASSUME NEW s \in Signals, TakeSignal(s) PROVE Late'
  BY <1>8 DEF TakeSignal, GoDown, Run, Return, PlacesAgree, Late
<1>9. CASE Step
  BY <1>2, <1>3, <1>4, <1>5, <1>6, <1>7, <1>8, <1>9 DEF Step
<1>10. CASE Outside
  BY <1>10 DEF Outside, Exit, PressEnter, Orphan, StopReap, Send, Stop, Continue, control, Late
<1> QED
  BY <1>1, <1>9, <1>10 DEF Next

LEMMA NextLate ==
    ASSUME TypeOK, TypeOK', PlacesAgree, TrackedLate, [Next]_vars
    PROVE  TrackedLate'
<1> SUFFICES ASSUME NEW q \in Pids, procs'[q] # NoProcess, procs'[q].kind = "tracked"
             PROVE  Late'
  BY DEF TrackedLate
<1>1. CASE procs[q] # NoProcess /\ procs[q].kind = "tracked"
  BY <1>1, LateStays DEF TrackedLate
<1>2. CASE RunEntry(q)
  <2>1. list[cursor].type \in Tracked /\ InGroup(list[cursor].type) /\ at' = "store" /\ group' = group
    BY <1>2, RunEntryFacts DEF RunEntry, Due
  <2> QED
    BY <2>1 DEF InGroup, Tracked, Late, TypeOK, Groups
<1> QED
  BY <1>1, <1>2, ProcessStep

\* A SIGCHLD is taken where the children are collected next; as long as one is left,
\* init does not leave that place.
LEMMA NoticedStays ==
    ASSUME TypeOK, PlacesAgree, Late, Noticed, Zombies # {}, [Next]_vars
    PROVE  Noticed'
<1>1. CASE UNCHANGED vars
  BY <1>1 DEF vars, control, Noticed
<1>2. CASE ParseLine \/ LinkEntry \/ ParseEnd \/ Purge \/ PurgeEnd
  BY <1>2 DEF ParseLine, LinkEntry, ParseEnd, Purge, PurgeEnd, PlacesAgree, Noticed
<1>3. CASE Skip \/ ForkFails \/ Store \/ WaitNone
  BY <1>3 DEF Skip, ForkFails, Store, WaitNone, Noticed
<1>4. CASE WalkEnd \/ NoSignal
  BY <1>4 DEF WalkEnd, NoSignal, PlacesAgree, Noticed
<1>5. CASE ReapEnd \/ KillAll
  BY <1>5 DEF ReapEnd, KillAll, Noticed
<1>6. ASSUME NEW p \in Pids, RunEntry(p) PROVE Noticed'
  BY <1>6 DEF RunEntry, Noticed
<1>7. ASSUME NEW p \in Pids, WaitChild(p) \/ Reap(p) PROVE Noticed'
  BY <1>7 DEF WaitChild, Reap, control, Noticed
<1>8. ASSUME NEW s \in Signals, TakeSignal(s) PROVE Noticed'
  <2>1. s = "CHLD" => after = "reap"
    BY <1>8 DEF TakeSignal, PlacesAgree, Late, Noticed
  <2>2. CASE s = "CHLD"
    BY <1>8, <2>1, <2>2 DEF TakeSignal, Return, Halting, Noticed
  <2>3. CASE s # "CHLD"
    BY <1>8, <2>3 DEF TakeSignal, GoDown, Run, PlacesAgree, Noticed
  <2> QED
    BY <2>2, <2>3
<1>9. CASE Step
  BY <1>2, <1>3, <1>4, <1>5, <1>6, <1>7, <1>8, <1>9 DEF Step
<1>10. CASE Outside
  <2>1. pending \subseteq pending'
    BY <1>10 DEF Outside, Exit, PressEnter, Orphan, StopReap, Send, Stop, Continue
  <2>2. group' = group /\ (at = "reap" => at' = "reap")
    BY <1>10 DEF Outside, Exit, PressEnter, Orphan, StopReap, Send, Stop, Continue, control
  <2> QED
    BY <2>1, <2>2 DEF Noticed
<1> QED
  BY <1>1, <1>9, <1>10 DEF Next

LEMMA NextExits ==
    ASSUME TypeOK, TypeOK', PlacesAgree, TrackedLate, ExitsPending, [Next]_vars
    PROVE  ExitsPending'
<1> SUFFICES ASSUME NEW q \in Pids, q \in Zombies', procs'[q].kind = "tracked"
             PROVE  Noticed'
  BY DEF ExitsPending, Zombies
<1>1. procs'[q] # NoProcess
  BY ProcFactsPrime
<1>2. CASE q \in Zombies /\ procs[q] # NoProcess /\ procs[q].kind = "tracked"
  BY <1>2, NoticedStays DEF TrackedLate, ExitsPending
<1>3. CASE Exit(q)
  BY <1>3 DEF Exit, Blocking, control, Noticed
<1>4. CASE KillAll
  BY <1>4 DEF KillAll, PlacesAgree, Noticed
<1> QED
  BY <1>1, <1>2, <1>3, <1>4, ProcessStep

LEMMA NextControl ==
    ASSUME TypeOK, TypeOK', ControlInv, [Next]_vars
    PROVE  ControlInv'
BY NextPlaces, NextLate, NextExits DEF ControlInv

-----------------------------------------------------------------------------
(* Reading a table                                                         *)

\* A step that reads no line may change the pids of the list, which do not matter here.
LEMMA TableKept ==
    ASSUME TypeOK, TableSoFar, Parsing, reading' = reading, Seen' = Seen, Len(list') = Len(list),
           \A k \in 1..Len(list) : list'[k].type = list[k].type /\ list'[k].key = list[k].key
    PROVE  TableSoFar'
<1>1. \A k : LastSoFar(k)' <=> LastSoFar(k)
  BY DEF LastSoFar
<1>2. Seen' \in 0..Len(reading')
  BY DEF TableSoFar
<1>3. ASSUME NEW k \in 1..Seen, LastSoFar(k), Whole(reading[k].key)
      PROVE  /\ \E j \in 1..Len(list') : list'[j].type = reading'[k].type /\ list'[j].key = reading'[k].key
             /\ \A m \in 1..(k - 1) : LastSoFar(m) /\ Whole(reading[m].key) =>
                  \A h, j \in 1..Len(list') :
                      list'[h].key = reading'[m].key /\ list'[j].key = reading'[k].key => h < j
  BY <1>3 DEF TableSoFar
<1>4. ASSUME NEW j \in 1..Len(list'), list'[j].type # "none"
      PROVE  \E k \in 1..Seen : LastSoFar(k) /\ Cut[reading'[k].key] = list'[j].key
  <2>1. j \in 1..Len(list) /\ list[j].type # "none" /\ list'[j].key = list[j].key
    BY <1>4
  <2>2. PICK k \in 1..Seen : LastSoFar(k) /\ Cut[reading[k].key] = list[j].key
    BY <2>1 DEF TableSoFar
  <2> QED
    BY <2>1, <2>2
<1>5. \A k : Whole(reading[k].key)' <=> Whole(reading[k].key)
  BY DEF Whole
<1> HIDE DEF Seen, Whole, LastSoFar
<1> QED
  BY <1>1, <1>2, <1>3, <1>4, <1>5 DEF TableSoFar

\* The last line for an entry stays the last one unless the line read is for it too.
LEMMA LastStep ==
    ASSUME TypeOK, ParseLine
    PROVE  /\ cursor \in 1..Len(reading) /\ reading' = reading
           /\ Parsing /\ Seen = cursor - 1 /\ Seen' = cursor
           /\ \A k : k = cursor => (LastSoFar(k)' <=> reading[k].type # "bad")
           /\ \A k \in 1..(cursor - 1) : LastSoFar(k)' <=>
                LastSoFar(k) /\ (reading[cursor].type # "bad" => reading[cursor].key # reading[k].key)
<1>1. /\ cursor \in 1..Len(reading) /\ reading' = reading
      /\ Parsing /\ Seen = cursor - 1 /\ Seen' = cursor
  BY ReadingFacts DEF ParseLine, TypeOK, Parsing, Seen
<1>2. ASSUME NEW k, k = cursor PROVE LastSoFar(k)' <=> reading[k].type # "bad"
  <2>1. (k + 1)..Seen' = {}
    BY <1>1, <1>2
  <2> QED
    BY <1>1, <2>1 DEF LastSoFar
<1>3. ASSUME NEW k \in 1..(cursor - 1)
      PROVE  LastSoFar(k)' <=>
               LastSoFar(k) /\ (reading[cursor].type # "bad" => reading[cursor].key # reading[k].key)
  <2>1. (k + 1)..Seen' = ((k + 1)..Seen) \cup {cursor}
    BY <1>1
  <2> QED
    BY <1>1, <2>1 DEF LastSoFar
<1> QED
  BY <1>1, <1>2, <1>3

LEMMA ParseLineTable ==
    ASSUME TypeOK, KeysUnique, TableSoFar, ParseLine
    PROVE  TableSoFar'
<1>0. /\ cursor \in 1..Len(reading) /\ reading' = reading
      /\ Parsing /\ Seen = cursor - 1 /\ Seen' = cursor /\ Len(reading) \in Nat
  BY LastStep, ReadingFacts
<1>1. /\ \A k : k = cursor => (LastSoFar(k)' <=> reading[k].type # "bad")
      /\ \A k \in 1..(cursor - 1) : LastSoFar(k)' <=>
           LastSoFar(k) /\ (reading[cursor].type # "bad" => reading[cursor].key # reading[k].key)
  BY LastStep
<1>2. \A k \in 1..cursor : k = cursor \/ k \in 1..(cursor - 1)
  BY <1>0
<1>3. /\ cursor \in 0..Len(reading) /\ cursor \in 1..cursor
      /\ \A k \in 1..(cursor - 1) : k \in 1..cursor
  BY <1>0
\* TableSoFar in two parts: the lines are in the list, in their order, and nothing else.
<1>4. \A k \in 1..(cursor - 1) : LastSoFar(k) /\ Whole(reading[k].key) =>
        /\ \E j \in 1..Len(list) : list[j].type = reading[k].type /\ list[j].key = reading[k].key
        /\ \A m \in 1..(k - 1) : LastSoFar(m) /\ Whole(reading[m].key) =>
             \A h, j \in 1..Len(list) :
                list[h].key = reading[m].key /\ list[j].key = reading[k].key => h < j
  BY <1>0 DEF TableSoFar
<1>5. \A j \in 1..Len(list) : list[j].type # "none" =>
        \E k \in 1..(cursor - 1) : LastSoFar(k) /\ Cut[reading[k].key] = list[j].key
  BY <1>0 DEF TableSoFar
<1>6. SUFFICES
        /\ \A k \in 1..cursor : LastSoFar(k)' /\ Whole(reading[k].key) =>
             /\ \E j \in 1..Len(list') : list'[j].type = reading[k].type /\ list'[j].key = reading[k].key
             /\ \A m \in 1..(k - 1) : LastSoFar(m)' /\ Whole(reading[m].key) =>
                  \A h, j \in 1..Len(list') :
                     list'[h].key = reading[m].key /\ list'[j].key = reading[k].key => h < j
        /\ \A j \in 1..Len(list') : list'[j].type # "none" =>
             \E k \in 1..cursor : LastSoFar(k)' /\ Cut[reading[k].key] = list'[j].key
  <2>1. \A k : Whole(reading[k].key)' <=> Whole(reading[k].key)
    BY <1>0 DEF Whole
  <2> QED
    BY <1>0, <1>3, <2>1 DEF TableSoFar
<1>7. CASE reading[cursor].type = "bad"
  <2>1. list' = list
    BY <1>7 DEF ParseLine
  <2>2. \A k \in 1..cursor : LastSoFar(k)' => k \in 1..(cursor - 1) /\ LastSoFar(k)
    BY <1>1, <1>2, <1>7
  <2>3. \A k \in 1..(cursor - 1) : LastSoFar(k) => LastSoFar(k)'
    BY <1>1, <1>7
  <2>4. \A k \in 1..cursor : \A m \in 1..(k - 1) : m \in 1..cursor
    BY <1>0
  <2>5. \A k \in 1..cursor : LastSoFar(k)' /\ Whole(reading[k].key) =>
          \E j \in 1..Len(list) : list[j].type = reading[k].type /\ list[j].key = reading[k].key
    BY <1>4, <2>2
  <2>6. ASSUME NEW k \in 1..cursor, LastSoFar(k)', Whole(reading[k].key),
               NEW m \in 1..(k - 1), LastSoFar(m)', Whole(reading[m].key)
        PROVE  \A h, j \in 1..Len(list) :
                 list[h].key = reading[m].key /\ list[j].key = reading[k].key => h < j
    BY <1>4, <2>2, <2>4, <2>6
  <2>7. ASSUME NEW j \in 1..Len(list), list[j].type # "none"
        PROVE  \E k \in 1..cursor : LastSoFar(k)' /\ Cut[reading[k].key] = list[j].key
    <3>1. PICK k \in 1..(cursor - 1) : LastSoFar(k) /\ Cut[reading[k].key] = list[j].key
      BY <1>5, <2>7
    <3> QED
      BY <1>3, <2>3, <3>1
  <2> QED
    BY <2>1, <2>5, <2>6, <2>7
<1>8. CASE reading[cursor].type # "bad"
  <2> DEFINE type == reading[cursor].type
             key == reading[cursor].key
  <2>1. type \in Types /\ key \in Keys
    BY <1>0, <1>8, ReadingFacts DEF Lines
  <2>2. list' = NewInitAction(type, key)
    BY <1>8 DEF ParseLine
  <2>3. PICK n, f, g : Updated(list', type, key, n, f, g) /\ KeysAfter(list', key, n, g)
    BY <2>1, <2>2, NewInitActionKeys
  <2>4. \A k : k = cursor => LastSoFar(k)'
    BY <1>1, <1>8
  <2>5. \A k \in 1..(cursor - 1) : LastSoFar(k)' <=> LastSoFar(k) /\ reading[k].key # key
    BY <1>1, <1>8
  <2>6. reading[cursor].type = type /\ reading[cursor].key = key
    OBVIOUS
  <2>k. Whole(key) => list'[n + 1].key = key /\ \A j \in 1..n : list'[j].key # key
    BY <2>3 DEF KeysAfter
  <2> HIDE DEF type, key
  <2>7. /\ n \in Nat /\ Len(list') = n + 1 /\ list'[n + 1].type = type
        /\ list'[n + 1].key = Cut[key]
    BY <2>3 DEF Updated
  <2>8. \A j \in 1..n : f[j] \in 1..Len(list) /\ list'[j] = list[f[j]]
    BY <2>3 DEF Updated
  <2>9. \A i, j \in 1..n : i < j => f[i] < f[j]
    BY <2>3 DEF Updated
  <2>10. \A h \in 1..Len(list) : list[h].key # key => \E j \in 1..n : f[j] = h
    BY <2>3 DEF Updated
  <2>11. \A j \in 1..Len(list') : j = n + 1 \/ j \in 1..n
    BY <2>7
  <2>12. n + 1 \in 1..Len(list') /\ \A j \in 1..n : j \in 1..Len(list')
    BY <2>7
  \* The last entry is for no whole key but the one of the line.
  <2>w. ASSUME NEW k \in 1..cursor, Whole(reading[k].key), list'[n + 1].key = reading[k].key
        PROVE  reading[k].key = key
    BY <2>1, <2>7, <2>w DEF Whole
  <2>13. ASSUME NEW k \in 1..cursor, LastSoFar(k)', Whole(reading[k].key)
         PROVE  \E j \in 1..Len(list') : list'[j].type = reading[k].type /\ list'[j].key = reading[k].key
    <3>1. CASE k = cursor
      BY <2>6, <2>7, <2>12, <2>13, <2>k, <3>1
    <3>2. CASE k \in 1..(cursor - 1)
      <4>1. LastSoFar(k) /\ reading[k].key # key
        BY <2>5, <2>13, <3>2
      <4>2. PICK h \in 1..Len(list) : list[h].type = reading[k].type /\ list[h].key = reading[k].key
        BY <1>4, <2>13, <3>2, <4>1
      <4>3. PICK j \in 1..n : f[j] = h
        BY <2>10, <4>1, <4>2
      <4> QED
        BY <2>8, <2>12, <4>2, <4>3
    <3> QED
      BY <1>2, <3>1, <3>2
  <2>14. ASSUME NEW k \in 1..cursor, LastSoFar(k)', Whole(reading[k].key),
                NEW m \in 1..(k - 1), LastSoFar(m)', Whole(reading[m].key),
                NEW h \in 1..Len(list'), NEW j \in 1..Len(list'),
                list'[h].key = reading[m].key, list'[j].key = reading[k].key
         PROVE  h < j
    <3>0. m \in 1..(cursor - 1) /\ m \in 1..cursor
      BY <1>0
    <3>1. LastSoFar(m) /\ reading[m].key # key
      BY <2>5, <2>14, <3>0
    <3>2. h \in 1..n
      BY <2>11, <2>14, <2>w, <3>0, <3>1
    <3>3. CASE k = cursor
      <4>1. j = n + 1
        BY <2>6, <2>11, <2>14, <2>k, <3>3
      <4> QED
        BY <2>7, <3>2, <4>1
    <3>4. CASE k \in 1..(cursor - 1)
      <4>1. LastSoFar(k) /\ reading[k].key # key
        BY <2>5, <2>14, <3>4
      <4>2. j \in 1..n
        BY <2>11, <2>14, <2>w, <4>1
      <4>3. /\ f[h] \in 1..Len(list) /\ f[j] \in 1..Len(list)
            /\ list[f[h]].key = reading[m].key /\ list[f[j]].key = reading[k].key
        BY <2>8, <2>14, <3>2, <4>2
      <4>4. f[h] < f[j]
        BY <1>4, <2>14, <3>1, <3>4, <4>1, <4>3
      <4>5. ~(j < h) /\ j # h
        <5>1. j < h => f[j] < f[h]
          BY <2>9, <3>2, <4>2
        <5>2. f[h] \in Int /\ f[j] \in Int
          BY <4>3
        <5> QED
          BY <4>4, <5>1, <5>2
      <4> QED
        BY <3>2, <4>2, <4>5
    <3> QED
      BY <1>2, <3>3, <3>4
  <2>15. ASSUME NEW j \in 1..Len(list'), list'[j].type # "none"
         PROVE  \E k \in 1..cursor : LastSoFar(k)' /\ Cut[reading[k].key] = list'[j].key
    <3>1. CASE list'[j].key = Cut[key]
      BY <1>3, <2>4, <2>6, <3>1
    <3>2. CASE list'[j].key # Cut[key]
      <4>0. j \in 1..n
        BY <2>7, <2>11, <3>2
      <4>1. f[j] \in 1..Len(list) /\ list'[j] = list[f[j]]
        BY <2>8, <4>0
      <4>2. PICK k \in 1..(cursor - 1) : LastSoFar(k) /\ Cut[reading[k].key] = list'[j].key
        BY <1>5, <2>15, <4>1
      <4>3. reading[k].key # key
        BY <3>2, <4>2
      <4> QED
        BY <1>3, <2>5, <4>2, <4>3
    <3> QED
      BY <3>1, <3>2
  <2> QED
    BY <2>13, <2>14, <2>15
<1> QED
  BY <1>7, <1>8

LEMMA NextTable ==
    ASSUME TypeOK, KeysUnique, TableSoFar, [Next]_vars
    PROVE  TableSoFar'
<1>1. CASE UNCHANGED <<list, at, reading, cursor>>
  <2>1. CASE Parsing
    BY <1>1, <2>1, TableKept DEF Seen
  <2>2. CASE ~Parsing
    BY <1>1, <2>2 DEF TableSoFar, Parsing
  <2> QED
    BY <2>1, <2>2
<1>2. ASSUME ~Parsing' PROVE TableSoFar'
  BY <1>2 DEF TableSoFar
<1>3. ASSUME NEW p \in Pids, StopReap(p) PROVE TableSoFar'
  <2>1. UNCHANGED <<at, reading, cursor>> /\ Collect(p)
    BY <1>3 DEF StopReap, control
  <2>2. CASE Parsing
    BY <2>1, <2>2, CollectFacts, TableKept DEF Seen
  <2>3. CASE ~Parsing
    BY <2>1, <2>3 DEF TableSoFar, Parsing
  <2> QED
    BY <2>2, <2>3
<1>4. ASSUME NEW s \in Signals, TakeSignal(s) PROVE TableSoFar'
  <2>1. CASE s = "HUP"
    <3>1. /\ reading' \in Tables /\ at' = "parse" /\ cursor' = 1 /\ Len(list') = Len(list)
          /\ \A k \in 1..Len(list) : list'[k].type = "none"
      BY <1>4, <2>1, DisableFacts DEF TakeSignal, Halting
    <3>2. Len(reading') \in Nat /\ Seen' = 0
      BY <3>1, TablesAssumption, LenProperties DEF Seen
    <3> QED
      BY <3>1, <3>2 DEF TableSoFar
  <2>2. CASE s # "HUP"
    BY <1>2, <1>4, <2>2 DEF TakeSignal, GoDown, Run, Return, Parsing
  <2> QED
    BY <2>1, <2>2
<1>5. CASE Step
  <2>1. CASE ParseLine
    BY <2>1, ParseLineTable
  <2>2. ASSUME \/ ParseEnd \/ Purge \/ PurgeEnd \/ Skip \/ ForkFails \/ Store \/ WalkEnd \/ WaitNone
               \/ NoSignal \/ ReapEnd \/ KillAll
        PROVE  ~Parsing'
    BY <2>2 DEF ParseEnd, Purge, PurgeEnd, Skip, ForkFails, Store, WalkEnd, WaitNone, NoSignal,
                ReapEnd, KillAll, Run, Return, NextEntry, Parsing
  <2>3. ASSUME NEW p \in Pids, RunEntry(p) \/ WaitChild(p) \/ Reap(p) PROVE ~Parsing'
    BY <2>3 DEF RunEntry, WaitChild, Reap, NextEntry, control, Parsing
  <2>4. CASE LinkEntry
    <3>1. Parsing /\ UNCHANGED <<list, reading>> /\ Seen' = Seen
      BY <2>4 DEF LinkEntry, Parsing, Seen, TypeOK
    <3> QED
      BY <3>1, TableKept
  <2> QED
    BY <1>2, <1>4, <1>5, <2>1, <2>2, <2>3, <2>4 DEF Step
<1>6. CASE Outside
  <2>1. ASSUME Stop \/ Continue \/ \E s \in Signals : Send(s)
        PROVE  UNCHANGED <<list, reading, cursor>> /\ (Parsing' => at' = at)
    BY <2>1 DEF Stop, Continue, Send, control, Parsing
  <2>2. ASSUME NEW p \in Pids, Exit(p) \/ PressEnter(p) \/ Orphan(p)
        PROVE  UNCHANGED <<list, at, reading, cursor>>
    BY <2>2 DEF Exit, PressEnter, Orphan, control
  <2> QED
    BY <1>1, <1>2, <1>3, <1>6, <2>1, <2>2 DEF Outside
<1>7. CASE UNCHANGED vars
  BY <1>1, <1>7 DEF vars, control
<1> QED
  BY <1>5, <1>6, <1>7 DEF Next

-----------------------------------------------------------------------------
(* The properties                                                          *)

LEMMA InitIInv == Init => IInv
<1> SUFFICES ASSUME Init PROVE IInv
  OBVIOUS
<1>1. TypeOK
  BY InitType
<1>2. list = <<>> /\ Len(list) = 0 /\ at = "parse" /\ cursor = 1
  BY EmptySeq DEF Init
<1>3. \A p \in Pids : procs[p] = NoProcess
  BY DEF Init
<1>4. Living = {} /\ Zombies = {}
  BY <1>1, <1>3, ProcFacts DEF Living, Zombies
<1>5. WaitedForUntilGone
  BY <1>4 DEF WaitedForUntilGone
<1>6. ListInv
  BY <1>2, <1>4 DEF ListInv, KeysUnique, TrackedListed, StoreEmpty, PidsExact, PidsUnique, Init
<1>7. ControlInv
  BY <1>3, <1>4 DEF ControlInv, PlacesAgree, TrackedLate, ExitsPending, Init
<1>8. TableSoFar
  BY <1>1, <1>2, ReadingFacts DEF TableSoFar, Seen
<1> QED
  BY <1>1, <1>5, <1>6, <1>7, <1>8 DEF IInv

LEMMA NextIInv == IInv /\ [Next]_vars => IInv'
<1> SUFFICES ASSUME IInv, [Next]_vars PROVE IInv'
  OBVIOUS
<1>0. TypeOK /\ WaitedForUntilGone /\ ListInv /\ ControlInv /\ TableSoFar /\ KeysUnique
  BY DEF IInv, ListInv
<1>1. TypeOK'
  BY <1>0, NextType
<1>2. WaitedForUntilGone'
  BY <1>0, <1>1, NextWaited
<1>3. ListInv'
  BY <1>0, NextList
<1>4. ControlInv'
  BY <1>0, <1>1, NextControl
<1>5. TableSoFar'
  BY <1>0, NextTable
<1> QED
  BY <1>1, <1>2, <1>3, <1>4, <1>5 DEF IInv

\* The inductive invariant holds for ever.
THEOREM IInvAlways == Spec => []IInv
BY InitIInv, NextIInv, PTL DEF Spec

\* Types; and init waits for a process only, a failed fork is not waited for.
THEOREM TypeCorrect == Spec => []TypeOK
<1>1. IInv => TypeOK
  BY DEF IInv
<1> QED
  BY <1>1, IInvAlways, PTL

\* Two live processes of one entry would both be in the list, or one there and the
\* other about to be stored over a pid of 0.
LEMMA OneFollows == IInv => OneProcessPerEntry
<1> SUFFICES ASSUME IInv, NEW p \in Living, NEW q \in Living,
                    procs[p].kind = "tracked", procs[q].kind = "tracked", procs[p].key = procs[q].key,
                    Whole(procs[p].key)
             PROVE  p = q
  BY DEF OneProcessPerEntry
<1>0. TypeOK /\ KeysUnique /\ TrackedListed /\ StoreEmpty
  BY DEF IInv, ListInv
<1>1. p # 0 /\ q # 0 /\ (at = "store" => cursor \in 1..Len(list))
  BY <1>0, PidsAssumption DEF Living, TypeOK
<1>2. /\ \/ \E k \in 1..Len(list) : list[k].key = procs[p].key /\ list[k].pid = p
         \/ at = "store" /\ got = p /\ list[cursor].key = procs[p].key
      /\ \/ \E k \in 1..Len(list) : list[k].key = procs[q].key /\ list[k].pid = q
         \/ at = "store" /\ got = q /\ list[cursor].key = procs[q].key
  BY <1>0 DEF TrackedListed
<1> QED
  BY <1>0, <1>1, <1>2 DEF KeysUnique, StoreEmpty

\* No respawn or askfirst entry ever runs twice, whatever inittab it is reloaded from,
\* and wherever init is stopped.
THEOREM NoSecondCopy == Spec => []OneProcessPerEntry
BY OneFollows, IInvAlways, PTL

\* A process that run_actions waits for is alone: while it lives, waitfor is not left.
THEOREM WaitedForAlone == Spec => []WaitedForUntilGone
<1>1. IInv => WaitedForUntilGone
  BY DEF IInv
<1> QED
  BY <1>1, IInvAlways, PTL

\* Without SIGTSTP and failed forks, a pid in the list is the child of that entry.
THEOREM PidsAreChildren == Spec => []PidNamesChild
<1>1. IInv => PidNamesChild
  BY DEF IInv, ListInv, PidsExact, Names, PidNamesChild
<1> QED
  BY <1>1, IInvAlways, PTL

\* The main loop does not sleep over a dead respawn or askfirst child.
THEOREM NoExitMissed == Spec => []ExitNoticed
<1>1. IInv => ExitNoticed
  BY DEF IInv, ControlInv, PlacesAgree, ExitsPending, Noticed, ExitNoticed
<1> QED
  BY <1>1, IInvAlways, PTL

LEMMA LoadedFollows == IInv => TableLoaded
<1> SUFFICES ASSUME IInv, at = "parse", cursor > Len(reading) PROVE TableLoaded
  BY DEF TableLoaded
<1>0. TypeOK /\ KeysUnique /\ TableSoFar
  BY DEF IInv, ListInv
<1>1. Len(reading) \in Nat /\ Seen = Len(reading) /\ Parsing
  BY <1>0, ReadingFacts DEF TableSoFar, Seen, Parsing, TypeOK
<1>2. \A k \in 1..Len(reading) : LastLine(k) <=> LastSoFar(k)
  BY <1>1 DEF LastLine, LastSoFar
<1>3. ASSUME NEW k \in 1..Len(reading), LastLine(k), Whole(reading[k].key)
      PROVE  \E j \in 1..Len(list) : list[j].type = reading[k].type /\ list[j].key = reading[k].key
  BY <1>0, <1>1, <1>2, <1>3 DEF TableSoFar
<1>4. ASSUME NEW k \in 1..Len(reading), LastLine(k), Whole(reading[k].key)
      PROVE  Position(reading[k].key) \in 1..Len(list) /\ list[Position(reading[k].key)].key = reading[k].key
  BY <1>3, <1>4 DEF Position
<1>5. ASSUME NEW k \in 1..Len(reading), LastLine(k), Whole(reading[k].key),
             NEW m \in 1..(k - 1), LastLine(m), Whole(reading[m].key)
      PROVE  Position(reading[m].key) < Position(reading[k].key)
  <2>1. m \in 1..Len(reading)
    BY <1>1
  <2>2. LastSoFar(k) /\ LastSoFar(m)
    BY <1>2, <1>5, <2>1
  <2>3. \A h, j \in 1..Len(list) :
          list[h].key = reading[m].key /\ list[j].key = reading[k].key => h < j
    BY <1>0, <1>1, <1>5, <2>2 DEF TableSoFar
  <2> QED
    BY <1>4, <1>5, <2>1, <2>3
<1>6. \A j \in 1..Len(list) : list[j].type # "none" =>
        \E k \in 1..Len(reading) : LastLine(k) /\ Cut[reading[k].key] = list[j].key
  BY <1>0, <1>1, <1>2 DEF TableSoFar
<1> QED
  BY <1>0, <1>3, <1>5, <1>6 DEF TableLoaded, KeysUnique

\* What parse_inittab leaves is the table it has read, for any table and any list that
\* was there before, as far as the names of its terminals are kept whole.
THEOREM TableIsLoaded == Spec => []TableLoaded
BY LoadedFollows, IInvAlways, PTL

=============================================================================
