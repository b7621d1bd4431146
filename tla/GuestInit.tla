----------------------------- MODULE GuestInit -----------------------------
(***************************************************************************)
(* Process 1 of the guest: BusyBox init (busybox-1.32.1/init/init.c), as the  *)
(* configuration in include/autoconf.h builds it, with the inittab this     *)
(* repository ships (initrmfs/etc/inittab) and any other it may be reloaded  *)
(* with.                                                                   *)
(*                                                                         *)
(* A step is what happens between two points where the outside can be seen:  *)
(* a line read, an entry of the list visited, a system call that may sleep.   *)
(* The signals init handles "delayed" are blocked and only taken by           *)
(* sigtimedwait; SIGTSTP is handled at once, wherever init is, by a handler  *)
(* that itself waits for children until SIGCONT.  The kernel's side           *)
(* (processes, pids, signals) is external.                                  *)
(***************************************************************************)
EXTENDS Integers, Sequences, FiniteSets

CONSTANTS
    Keys,         \* what tells entries apart: command and terminal
    Cut,          \* what an entry keeps of a key: at most 31 characters of the terminal
    Tables,       \* contents /etc/inittab may have, as sequences of lines
    Single,       \* the line of single user mode, a shell on the console
    Pids,         \* process numbers, small ones so that they are reused
    MaxSignals,   \* signals sent from outside, a bound of the model
    MaxFaults     \* SIGTSTPs, failing forks and inherited processes, a bound of the model

\* The action types; an entry that reload_inittab has disabled has type "none".
Waited == {"sysinit", "wait", "ctrlaltdel", "shutdown"}
Tracked == {"respawn", "askfirst"}
Types == Waited \cup Tracked \cup {"once", "restart"}

Lines == [type : Types \cup {"bad"}, key : Keys]

ASSUME TablesAssumption == \A t \in Tables \cup {Single} : t \in Seq(Lines)
ASSUME CutAssumption ==
    Cut \in [Keys -> Keys] /\ \A k \in Keys : Cut[Cut[k]] = Cut[k]
ASSUME PidsAssumption == Pids \subseteq Nat \ {0} /\ IsFiniteSet(Pids)
ASSUME BoundsAssumption == MaxSignals \in Nat /\ MaxFaults \in Nat

VARIABLES
    reading,   \* what parse_inittab is reading
    list,      \* init_action_list
    procs,     \* the children of init
    pending,   \* blocked signals that have been sent
    at,        \* where init is
    group,     \* the actions run_actions was called with; "boot" before
    after,     \* what follows the check_delayed_sigs init is in, or goes to next
    cursor,    \* line or entry being visited
    got,       \* pid returned by run()
    cause,     \* the signal init goes down for
    stopped,   \* inside stop_handler
    sent, stops, failures, orphans

control == <<at, group, after, cursor, got, cause>>
bounds == <<sent, stops, failures, orphans>>
faults == stops + failures + orphans
vars == <<reading, list, procs, pending, control, stopped, bounds>>

Places == {"parse", "append", "purge", "walk", "store", "wait", "check", "reap", "kill",
           "down", "replaced"}
Groups == {"boot", "sysinit", "wait", "once", "respawn", "ctrlaltdel", "shutdown"}

-----------------------------------------------------------------------------
(* Children                                                                *)

NoProcess == [state |-> "free"]
Child(state, key, kind) == [state |-> state, key |-> key, kind |-> kind]

FreePids == {p \in Pids : procs[p].state = "free"}
Zombies == {p \in Pids : procs[p].state = "zombie"}
Living == Pids \ (FreePids \cup Zombies)

\* The number of the next process: one that is free, reused as soon as it can be.
Fresh(p) == p \in FreePids /\ \A q \in FreePids : p <= q

\* The signals are blocked, and init is not on its way down.
Blocking == group # "shutdown"

\* A child leaves, by itself or killed; SIGCHLD stays pending if it is blocked.
Exit(p) ==
    /\ p \in Living
    /\ procs' = [procs EXCEPT ![p].state = "zombie"]
    /\ pending' = pending \cup (IF Blocking THEN {"CHLD"} ELSE {})
    /\ UNCHANGED <<reading, list, control, stopped, bounds>>

\* Enter is pressed on the terminal of an askfirst child, which then execs.
PressEnter(p) ==
    /\ procs[p].state = "ask"
    /\ procs' = [procs EXCEPT ![p].state = "run"]
    /\ UNCHANGED <<reading, list, pending, control, stopped, bounds>>

\* A process whose parent has gone becomes a child of init.
Orphan(p) ==
    /\ Fresh(p)
    /\ faults < MaxFaults /\ orphans' = orphans + 1
    /\ procs' = [procs EXCEPT ![p] = Child("run", "none", "orphan")]
    /\ UNCHANGED <<reading, list, pending, control, stopped, sent, stops, failures>>

-----------------------------------------------------------------------------
(* The list                                                                *)

Entry(type, key, pid) == [type |-> type, key |-> key, pid |-> pid]

\* The list without its entry at k.
Without(s, k) == [j \in 1..(Len(s) - 1) |-> IF j < k THEN s[j] ELSE s[j + 1]]

\* Mutant: an entry the list has is changed where it stands.
NewInitActionInPlace(type, key) ==
    IF \E k \in 1..Len(list) : list[k].key = key
    THEN [k \in 1..Len(list) |-> IF list[k].key = key THEN Entry(type, Cut[key], list[k].pid) ELSE list[k]]
    ELSE Append(list, Entry(type, Cut[key], 0))

\* The first entry for the key moves to the end of the list, with its pid and the new
\* type.  The whole key is compared, with what was kept of the others.
NewInitAction(type, key) ==
    IF \E k \in 1..Len(list) : list[k].key = key
    THEN LET k == CHOOSE j \in 1..Len(list) :
                    list[j].key = key /\ \A h \in 1..(j - 1) : list[h].key # key
         IN  Append(Without(list, k), Entry(type, Cut[key], list[k].pid))
    ELSE Append(list, Entry(type, Cut[key], 0))

\* Mutant: nobody is told that the process is gone.
MarkTerminatedForgets(p) == list

\* While new_init_action moves an entry, the last one of list is out of the C list.
Linked(k) == at = "append" => k # Len(list)

\* The first entry with this pid has none any more.
MarkTerminated(p) ==
    [k \in 1..Len(list) |->
        IF list[k].pid = p /\ Linked(k) /\ \A j \in 1..(k - 1) : list[j].pid # p
        THEN [list[k] EXCEPT !.pid = 0]
        ELSE list[k]]

\* wait() or waitpid() returns p.
Collect(p) ==
    /\ p \in Zombies
    /\ procs' = [procs EXCEPT ![p] = NoProcess]
    /\ list' = MarkTerminated(p)

-----------------------------------------------------------------------------
(* Control                                                                 *)

\* run_actions is called.
Run(g) == at' = "walk" /\ group' = g /\ cursor' = 1

\* check_delayed_sigs is left.
Return ==
    \/ after = "reap" /\ at' = "reap" /\ UNCHANGED <<group, cursor>>
    \/ after # "reap" /\ Run(after)

Init ==
    /\ reading \in Tables \cup {Single}
    /\ list = <<>>
    /\ procs = [p \in Pids |-> NoProcess]
    /\ pending = {}
    /\ at = "parse" /\ group = "boot" /\ after = "sysinit" /\ cursor = 1 /\ got = 0
    /\ cause = "none"
    /\ stopped = FALSE
    /\ sent = 0 /\ stops = 0 /\ failures = 0 /\ orphans = 0

Booting == at \in {"parse", "append"} /\ after = "sysinit"

-----------------------------------------------------------------------------
(* parse_inittab and the rest of reload_inittab                            *)

ParseLine ==
    /\ at = "parse" /\ cursor <= Len(reading)
    /\ \/ /\ reading[cursor].type = "bad"
          /\ cursor' = cursor + 1 /\ UNCHANGED <<list, at>>
       \/ /\ reading[cursor].type # "bad"
          /\ list' = NewInitAction(reading[cursor].type, reading[cursor].key)
          /\ at' = "append" /\ UNCHANGED cursor
    /\ UNCHANGED <<reading, procs, pending, group, after, got, cause, stopped, bounds>>

\* new_init_action puts the entry back into the list: SIGTSTP may come before.
LinkEntry ==
    /\ at = "append"
    /\ at' = "parse" /\ cursor' = cursor + 1
    /\ UNCHANGED <<reading, list, procs, pending, group, after, got, cause, stopped, bounds>>

\* At boot the sysinit actions follow, at a reload the removal of old entries.
ParseEnd ==
    /\ at = "parse" /\ cursor > Len(reading)
    /\ \/ after = "sysinit" /\ Run("sysinit")
       \/ after # "sysinit" /\ at' = "purge" /\ cursor' = 1 /\ UNCHANGED group
    /\ reading' = <<>>
    /\ UNCHANGED <<list, procs, pending, after, got, cause, stopped, bounds>>

\* Mutant: an entry whose process still runs is removed as well.
StaleRunning(e) == e.type \in {"none", "sysinit"}

Stale(e) == e.type \in {"none", "sysinit"} /\ e.pid = 0

Purge ==
    /\ at = "purge" /\ cursor <= Len(list)
    /\ \/ Stale(list[cursor]) /\ list' = Without(list, cursor) /\ UNCHANGED cursor
       \/ ~Stale(list[cursor]) /\ cursor' = cursor + 1 /\ UNCHANGED list
    /\ UNCHANGED <<reading, procs, pending, at, group, after, got, cause, stopped, bounds>>

PurgeEnd ==
    /\ at = "purge" /\ cursor > Len(list)
    /\ Return
    /\ UNCHANGED <<reading, list, procs, pending, after, got, cause, stopped, bounds>>

-----------------------------------------------------------------------------
(* run_actions                                                             *)

InGroup(type) == type = group \/ (group = "respawn" /\ type \in Tracked)

\* The entry has to be run now.
Due(e) == InGroup(e.type) /\ (e.type \in Tracked => e.pid = 0)

Skip ==
    /\ at = "walk" /\ cursor <= Len(list)
    /\ ~Due(list[cursor])
    /\ cursor' = cursor + 1
    /\ UNCHANGED <<reading, list, procs, pending, at, group, after, got, cause, stopped, bounds>>

\* run() forks; what becomes of the result depends on the type.
RunEntry(p) ==
    /\ at = "walk" /\ cursor <= Len(list)
    /\ Due(list[cursor])
    /\ Fresh(p)
    /\ LET e == list[cursor] IN
       \/ /\ e.type \in Waited
          /\ procs' = [procs EXCEPT ![p] = Child("run", e.key, "waited")]
          /\ at' = "wait" /\ got' = p /\ UNCHANGED cursor
       \/ /\ e.type = "once"
          /\ procs' = [procs EXCEPT ![p] = Child("run", e.key, "once")]
          /\ cursor' = cursor + 1 /\ UNCHANGED <<at, got>>
       \/ /\ e.type \in Tracked
          /\ procs' = [procs EXCEPT ![p] =
                Child(IF e.type = "askfirst" THEN "ask" ELSE "run", e.key, "tracked")]
          /\ at' = "store" /\ got' = p /\ UNCHANGED cursor
    /\ UNCHANGED <<reading, list, pending, group, after, cause, stopped, bounds>>

\* Mutant: waitfor is not protected against a failed fork.
ForkFailsWaits ==
    /\ at = "walk" /\ cursor <= Len(list)
    /\ Due(list[cursor])
    /\ faults < MaxFaults /\ failures' = failures + 1
    /\ \/ list[cursor].type \in Waited /\ at' = "wait" /\ got' = -1 /\ UNCHANGED cursor
       \/ list[cursor].type = "once" /\ cursor' = cursor + 1 /\ UNCHANGED <<at, got>>
       \/ list[cursor].type \in Tracked /\ at' = "store" /\ got' = -1 /\ UNCHANGED cursor
    /\ UNCHANGED <<reading, list, procs, pending, group, after, cause, stopped, sent, stops, orphans>>

\* fork returns -1: nothing to wait for, but a->pid is assigned all the same.
ForkFails ==
    /\ at = "walk" /\ cursor <= Len(list)
    /\ Due(list[cursor])
    /\ faults < MaxFaults /\ failures' = failures + 1
    /\ \/ list[cursor].type \notin Tracked /\ cursor' = cursor + 1 /\ UNCHANGED <<at, got>>
       \/ list[cursor].type \in Tracked /\ at' = "store" /\ got' = -1 /\ UNCHANGED cursor
    /\ UNCHANGED <<reading, list, procs, pending, group, after, cause, stopped, sent, stops, orphans>>

\* Done with run()'s result.
NextEntry == at' = "walk" /\ cursor' = cursor + 1 /\ got' = 0

\* a->pid = run(a), after run() has returned.
Store ==
    /\ at = "store"
    /\ list' = [list EXCEPT ![cursor].pid = got]
    /\ NextEntry
    /\ UNCHANGED <<reading, procs, pending, group, after, cause, stopped, bounds>>

WalkEnd ==
    /\ at = "walk" /\ cursor > Len(list)
    /\ \/ group = "sysinit" /\ at' = "check" /\ after' = "wait" /\ UNCHANGED <<group, cursor>>
       \/ group = "wait" /\ at' = "check" /\ after' = "once" /\ UNCHANGED <<group, cursor>>
       \/ group = "once" /\ Run("respawn") /\ UNCHANGED after
       \/ group = "respawn" /\ at' = "check" /\ after' = "reap" /\ UNCHANGED <<group, cursor>>
       \/ group = "ctrlaltdel" /\ Return /\ UNCHANGED after
       \/ group = "shutdown" /\ at' = "kill" /\ UNCHANGED <<group, cursor, after>>
    /\ UNCHANGED <<reading, list, procs, pending, got, cause, stopped, bounds>>

\* Mutant: any child that ends is taken for the one waited for.
WaitChildAny(p) ==
    /\ at = "wait"
    /\ Collect(p)
    /\ NextEntry
    /\ UNCHANGED <<reading, pending, group, after, cause, stopped, bounds>>

\* waitfor(): wait() returns a child; kill(got, 0) tells whether got is still there.
WaitChild(p) ==
    /\ at = "wait"
    /\ Collect(p)
    /\ \/ (p = got \/ got \in FreePids) /\ NextEntry
       \/ ~(p = got \/ got \in FreePids) /\ UNCHANGED <<at, cursor, got>>
    /\ UNCHANGED <<reading, pending, group, after, cause, stopped, bounds>>

\* waitfor(): there is no child to wait for, so got is gone.
WaitNone ==
    /\ at = "wait"
    /\ FreePids = Pids
    /\ NextEntry
    /\ UNCHANGED <<reading, list, procs, pending, group, after, cause, stopped, bounds>>

-----------------------------------------------------------------------------
(* check_delayed_sigs and the main loop                                    *)

\* Mutant: SIGTERM is left out of the mask.
HaltingNoTerm == {"USR1", "USR2", "PWR"}

Halting == {"USR1", "USR2", "TERM", "PWR"}
Signals == {"HUP", "INT", "QUIT", "CHLD", "USR1", "USR2", "TERM", "PWR"}

\* The kernel hands out the lowest number first.
Number == [HUP |-> 1, INT |-> 2, QUIT |-> 3, USR1 |-> 10, USR2 |-> 12, TERM |-> 15,
           CHLD |-> 17, PWR |-> 30]
Lowest(s) == s \in pending /\ \A r \in pending : Number[s] <= Number[r]

HasRestart == \E k \in 1..Len(list) : list[k].type = "restart"

\* The signals are unblocked, and process 1 ignores those it has no handler for.
GoDown(s) ==
    /\ pending' = {} /\ cause' = s
    /\ Run("shutdown")
    /\ UNCHANGED <<reading, list>>

TakeSignal(s) ==
    /\ at = "check" /\ Lowest(s)
    /\ \/ /\ s = "HUP"
          /\ list' = [k \in 1..Len(list) |-> [list[k] EXCEPT !.type = "none"]]
          /\ reading' \in Tables
          /\ at' = "parse" /\ cursor' = 1 /\ UNCHANGED <<group, cause>>
          /\ pending' = pending \ {s}
       \/ /\ s = "INT"
          /\ Run("ctrlaltdel")
          /\ pending' = pending \ {s} /\ UNCHANGED <<reading, list, cause>>
       \/ (s \in Halting \/ (s = "QUIT" /\ HasRestart)) /\ GoDown(s)
       \/ /\ s \notin Halting \cup {"HUP", "INT"} /\ (s = "QUIT" => ~HasRestart)
          /\ Return
          /\ pending' = pending \ {s} /\ UNCHANGED <<reading, list, cause>>
    /\ UNCHANGED <<procs, after, got, stopped, bounds>>

\* Between the groups at boot init does not wait for a signal.
NoSignal ==
    /\ at = "check" /\ after # "reap" /\ pending = {}
    /\ Return
    /\ UNCHANGED <<reading, list, procs, pending, after, got, cause, stopped, bounds>>

\* Mutant: one child is collected for a SIGCHLD.
ReapJustOne(p) ==
    /\ at = "reap"
    /\ Collect(p)
    /\ Run("respawn")
    /\ UNCHANGED <<reading, pending, after, got, cause, stopped, bounds>>

Reap(p) ==
    /\ at = "reap"
    /\ Collect(p)
    /\ UNCHANGED <<reading, pending, control, stopped, bounds>>

\* Mutant: the main loop does not come round to run_actions.
ReapEndNoRerun ==
    /\ at = "reap" /\ Zombies = {}
    /\ at' = "check"
    /\ UNCHANGED <<reading, list, procs, pending, group, cursor, after, got, cause, stopped, bounds>>

ReapEnd ==
    /\ at = "reap" /\ Zombies = {}
    /\ Run("respawn")
    /\ UNCHANGED <<reading, list, procs, pending, after, got, cause, stopped, bounds>>

\* SIGTERM, then SIGKILL, to every process but 1; then the machine goes down, or
\* init becomes the restart action (unless its terminal or exec fails).
KillAll ==
    /\ at = "kill"
    /\ procs' = [p \in Pids |-> IF p \in Living THEN [procs[p] EXCEPT !.state = "zombie"] ELSE procs[p]]
    /\ \/ at' = "down"
       \/ cause = "QUIT" /\ at' = "replaced"
    /\ UNCHANGED <<reading, list, pending, group, after, cursor, got, cause, stopped, bounds>>

-----------------------------------------------------------------------------
(* Signals from outside, and stop_handler                                  *)

Send(s) ==
    /\ sent < MaxSignals /\ Blocking
    /\ s \in Signals \ (pending \cup {"CHLD"})
    /\ pending' = pending \cup {s} /\ sent' = sent + 1
    /\ UNCHANGED <<reading, list, procs, control, stopped, stops, failures, orphans>>

\* SIGTSTP: its handler is installed after the table has been read for the first time.
Stop ==
    /\ faults < MaxFaults /\ ~stopped /\ Blocking /\ ~Booting
    /\ stopped' = TRUE /\ stops' = stops + 1
    /\ UNCHANGED <<reading, list, procs, pending, control, sent, failures, orphans>>

StopReap(p) ==
    /\ stopped
    /\ Collect(p)
    /\ UNCHANGED <<reading, pending, control, stopped, bounds>>

\* SIGCONT: a system call goes on where it was, except a sigtimedwait that slept.
Continue ==
    /\ stopped
    /\ stopped' = FALSE
    /\ at' \in {at} \cup (IF at = "check" /\ after = "reap" THEN {"reap"} ELSE {})
    /\ UNCHANGED <<reading, list, procs, pending, group, after, cursor, got, cause, bounds>>

-----------------------------------------------------------------------------

Step ==
    /\ ~stopped
    /\ \/ ParseLine \/ LinkEntry \/ ParseEnd \/ Purge \/ PurgeEnd
       \/ Skip \/ ForkFails \/ Store \/ WalkEnd \/ WaitNone
       \/ NoSignal \/ ReapEnd \/ KillAll
       \/ \E p \in Pids : RunEntry(p) \/ WaitChild(p) \/ Reap(p)
       \/ \E s \in Signals : TakeSignal(s)

Outside ==
    \/ \E p \in Pids : Exit(p) \/ PressEnter(p) \/ Orphan(p) \/ StopReap(p)
    \/ \E s \in Signals : Send(s)
    \/ Stop \/ Continue

Next == Step \/ Outside

Spec == Init /\ [][Next]_vars

\* Init runs on, and a process it waits for ends.  Nobody has to press Enter, to
\* continue a stopped init, or to leave a shell.
WaitedEnds(p) == procs[p] # NoProcess /\ procs[p].kind = "waited" /\ Exit(p)
FairSpec == Spec /\ WF_vars(Step) /\ \A p \in Pids : WF_vars(WaitedEnds(p))

-----------------------------------------------------------------------------
(* Properties                                                              *)

Processes ==
    {NoProcess} \cup [state : {"ask", "run", "zombie"}, key : Keys \cup {"none"},
                     kind : {"waited", "once", "tracked", "orphan"}]

\* Types; init stands on an entry of the list when it waits or stores, and it waits for
\* a process only: a failed fork is not waited for.
TypeOK ==
    /\ reading \in Tables \cup {Single, <<>>}
    /\ list \in Seq([type : Types \cup {"none"}, key : Keys, pid : Pids \cup {0, -1}])
    /\ procs \in [Pids -> Processes]
    /\ pending \subseteq Signals
    /\ at \in Places /\ group \in Groups /\ after \in {"sysinit", "wait", "once", "reap"}
    /\ cursor \in Nat \ {0} /\ got \in Pids \cup {0, -1} /\ cause \in Signals \cup {"none"}
    /\ stopped \in BOOLEAN
    /\ sent \in 0..MaxSignals /\ stops \in 0..MaxFaults /\ failures \in 0..MaxFaults
    /\ orphans \in 0..MaxFaults
    /\ at \in {"store", "wait"} => cursor \in 1..Len(list)
    /\ at = "wait" => got \in Pids

\* The key is kept whole, and no other is cut to it.
Whole(key) == \A k \in Keys : Cut[k] = key <=> k = key

\* An entry is never running twice: neither a reload that removes it and one that
\* brings it back, nor a stop in mid-step, nor a reused pid makes a second copy.  (An
\* entry whose terminal's name is cut is not recognized at a reload, and may.)
OneProcessPerEntry ==
    \A p, q \in Living :
        /\ procs[p].kind = "tracked" /\ procs[q].kind = "tracked"
        /\ procs[p].key = procs[q].key /\ Whole(procs[p].key)
        => p = q

\* What init has to wait for runs alone: while such a process lives init is in
\* waitfor for it and nowhere else, whoever else ends meanwhile, and even if
\* stop_handler collects children behind waitfor's back.
WaitedForUntilGone ==
    \A p \in Living : procs[p].kind = "waited" => at = "wait" /\ got = p

\* As long as init was never stopped and no fork failed, a pid in the list is that of
\* a child which was started for this entry and has not been collected.
PidNamesChild ==
    stops = 0 /\ failures = 0 =>
        \A k \in 1..Len(list) : list[k].pid # 0 =>
            /\ procs[list[k].pid] # NoProcess
            /\ procs[list[k].pid].kind = "tracked"
            /\ procs[list[k].pid].key = list[k].key

\* Init does not sleep over a dead entry: if a process of the list has ended when init
\* waits for signals, SIGCHLD is there to wake it.  One SIGCHLD may stand for many
\* children, and some of them may be collected elsewhere.
ExitNoticed ==
    at = "check" /\ after = "reap" /\ (\E p \in Zombies : procs[p].kind = "tracked") => "CHLD" \in pending

\* When a table has been read, the list is that table, however often it was edited and
\* reloaded: one entry for a command on a terminal, of the type its last line gives, in
\* the order of those lines.  (The askfirst line of the shipped table replaces its
\* respawn line.)  Entries that are left over are disabled.  Only the last part holds of
\* a terminal whose name is cut: each reading adds an entry for it.
LastLine(k) ==
    /\ reading[k].type # "bad"
    /\ \A j \in (k + 1)..Len(reading) : reading[j].type # "bad" => reading[j].key # reading[k].key
Position(key) == CHOOSE j \in 1..Len(list) : list[j].key = key
TableLoaded ==
    at = "parse" /\ cursor > Len(reading) =>
        /\ \A j, k \in 1..Len(list) : list[j].key = list[k].key /\ Whole(list[k].key) => j = k
        /\ \A k \in 1..Len(reading) : LastLine(k) /\ Whole(reading[k].key) =>
            /\ \E j \in 1..Len(list) : list[j].type = reading[k].type /\ list[j].key = reading[k].key
            /\ \A m \in 1..(k - 1) : LastLine(m) /\ Whole(reading[m].key) =>
                Position(reading[m].key) < Position(reading[k].key)
        /\ \A j \in 1..Len(list) : list[j].type # "none" =>
            \E k \in 1..Len(reading) : LastLine(k) /\ Cut[reading[k].key] = list[j].key

\* A respawn or askfirst entry without a process gets one (or is changed by a reload, or
\* the system goes down), unless init was stopped or a fork failed.
NeedsProcess(key) ==
    /\ at \notin {"down", "replaced"}
    /\ \E k \in 1..Len(list) : list[k].key = key /\ list[k].type \in Tracked /\ list[k].pid = 0
TrackedKeys ==
    {Cut[l.key] : l \in {m \in Lines : m.type \in Tracked /\
        \E t \in Tables \cup {Single} : \E k \in 1..Len(t) : t[k] = m}}
EveryEntryRuns ==
    \A key \in TrackedKeys : NeedsProcess(key) ~> ~NeedsProcess(key) \/ stops > 0 \/ failures > 0

\* A signal to halt, power off or reboot is obeyed, whatever else init is doing, unless
\* init is stopped.  (SIGPWR comes after SIGCHLD and may be put off for ever.)
HaltObeyed ==
    {"USR1", "USR2", "TERM"} \cap pending # {} ~> at \in {"down", "replaced"} \/ stops > 0

\* run_actions skips an entry that has a pid because "it is already running".
PidMeansRunning ==
    \A k \in 1..Len(list) : list[k].pid # 0 => list[k].pid \in Pids /\ procs[list[k].pid] # NoProcess
=============================================================================
