# Formal models of debug_kernel's own programs

`debug_kernel` is an environment for debugging a Linux kernel under QEMU and gdb. What the project
itself implements is small and concurrent: the C++ programs under `codesnip/` (five socket servers,
a thread pool, a timer wheel, a readers/writer lock, samples of threads, signals and inotify) and
the kernel module `extra_module/kvisual`. The rest of the tree is a vendored BusyBox, kernel
configurations and shell scripts. Of BusyBox, process 1 of the guest is modelled, because this
repository keeps the table it runs (`initrmfs/etc/inittab`) and every debugging session rests on it.

This directory holds TLA+ models of that code, the TLC runs that check them on small instances, and
proofs, checked by TLAPS, that the most important results hold for every instance. Each definition
that stands for code is listed with its lines in `PROJECT.json` under `map`.

## Inventory

| Part | State it keeps | Operations | Interacts with | What is hard |
|---|---|---|---|---|
| Readers/writer lock (`include/common/rwlock.h`) | `writing_`, `reader_count_`, two condition variables | `RLock`, `RUnlock`, `WLock`, `WULock` | its callers | wakeups lost or given to the wrong waiter, the counter at its limit, starvation of a writer |
| Thread pool (`include/common/threadpool.h`) | task queue, `m_shutdown`, condition variable, workers | `Init`, `Submit`, `Shutdown`, worker loop | `ThreadPools`, `EPollServer` | a notification between a worker's test and its wait; shutdown in the same place |
| Timer wheel (`include/common/timer.h`) | vectors of timers, current slot, rotations | `AddTimer`, `DelTimer`, `Tick` | callbacks that call back into it | callbacks inside the iteration, whole turns |
| Timer clock (same file, `test/timer.cc`) | `starttime_` | `TakeAllTimeout`, the loop calling it | the wheel, whose `Tick` it calls | a 64-bit clock through an `int` and back, time passing in callbacks |
| Clients (`src/net/net.cpp`) | a socket each | connect, four messages, close | the servers | connecting before the server listens |
| `MultiProcessServer`, `ThreadPools` | `un->connfd`, children or pool tasks in `Doit` | accept, fork or submit, read until the end | clients, pool | the shared `connfd`, descriptors in two processes |
| `SelectServer`, `PollServer` | client table, `maxi`, `nready`, `allset`/`rset`/`maxfd` or `revents` | wait, accept one, scan with an early exit | clients | stale or uninitialized readiness, reused descriptors, sleeping in a call the one thread cannot afford |
| `EPollServer` | interest list, events, pool tasks | wait, accept or submit `DoUseFd` | clients, pool | edge-triggered reports, several tasks on one connection |
| Command line (`src/snip.cpp`, `src/snip.h`) | four byte-wide settings | `ParaArgs`, `ProcessOptArgs`, `AdjustArgs` | chooses the sample | a scan that restarts while `argv` changes; numbers |
| Byte loops (`src/unit/syscallwrap.cpp`, `readn`, `writen`) | pointer and count left | write and read 8-byte numbers | client and `Doit` | short counts, a sender that is killed in the middle of a number |
| Other system call wrappers | none | `Accept`, `Read`, `Signal`, ... | everything | `Signal` lacks its return statement |
| Signals sample (`src/ipc/ipc.cpp`) | `get_SIGINT`, counters | sender, receiver | two processes | a signal before its handler |
| Threads sample (`src/lwp/lwp.cpp`) | `add_var` | two threads, three processes | | unsynchronised increments, calls that fail, who waits for whom |
| inotify sample (`src/fs/fs.cpp`) | a directory, a watch | set-up with retry, watching thread | the file system | an endless retry, a path that is moved after it was handed over |
| Spinlock/mutex sample, `mm`, example | | | | sequential, or empty |
| Process 1 of the guest (`busybox-1.32.1/init/init.c`, `initrmfs/etc/inittab`) | the action list with a pid per entry, delayed signals | boot groups, respawn, reap, reload, stop, go down | all processes of the guest | signals merged, lost pids, reused pids, a stop in the middle of a step |
| Kernel module `kvisual` | registered probes and tracepoints | load, unload, handlers that print | the kernel | what is registered at load and not given back at unload |

What makes each part correct is what the properties below say. `PROJECT.json` lists, under
`hazards`, each place in the code where it could go wrong in a way a test would hardly reach.

## Modules

```
CondVar            notify_one (used by RWLock, ThreadPool, ThreadPoolIncoming)
ReadersWriters     abstract lock      <- implemented by - RWLock             RWLockProofs
TaskPool           abstract pool      <- implemented by - ThreadPool         ThreadPoolProofs
                                                       \- ThreadPoolIncoming ThreadPoolIncomingProofs
TimerQueue         abstract timers    <- implemented by - TimeWheel          TimeWheelProofs
TimerLoop          TakeAllTimeout
  TimerProgram       TimeWheel and TimerLoop composed        MCTimerProgram, TimerProgramProofs
Sockets            clients and sockets
  Multiplexers       SelectServer, PollServer     \
  ServerPool         the pool as the servers see it  > composed in Network   NetworkProofs
    DoitServers      MultiProcessServer, ThreadPools |
    EPollServer      EPollServer, DoUseFd         /
NumberChannel      abstract connection <- implemented by - ByteStream
SnipArgs, SignalSample, ThreadSample, InotifySample, ByteStream
  Codesnip           the command line and the sample it names     MCCodesnip, CodesnipProofs
GuestInit          BusyBox init                                   MCGuestInit, GuestInitProofs
```

### RWLock
`mu_` is held from one wait to the next, so the code between two waits is one action: a first pass
(`CallRLock`, `CallWLock`), a pass after a wakeup (`ResumeRLock`, `ResumeWLock`, `ResumeDrain`) and
the two unlocks. A condition variable is the set of threads asleep in it; wakeups may be spurious.
`ReadersWriters` says what the lock is for: readers together or one writer alone, and once a writer
has claimed the lock no reader enters.

### ThreadPool and ThreadPoolIncoming
`threadpool.h` contains an unresolved merge. `ThreadPool` is its HEAD side, which is the interface
`net.cpp` calls; `ThreadPoolIncoming` is the other side. In the HEAD side a worker tests `m_shutdown`,
takes `m_conditional_mutex`, tests the queue, waits, dequeues: each is a step, because neither
`Submit` nor `Shutdown` takes that mutex. `TaskPool` says that tasks start in submission order, once
each, one per worker.

### TimeWheel, TimerLoop, TimerProgram
`TimeWheel` follows `Tick` entry by entry with its iterator, because a callback runs inside the loop
and may add and delete timers. The model states what the code requires of its client: a callback does
not touch the vector being iterated (which excludes a timeout of a whole number of turns, or deleting
a timer of the current slot), and nobody passes `DelTimer` a timer that has fired. `TimerQueue` is a
set of timers with the number of ticks left for each; the wheel is shown to implement it, with
`rotations_ * N` plus the distance of slots as the number of ticks left.
`TimerLoop` is `TakeAllTimeout`: how many calls of `Tick` the wheel gets. Widths are parameters.
`TimerProgram` puts the two together, as `test/timer.cc` does: a `Tick` begins when the `for` loop of
`TakeAllTimeout` calls it, callbacks run inside it, the clock goes on all the time. Only there can one
say when a timer fires *by the clock* (`FiresOnTime`, `OverdueTimersFire`).

### Sockets, Multiplexers, DoitServers, EPollServer, Network
`Sockets` holds what a server sees of its clients: connections to accept, descriptors, messages not read, the
peer closed. A message is opaque. The kernel's side (readiness, the lowest free descriptor, what epoll
reports) is marked external in the map. Two things in the code shape the model: `ioctl(fd, FIONBIO, 1)` passes
a number where a pointer is expected, fails, and nobody looks, so every socket blocks; and `PollServer` never
initializes `revents`, so its initial content is any. Each visit of a table entry, each system call that may
sleep, and each step of a child, worker or main loop is an action. `reported` counts the lines a server prints
for a connection: `Doit` prints before it looks at what `Readn` returned, so there is one line more, with the
old number, at the end of file. A `select` or `poll` that fails only prints, and the server goes on with every
watched descriptor in `rset`, or with the old `revents` (`SelectFails`, `PollFails`). `Network` is
`RunNetwork`: the clients and the one server `server_type` names. The pool is used as `TaskPool` describes it;
that no task is left lying is the result of run `pool`. `OneReader` says of `MultiProcessServer` and
`ThreadPools` what the shared `connfd` puts at risk: that two tasks or children never have one connection, and
that one which nobody has any more was read to its end. Errors that end the process (`exit` in a wrapper) are
not modelled, except a refused `connect`.

### SnipArgs, SignalSample, ThreadSample, InotifySample, ByteStream, Codesnip
`Codesnip` is `main`: a command line is parsed, and the sample it names runs to its end in the
processes and threads it makes.

* `SnipArgs`: an argument is a word, an option with the number `std::stoi` makes of it, or an option on
  which `std::stoi` throws. The scan of `ProcessOptArgs` is modelled with its restarts, and compared
  with a direct reading of the line (`Meaning`, `Wellformed`). The settings are bytes: 256 is stored as 0 and
  -1 as 255. `RunsAsAsked` is claimed for options whose number is a byte; nobody says what the others mean.
* `SignalSample`: the receiver installs its handlers one by one while the sender's sleep may end at any
  time. The wrapper `Signal` falls off its end without a return; since the Makefile optimizes, each
  call may take the error path (undefined behaviour as a choice).
* `ThreadSample`: `add_var++` is a load and a store; `fork`, `pthread_create` and `execve` may fail; a
  join on a `pthread_t` that was never set returns or crashes; `waitpid` gets pid 0.
* `InotifySample`: the `mkdir`/`remove` retry and the path given to the thread, which libstdc++ moves
  when the current directory is `/`.
* `ByteStream`: one connection of `SingleClient` and `Doit`, byte by byte. `NumberChannel` is what `Doit`
  relies on: whole numbers, in order, at most one cut off at the end. `Network` works with whole
  messages; this refinement is why it may for the two servers that use `Readn`.

### GuestInit
An entry of `/etc/inittab` is a type and a key (command and terminal, which is how `new_init_action`
compares). A terminal's name is cut to 31 characters when it is stored, and compared in full: `Cut` says what
is kept of a key, and `Whole` keys are those it leaves alone. At a reload an entry whose key is not whole is
not recognized: it stays, disabled, while its process runs, and a second one is made. `OneProcessPerEntry` and
`TableLoaded` are claimed for whole keys. The actions follow `init_main`: read a table, walk the list once for
each boot group, wait for what has to be waited for, then take delayed signals and reap, for ever; a reload
re-reads and purges, a halt signal runs the shutdown entries and kills. `SIGTSTP` is handled at once between
any two steps, in a handler that itself reaps; so `new_init_action`, which takes an entry out of the list and
links it in again at the end, is two actions (`ParseLine`, `LinkEntry`), and a process collected in between
leaves its pid in the entry. Pids are few and reused. The shipped table has a `respawn` and an `askfirst` line
for the same shell on the same terminal: the second replaces the first, so the guest has one shell that waits
for Enter.

## Runs

| Run | Instance | Shows |
|---|---|---|
| `rwlock` | 4 threads, `MaxReader` 3 | exclusion, an exact count at its limit, no lost wakeup, a claimed lock is obtained, every blocked call returns once new calls stop, implements `ReadersWriters` |
| `pool` | 2 workers, 2 submitters, 3 tasks | no task is left to sleeping workers, every task runs or the pool is shut down, `Shutdown` returns if no worker is in the window, implements `TaskPool` |
| `pool_long_tasks` | 2 workers, 2 tasks | **violation**: with tasks that do not return, a second task is never started although a worker is idle |
| `pool_shutdown` | 2 workers, 2 tasks | **violation**: `Shutdown` between a worker's test and its wait never returns |
| `pool_incoming` | 2 workers, 2 submitters, 3 tasks | on the other side of the merge a task in the queue always has a worker coming, even if tasks never return; implements `TaskPool` |
| `timers` | 2 slots; timers due at once, after a turn, after two and a half; `int` of 8 values, `unsigned long long` of 32, clock from 3 to 13 | vectors consistent; one tick per millisecond and no other; a timer fires exactly on its tick, not before its time by the clock, and an overdue one is not left behind |
| `network` | 2 clients, 2 messages, 1 failing `select` or `poll`, each of the five servers and an unknown type | every message read, a connection is one reader's until its end, the tables match the descriptors, `SelectServer` and `PollServer` never sleep in accept or read unless `select` or `poll` failed, the early exit skips no ready descriptor, connections given back |
| `network_epoll` | the same, `EPollServer` | **violation**: a task of `EPollServer` sleeps in a `Read` its comment calls non-blocking |
| `codesnip` | all lines of up to 4 arguments, 5 commands, 4 keys, numbers -1, 3, 256; 3 increments per thread, 3 signals, 3 numbers of 3 bytes through 4 bytes of socket | the scan decides every line as a direct reading does; no process is left behind; the program settles whatever fails; the racing count is within its bounds; numbers arrive whole and all of them |
| `codesnip_signal` | the same, 2 arguments | **violation**: the receiver ends without having caught the signal |
| `init` | the shipped table, an edited one with a name that is cut, a minimal one, single user mode; 4 pids, 2 signals, 1 fault: a stop, a failed fork or an inherited process | one process per entry, what must be waited for runs alone, pids name the right child, no dead child is slept over, a reload leaves exactly the table, one entry per key, every entry gets its process, a halt is obeyed |
| `init_respawn` | the same | **violation**: after a failed fork an entry counts as running and is never started |

**Why the bounds are enough.** The lock needs a drainer, a second writer and a reader at once, and one
thread more than readers it admits: four threads. (With more than `MaxReader + 1` threads the one
wakeup `RUnlock` gives at a full lock is not enough, and `NoLostWakeup` says so; the code's limit is
4294967295.) The pool's races need one worker inside the window and another elsewhere. With one worker
only, `EveryTaskRuns` fails for the reason `pool_long_tasks` shows; the code makes pools of 8 and 16.
Two slots give timers in the slot being iterated and in the other; the proofs cover every number. The
clock wraps the `int` twice, with gaps up to the longest an `int` can hold, and the wheel turns five times.
Two clients of two messages let messages pile up, a connection end while another is being accepted,
and its descriptor be reused; two workers can be held by one connection; one event per `epoll_wait` is
fewer than are ready. Four arguments are a name, a command and two options, which is what it takes for
a scan to restart and for one option to be given twice. A socket of four bytes is more than one number and
less than two, so every split occurs. Four pids are a shell, a process
being waited for, an inherited one and another, so that numbers come back soon; two signals let a
reload or a halt meet another. One fault (`MaxFaults`) is what the properties and the counterexample need;
the proofs cover any number of them. One failing `select` or `poll` comes at any place in the run, with any
state of the table.

**What the violations show.** `pool_long_tasks`: a worker finds the queue empty; `Submit` enqueues and
notifies before it sleeps; the other worker takes that task and never returns; the first sleeps on
although later tasks wait (`Submit` promises a function "to be executed asynchronously by the pool").
The comment in `ThreadPools` that too many connections are a problem is about the number of threads,
not about this. `pool_shutdown`: the same window, with `m_shutdown` in place of the queue.
`network_epoll`: two messages, two reports, one read of both. `codesnip_signal`: with g++ 12.2 and `-O`
every call of `Signal` exits, so the sample never works as built; without optimization a signal that comes
before its handler still ends the receiver. `init_respawn`: `run` returns -1 when `fork` fails, and
`run_actions` stores it as a pid and takes the entry for running. A reload does not help: the entry
keeps its pid, and one that is dropped from the table is only removed when its pid is 0.

A hypothesis that did not hold up: `PollServer` tests the `revents` of an entry that `poll` has never
written. The run shows that it cannot: such an entry is the last of the table, and the early exit on
`nready` always comes before it (`MultiplexerNeverBlocks`; a scan without the early exit breaks it).

The type invariants of the pools, the network, the clock and `codesnip` are stated in their modules to
document the state; the runs check the other properties, and `TypeOK` where it says more than types (the
lock's waiters, the wheel's iterator, where init stands).

## Fairness

* Lock: a woken thread gets the mutex, a holder unlocks. Nobody has to call, no wakeup has to be
  spurious. `EveryCallReturns` is claimed for behaviours in which new calls stop: the lock prefers
  nobody, and readers and writers queued on `reader_` can overtake each other for ever.
* Pool: every thread that can take a step does; a call of `Submit` or `Shutdown` once begun goes on.
  `TasksReturn` is separate, and dropped in `pool_long_tasks`, since `Doit` runs as long as a
  connection is open. The mutex needs only weak fairness because a step that holds it always ends.
* Wheel and clock: the loop keeps calling, and callbacks return. The clock need not advance.
* Network: every thread and process runs on, and clients send their messages and close, as `SingleClient`
  does. `EveryMessageRead` and `ConnectionsEnd` except a server that sleeps for ever in the `Accept` or `Read`
  of a pass whose `select` or `poll` failed (`Failed`). Without the clients' part a worker of `EPollServer`
  may sleep for ever.
* `codesnip`: the command line is one thread that nothing blocks; each process and thread of a sample
  runs on. Faults, files created by others and a peer that exits are never forced to happen.
* Init: every step of init that is enabled is taken, shells and scripts may run for ever except those
  init waits for, and a stopped init is not forced to be continued. `EveryEntryRuns` and `HaltObeyed`
  say so for behaviours in which init was never stopped; `SIGPWR` is excepted because `sigtimedwait`
  hands out the lower `SIGCHLD` first.

Deadlock is not checked where the program may stop: the pool with nothing submitted, the servers when
all clients are gone, a sample that has ended, a guest that is down.

## Proofs

Proved for every value of the constants, from the assumptions named in the modules.

**RWLockProofs** (any finite set of threads, any `MaxReader` above 0). Exclusion is not inductive: that
nobody reads while a writer is in depends on the counter being exact, and that `writing_` guards the
writer depends on nobody but its owner clearing it. The inductive invariant is
`IInv == TypeOK /\ CountExact /\ WritingOwned /\ WriterAlone`, preserved action by action
(`RLockStep`, `RUnlockStep`, `DrainStep`, `WLockStep`, `WULockStep`). From it: `TypeCorrect`,
`Exclusion`, `CountIsExact`, `OneOwner`. `NoWakeupLost` is preserved given `IInv`; its second half is
claimed only for at most `MaxReader + 1` threads (4294967296 in the code), because the wakeup at a full
lock is given to one waiter only and at exactly one value of the counter; with that many, at most one
thread can be asleep when the lock is full (`OneSleeperWhenFull`). `Refinement` shows that each
step is a step of `ReadersWriters` or invisible there.

**TimeWheelProofs** (any number of slots above 0, any timers and timeouts). The invariant is the type
invariant, with the iterator inside its vector, and `WheelConsistent`: each timer in one place, the
one its `slot_` names, and none that was taken out. The erase in mid-iteration is what needs both.
`TypeCorrect`, `VectorsConsistent`, and `Refinement`: with `Left` as the number of ticks a timer has
to go, every step of the wheel is a step of `TimerQueue` or invisible there, so a timer fires exactly
on its tick whatever happens around it.

**TimerProgramProofs** (any sizes of the two types of which the second is a multiple of the first, any
gap that fits an `int`, any wheel). `TicksExact` is not inductive: after the first call `starttime_` is
no longer the clock that was read but, once the `int` has gone negative, a huge number congruent to it
modulo 2^32. `LoopIInv` adds that congruence. The lemmas show that both conversions respect it
(`Int32Cong`, `UllCong`), that differences do (`CongDifference`), and that an `int` congruent to a small
number is that number (`Int32Exact`). From it, of the clock alone: `LoopTypeCorrect`,
`OneTickPerMillisecond`, `WheelNeverAhead`. The assumption on the gap is needed: a loop held up for
2^31 ms would see a negative count and lose it. A step of the program is a step of the wheel and a step
of the loop, or stutters in one of them (`ProgramIsWheel`, `ProgramIsLoop`), so whatever is proved of
either holds in the program: `ProgramRefinement`, `ProgramTicksExact`. What ties the two together is
`TickInLoop` (a `Tick` in progress was called by the `for` loop, which has not come to its end); with the
wheel never ahead of the clock it gives `TimersFireOnTime`, which is about both.

**ThreadPoolProofs** (any number of workers, submitters and tasks). `TypeCorrect`, `Refinement`, and
`TaskIsLookedFor`: with two workers or more, a queued task is never left to workers that all sleep or are
about to. `Submit` notifies without the mutex, so a notification can be lost on a worker that has seen
an empty queue and does not wait yet; it is lost on one only, because that worker holds
`m_conditional_mutex`. `IInv == TypeOK /\ OneHolder /\ NoneLeft` says that the mutex has one holder and
that no worker leaves before `Shutdown`. The hypothesis `NumWorkers > 1` is part of the property: with
one worker the one notification can be lost on it, and it sleeps beside its task.

**ThreadPoolIncomingProofs** (any finite sets of workers and submitters). `IInv == TypeOK /\ WakeupOwed`:
while a worker sleeps, the queue is no longer than the number of callers that have still to notify plus
that of the workers that are awake; every step keeps the balance, which is counted with the
cardinality theorems. From it `TypeCorrect`, `NoWakeupLost` and `Refinement`.

**GuestInitProofs** (any table, any processes, signals and faults). `IInv == TypeOK /\ WaitedForUntilGone /\
ListInv /\ ControlInv /\ TableSoFar`. That a whole key has at most one process (`NoSecondCopy`) needs that
whole keys are unique in the list (`KeysUnique`), that every live process of an entry is in the list or in the
hands of the `Store` that follows its fork, and that this entry has none (`ListInv`). That pids name children
(`PidsAreChildren`) needs the same of the process being stored, and that no two entries have one pid
(`PidsUnique`). That an exit is noticed (`NoExitMissed`) needs where in the main loop a `SIGCHLD` can have
been taken already (`ControlInv`). What the list is when a table has been read (`TableIsLoaded`) needs what it
is after each line (`TableSoFar`, with `Seen` for the lines read, the one being linked included): the merge
keeps the process of an entry whose line comes again, the purge removes what no line names. `TypeCorrect` and
`WaitedForAlone` come with it.

**CodesnipProofs** (any command lines, loops, failures, sizes, capacities and counts of numbers). A step of one
sample leaves the variables of the others alone, so each sample has an inductive invariant of its own.
`NoProcessLeft` from `FamilyIInv` (who has been forked by when). `CountWithinBounds` from `CountIInv`: the
place of the child tells which threads it has made and joined, and how far these have come bounds the
counter, and what each has loaded of it, from both sides. `CommandObeyed` from `ArgsIInv`: of
the arguments the scan has dealt with, the words are still there and each setting is that of the last option,
through every restart. `NumbersKeptWhole` is the refinement of `NumberChannel`, from `StreamIInv`: bytes
printed, buffered, in the socket and to be written are the numbers in order, cut into pieces
(`WholeSoFar`), or the last one was cut off and only the end is to come (`CutOff`).

**NetworkProofs** (any finite set of clients, any number of messages, any table larger than the number of
clients). In all four servers it covers, a connection waits in one place of the backlog or has a descriptor
(`ConnectionInv`). For the two that run `Doit` the result is `ReadByOne`. In `MultiProcessServer` it needs
that the parent has at most the descriptor it has just accepted open, and no child for that connection before
the fork (`ChildInv`); in `ThreadPools`, that an open descriptor is in one place at most: `connfd` until it is
submitted, the queue, or one worker (`TaskInv`). In both, what was sent to a reader is unread or reported, and
a connection that is nobody's was finished (`CountInv`). For `SelectServer` and `PollServer`, proved together,
the table has exactly the open descriptors, and during a pass `nready` is the number of reported entries still
ahead, each of them readable: `TableIsExact`, `NothingSkipped`, `NeverBlocks`. In a pass after a failed call
`nready` is -1, so it ends at its first accept or read. By a pigeonhole argument (`RoomFacts`) `accept` finds
a free descriptor and the table a free entry. The hard case is `PollServer`'s new entry, whose `revents` is
uninitialized: the scan is exact only up to an entry `top` (`ScanTo`), and the invariant says that the pass
ends before it comes to the new one.

**Only model-checked.** Every safety invariant and refinement that a passing run checks is stated by
a theorem. What stays with TLC: the liveness properties (`WriterDrains`, `EveryCallReturns`,
`EveryTaskRuns`, `EveryTaskStarts`, `SettledShutdownReturns`, `OverdueTimersFire`, `EveryMessageRead`,
`ConnectionsEnd`, `EveryEntryRuns`, `HaltObeyed`, `ProgramSettles`, `EverythingArrives`), because TLAPS has no
support for reasoning with fairness and `ENABLED`; the five counterexamples; and of `EPollServer`,
`SignalSample` and `InotifySample` everything but `NobodyLeftBehind`. The type invariants of `Network` and
`Codesnip` as a whole are neither listed in a run nor proved: the proofs type the variables they use.

## Not modelled

* `kvisual`: loading registers eight return probes and three tracepoints in a straight line, unloading
  gives back the tracepoints only. That is read off `entry.c` and listed under the hazards; what the kernel
  then does with a probe in freed memory is undefined, and nothing else in the module has state.
* The IPv4 set-up (no caller), the mutex and spinlock sample (each thread is joined before the next is
  made), the printing handlers of `kvisual`, `mm` and the example (empty or a few lines), the scripts.
* BusyBox other than init: the shell and the utilities are third-party programs built unchanged. They are
  nearly all of the tree's lines (over 300000 of about 309000), so the share of lines the map covers is
  well below one per cent whatever is done about the project's own code.
* Of init: setting up terminals, messages, environment and what a child does before its exec.
* Undefined behaviour outside a stated contract: a callback that changes the vector being iterated,
  `DelTimer` on a timer that has fired, `AddTimer` from a second thread in `test/timer.cc`; these are
  listed as hazards. `m_shutdown` of the pool is read without a lock: the builds read the current value
  or one from before the last lock, which the model has.
* Known and of no consequence for what is promised: a client table that is full (1024 entries, 8
  clients; `SizeAssumption`), the five seconds of sleep that keep clients from connecting too early
  (`ConnectRefused` is an action), numbers sent twice because eight threads increment one counter, an
  inotify loop that never reads its events because the call of the handler is commented out, timers
  that `DelTimer` takes out and does not free (`leaked`).

**The usage text.** Its numbers are not those of the enums (`src/codesnip/src/snip.cpp:112` and
`src/codesnip/src/snip.h:193`): it offers `ipct=3` for signals and `fsapit=1` for inotify, where the code has
`SIGNAL = 2` and `INOTIFY = 0`. With the text's numbers the program calls the empty `LookMsgQueue`, or says that
the type is unknown. This is a real disagreement of documentation and code; it is a difference of two tables,
listed as a hazard without a property, and the models have the code's numbers (`SIGNAL`, `INOTIFY`).

## Plan

1. *Done:* lock, both pools, wheel, clock, servers, command line; proofs for lock, wheel and clock.
2. *Done:* the wheel and the clock composed; the byte loops with their abstract channel; the samples
   behind the command line, composed with it; init with the shipped table.
3. *Done:* the pools with their refinements, `FiresOnTime` of the composed program, init for any table, the
   samples of `codesnip` with the refinement of `NumberChannel`, `SelectServer`, `PollServer` and the `Doit`
   servers for any number of clients.
4. Left: the type invariants of `Network` and `Codesnip` as theorems, and for `EPollServer` an invariant
   that says which of its connections can be left in `DoUseFd` (its property is violated, so this is about
   what does hold there).
