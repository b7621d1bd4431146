--------------------------- MODULE InotifySample ---------------------------
(***************************************************************************)
(* The inotify sample, Inotify and DataProcessThread of codesnip/src/fs/      *)
(* fs.cpp: the main thread makes a directory, a second thread watches it.     *)
(*                                                                         *)
(* The thread is given pwd.c_str(), and a character is appended to pwd        *)
(* afterwards.  With libstdc++ the string is moved exactly if the current     *)
(* directory is "/": "//inotifytarget" fills the 15 characters of a short     *)
(* string, and the next one makes it a long one.  The path then begins with   *)
(* the bytes of the new capacity and names no file.                          *)
(***************************************************************************)
EXTENDS Integers

CONSTANT MaxEvents   \* files created in the directory, a bound of the model

ASSUME EventsAssumption == MaxEvents \in Nat

VARIABLES
    setup,    \* main thread: "off", "mkdir", "remove", "access", "create", "join", "exited"
    target,   \* what inotifytarget is: "none", "file", "dir" (empty), "full", "denied"
    inRoot,   \* the current directory is "/"
    watcher,  \* the thread: "none", "watch", "poll", "exited"
    events    \* events the inotify descriptor holds

inotifyVars == <<setup, target, inRoot, watcher, events>>

InotifyInit ==
    /\ setup = "off" /\ watcher = "none" /\ events = 0
    /\ target = "none" /\ inRoot = FALSE

\* Where the program was started, and what is there already, matters from here on.
Inotify ==
    /\ setup = "off"
    /\ setup' = "mkdir"
    /\ target' \in {"none", "file", "dir", "full", "denied"}
    /\ inRoot' \in BOOLEAN
    /\ UNCHANGED <<watcher, events>>

\* exit(), from either thread.
ExitBoth == setup' = "exited" /\ watcher' = (IF watcher = "none" THEN "none" ELSE "exited")

MakeTarget ==
    /\ setup = "mkdir"
    /\ \/ target = "none" /\ target' = "dir" /\ setup' = "access" /\ UNCHANGED watcher
       \/ target \in {"file", "dir", "full"} /\ setup' = "remove" /\ UNCHANGED <<target, watcher>>
       \/ target = "denied" /\ ExitBoth /\ UNCHANGED target
    /\ UNCHANGED <<inRoot, events>>

\* A directory that is not empty cannot be removed.
RemoveTarget ==
    /\ setup = "remove"
    /\ \/ target # "full" /\ target' = "none" /\ setup' = "mkdir" /\ UNCHANGED watcher
       \/ target = "full" /\ ExitBoth /\ UNCHANGED target
    /\ UNCHANGED <<inRoot, events>>

\* pwd += '/' and access().
AccessTarget ==
    /\ setup = "access"
    /\ \/ setup' = "create" /\ UNCHANGED watcher
       \/ ExitBoth
    /\ UNCHANGED <<target, inRoot, events>>

\* pthread_create returns a positive number on failure, which the test for a negative
\* one misses: the join then waits for no thread, and returns or crashes.
CreateWatcher ==
    /\ setup = "create"
    /\ \/ setup' = "join" /\ watcher' = "watch"
       \/ setup' = "exited" /\ UNCHANGED watcher
    /\ UNCHANGED <<target, inRoot, events>>

\* inotify_init1 and inotify_add_watch.
AddWatch ==
    /\ watcher = "watch"
    /\ \/ ~inRoot /\ watcher' = "poll" /\ UNCHANGED setup
       \/ ExitBoth
    /\ UNCHANGED <<target, inRoot, events>>

\* The events are not read, so that poll returns at once from the first one on; an error
\* of poll ends the program.
PollFails ==
    /\ watcher = "poll"
    /\ ExitBoth
    /\ UNCHANGED <<target, inRoot, events>>

\* Somebody creates a file in the directory.
CreateFile ==
    /\ target \in {"dir", "full"} /\ setup # "off" /\ events < MaxEvents
    /\ target' = "full"
    /\ events' = IF watcher = "poll" THEN events + 1 ELSE events
    /\ UNCHANGED <<setup, inRoot, watcher>>

InotifyStep == MakeTarget \/ RemoveTarget \/ AccessTarget \/ CreateWatcher \/ AddWatch
InotifyNext == InotifyStep \/ PollFails \/ CreateFile

InotifyTypeOK ==
    /\ setup \in {"off", "mkdir", "remove", "access", "create", "join", "exited"}
    /\ target \in {"none", "file", "dir", "full", "denied"}
    /\ inRoot \in BOOLEAN
    /\ watcher \in {"none", "watch", "poll", "exited"}
    /\ events \in 0..MaxEvents

\* The sample settles, whatever it finds in the place of its directory: it watches the
\* directory it has made, or the program has exited.  It does not go on removing and
\* making it, and it does not watch what was there before.
InotifySettles ==
    setup = "mkdir" ~> setup = "exited" \/ (watcher = "poll" /\ target \in {"dir", "full"})
=============================================================================
