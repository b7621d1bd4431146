------------------------------ MODULE Codesnip ------------------------------
(***************************************************************************)
(* The program codesnip: the command line, and the sample it names running    *)
(* in whatever processes and threads that sample makes.                      *)
(*                                                                         *)
(* The network sample is here one connection, byte by byte, of the two         *)
(* servers that run Doit; Network has all five servers message by message.    *)
(* The spinlock and mutex sample returns at once: nothing in it is concurrent.*)
(***************************************************************************)
EXTENDS SnipArgs, SignalSample, ThreadSample, InotifySample, ByteStream

vars == <<argVars, signalVars, threadVars, inotifyVars, streamVars>>

\* enum ipc_t, enum fsapi_t, and the server types that run Doit.
SIGNAL == 2
INOTIFY == 0
DoitTypes == {0, 1}

Init ==
    /\ ArgsInit /\ SignalInit /\ ThreadInit /\ InotifyInit /\ StreamInit

ParseArgs ==
    /\ ArgsNext
    /\ UNCHANGED <<signalVars, threadVars, inotifyVars, streamVars>>

\* SysCall::LWP, IPC, FS and Net; a type that is unknown, or has an empty function,
\* returns at once.  The command line as given is not looked at any more.
Call ==
    /\ at = "run" /\ at' = "called"
    /\ given' = <<>>
    /\ UNCHANGED <<argv, i, settings>>
    /\ IF argv[2].word = "lwp" THEN ForkProAndCreateT ELSE UNCHANGED threadVars
    /\ IF argv[2].word = "ipc" /\ settings["ipct"] = SIGNAL THEN LookSignal ELSE UNCHANGED signalVars
    /\ IF argv[2].word = "fs" /\ settings["fsapit"] = INOTIFY THEN Inotify ELSE UNCHANGED inotifyVars
    /\ IF argv[2].word = "net" /\ settings["servert"] \in DoitTypes THEN StartStream ELSE UNCHANGED streamVars

RunSignal == SignalNext /\ UNCHANGED <<argVars, threadVars, inotifyVars, streamVars>>
RunThreads == ThreadNext /\ UNCHANGED <<argVars, signalVars, inotifyVars, streamVars>>
RunInotify == InotifyNext /\ UNCHANGED <<argVars, signalVars, threadVars, streamVars>>
RunStream == StreamNext /\ UNCHANGED <<argVars, signalVars, threadVars, inotifyVars>>

Next == ParseArgs \/ Call \/ RunSignal \/ RunThreads \/ RunInotify \/ RunStream

Spec == Init /\ [][Next]_vars

\* Every process and thread runs on, and signals are delivered.  No call has to fail, and
\* nobody has to create a file.
FairSpec ==
    /\ Spec
    /\ WF_vars(ParseArgs) /\ WF_vars(Call)
    /\ WF_vars(RunSignal) /\ WF_vars(RunThreads)
    /\ WF_vars(InotifyStep /\ UNCHANGED <<argVars, signalVars, threadVars, streamVars>>)
    /\ WF_vars(StreamStep /\ UNCHANGED <<argVars, signalVars, threadVars, inotifyVars>>)

-----------------------------------------------------------------------------
(* Properties                                                              *)

\* Every variable of every sample keeps its type.
TypeOK == ArgsTypeOK /\ SignalTypeOK /\ ThreadTypeOK /\ InotifyTypeOK /\ StreamTypeOK

\* When the process the user started is done, no process it made is left, running or
\* unwaited for: each parent outlives its child, through signals that come too early,
\* calls that fail, threads that crash, and a waitpid(0).
NobodyLeftBehind ==
    /\ sender = "done" => receiver \in {"off", "gone"}
    /\ father = "done" => child \in {"none", "gone"}
    /\ child \in {"zombie", "gone"} => grandchild \in {"none", "gone"}

\* The signals and the threads sample end, whichever process comes first.
SampleEnds ==
    (sender = "sleep" ~> sender = "done") /\ (father = "wait" ~> father = "done")

\* From any command line the program gets to where nothing more has to happen: the line is
\* decided, with its restarts and whatever its numbers; processes and threads end; and the
\* directory to be watched is made, its retry by goto included, or the sample exits.
ProgramSettles == EveryLineDecided /\ SampleEnds /\ InotifySettles

\* The receiver catches every signal but SIGKILL and SIGSTOP, so that it ends by
\* having caught the SIGINT that was sent to it.
SignalCaught == receiver \in {"zombie", "gone"} => sig_cnt = 1
=============================================================================
