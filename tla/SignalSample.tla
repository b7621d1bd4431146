---------------------------- MODULE SignalSample ----------------------------
(***************************************************************************)
(* The signals sample, LookSignal of codesnip/src/ipc/ipc.cpp: a child that   *)
(* installs a handler for one signal after the other and then spins until    *)
(* SIGINT has been seen, and its parent, which sleeps, sends it and waits.    *)
(* The sleep of two seconds promises nothing: it may end at any time.        *)
(* Signal(), the wrapper, has a result and no return statement: an            *)
(* optimizing build (the Makefile says -O) may take its error path, which     *)
(* exits, although signal() succeeded.                                      *)
(***************************************************************************)
EXTENDS Integers

CONSTANTS
    NSIG,      \* signals are numbered 1 to NSIG - 1 (65 in the code)
    SIGINT     \* the number of the one that is sent

ASSUME SignalAssumption == NSIG \in Nat /\ SIGINT \in 1..(NSIG - 1)

VARIABLES
    sender,      \* "off", "sleep", "wait", "done"
    receiver,    \* "off", "install", "spin", "report", "zombie", "gone"
    signo,       \* the next signal to get its handler
    sigint,      \* SIGINT is pending for the receiver
    get_SIGINT,  \* the flag the receiver spins on
    sig_cnt      \* how often the handler has been called, for SIGINT

signalVars == <<sender, receiver, signo, sigint, get_SIGINT, sig_cnt>>

SignalInit ==
    /\ sender = "off" /\ receiver = "off" /\ signo = 1
    /\ sigint = FALSE /\ get_SIGINT = FALSE /\ sig_cnt = 0

\* Fork; if it fails, its wrapper exits.
LookSignal ==
    /\ sender = "off"
    /\ \/ sender' = "sleep" /\ receiver' = "install"
       \/ sender' = "done" /\ UNCHANGED receiver
    /\ UNCHANGED <<signo, sigint, get_SIGINT, sig_cnt>>

Kill ==
    /\ sender = "sleep"
    /\ sigint' = TRUE
    /\ sender' = "wait"
    /\ UNCHANGED <<receiver, signo, get_SIGINT, sig_cnt>>

WaitReceiver ==
    /\ sender = "wait" /\ receiver = "zombie"
    /\ receiver' = "gone"
    /\ sender' = "done"
    /\ UNCHANGED <<signo, sigint, get_SIGINT, sig_cnt>>

InstallHandler ==
    /\ receiver = "install" /\ signo < NSIG
    /\ signo' = signo + 1
    /\ UNCHANGED <<sender, receiver, sigint, get_SIGINT, sig_cnt>>

\* Signal() exits, because signal() failed or for want of a return statement.
SignalExits ==
    /\ receiver = "install" /\ signo < NSIG
    /\ receiver' = "zombie"
    /\ UNCHANGED <<sender, signo, sigint, get_SIGINT, sig_cnt>>

InstallEnds ==
    /\ receiver = "install" /\ signo = NSIG
    /\ receiver' = "spin"
    /\ UNCHANGED <<sender, signo, sigint, get_SIGINT, sig_cnt>>

SpinEnds ==
    /\ receiver = "spin" /\ get_SIGINT
    /\ receiver' = "report"
    /\ UNCHANGED <<sender, signo, sigint, get_SIGINT, sig_cnt>>

ReportEnds ==
    /\ receiver = "report"
    /\ receiver' = "zombie"
    /\ UNCHANGED <<sender, signo, sigint, get_SIGINT, sig_cnt>>

\* Mutant: the handler counts and forgets the flag.
UserSignalHandlerNoFlag == sig_cnt' = sig_cnt + 1 /\ UNCHANGED <<receiver, get_SIGINT>>

UserSignalHandler == get_SIGINT' = TRUE /\ sig_cnt' = sig_cnt + 1 /\ UNCHANGED receiver

\* SIGINT is delivered: it kills a receiver that has no handler for it yet.
Deliver ==
    /\ sigint /\ receiver \in {"install", "spin", "report"}
    /\ sigint' = FALSE
    /\ \/ signo > SIGINT /\ UserSignalHandler
       \/ signo <= SIGINT /\ receiver' = "zombie" /\ UNCHANGED <<get_SIGINT, sig_cnt>>
    /\ UNCHANGED <<sender, signo>>

SignalNext ==
    \/ Kill \/ WaitReceiver \/ InstallHandler \/ SignalExits \/ InstallEnds
    \/ SpinEnds \/ ReportEnds \/ Deliver

SignalTypeOK ==
    /\ sender \in {"off", "sleep", "wait", "done"}
    /\ receiver \in {"off", "install", "spin", "report", "zombie", "gone"}
    /\ signo \in 1..NSIG /\ sigint \in BOOLEAN /\ get_SIGINT \in BOOLEAN /\ sig_cnt \in 0..1
=============================================================================
