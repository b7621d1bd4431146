----------------------------- MODULE DoitServers -----------------------------
(***************************************************************************)
(* MultiProcessServer and ThreadPools of codesnip/src/net/net.cpp: a main   *)
(* loop accepts, and a child process or a task of the pool runs Doit on the *)
(* connection, reading message after message until the peer closes.         *)
(*                                                                         *)
(* The accepted descriptor lives in un->connfd, which the next accept       *)
(* overwrites.  A child process has its own copy of the descriptor, and      *)
(* nobody waits for it: it stays a zombie.                                  *)
(***************************************************************************)
EXTENDS ServerPool

VARIABLES
    main,     \* the main thread: "accept", "fork", "close", "submit"
    connfd,   \* un->connfd
    kid       \* the child for each connection: "none", "doit", "zombie"

doitVars == <<main, connfd, kid>>

DoitInit ==
    /\ main = "accept"
    /\ connfd = -1
    /\ kid = [c \in Clients |-> "none"]

\* accept(), into un->connfd.
AcceptConnfd(next) ==
    /\ main = "accept" /\ listening
    /\ \E fd \in Fds : Accept(fd) /\ connfd' = fd
    /\ main' = next
    /\ UNCHANGED <<listening, peer, todo, unread, reported, latched, kid>>
    /\ UNCHANGED poolVars

\* One turn of the loop in Doit; Readn blocks until a message or the end is there.
Doit(c) ==
    /\ ReadOne(c)
    /\ UNCHANGED <<listening, backlog, peer, todo, file, latched>>

-----------------------------------------------------------------------------
(* MultiProcessServer                                                      *)

ForkChild ==
    /\ main = "fork"
    /\ kid' = [kid EXCEPT ![file[connfd]] = "doit"]
    /\ main' = "close"
    /\ UNCHANGED connfd
    /\ UNCHANGED socketVars /\ UNCHANGED poolVars

\* Mutant: the parent keeps its descriptor.
ParentKeeps ==
    /\ main = "close"
    /\ main' = "accept"
    /\ UNCHANGED <<connfd, kid>>
    /\ UNCHANGED socketVars /\ UNCHANGED poolVars

ParentCloses ==
    /\ main = "close"
    /\ Close(connfd)
    /\ main' = "accept"
    /\ UNCHANGED <<listening, backlog, peer, todo, unread, reported, latched, connfd, kid>>
    /\ UNCHANGED poolVars

ChildReads(c) ==
    /\ kid[c] = "doit" /\ Doit(c)
    /\ UNCHANGED doitVars /\ UNCHANGED poolVars

\* Doit ends, with one line more, and exit(0) follows.
ChildExits(c) ==
    /\ kid[c] = "doit" /\ ReadEnd(c)
    /\ kid' = [kid EXCEPT ![c] = "zombie"]
    /\ UNCHANGED <<main, connfd>>
    /\ UNCHANGED <<listening, backlog, peer, todo, file, latched>>
    /\ UNCHANGED poolVars

MultiProcessMain == AcceptConnfd("fork") \/ ForkChild \/ ParentCloses

MultiProcessChild(c) == ChildReads(c) \/ ChildExits(c)

-----------------------------------------------------------------------------
(* ThreadPools                                                             *)

SubmitDoit ==
    /\ main = "submit"
    /\ Submit(connfd)
    /\ main' = "accept"
    /\ UNCHANGED <<connfd, kid, busy>>
    /\ UNCHANGED socketVars

\* Mutant: the task refers to un->connfd instead of having its value.
TakeDoitByReference(w) ==
    /\ busy[w] = None /\ tasks # <<>>
    /\ busy' = [busy EXCEPT ![w] = connfd]
    /\ tasks' = Tail(tasks)
    /\ UNCHANGED doitVars /\ UNCHANGED socketVars

TakeDoit(w) ==
    /\ Take(w)
    /\ UNCHANGED doitVars /\ UNCHANGED socketVars

WorkerReads(w) ==
    /\ busy[w] # None /\ Doit(file[busy[w]])
    /\ UNCHANGED doitVars /\ UNCHANGED poolVars

\* Doit prints its last line and returns, and nobody closes the descriptor.
WorkerReturns(w) ==
    /\ busy[w] # None /\ ReadEnd(file[busy[w]])
    /\ TaskReturns(w)
    /\ UNCHANGED tasks /\ UNCHANGED doitVars
    /\ UNCHANGED <<listening, backlog, peer, todo, file, latched>>

ThreadPoolsMain == AcceptConnfd("submit") \/ SubmitDoit

ThreadPoolsWorker(w) == TakeDoit(w) \/ WorkerReads(w) \/ WorkerReturns(w)

-----------------------------------------------------------------------------

DoitTypeOK ==
    /\ main \in {"accept", "fork", "close", "submit"}
    /\ connfd \in Fds \cup {-1}
    /\ kid \in [Clients -> {"none", "doit", "zombie"}]
=============================================================================
