------------------------------ MODULE Network ------------------------------
(***************************************************************************)
(* RunNetwork of codesnip/src/net/net.cpp: the client process and the one    *)
(* of the five servers that server_type names, sharing the sockets.          *)
(***************************************************************************)
EXTENDS DoitServers, EPollServer, Multiplexers

CONSTANT ServerTypes   \* the values of server_type considered

\* enum server_t, and a number outside it.
MULTI_P == "multi_p"
SINGLE_P_MULTI_T == "single_p_multi_t"
SELECT == "select"
POLL == "poll"
EPOLL == "epoll"
UNKNOWN == "unknown"

VARIABLE server_type

vars == <<socketVars, poolVars, doitVars, epollVars, muxVars, server_type>>

Init ==
    /\ server_type \in ServerTypes
    /\ SocketsInit
    /\ PoolInit
    /\ DoitInit
    /\ EPollInit
    /\ IF server_type = POLL THEN MuxInit(1) ELSE MuxInit(0)

\* A server starts by listening; for a type that is none, RunNetwork returns.
StartServer ==
    /\ server_type # UNKNOWN
    /\ InitUnServer
    /\ UNCHANGED <<poolVars, doitVars, epollVars, muxVars, server_type>>

RunClient(c) ==
    /\ ClientStep(c)
    /\ UNCHANGED <<poolVars, doitVars, epollVars, muxVars, server_type>>

RunMultiProcess ==
    /\ server_type = MULTI_P
    /\ MultiProcessMain
    /\ UNCHANGED <<epollVars, muxVars, server_type>>

RunChild(c) ==
    /\ server_type = MULTI_P
    /\ MultiProcessChild(c)
    /\ UNCHANGED <<epollVars, muxVars, server_type>>

RunThreadPools ==
    /\ server_type = SINGLE_P_MULTI_T
    /\ ThreadPoolsMain
    /\ UNCHANGED <<epollVars, muxVars, server_type>>

RunSelect ==
    /\ server_type = SELECT /\ listening
    /\ SelectServer
    /\ UNCHANGED <<poolVars, doitVars, epollVars, server_type>>

RunPoll ==
    /\ server_type = POLL /\ listening
    /\ PollServer
    /\ UNCHANGED <<poolVars, doitVars, epollVars, server_type>>

RunEPoll ==
    /\ server_type = EPOLL
    /\ EPollMain
    /\ UNCHANGED <<doitVars, muxVars, server_type>>

RunWorker(w) ==
    \/ /\ server_type = SINGLE_P_MULTI_T
       /\ ThreadPoolsWorker(w)
       /\ UNCHANGED <<epollVars, muxVars, server_type>>
    \/ /\ server_type = EPOLL
       /\ EPollWorker(w)
       /\ UNCHANGED <<doitVars, muxVars, server_type>>

RunMain == RunMultiProcess \/ RunThreadPools \/ RunSelect \/ RunPoll \/ RunEPoll

Next ==
    \/ StartServer
    \/ RunMain
    \/ \E c \in Clients : RunClient(c) \/ RunChild(c)
    \/ \E w \in Workers : RunWorker(w)

Spec == Init /\ [][Next]_vars

\* Every thread and process runs on: the server's main thread, its children and
\* workers, and the clients, which send their messages and close.
Fairness ==
    /\ WF_vars(StartServer)
    /\ WF_vars(RunMain)
    /\ \A c \in Clients : WF_vars(RunClient(c)) /\ WF_vars(RunChild(c))
    /\ \A w \in Workers : WF_vars(RunWorker(w))

FairSpec == Spec /\ Fairness

-----------------------------------------------------------------------------
(* Properties                                                              *)

\* Every variable keeps its type.
TypeOK ==
    /\ SocketsTypeOK
    /\ PoolTypeOK
    /\ DoitTypeOK
    /\ EPollTypeOK
    /\ MuxTypeOK

\* Descriptors the server process has open.
OpenFds == {fd \in Fds : file[fd] # None}

\* Who has connection c to read: the main thread from accept to the fork or the Submit,
\* a task in the queue, a worker in Doit, or a child.
Readers(c) ==
    {<<"main", fd>> : fd \in {f \in OpenFds : file[f] = c /\ connfd = f /\ main \in {"fork", "submit"}}} \cup
    {<<"task", k>> : k \in {j \in 1..Len(tasks) : file[tasks[j]] = c}} \cup
    {<<"worker", w>> : w \in {v \in Workers : busy[v] # None /\ file[busy[v]] = c}} \cup
    {<<"child", d>> : d \in {e \in {c} : kid[e] = "doit"}}

\* accept() has returned this connection.
Accepted(c) == peer[c] \in {"connected", "closed"} /\ \A k \in 1..Len(backlog) : backlog[k] # c

\* In MultiProcessServer and ThreadPools a connection is one reader's and is never left:
\* though the next accept overwrites un->connfd while the task or the child for the last
\* one has not begun, no two of them read one connection, and one that nobody has any more
\* was read to its end, with a line for each message and the line Doit prints at the end.
OneReader ==
    server_type \in {MULTI_P, SINGLE_P_MULTI_T} =>
        \A c \in Clients :
            /\ \A x, y \in Readers(c) : x = y
            /\ Accepted(c) /\ Readers(c) = {} => AtEof(c) /\ reported[c] = Messages + 1

\* The table of SelectServer and PollServer is the server's open descriptors:
\* each in one entry at or below maxi, and watched.  A descriptor missing here is
\* never read and never closed; a stale one belongs to somebody else next time.
TableMatchesFds ==
    server_type \in {SELECT, POLL} =>
        LET used == {s \in Slots : client[s] > Listen} IN
        /\ {client[s] : s \in used} = OpenFds
        /\ \A s \in used : s <= maxi /\ \A r \in used : client[r] = client[s] => r = s
        /\ server_type = SELECT => allset = OpenFds \cup {Listen} /\ \A fd \in allset : fd <= maxfd

\* The pass is one after a select or poll that failed.
Failed == nready = -1

\* SelectServer and PollServer never sleep in Accept or Read, although their sockets
\* block: what was reported ready is still ready when the scan gets there.  PollServer
\* does not initialize revents; only its early exit keeps it from testing those of an
\* entry it has just filled.  A pass after a failed select or poll may sleep, and only it.
MultiplexerNeverBlocks ==
    /\ server_type = SELECT /\ ~Failed =>
        /\ at = "accept" /\ Listen \in rset => backlog # <<>>
        /\ SelectReading => Readable(file[client[i]])
    /\ server_type = POLL /\ ~Failed =>
        /\ at = "accept" /\ revents[0] => backlog # <<>>
        /\ PollReading => Readable(file[client[i]])

\* nready counts the descriptors of rset the scan has not come to: the early exit
\* of SelectServer skips none of them, and the scan ends with none left over.
NreadyExact ==
    server_type = SELECT /\ at = "scan" =>
        nready = Cardinality({s \in i..maxi : client[s] > Listen /\ client[s] \in rset})

\* A worker of EPollServer never sleeps in the Read of DoUseFd.
DoUseFdNeverBlocks ==
    server_type = EPOLL =>
        \A w \in Workers : busy[w] # None => Readable(file[busy[w]])

\* Whatever the server, what a client has sent is read in the end, although
\* EPollServer is told of it once only and its workers may be asleep in a Read; unless
\* SelectServer or PollServer sleeps for ever in the Accept or Read of a pass whose
\* select or poll failed.
EveryMessageRead == \A c \in Clients : unread[c] > 0 ~> unread[c] = 0 \/ []Failed

\* A closed connection is given back: its descriptor in SelectServer and PollServer,
\* the parent's descriptor and the child in MultiProcessServer.  (ThreadPools and
\* EPollServer close no connection.)  The exception is that of EveryMessageRead.
ConnectionsEnd ==
    server_type \in {MULTI_P, SELECT, POLL} =>
        \A c \in Clients :
            peer[c] = "closed" ~>
                \/ /\ \A fd \in Fds : file[fd] # c
                   /\ server_type = MULTI_P => kid[c] = "zombie"
                \/ []Failed
=============================================================================
