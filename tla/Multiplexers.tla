---------------------------- MODULE Multiplexers ----------------------------
(***************************************************************************)
(* SelectServer and PollServer of codesnip/src/net/net.cpp: one thread that *)
(* waits for any descriptor to be ready, accepts at most one connection and *)
(* then scans its table of clients.  Both keep the table, its highest index *)
(* ever used, the count of ready descriptors left and the scan index in     *)
(* locals of the same names.                                               *)
(*                                                                         *)
(* Accept and the bookkeeping after it are one action, and so is the visit  *)
(* of one table entry: only the clients run in between, and what they do    *)
(* is visible to the server only through select, poll, accept and read.     *)
(* The table has room for every client (8 of 1024 in the code).             *)
(***************************************************************************)
EXTENDS Sockets

CONSTANTS
    Size,       \* FD_SETSIZE and OPEN_MAX
    MaxFaults   \* calls of select and poll that fail, a bound of the model

ASSUME FaultsAssumption == MaxFaults \in Nat
ASSUME SizeAssumption == Size \in Nat /\ Size > Cardinality(Clients)

VARIABLES
    at,       \* the server's place in its loop: "wait", "accept", "scan"
    client,   \* client[].fd; -1 is a free entry
    maxi,
    nready,
    i,
    allset,   \* select: the descriptors watched
    rset,     \* select: those that were ready
    maxfd,    \* select
    revents,  \* poll: POLLRDNORM or POLLERR set, per entry
    faults    \* calls that have failed so far

muxVars == <<at, client, maxi, nready, i, allset, rset, maxfd, revents, faults>>

Slots == 0..(Size - 1)

\* The first free entry from lo on.
FreeSlot(lo) ==
    CHOOSE s \in lo..(Size - 1) : client[s] < 0 /\ \A r \in lo..(s - 1) : client[r] >= 0

FdReady(fd) ==
    \/ fd = Listen /\ backlog # <<>>
    \/ fd \in Fds /\ file[fd] # None /\ Readable(file[fd])

\* first is the number of entries taken at the start: PollServer keeps the
\* listening socket in its table.  Its revents are never initialized: any content.
MuxInit(first) ==
    /\ at = "wait"
    /\ client = [s \in Slots |-> IF s < first THEN Listen ELSE -1]
    /\ maxi = first - 1
    /\ nready = 0
    /\ i = first
    /\ allset = {Listen}
    /\ rset = {}
    /\ maxfd = Listen
    /\ revents \in [Slots -> IF first = 0 THEN {FALSE} ELSE BOOLEAN]
    /\ faults = 0

\* select or poll fails, for want of memory.  Select and Poll only say so and return
\* -1, and the server goes on as if something were ready.
WaitFails ==
    /\ at = "wait"
    /\ faults < MaxFaults /\ faults' = faults + 1
    /\ nready' = -1
    /\ at' = "accept"
    /\ UNCHANGED <<client, maxi, i, allset, maxfd, revents>>
    /\ UNCHANGED socketVars

\* Mutant: a pass goes on although no ready descriptor is left.
ContinueOn(j) ==
    /\ nready' = nready - 1
    /\ at' = "scan" /\ i' = j

\* Both loops end a pass here when the last ready descriptor has been served,
\* and go on to entry j otherwise.
Continue(j) ==
    /\ nready' = nready - 1
    /\ \/ nready' <= 0 /\ at' = "wait" /\ UNCHANGED i
       \/ nready' > 0 /\ at' = "scan" /\ i' = j

\* Mutant: the count goes down for every entry visited, ready or not.
SkipToCounting(j) == i' = j /\ at' = "scan" /\ nready' = nready - 1

SkipTo(j) == i' = j /\ at' = "scan" /\ UNCHANGED nready

\* The scan is over.
PassEnds ==
    /\ at = "scan" /\ i > maxi
    /\ at' = "wait"
    /\ UNCHANGED <<client, maxi, nready, i, allset, rset, maxfd, revents, faults>>
    /\ UNCHANGED socketVars

-----------------------------------------------------------------------------
(* SelectServer                                                            *)

SelectWait ==
    LET ready == {fd \in allset : fd <= maxfd /\ FdReady(fd)} IN
    /\ at = "wait" /\ ready # {}
    /\ rset' = ready
    /\ nready' = Cardinality(ready)
    /\ at' = "accept"
    /\ UNCHANGED <<client, maxi, i, allset, maxfd, revents, faults>>
    /\ UNCHANGED socketVars

\* A select that fails leaves rset as it was passed.
SelectFails == WaitFails /\ rset' = allset

\* A new connection goes into the first free entry and into allset.
SelectAccept ==
    /\ at = "accept" /\ Listen \in rset
    /\ \E fd \in Fds :
        /\ Accept(fd)
        /\ client' = [client EXCEPT ![FreeSlot(0)] = fd]
        /\ allset' = allset \cup {fd}
        /\ maxfd' = IF fd > maxfd THEN fd ELSE maxfd
    /\ maxi' = IF FreeSlot(0) > maxi THEN FreeSlot(0) ELSE maxi
    /\ Continue(0)
    /\ UNCHANGED <<rset, revents, faults>>
    /\ UNCHANGED <<listening, peer, todo, unread, reported, latched>>

SelectNoAccept ==
    /\ at = "accept" /\ Listen \notin rset
    /\ SkipTo(0)
    /\ UNCHANGED <<client, maxi, allset, rset, maxfd, revents, faults>>
    /\ UNCHANGED socketVars

SelectSkip ==
    /\ at = "scan" /\ i <= maxi
    /\ client[i] < 0 \/ client[i] \notin rset
    /\ SkipTo(i + 1)
    /\ UNCHANGED <<client, maxi, allset, rset, maxfd, revents, faults>>
    /\ UNCHANGED socketVars

\* The entry to be visited is one select reported.
SelectReading == at = "scan" /\ i <= maxi /\ client[i] >= 0 /\ client[i] \in rset

SelectRead ==
    /\ SelectReading
    /\ ReadAll(file[client[i]])
    /\ Continue(i + 1)
    /\ UNCHANGED <<client, maxi, allset, rset, maxfd, revents, faults>>
    /\ UNCHANGED <<listening, backlog, peer, todo, file, latched>>

\* Mutant: the entry is not freed.
SelectEofKeepsEntry ==
    /\ SelectReading
    /\ AtEof(file[client[i]])
    /\ Close(client[i])
    /\ allset' = allset \ {client[i]}
    /\ Continue(i + 1)
    /\ UNCHANGED <<client, maxi, rset, maxfd, revents, faults>>
    /\ UNCHANGED <<listening, backlog, peer, todo, unread, reported, latched>>

SelectEof ==
    /\ SelectReading
    /\ AtEof(file[client[i]])
    /\ Close(client[i])
    /\ allset' = allset \ {client[i]}
    /\ client' = [client EXCEPT ![i] = -1]
    /\ Continue(i + 1)
    /\ UNCHANGED <<maxi, rset, maxfd, revents, faults>>
    /\ UNCHANGED <<listening, backlog, peer, todo, unread, reported, latched>>

SelectServer ==
    \/ SelectWait \/ SelectFails \/ SelectAccept \/ SelectNoAccept
    \/ SelectSkip \/ SelectRead \/ SelectEof \/ PassEnds

-----------------------------------------------------------------------------
(* PollServer                                                              *)

\* poll() writes revents of the entries it is given, and of no other.
PollWait ==
    LET ready == {s \in 0..maxi : client[s] >= 0 /\ FdReady(client[s])} IN
    /\ at = "wait" /\ ready # {}
    /\ revents' = [s \in Slots |-> IF s <= maxi THEN s \in ready ELSE revents[s]]
    /\ nready' = Cardinality(ready)
    /\ at' = "accept"
    /\ UNCHANGED <<client, maxi, i, allset, rset, maxfd, faults>>
    /\ UNCHANGED socketVars

\* A poll that fails leaves revents as they were.
PollFails == WaitFails /\ UNCHANGED rset

PollAccept ==
    /\ at = "accept" /\ revents[0]
    /\ \E fd \in Fds :
        /\ Accept(fd)
        /\ client' = [client EXCEPT ![FreeSlot(1)] = fd]
    /\ maxi' = IF FreeSlot(1) > maxi THEN FreeSlot(1) ELSE maxi
    /\ Continue(1)
    /\ UNCHANGED <<allset, rset, maxfd, revents, faults>>
    /\ UNCHANGED <<listening, peer, todo, unread, reported, latched>>

PollNoAccept ==
    /\ at = "accept" /\ ~revents[0]
    /\ SkipTo(1)
    /\ UNCHANGED <<client, maxi, allset, rset, maxfd, revents, faults>>
    /\ UNCHANGED socketVars

PollSkip ==
    /\ at = "scan" /\ i <= maxi
    /\ client[i] < 0 \/ ~revents[i]
    /\ SkipTo(i + 1)
    /\ UNCHANGED <<client, maxi, allset, rset, maxfd, revents, faults>>
    /\ UNCHANGED socketVars

PollReading == at = "scan" /\ i <= maxi /\ client[i] >= 0 /\ revents[i]

PollRead ==
    /\ PollReading
    /\ ReadAll(file[client[i]])
    /\ Continue(i + 1)
    /\ UNCHANGED <<client, maxi, allset, rset, maxfd, revents, faults>>
    /\ UNCHANGED <<listening, backlog, peer, todo, file, latched>>

\* A failing Read exits inside Read: the branch for n < 0 is never taken.
PollEof ==
    /\ PollReading
    /\ AtEof(file[client[i]])
    /\ Close(client[i])
    /\ client' = [client EXCEPT ![i] = -1]
    /\ Continue(i + 1)
    /\ UNCHANGED <<maxi, allset, rset, maxfd, revents, faults>>
    /\ UNCHANGED <<listening, backlog, peer, todo, unread, reported, latched>>

PollServer ==
    \/ PollWait \/ PollFails \/ PollAccept \/ PollNoAccept
    \/ PollSkip \/ PollRead \/ PollEof \/ PassEnds

-----------------------------------------------------------------------------

MuxTypeOK ==
    /\ at \in {"wait", "accept", "scan"}
    /\ client \in [Slots -> -1..Cardinality(Clients)]
    /\ maxi \in -1..(Size - 1)
    /\ nready \in -2..(Cardinality(Clients) + 1)
    /\ i \in 0..Size
    /\ allset \subseteq 0..Cardinality(Clients)
    /\ rset \subseteq 0..Cardinality(Clients)
    /\ maxfd \in 0..Cardinality(Clients)
    /\ revents \in [Slots -> BOOLEAN]
    /\ faults \in 0..MaxFaults
=============================================================================
