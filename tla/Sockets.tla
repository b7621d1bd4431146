------------------------------ MODULE Sockets ------------------------------
(***************************************************************************)
(* The client threads of codesnip/src/net/net.cpp (Client, SingleClient),   *)
(* and the local stream sockets between them and the server, as the server  *)
(* sees them: a queue of connections to accept, a table of descriptors, and *)
(* per connection the messages not yet read and whether the peer has closed. *)
(*                                                                         *)
(* A message is one 8-byte number.  A client writes it whole, and a local    *)
(* socket takes it whole.  What the number is does not matter here: the     *)
(* counters below tell a message read and reported from one merely read.     *)
(* Every ioctl(fd, FIONBIO, 1) of the servers passes 1 where the kernel      *)
(* expects a pointer, fails with EFAULT and is ignored: sockets block.       *)
(***************************************************************************)
EXTENDS Integers, Sequences, FiniteSets

CONSTANTS
    Clients,    \* the client threads: 8 in the code
    Messages,   \* messages each of them sends: 4 in the code
    Backlog,    \* connections that may wait to be accepted: LISTENQ
    None        \* no connection

ASSUME ClientsAssumption == IsFiniteSet(Clients) /\ None \notin Clients \cup Int
ASSUME BoundsAssumption == Messages \in Nat /\ Backlog \in Nat \ {0}

VARIABLES
    listening,  \* InitUnServer has run
    backlog,    \* connections nobody has accepted
    peer,       \* where each client is: "new", "connected", "closed", "refused"
    todo,       \* messages each client has yet to send
    unread,     \* messages in each connection's buffer
    reported,   \* lines with a number the server has printed for each connection
    file,       \* the server's descriptors: the connection of each, or None
    latched     \* connections with an arrival epoll has not reported

socketVars == <<listening, backlog, peer, todo, unread, reported, file, latched>>

Listen == 0
Fds == 1..Cardinality(Clients)

SocketsInit ==
    /\ listening = FALSE
    /\ backlog = <<>>
    /\ peer = [c \in Clients |-> "new"]
    /\ todo = [c \in Clients |-> Messages]
    /\ unread = [c \in Clients |-> 0]
    /\ reported = [c \in Clients |-> 0]
    /\ file = [fd \in Fds |-> None]
    /\ latched = {}

-----------------------------------------------------------------------------
(* SingleClient                                                            *)

Connect(c) ==
    /\ peer[c] = "new" /\ listening
    /\ Len(backlog) < Backlog
    /\ backlog' = Append(backlog, c)
    /\ peer' = [peer EXCEPT ![c] = "connected"]
    /\ UNCHANGED <<listening, todo, unread, reported, file, latched>>

\* Nobody listens yet: Connect exits, and with it every thread of the process.
\* RunNetwork only sleeps five seconds against this.
ConnectRefused(c) ==
    /\ peer[c] = "new" /\ ~listening
    /\ peer' = [d \in Clients |-> "refused"]
    /\ UNCHANGED <<listening, backlog, todo, unread, reported, file, latched>>

Send(c) ==
    /\ peer[c] = "connected" /\ todo[c] > 0
    /\ todo' = [todo EXCEPT ![c] = @ - 1]
    /\ unread' = [unread EXCEPT ![c] = @ + 1]
    /\ latched' = latched \cup {c}
    /\ UNCHANGED <<listening, backlog, peer, reported, file>>

CloseClient(c) ==
    /\ peer[c] = "connected" /\ todo[c] = 0
    /\ peer' = [peer EXCEPT ![c] = "closed"]
    /\ latched' = latched \cup {c}
    /\ UNCHANGED <<listening, backlog, todo, unread, reported, file>>

ClientStep(c) == Connect(c) \/ ConnectRefused(c) \/ Send(c) \/ CloseClient(c)

-----------------------------------------------------------------------------
(* The system calls of the servers                                         *)

\* Socket, Bind, Listen.
InitUnServer ==
    /\ ~listening
    /\ listening' = TRUE
    /\ UNCHANGED <<backlog, peer, todo, unread, reported, file, latched>>

\* read() on the connection returns at once.
Readable(c) == unread[c] > 0 \/ peer[c] = "closed"

\* End of file: the peer has closed and nothing is left.
AtEof(c) == unread[c] = 0 /\ peer[c] = "closed"

\* A new descriptor is the lowest one free.
NextFd == CHOOSE fd \in Fds : file[fd] = None /\ \A g \in 1..(fd - 1) : file[g] # None

\* accept(): blocks while there is nothing to accept.
Accept(fd) ==
    /\ backlog # <<>>
    /\ fd = NextFd
    /\ file' = [file EXCEPT ![fd] = Head(backlog)]
    /\ backlog' = Tail(backlog)

Close(fd) == file' = [file EXCEPT ![fd] = None]

\* A Read of up to 1024 bytes takes all there is, and the caller prints the
\* first number in the buffer.
ReadAll(c) ==
    /\ unread[c] > 0
    /\ unread' = [unread EXCEPT ![c] = 0]
    /\ reported' = [reported EXCEPT ![c] = @ + 1]

\* A Readn of 8 bytes takes one message, and the caller prints it.
ReadOne(c) ==
    /\ unread[c] > 0
    /\ unread' = [unread EXCEPT ![c] = @ - 1]
    /\ reported' = [reported EXCEPT ![c] = @ + 1]

\* A Read or Readn at the end of file returns 0, and Doit and DoUseFd print what
\* their buffer holds all the same.
ReadEnd(c) ==
    /\ AtEof(c)
    /\ reported' = [reported EXCEPT ![c] = @ + 1]
    /\ UNCHANGED unread

-----------------------------------------------------------------------------

SocketsTypeOK ==
    /\ listening \in BOOLEAN
    /\ backlog \in Seq(Clients) /\ Len(backlog) <= Backlog
    /\ peer \in [Clients -> {"new", "connected", "closed", "refused"}]
    /\ todo \in [Clients -> 0..Messages]
    /\ unread \in [Clients -> 0..Messages]
    /\ reported \in [Clients -> 0..(Messages + 1)]
    /\ file \in [Fds -> Clients \cup {None}]
    /\ latched \subseteq Clients
=============================================================================
