---------------------------- MODULE NetworkProofs ----------------------------
(***************************************************************************)
(* RunNetwork for any number of clients, messages and table entries: in the   *)
(* servers that run Doit each connection is read by one, to its end, and       *)
(* SelectServer and PollServer keep their table, count what is ready, and      *)
(* never block except in a pass whose select or poll failed.                  *)
(*                                                                         *)
(* What holds for SelectServer and PollServer is proved of both at once:       *)
(* Marked says in which of their ways an entry was reported ready.            *)
(***************************************************************************)
EXTENDS Network, SequenceTheorems, FiniteSetTheorems, FunctionTheorems, WellFoundedInduction, TLAPS

-----------------------------------------------------------------------------
(* The inductive invariant                                                 *)

DoitServer == server_type \in {MULTI_P, SINGLE_P_MULTI_T}
Multiplexer == server_type \in {SELECT, POLL}

\* Somebody has connection c to read: Readers(c) is not empty.
Held(c) ==
    \/ \E f \in Fds : file[f] = c /\ connfd = f /\ main \in {"fork", "submit"}
    \/ \E k \in 1..Len(tasks) : file[tasks[k]] = c
    \/ \E w \in Workers : busy[w] # None /\ file[busy[w]] = c
    \/ kid[c] = "doit"

\* A connection that was accepted and is nobody's was read to its end; for any other,
\* what its client sent is unread or reported.
Finished(c) == AtEof(c) /\ reported[c] = Messages + 1
Balanced(c) == Messages - todo[c] = unread[c] + reported[c]
CountInv ==
    /\ todo \in [Clients -> Int] /\ reported \in [Clients -> Int]
    /\ \A c \in Clients : peer[c] = "closed" => todo[c] = 0
    /\ \A c \in Clients : Accepted(c) /\ ~Held(c) => Finished(c)
    /\ \A c \in Clients : ~Accepted(c) \/ Held(c) => Balanced(c)

\* MultiProcessServer has at most the descriptor it has just accepted open, and no child
\* for that connection before the fork; a connection with a child has been accepted.
ChildInv ==
    /\ tasks = <<>> /\ busy = [w \in Workers |-> None]
    /\ main \in {"accept", "fork", "close"} /\ kid \in [Clients -> {"none", "doit", "zombie"}]
    /\ \A f \in Fds : file[f] # None => f = connfd /\ main # "accept"
    /\ main # "accept" => connfd \in Fds /\ file[connfd] # None
    /\ main = "fork" => kid[file[connfd]] = "none"
    /\ \A c \in Clients : kid[c] # "none" => Accepted(c)

\* In ThreadPools an open descriptor is in one place at most: un->connfd until it is
\* submitted, the queue, or one worker.
TaskInv ==
    /\ tasks \in Seq(Fds) /\ busy \in [Workers -> Fds \cup {None}]
    /\ main \in {"accept", "submit"} /\ kid = [c \in Clients |-> "none"]
    /\ \A k \in 1..Len(tasks) : file[tasks[k]] # None
    /\ \A w \in Workers : busy[w] # None => file[busy[w]] # None
    /\ \A j, k \in 1..Len(tasks) : tasks[j] = tasks[k] => j = k
    /\ \A v, w \in Workers : busy[v] # None /\ busy[v] = busy[w] => v = w
    /\ \A k \in 1..Len(tasks) : \A w \in Workers : busy[w] # tasks[k]
    /\ main = "submit" =>
        /\ connfd \in Fds /\ file[connfd] # None
        /\ \A k \in 1..Len(tasks) : tasks[k] # connfd
        /\ \A w \in Workers : busy[w] # connfd

\* A connection waits in one place of the backlog, or has one descriptor, and then its
\* client has connected; before the server listens there is none.
ConnectionInv ==
    /\ backlog \in Seq(Clients) /\ file \in [Fds -> Clients \cup {None}]
    /\ peer \in [Clients -> {"new", "connected", "closed", "refused"}]
    /\ unread \in [Clients -> Nat]
    /\ \A j, k \in 1..Len(backlog) : backlog[j] = backlog[k] => j = k
    /\ \A f, g \in Fds : file[f] # None /\ file[f] = file[g] => f = g
    /\ \A k \in 1..Len(backlog) : \A f \in Fds : file[f] # backlog[k]
    /\ \A c \in Clients : peer[c] \in {"new", "refused"} =>
        (\A k \in 1..Len(backlog) : backlog[k] # c) /\ (\A f \in Fds : file[f] # c)
    /\ ~listening => at = "wait" /\ \A c \in Clients : peer[c] \in {"new", "refused"}

\* The entries from First on are for connections.
First == IF server_type = POLL THEN 1 ELSE 0
TableInv ==
    /\ client \in [Slots -> Int] /\ maxi \in (First - 1)..(Size - 1)
    /\ \A s \in First..(Size - 1) :
        client[s] = -1 \/ (client[s] \in Fds /\ file[client[s]] # None /\ s <= maxi)
    /\ \A s, r \in First..(Size - 1) : client[s] # -1 /\ client[r] = client[s] => r = s
    /\ \A f \in Fds : file[f] # None => \E s \in First..(Size - 1) : client[s] = f
    /\ server_type = POLL => client[0] = Listen
    /\ server_type = SELECT =>
        /\ allset = OpenFds \cup {Listen}
        /\ maxfd \in Nat /\ \A f \in OpenFds : f <= maxfd

\* The entries that were reported ready, and whether the listening socket was.
Marked(s) == IF server_type = SELECT THEN client[s] \in rset ELSE revents[s]
Ready(lo, hi) == {s \in lo..hi : client[s] # -1 /\ Marked(s)}
NewWaits == IF server_type = SELECT THEN Listen \in rset ELSE revents[0]

\* What accept and the scan find is what select or poll reported, up to the entry top:
\* all entries, or all but the one that PollServer has just filled, and then the pass
\* ends before it comes to that one.
AcceptInv ==
    /\ nready = Cardinality(Ready(First, maxi)) + (IF NewWaits THEN 1 ELSE 0)
    /\ NewWaits => backlog # <<>>
    /\ \A s \in Ready(First, maxi) : Readable(file[client[s]])
    /\ server_type = SELECT => rset \subseteq allset
    /\ server_type = POLL => \A s \in 1..maxi : client[s] = -1 => ~revents[s]
ScanTo(top) ==
    /\ nready = Cardinality(Ready(i, top))
    /\ \A s \in Ready(i, top) : Readable(file[client[s]])
    /\ top = maxi \/ (server_type = POLL /\ nready > 0)
PassInv ==
    /\ at \in {"wait", "accept", "scan"}
    /\ revents \in [Slots -> BOOLEAN]
    /\ at = "accept" /\ ~Failed => AcceptInv
    /\ at = "accept" /\ Failed /\ server_type = SELECT => Listen \in rset
    /\ at = "scan" => i \in Nat /\ i >= First
    /\ at = "scan" /\ ~Failed => \E top \in -1..maxi : ScanTo(top)
    /\ at = "scan" /\ Failed => server_type # SELECT

IInv ==
    /\ DoitServer => ConnectionInv /\ CountInv
    /\ server_type = MULTI_P => ChildInv
    /\ server_type = SINGLE_P_MULTI_T => TaskInv
    /\ Multiplexer => ConnectionInv /\ TableInv /\ PassInv

-----------------------------------------------------------------------------
(* Room for a connection                                                   *)

LEMMA LeastNumber ==
    ASSUME NEW S \in SUBSET Nat, S # {}
    PROVE  \E m \in S : \A k \in S : m <= k
<1>1. PICK m \in S : \A k \in S : ~(<<k, m>> \in OpToRel(<, Nat))
  BY NatLessThanWellFounded, WFMin
<1>2. ASSUME NEW k \in S PROVE m <= k
  <2>1. m \in Nat /\ k \in Nat
    OBVIOUS
  <2>2. k < m => <<k, m>> \in OpToRel(<, Nat)
    BY <2>1 DEF OpToRel
  <2>3. ~(k < m)
    BY <1>1, <2>2, Zenon
  <2> QED
    BY <2>1, <2>3
<1> QED
  BY <1>2

LEMMA ClientFacts ==
    /\ IsFiniteSet(Clients) /\ Cardinality(Clients) \in Nat /\ None \notin Clients
    /\ Fds \subseteq Nat \ {0} /\ Listen \notin Fds /\ -1 \notin Fds
    /\ Size \in Nat /\ Size > Cardinality(Clients)
<1>1. IsFiniteSet(Clients) /\ Cardinality(Clients) \in Nat /\ None \notin Clients
  BY ClientsAssumption, FS_CardinalityType
<1> QED
  BY <1>1, SizeAssumption DEF Fds, Listen

\* Nothing maps as many numbers as there are clients to clients other than one, one to one.
LEMMA RoomFacts ==
    ASSUME NEW d \in Clients, NEW lo \in Int, NEW hi \in Int, hi - lo + 1 >= Cardinality(Clients), lo <= hi + 1,
           NEW f \in [lo..hi -> Clients \ {d}]
    PROVE  \E x, y \in lo..hi : x # y /\ f[x] = f[y]
<1> DEFINE N == Cardinality(Clients)
<1>1. IsFiniteSet(Clients \ {d}) /\ Cardinality(Clients \ {d}) = N - 1 /\ N \in Nat
  BY ClientFacts, FS_RemoveElement
<1>2. IsFiniteSet(lo..hi) /\ Cardinality(lo..hi) = IF lo > hi THEN 0 ELSE hi - lo + 1
  BY FS_Interval
<1>3. N # 0
  BY ClientFacts, FS_EmptySet
<1>4. Cardinality(lo..hi) >= N
  BY <1>1, <1>2
<1>5. Cardinality(Clients \ {d}) < Cardinality(lo..hi)
  <2>1. Cardinality(lo..hi) \in Int
    BY <1>2
  <2> QED
    BY <1>1, <1>4, <2>1
<1> QED
  BY <1>1, <1>2, <1>5, FS_PigeonHole

LEMMA BacklogHead ==
    ASSUME ConnectionInv, backlog # <<>>
    PROVE  /\ Head(backlog) \in Clients /\ \A f \in Fds : file[f] # Head(backlog)
           /\ 1 \in 1..Len(backlog) /\ Head(backlog) = backlog[1]
           /\ Tail(backlog) \in Seq(Clients) /\ Len(Tail(backlog)) = Len(backlog) - 1 /\ Len(backlog) \in Nat
           /\ \A k \in 1..(Len(backlog) - 1) : Tail(backlog)[k] = backlog[k + 1]
<1>1. backlog \in Seq(Clients)
  BY DEF ConnectionInv
<1>2. Len(backlog) \in Nat /\ Len(backlog) # 0
  BY <1>1, LenProperties, EmptySeq
<1>3. /\ Head(backlog) = backlog[1] /\ Head(backlog) \in Clients
      /\ Tail(backlog) \in Seq(Clients) /\ Len(Tail(backlog)) = Len(backlog) - 1
      /\ \A k \in 1..Len(Tail(backlog)) : Tail(backlog)[k] = backlog[k + 1]
  BY <1>1, HeadTailProperties
<1>4. 1 \in 1..Len(backlog)
  BY <1>2
<1> QED
  BY <1>2, <1>3, <1>4 DEF ConnectionInv

\* While a connection waits, accept() finds a free descriptor.
LEMMA NextFdFacts ==
    ASSUME ConnectionInv, backlog # <<>>
    PROVE  NextFd \in Fds /\ file[NextFd] = None
<1> DEFINE N == Cardinality(Clients)
           d == Head(backlog)
           Free == {f \in Fds : file[f] = None}
<1>0. N \in Nat /\ d \in Clients /\ (\A f \in Fds : file[f] # d) /\ file \in [Fds -> Clients \cup {None}]
  BY ClientFacts, BacklogHead DEF ConnectionInv
<1>1. Free # {}
  <2> SUFFICES ASSUME Free = {} PROVE FALSE
    OBVIOUS
  <2>1. file \in [1..N -> Clients \ {d}]
    BY <1>0 DEF Fds
  <2>2. \E x, y \in 1..N : x # y /\ file[x] = file[y]
    <3>1. N - 1 + 1 >= N /\ 1 <= N + 1 /\ 1 \in Int /\ N \in Int
      BY <1>0
    <3> QED
      BY <1>0, <2>1, <3>1, RoomFacts, ZenonT(30)
  <2> QED
    BY <2>2 DEF Fds, ConnectionInv
<1>2. PICK m \in Free : \A k \in Free : m <= k
  BY <1>1, LeastNumber, ClientFacts
<1>3. m \in Fds /\ file[m] = None /\ \A g \in 1..(m - 1) : file[g] # None
  <2>1. m \in Fds /\ m \in 1..N /\ file[m] = None
    BY DEF Fds
  <2>2. ASSUME NEW g \in 1..(m - 1) PROVE file[g] # None
    <3>1. g \in Fds /\ ~(m <= g)
      BY <1>0, <2>1 DEF Fds
    <3> QED
      BY <1>2, <3>1
  <2> QED
    BY <2>1, <2>2
<1> QED
  BY <1>3 DEF NextFd

\* And the table has a free entry.
LEMMA FreeSlotFacts ==
    ASSUME ConnectionInv, TableInv, backlog # <<>>
    PROVE  FreeSlot(First) \in First..(Size - 1) /\ client[FreeSlot(First)] = -1
<1> DEFINE d == Head(backlog)
           lo == First
           hi == Size - 1
           Free == {s \in lo..hi : client[s] = -1}
           f == [s \in lo..hi |-> file[client[s]]]
<1>0. /\ d \in Clients /\ (\A g \in Fds : file[g] # d) /\ file \in [Fds -> Clients \cup {None}]
      /\ Cardinality(Clients) \in Nat /\ Size \in Nat /\ Size > Cardinality(Clients)
  BY ClientFacts, BacklogHead DEF ConnectionInv
<1>1. lo \in {0, 1} /\ hi - lo + 1 >= Cardinality(Clients) /\ lo <= hi + 1 /\ lo \in Int /\ hi \in Int
  BY <1>0 DEF First
<1>t. /\ \A s \in lo..hi : client[s] = -1 \/ (client[s] \in Fds /\ file[client[s]] # None)
      /\ \A s, r \in lo..hi : client[s] # -1 /\ client[r] = client[s] => r = s
  BY DEF TableInv
<1> HIDE DEF lo, hi, d
<1>2. Free # {}
  <2> SUFFICES ASSUME Free = {} PROVE FALSE
    OBVIOUS
  <2>1. \A s \in lo..hi : client[s] # -1 /\ client[s] \in Fds /\ file[client[s]] # None
    BY <1>t
  <2>2. f \in [lo..hi -> Clients \ {d}]
    BY <1>0, <2>1
  <2>3. \E x, y \in lo..hi : x # y /\ f[x] = f[y]
    <3> HIDE DEF f
    <3> QED
      BY <1>0, <1>1, <2>2, RoomFacts, SMTT(30)
  <2>4. PICK x \in lo..hi, y \in lo..hi : x # y /\ f[x] = f[y]
    BY <2>3
  <2>5. file[client[x]] = file[client[y]]
    BY <2>4
  <2>6. client[x] = client[y]
    BY <2>1, <2>5 DEF ConnectionInv
  <2> QED
    BY <1>t, <2>1, <2>4, <2>6
<1>3. Free \subseteq Nat
  BY <1>1
<1>4. PICK m \in Free : \A k \in Free : m <= k
  BY <1>2, <1>3, LeastNumber
<1>5. m \in lo..hi /\ client[m] = -1 /\ client[m] < 0
  OBVIOUS
<1>6. ASSUME NEW r \in lo..(m - 1) PROVE client[r] >= 0
  <2>1. r \in lo..hi /\ ~(m <= r)
    BY <1>1, <1>5
  <2>2. client[r] # -1
    BY <1>4, <2>1
  <2>3. client[r] \in Fds
    BY <1>t, <2>1, <2>2
  <2>4. client[r] \in Nat
    BY <2>3, ClientFacts
  <2> QED
    BY <2>4
<1> DEFINE P(s) == client[s] < 0 /\ \A r \in lo..(s - 1) : client[r] >= 0
<1>7. P(m)
  BY <1>5, <1>6
<1>8. FreeSlot(First) = CHOOSE s \in lo..hi : P(s)
  BY DEF FreeSlot, lo, hi
<1> HIDE DEF P
<1>9. FreeSlot(First) \in lo..hi /\ P(FreeSlot(First))
  BY <1>5, <1>7, <1>8
<1>10. client[FreeSlot(First)] < 0
  BY <1>9 DEF P
<1>11. client[FreeSlot(First)] = -1
  <2>1. client[FreeSlot(First)] = -1 \/ client[FreeSlot(First)] \in Fds
    BY <1>t, <1>9
  <2>2. client[FreeSlot(First)] \in Fds => client[FreeSlot(First)] \in Nat
    BY ClientFacts
  <2>3. client[FreeSlot(First)] \in Nat => ~(client[FreeSlot(First)] < 0)
    OBVIOUS
  <2> QED
    BY <1>10, <2>1, <2>2, <2>3
<1> QED
  BY <1>9, <1>11 DEF lo, hi

-----------------------------------------------------------------------------
(* The clients                                                             *)

\* What the multiplexers were told is ready stays so, whatever the clients do.
LEMMA ClientKeepsReady ==
    ASSUME ConnectionInv, listening, NEW c \in Clients, ClientStep(c)
    PROVE  /\ \A d \in Clients : Readable(d) => Readable(d)'
           /\ backlog # <<>> => backlog' # <<>>
<1>0. backlog \in Seq(Clients) /\ unread \in [Clients -> Nat]
      /\ peer \in [Clients -> {"new", "connected", "closed", "refused"}]
  BY DEF ConnectionInv
<1>1. CASE Connect(c)
  <2>1. backlog' # <<>>
    BY <1>0, <1>1, AppendProperties, EmptySeq, LenProperties DEF Connect
  <2> QED
    BY <1>0, <1>1, <2>1 DEF Connect, Readable
<1>2. CASE Send(c)
  BY <1>0, <1>2 DEF Send, Readable
<1>3. CASE CloseClient(c)
  BY <1>0, <1>3 DEF CloseClient, Readable
<1> QED
  BY <1>1, <1>2, <1>3 DEF ClientStep, ConnectRefused

LEMMA ClientConnections ==
    ASSUME ConnectionInv, NEW c \in Clients, ClientStep(c), UNCHANGED at
    PROVE  ConnectionInv'
<1>0. /\ backlog \in Seq(Clients) /\ unread \in [Clients -> Nat]
      /\ peer \in [Clients -> {"new", "connected", "closed", "refused"}]
      /\ file' = file /\ listening' = listening
  BY DEF ConnectionInv, ClientStep, Connect, ConnectRefused, Send, CloseClient
<1>1. CASE Connect(c)
  <2>1. /\ listening /\ peer[c] = "new" /\ backlog' = Append(backlog, c)
        /\ peer' = [peer EXCEPT ![c] = "connected"] /\ unread' = unread
    BY <1>1 DEF Connect
  <2>2. /\ backlog' \in Seq(Clients) /\ Len(backlog') = Len(backlog) + 1 /\ Len(backlog) \in Nat
        /\ \A k \in 1..Len(backlog) : backlog'[k] = backlog[k]
        /\ backlog'[Len(backlog) + 1] = c
    BY <1>0, <2>1, AppendProperties, LenProperties
  <2>3. \A k \in 1..Len(backlog') : k \in 1..Len(backlog) \/ k = Len(backlog) + 1
    BY <2>2
  <2>4. (\A k \in 1..Len(backlog) : backlog[k] # c) /\ (\A f \in Fds : file[f] # c)
    BY <2>1 DEF ConnectionInv
  <2>5. ASSUME NEW j \in 1..Len(backlog'), NEW k \in 1..Len(backlog'), backlog'[j] = backlog'[k]
        PROVE  j = k
    <3>1. CASE j \in 1..Len(backlog) /\ k \in 1..Len(backlog)
      BY <2>2, <2>5, <3>1 DEF ConnectionInv
    <3>2. CASE j \in 1..Len(backlog) /\ k = Len(backlog) + 1
      BY <2>2, <2>4, <2>5, <3>2
    <3>3. CASE j = Len(backlog) + 1 /\ k \in 1..Len(backlog)
      BY <2>2, <2>4, <2>5, <3>3
    <3> QED
      BY <2>3, <3>1, <3>2, <3>3
  <2>6. \A k \in 1..Len(backlog') : \A f \in Fds : file[f] # backlog'[k]
    BY <2>2, <2>3, <2>4, SMTT(30) DEF ConnectionInv
  <2>7. peer' \in [Clients -> {"new", "connected", "closed", "refused"}]
    BY <1>0, <2>1
  <2>8. ASSUME NEW b \in Clients, peer'[b] \in {"new", "refused"}
        PROVE  (\A k \in 1..Len(backlog') : backlog'[k] # b) /\ (\A f \in Fds : file[f] # b)
    <3>1. b # c /\ peer[b] \in {"new", "refused"}
      BY <1>0, <2>1, <2>8
    <3> QED
      BY <2>2, <2>3, <3>1 DEF ConnectionInv
  <2> QED
    BY <1>0, <2>1, <2>2, <2>5, <2>6, <2>7, <2>8 DEF ConnectionInv
<1>2. CASE ConnectRefused(c)
  <2>1. /\ ~listening /\ UNCHANGED <<backlog, unread>> /\ peer' = [d \in Clients |-> "refused"]
    BY <1>2 DEF ConnectRefused
  <2>2. \A b \in Clients : peer[b] \in {"new", "refused"} /\ peer'[b] \in {"new", "refused"}
    BY <2>1 DEF ConnectionInv
  <2>3. peer' \in [Clients -> {"new", "connected", "closed", "refused"}]
    BY <2>1
  <2> QED
    BY <1>0, <2>1, <2>2, <2>3 DEF ConnectionInv
<1>3. CASE Send(c) \/ CloseClient(c)
  <2>1. /\ backlog' = backlog /\ peer[c] = "connected"
        /\ peer' = peer \/ peer' = [peer EXCEPT ![c] = "closed"]
        /\ unread' = unread \/ unread' = [unread EXCEPT ![c] = @ + 1]
    BY <1>3 DEF Send, CloseClient
  <2>2. peer' \in [Clients -> {"new", "connected", "closed", "refused"}]
    BY <1>0, <2>1
  <2>3. unread' \in [Clients -> Nat]
    <3>1. unread[c] + 1 \in Nat
      BY <1>0
    <3> QED
      BY <1>0, <2>1, <3>1
  <2>4. \A b \in Clients : peer'[b] \in {"new", "refused"} <=> peer[b] \in {"new", "refused"}
    BY <1>0, <2>1
  <2> QED
    BY <1>0, <2>1, <2>2, <2>3, <2>4 DEF ConnectionInv
<1> QED
  BY <1>1, <1>2, <1>3 DEF ClientStep

\* An entry that is ready has an open connection.
LEMMA ReadyFacts ==
    ASSUME ConnectionInv, TableInv, NEW lo \in Int, lo >= First, NEW hi \in Int, hi <= maxi,
           NEW s \in Ready(lo, hi)
    PROVE  /\ s \in First..(Size - 1) /\ s \in lo..hi /\ client[s] # -1 /\ Marked(s)
           /\ client[s] \in Fds /\ file[client[s]] \in Clients
<1>1. s \in lo..hi /\ client[s] # -1 /\ Marked(s)
  BY DEF Ready
<1>2. First \in Int /\ maxi \in Int /\ maxi <= Size - 1 /\ Size \in Int
  BY ClientFacts DEF First, TableInv
<1>3. s \in First..(Size - 1)
  BY <1>1, <1>2
<1>4. client[s] \in Fds /\ file[client[s]] # None
  BY <1>1, <1>3 DEF TableInv
<1>5. file[client[s]] \in Clients
  BY <1>4 DEF ConnectionInv
<1> QED
  BY <1>1, <1>3, <1>4, <1>5

LEMMA TableKept ==
    ASSUME TableInv, UNCHANGED <<muxVars, file, server_type>>
    PROVE  TableInv'
BY DEF TableInv, muxVars, First, OpenFds

LEMMA PassKept ==
    ASSUME ConnectionInv, TableInv, PassInv, UNCHANGED <<muxVars, file, server_type>>,
           at # "wait" => /\ \A d \in Clients : Readable(d) => Readable(d)'
                          /\ backlog # <<>> => backlog' # <<>>
    PROVE  PassInv'
<1>0. UNCHANGED <<at, client, maxi, nready, i, rset, revents, allset, file, server_type>>
  BY DEF muxVars
<1>1. First \in Int /\ maxi \in Int
  BY ClientFacts DEF TableInv, First
<1>2. ASSUME at = "accept", ~Failed PROVE AcceptInv'
  <2>1. AcceptInv
    BY <1>2 DEF PassInv
  <2>2. Ready(First, maxi)' = Ready(First, maxi) /\ NewWaits' = NewWaits
    BY <1>0 DEF Ready, Marked, First, NewWaits
  <2>3. ASSUME NEW s \in Ready(First, maxi) PROVE Readable(file[client[s]])'
    <3>1. Readable(file[client[s]]) /\ file[client[s]] \in Clients
      BY <1>1, <2>1, ReadyFacts DEF AcceptInv
    <3>2. \A d \in Clients : Readable(d) => Readable(d)'
      BY <1>2
    <3>3. PICK d \in Clients : d = file[client[s]]
      BY <3>1
    <3>4. unread'[d] > 0 \/ peer'[d] = "closed"
      BY <3>1, <3>2, <3>3 DEF Readable
    <3> QED
      BY <1>0, <3>3, <3>4 DEF Readable
  <2> QED
    BY <1>0, <1>2, <2>1, <2>2, <2>3 DEF AcceptInv
<1>3. ASSUME at = "scan", ~Failed PROVE \E top \in -1..maxi : ScanTo(top)'
  <2>1. i \in Nat /\ i >= First
    BY <1>3 DEF PassInv
  <2>2. PICK top \in -1..maxi : ScanTo(top)
    BY <1>3 DEF PassInv
  <2>3. top \in Int /\ top <= maxi /\ i \in Int
    BY <1>1, <2>1
  <2>4. Ready(i, top)' = Ready(i, top)
    BY <1>0 DEF Ready, Marked
  <2>5. ASSUME NEW s \in Ready(i, top) PROVE Readable(file[client[s]])'
    <3>1. Readable(file[client[s]]) /\ file[client[s]] \in Clients
      BY <2>1, <2>2, <2>3, ReadyFacts DEF ScanTo
    <3>2. \A d \in Clients : Readable(d) => Readable(d)'
      BY <1>3
    <3>3. PICK d \in Clients : d = file[client[s]]
      BY <3>1
    <3>4. unread'[d] > 0 \/ peer'[d] = "closed"
      BY <3>1, <3>2, <3>3 DEF Readable
    <3> QED
      BY <1>0, <3>3, <3>4 DEF Readable
  <2>6. ScanTo(top)'
    BY <1>0, <2>2, <2>4, <2>5 DEF ScanTo
  <2> QED
    BY <2>6
<1>4. Failed' = Failed /\ First' = First
  BY <1>0 DEF Failed, First
<1> QED
  BY <1>0, <1>2, <1>3, <1>4 DEF PassInv

LEMMA QuietStep ==
    ASSUME ConnectionInv, TableInv, PassInv,
           (StartServer \/ UNCHANGED vars) \/ (\E c \in Clients : RunClient(c))
    PROVE  ConnectionInv' /\ TableInv' /\ PassInv'
<1>1. CASE StartServer \/ UNCHANGED vars
  <2>1. UNCHANGED <<muxVars, file, server_type, backlog, peer, unread>> /\ (listening => listening')
    BY <1>1 DEF StartServer, InitUnServer, vars, socketVars
  <2>2. ConnectionInv'
    BY <2>1 DEF ConnectionInv, muxVars
  <2> QED
    BY <2>1, <2>2, TableKept, PassKept DEF Readable
<1>2. ASSUME NEW c \in Clients, RunClient(c) PROVE ConnectionInv' /\ TableInv' /\ PassInv'
  <2>1. ClientStep(c) /\ UNCHANGED <<muxVars, server_type>>
    BY <1>2 DEF RunClient
  <2>2. UNCHANGED <<at, file>>
    BY <2>1 DEF muxVars, ClientStep, Connect, ConnectRefused, Send, CloseClient
  <2>3. at # "wait" => listening
    BY DEF ConnectionInv
  <2>4. ConnectionInv'
    BY <2>1, <2>2, ClientConnections
  <2>5. PassInv'
    BY <2>1, <2>2, <2>3, ClientKeepsReady, PassKept
  <2> QED
    BY <2>1, <2>2, <2>4, <2>5, TableKept
<1> QED
  BY <1>1, <1>2

-----------------------------------------------------------------------------
(* SelectServer and PollServer: connections and the table                  *)

LEMMA AcceptConnections ==
    ASSUME ConnectionInv, listening, NEW fd \in Fds, Accept(fd),
           UNCHANGED <<peer, unread, listening>>
    PROVE  ConnectionInv' /\ file[fd] = None /\ file'[fd] # None
<1>1. backlog # <<>> /\ file' = [file EXCEPT ![fd] = Head(backlog)] /\ backlog' = Tail(backlog) /\ fd = NextFd
  BY DEF Accept
<1>2. file[fd] = None
  BY <1>1, NextFdFacts
<1>3. /\ Head(backlog) \in Clients /\ \A f \in Fds : file[f] # Head(backlog)
      /\ 1 \in 1..Len(backlog) /\ Head(backlog) = backlog[1]
      /\ Tail(backlog) \in Seq(Clients) /\ Len(Tail(backlog)) = Len(backlog) - 1 /\ Len(backlog) \in Nat
      /\ \A k \in 1..(Len(backlog) - 1) : Tail(backlog)[k] = backlog[k + 1]
  BY <1>1, BacklogHead
<1> DEFINE d == Head(backlog)
<1>4. d \in Clients /\ d # None /\ file \in [Fds -> Clients \cup {None}]
  BY <1>3, ClientFacts DEF ConnectionInv
<1>5. /\ file' \in [Fds -> Clients \cup {None}] /\ file'[fd] = d
      /\ \A f \in Fds : f # fd => file'[f] = file[f]
  BY <1>1, <1>4
<1>6. ASSUME NEW k \in 1..Len(backlog')
      PROVE  k \in 1..(Len(backlog) - 1) /\ k + 1 \in 1..Len(backlog) /\ k + 1 # 1 /\ backlog'[k] = backlog[k + 1]
  BY <1>1, <1>3
<1> HIDE DEF d
<1>7. ASSUME NEW j \in 1..Len(backlog'), NEW k \in 1..Len(backlog'), backlog'[j] = backlog'[k] PROVE j = k
  <2>1. j + 1 = k + 1
    BY <1>6, <1>7 DEF ConnectionInv
  <2> QED
    BY <1>6, <2>1
<1>8. ASSUME NEW f \in Fds, NEW g \in Fds, file'[f] # None, file'[f] = file'[g] PROVE f = g
  <2>1. \A h \in Fds : file[h] # d
    BY <1>3 DEF d
  <2> QED
    BY <1>5, <1>8, <2>1, ZenonT(30) DEF ConnectionInv
<1>9. ASSUME NEW k \in 1..Len(backlog'), NEW f \in Fds PROVE file'[f] # backlog'[k]
  <2>1. backlog[k + 1] # backlog[1]
    BY <1>3, <1>6 DEF ConnectionInv
  <2>2. file[f] # backlog[k + 1]
    BY <1>6 DEF ConnectionInv
  <2>3. d = backlog[1]
    BY <1>3 DEF d
  <2> QED
    BY <1>5, <1>6, <2>1, <2>2, <2>3
<1>10. ASSUME NEW c \in Clients, peer'[c] \in {"new", "refused"}
       PROVE  (\A k \in 1..Len(backlog') : backlog'[k] # c) /\ (\A f \in Fds : file'[f] # c)
  <2>1. (\A k \in 1..Len(backlog) : backlog[k] # c) /\ (\A f \in Fds : file[f] # c)
    BY <1>10 DEF ConnectionInv
  <2>2. d # c
    BY <1>3, <2>1 DEF d
  <2>3. \A f \in Fds : file'[f] # c
    BY <1>5, <2>1, <2>2
  <2>4. \A k \in 1..Len(backlog') : backlog'[k] # c
    BY <1>6, <2>1
  <2> QED
    BY <2>3, <2>4
<1>11. backlog' \in Seq(Clients)
  BY <1>1, <1>3
<1>12. ConnectionInv'
  BY <1>5, <1>7, <1>8, <1>9, <1>10, <1>11 DEF ConnectionInv
<1> QED
  BY <1>2, <1>4, <1>5, <1>12

\* Reading and closing: what was one to one stays so.
LEMMA ServeConnections ==
    ASSUME ConnectionInv, listening, NEW fd \in Fds, NEW c \in Clients,
           UNCHANGED <<backlog, peer, listening>>,
           file' = file \/ file' = [file EXCEPT ![fd] = None],
           unread' = unread \/ unread' = [unread EXCEPT ![c] = 0]
    PROVE  ConnectionInv'
<1>1. \A f \in Fds : file'[f] = None \/ file'[f] = file[f]
  BY DEF ConnectionInv
<1>2. file' \in [Fds -> Clients \cup {None}]
  BY DEF ConnectionInv
<1>3. unread' \in [Clients -> Nat]
  BY DEF ConnectionInv
<1>4. \A f, g \in Fds : file'[f] # None /\ file'[f] = file'[g] => f = g
  BY <1>1 DEF ConnectionInv
<1>5. \A k \in 1..Len(backlog) : \A f \in Fds : file'[f] # backlog[k]
  <2>1. \A k \in 1..Len(backlog) : backlog[k] # None
    BY ClientFacts, ElementOfSeq DEF ConnectionInv
  <2> QED
    BY <1>1, <2>1 DEF ConnectionInv
<1>6. \A b \in Clients : peer[b] \in {"new", "refused"} => \A f \in Fds : file'[f] # b
  BY <1>1, ClientFacts DEF ConnectionInv
<1> QED
  BY <1>2, <1>3, <1>4, <1>5, <1>6 DEF ConnectionInv

\* A new connection goes into a free entry.
LEMMA AcceptTable ==
    ASSUME Multiplexer, ConnectionInv, TableInv, listening, NEW fd \in Fds, Accept(fd),
           client' = [client EXCEPT ![FreeSlot(First)] = fd],
           maxi' = IF FreeSlot(First) > maxi THEN FreeSlot(First) ELSE maxi,
           server_type = SELECT => allset' = allset \cup {fd} /\ maxfd' = IF fd > maxfd THEN fd ELSE maxfd,
           UNCHANGED <<peer, unread, listening, server_type>>
    PROVE  TableInv'
<1>1. backlog # <<>> /\ file' = [file EXCEPT ![fd] = Head(backlog)]
  BY DEF Accept
<1>2. PICK fs \in First..(Size - 1) : fs = FreeSlot(First) /\ client[fs] = -1
  BY <1>1, FreeSlotFacts
<1>3. file[fd] = None /\ file'[fd] # None /\ file \in [Fds -> Clients \cup {None}]
  BY AcceptConnections DEF ConnectionInv
<1>4. \A f \in Fds : f # fd => file'[f] = file[f]
  BY <1>1, <1>3
<1>5. First \in {0, 1} /\ Size \in Nat /\ First' = First /\ fs \in Int /\ maxi \in Int /\ maxi <= Size - 1 /\ maxi >= First - 1
  BY ClientFacts DEF First, TableInv
<1>6. client \in [Slots -> Int] /\ fs \in Slots /\ fd \in Int /\ fd # -1
  BY <1>5, ClientFacts DEF TableInv, Slots
<1>7. /\ client' \in [Slots -> Int] /\ client'[fs] = fd
      /\ \A s \in Slots : s # fs => client'[s] = client[s]
  BY <1>2, <1>6
<1>8. maxi' \in (First - 1)..(Size - 1) /\ fs <= maxi' /\ maxi <= maxi'
  <2>1. maxi' = IF fs > maxi THEN fs ELSE maxi
    BY <1>2
  <2> QED
    BY <1>5, <2>1
<1>s. \A s \in First..(Size - 1) : s \in Slots /\ s \in Int
  BY <1>5 DEF Slots
<1>9. ASSUME NEW s \in First..(Size - 1)
      PROVE  client'[s] = -1 \/ (client'[s] \in Fds /\ file'[client'[s]] # None /\ s <= maxi')
  <2>1. CASE s = fs
    BY <1>3, <1>7, <1>8, <2>1
  <2>2. CASE s # fs
    <3>1. client'[s] = client[s]
      BY <1>7, <1>s, <2>2
    <3>2. client[s] = -1 \/ (client[s] \in Fds /\ file[client[s]] # None /\ s <= maxi)
      BY DEF TableInv
    <3>3. s <= maxi => s <= maxi'
      BY <1>5, <1>8, <1>s
    <3> QED
      BY <1>3, <1>4, <3>1, <3>2, <3>3
  <2> QED
    BY <2>1, <2>2
<1>10. ASSUME NEW s \in First..(Size - 1), client[s] = fd PROVE FALSE
  BY <1>3, <1>6, <1>10 DEF TableInv
<1>11. ASSUME NEW s \in First..(Size - 1), NEW r \in First..(Size - 1), client'[s] # -1, client'[r] = client'[s]
       PROVE  r = s
  <2>1. CASE s = fs /\ r # fs
    BY <1>7, <1>s, <1>10, <1>11, <2>1
  <2>2. CASE s # fs /\ r = fs
    BY <1>7, <1>s, <1>10, <1>11, <2>2
  <2>3. CASE s # fs /\ r # fs
    <3>1. client[s] # -1 /\ client[r] = client[s]
      BY <1>7, <1>s, <1>11, <2>3
    <3> QED
      BY <3>1 DEF TableInv
  <2> QED
    BY <2>1, <2>2, <2>3
<1>12. ASSUME NEW f \in Fds, file'[f] # None PROVE \E s \in First..(Size - 1) : client'[s] = f
  <2>1. CASE f = fd
    BY <1>7, <2>1
  <2>2. CASE f # fd
    <3>1. PICK s \in First..(Size - 1) : client[s] = f
      BY <1>4, <1>12, <2>2 DEF TableInv
    <3>2. s # fs
      BY <1>2, <3>1, ClientFacts
    <3> QED
      BY <1>7, <1>s, <3>1, <3>2
  <2> QED
    BY <2>1, <2>2
<1>13. server_type = POLL => client'[0] = Listen
  <2> SUFFICES ASSUME server_type = POLL PROVE client'[0] = Listen
    OBVIOUS
  <2>1. 0 # fs
    BY <1>5 DEF First
  <2>2. 0 \in Slots
    BY <1>5 DEF First, Slots
  <2> QED
    BY <1>7, <2>1, <2>2 DEF TableInv
<1>14. ASSUME server_type = SELECT
       PROVE  allset' = {f \in Fds : file'[f] # None} \cup {Listen} /\ maxfd' \in Nat
              /\ \A f \in Fds : file'[f] # None => f <= maxfd'
  <2>1. allset = {f \in Fds : file[f] # None} \cup {Listen} /\ maxfd \in Nat
        /\ \A f \in Fds : file[f] # None => f <= maxfd
    BY <1>14 DEF TableInv, OpenFds
  <2>2. {f \in Fds : file'[f] # None} = {f \in Fds : file[f] # None} \cup {fd}
    BY <1>3, <1>4
  <2>3. allset' = {f \in Fds : file'[f] # None} \cup {Listen}
    BY <1>14, <2>1, <2>2
  <2>4. fd \in Nat /\ \A f \in Fds : f \in Nat
    BY ClientFacts
  <2>5. maxfd' = IF fd > maxfd THEN fd ELSE maxfd
    BY <1>14
  <2>6. maxfd' \in Nat /\ fd <= maxfd' /\ maxfd <= maxfd'
    BY <2>1, <2>4, <2>5
  <2>7. ASSUME NEW f \in Fds, file'[f] # None PROVE f <= maxfd'
    <3>1. f = fd \/ f <= maxfd
      BY <1>4, <2>1, <2>7
    <3> QED
      BY <2>1, <2>4, <2>6, <3>1
  <2> QED
    BY <2>3, <2>6, <2>7
<1>15. server_type' = server_type
  OBVIOUS
<1> QED
  BY <1>5, <1>7, <1>8, <1>9, <1>11, <1>12, <1>13, <1>14, <1>15 DEF TableInv, OpenFds

\* A closed connection leaves its entry free.
LEMMA CloseTable ==
    ASSUME Multiplexer, ConnectionInv, TableInv, NEW e \in First..(Size - 1), client[e] # -1,
           file' = [file EXCEPT ![client[e]] = None],
           client' = [client EXCEPT ![e] = -1],
           server_type = SELECT => allset' = allset \ {client[e]} /\ maxfd' = maxfd,
           UNCHANGED <<maxi, server_type>>
    PROVE  TableInv'
<1>1. First \in {0, 1} /\ Size \in Nat /\ First' = First
  BY ClientFacts DEF First
<1>2. \A s \in First..(Size - 1) : s \in Slots
  BY <1>1 DEF Slots
<1>3. client \in [Slots -> Int] /\ file \in [Fds -> Clients \cup {None}] /\ -1 \in Int
  BY DEF TableInv, ConnectionInv
<1>4. PICK fd \in Fds : fd = client[e] /\ file[fd] # None
  BY DEF TableInv
<1>5. /\ client' \in [Slots -> Int] /\ client'[e] = -1
      /\ \A s \in Slots : s # e => client'[s] = client[s]
  BY <1>2, <1>3
<1>6. file'[fd] = None /\ \A f \in Fds : f # fd => file'[f] = file[f]
  BY <1>3, <1>4
<1>7. ASSUME NEW s \in First..(Size - 1)
      PROVE  client'[s] = -1 \/ (client'[s] \in Fds /\ file'[client'[s]] # None /\ s <= maxi')
  <2>1. CASE s = e
    BY <1>5, <2>1
  <2>2. CASE s # e
    <3>1. client'[s] = client[s]
      BY <1>2, <1>5, <2>2
    <3>2. client[s] = -1 \/ (client[s] \in Fds /\ file[client[s]] # None /\ s <= maxi)
      BY DEF TableInv
    <3>3. client[s] # fd
      BY <1>4, <2>2 DEF TableInv
    <3> QED
      BY <1>6, <3>1, <3>2, <3>3
  <2> QED
    BY <2>1, <2>2
<1>8. ASSUME NEW s \in First..(Size - 1), NEW r \in First..(Size - 1), client'[s] # -1, client'[r] = client'[s]
      PROVE  r = s
  <2>1. s # e /\ r # e
    BY <1>5, <1>8
  <2>2. client[s] # -1 /\ client[r] = client[s]
    BY <1>2, <1>5, <1>8, <2>1
  <2> QED
    BY <2>2 DEF TableInv
<1>9. ASSUME NEW f \in Fds, file'[f] # None PROVE \E s \in First..(Size - 1) : client'[s] = f
  <2>1. f # fd /\ file[f] # None
    BY <1>6, <1>9
  <2>2. PICK s \in First..(Size - 1) : client[s] = f
    BY <2>1 DEF TableInv
  <2>3. s # e
    BY <1>4, <2>1, <2>2
  <2> QED
    BY <1>2, <1>5, <2>2, <2>3
<1>10. server_type = POLL => client'[0] = Listen
  <2> SUFFICES ASSUME server_type = POLL PROVE client'[0] = Listen
    OBVIOUS
  <2>1. 0 # e
    BY <1>1 DEF First
  <2>2. 0 \in Slots
    BY <1>1 DEF First, Slots
  <2> QED
    BY <1>5, <2>1, <2>2 DEF TableInv
<1>11. ASSUME server_type = SELECT
       PROVE  allset' = {f \in Fds : file'[f] # None} \cup {Listen} /\ maxfd' \in Nat
              /\ \A f \in Fds : file'[f] # None => f <= maxfd'
  <2>1. allset = {f \in Fds : file[f] # None} \cup {Listen} /\ maxfd \in Nat
        /\ \A f \in Fds : file[f] # None => f <= maxfd
    BY <1>11 DEF TableInv, OpenFds
  <2>2. {f \in Fds : file'[f] # None} = {f \in Fds : file[f] # None} \ {fd}
    BY <1>4, <1>6
  <2>3. fd # Listen
    BY ClientFacts
  <2>4. allset' = allset \ {fd} /\ maxfd' = maxfd
    BY <1>4, <1>11
  <2>5. \A f \in Fds : file'[f] # None => f <= maxfd
    BY <1>6, <2>1
  <2>6. allset' = {f \in Fds : file'[f] # None} \cup {Listen}
    BY <2>1, <2>2, <2>3, <2>4
  <2> QED
    BY <2>1, <2>4, <2>5, <2>6
<1>12. server_type' = server_type /\ maxi' = maxi
  OBVIOUS
<1>13. maxi \in (First - 1)..(Size - 1)
  BY DEF TableInv
<1> QED
  BY <1>1, <1>5, <1>7, <1>8, <1>9, <1>10, <1>11, <1>12, <1>13 DEF TableInv, OpenFds

-----------------------------------------------------------------------------
(* SelectServer and PollServer: a pass                                     *)

LEMMA ReadyFinite ==
    ASSUME NEW lo \in Int, NEW hi \in Int
    PROVE  IsFiniteSet(Ready(lo, hi)) /\ Cardinality(Ready(lo, hi)) \in Nat
<1>1. IsFiniteSet(lo..hi) /\ Ready(lo, hi) \in SUBSET (lo..hi)
  BY FS_Interval DEF Ready
<1>2. IsFiniteSet(Ready(lo, hi))
  BY <1>1, FS_Subset
<1> QED
  BY <1>2, FS_CardinalityType

\* The entry that the scan visits, if it is ready, is one the count is about: what
\* PollServer has just filled is out of reach.
LEMMA ScanWithin ==
    ASSUME Multiplexer, ConnectionInv, TableInv, i \in Nat, i >= First, i <= maxi,
           NEW top \in -1..maxi, ScanTo(top)
    PROVE  i <= top
<1>1. maxi \in Int /\ top \in Int /\ i \in Int
  BY DEF TableInv
<1>2. CASE top = maxi
  BY <1>2
<1>3. CASE top # maxi
  <2>1. nready > 0 /\ nready = Cardinality(Ready(i, top))
    BY <1>3 DEF ScanTo
  <2>2. Ready(i, top) # {}
    BY <2>1, FS_EmptySet
  <2>3. PICK s \in i..top : TRUE
    BY <2>2 DEF Ready
  <2> QED
    BY <1>1, <2>3
<1> QED
  BY <1>2, <1>3

LEMMA SkipPass ==
    ASSUME Multiplexer, ConnectionInv, TableInv, PassInv, at = "scan", i <= maxi,
           client[i] = -1 \/ ~Marked(i), SkipTo(i + 1),
           UNCHANGED <<client, maxi, rset, revents, server_type, file, unread, peer>>
    PROVE  PassInv'
<1>0. i \in Nat /\ i >= First /\ i' = i + 1 /\ at' = "scan" /\ nready' = nready
  BY DEF PassInv, SkipTo
<1>f. CASE Failed
  <2>1. Failed' /\ server_type' # SELECT /\ First' = First /\ i' \in Nat /\ i' >= First
    BY <1>0, <1>f DEF Failed, First, PassInv
  <2> QED
    BY <1>0, <2>1 DEF PassInv
<1> SUFFICES ASSUME ~Failed PROVE PassInv'
  BY <1>f
<1>1. PICK top \in -1..maxi : ScanTo(top)
  BY DEF PassInv
<1>2. maxi \in Int /\ top \in Int /\ First \in Int /\ First' = First
  BY DEF TableInv, First
<1>3. {s \in (i + 1)..top : client[s] # -1 /\ Marked(s)} = {s \in i..top : client[s] # -1 /\ Marked(s)}
  <2>1. \A s \in i..top : s = i \/ s \in (i + 1)..top
    BY <1>0, <1>2
  <2>2. \A s \in (i + 1)..top : s \in i..top
    BY <1>0, <1>2
  <2> QED
    BY <2>1, <2>2
<1>4. Ready(i, top)' = {s \in (i + 1)..top : client[s] # -1 /\ Marked(s)}
  BY <1>0 DEF Ready, Marked
<1>5. Ready(i, top)' = Ready(i, top)
  BY <1>3, <1>4 DEF Ready
<1>6. ScanTo(top)'
  <2>1. \A s \in Ready(i, top) : Readable(file[client[s]])'
    BY <1>1 DEF ScanTo, Readable
  <2>2. nready' = Cardinality(Ready(i, top)')
    BY <1>0, <1>1, <1>5 DEF ScanTo
  <2>3. (top = maxi \/ (server_type = POLL /\ nready > 0))'
    BY <1>0, <1>1 DEF ScanTo
  <2>4. \A s \in Ready(i, top)' : Readable(file[client[s]])'
    BY <1>5, <2>1
  <2> QED
    BY <2>2, <2>3, <2>4 DEF ScanTo
<1>7. i' \in Nat /\ i' >= First /\ top \in -1..maxi'
  BY <1>0, <1>2
<1>8. ~Failed'
  BY <1>0 DEF Failed
<1> QED
  BY <1>0, <1>2, <1>6, <1>7, <1>8 DEF PassInv

\* A ready entry is served: by a Read of all there is, or at the end of file by Close.
LEMMA ServePass ==
    ASSUME Multiplexer, ConnectionInv, TableInv, PassInv, at = "scan", i <= maxi,
           client[i] # -1, Marked(i), Continue(i + 1),
           \/ UNCHANGED <<client, file>> /\ unread' = [unread EXCEPT ![file[client[i]]] = 0]
           \/ /\ client' = [client EXCEPT ![i] = -1] /\ file' = [file EXCEPT ![client[i]] = None]
              /\ UNCHANGED unread,
           UNCHANGED <<maxi, rset, revents, server_type, peer>>
    PROVE  PassInv'
<1>0. i \in Nat /\ i >= First /\ nready' = nready - 1
  BY DEF PassInv, Continue
<1>f. CASE Failed
  <2>1. at' = "wait"
    BY <1>0, <1>f DEF Continue, Failed
  <2> QED
    BY <2>1 DEF PassInv
<1> SUFFICES ASSUME ~Failed PROVE PassInv'
  BY <1>f
<1>1. PICK top \in -1..maxi : ScanTo(top)
  BY DEF PassInv
<1>2. maxi \in Int /\ top \in Int /\ First \in Int /\ First' = First /\ top <= maxi
  BY DEF TableInv, First
<1>3. i \in i..top
  BY <1>0, <1>1, <1>2, ScanWithin
<1>4. i \in Ready(i, top)
  BY <1>3 DEF Ready
<1>5. CASE at' = "wait"
  BY <1>5 DEF PassInv
<1>6. CASE at' # "wait"
  <2>1. at' = "scan" /\ i' = i + 1 /\ nready' > 0
    BY <1>6 DEF Continue
  <2>2. PICK e \in First..(Size - 1) : e = i
    <3>1. i \in First..(Size - 1)
      BY <1>0, <1>2, <1>4, ReadyFacts
    <3> QED
      BY <3>1
  <2>s. \A s \in First..(Size - 1) : s \in Slots
    BY <1>0, ClientFacts DEF Slots, First
  <2>3. PICK fd \in Fds : fd = client[e] /\ file[fd] \in Clients
    BY <1>0, <1>2, <1>4, <2>2, ReadyFacts
  <2>4. ASSUME NEW s \in Ready(i, top), s # e
        PROVE  /\ client'[s] = client[s] /\ file'[client[s]] = file[client[s]]
               /\ Readable(file[client[s]])'
    <3>1. /\ s \in First..(Size - 1) /\ client[s] # -1 /\ client[s] \in Fds /\ file[client[s]] \in Clients
      BY <1>0, <1>2, ReadyFacts
    <3>2. s \in Slots /\ e \in Slots /\ client \in [Slots -> Int] /\ file \in [Fds -> Clients \cup {None}]
          /\ unread \in [Clients -> Nat]
      BY <2>s, <3>1 DEF TableInv, ConnectionInv
    <3>3. client[s] # fd
      BY <2>3, <2>4, <3>1 DEF TableInv
    <3>4. client'[s] = client[s] /\ file'[client[s]] = file[client[s]]
      BY <2>2, <2>3, <2>4, <3>1, <3>2, <3>3
    <3>5. file[client[s]] # file[fd]
      BY <2>3, <3>1, <3>3, ClientFacts DEF ConnectionInv
    <3>6. PICK d \in Clients : d = file[client[s]]
      BY <3>1
    <3>7. unread'[d] = unread[d]
      BY <2>2, <2>3, <3>2, <3>5, <3>6
    <3>8. unread[d] > 0 \/ peer[d] = "closed"
      BY <1>1, <3>6 DEF ScanTo, Readable
    <3> QED
      BY <3>4, <3>6, <3>7, <3>8 DEF Readable
  <2>5. {s \in (i + 1)..top : client'[s] # -1 /\ Marked(s)'} = Ready(i, top) \ {i}
    <3>1. ASSUME NEW s \in i..top, s # e PROVE client'[s] = client[s] /\ (Marked(s)' <=> Marked(s))
      <4>1. s \in Slots
        <5>1. s \in First..(Size - 1)
          BY <1>0, <1>2, ClientFacts DEF TableInv
        <5> QED
          BY <5>1, <2>s
      <4>2. client'[s] = client[s]
        BY <2>2, <3>1, <4>1 DEF TableInv
      <4> QED
        BY <4>2 DEF Marked
    <3>2. \A s : s \in (i + 1)..top <=> s \in i..top /\ s # e
      BY <1>0, <1>2, <2>2
    <3> QED
      BY <2>2, <3>1, <3>2 DEF Ready
  <2>6. Ready(i, top)' = Ready(i, top) \ {i}
    <3>1. Ready(i, top)' = {s \in i'..top : client'[s] # -1 /\ Marked(s)'}
      BY DEF Ready
    <3> QED
      BY <2>1, <2>5, <3>1
  <2>7. nready' = Cardinality(Ready(i, top) \ {i})
    <3>1. IsFiniteSet(Ready(i, top)) /\ nready = Cardinality(Ready(i, top))
      BY <1>0, <1>1, <1>2, ReadyFinite DEF ScanTo
    <3> QED
      BY <1>0, <1>4, <3>1, FS_RemoveElement
  <2>8. ScanTo(top)'
    <3>1. \A s \in Ready(i, top)' : Readable(file[client[s]])'
      BY <2>2, <2>4, <2>6
    <3>2. (top = maxi \/ (server_type = POLL /\ nready > 0))'
      BY <1>1, <2>1 DEF ScanTo
    <3> QED
      BY <2>6, <2>7, <3>1, <3>2 DEF ScanTo
  <2>9. i' \in Nat /\ i' >= First /\ top \in -1..maxi'
    BY <1>0, <1>2, <2>1
  <2>10. ~Failed'
    BY <2>1 DEF Failed
  <2> QED
    BY <1>2, <2>1, <2>8, <2>9, <2>10 DEF PassInv
<1> QED
  BY <1>5, <1>6

LEMMA NoAcceptPass ==
    ASSUME Multiplexer, ConnectionInv, TableInv, PassInv, at = "accept", ~NewWaits, SkipTo(First),
           UNCHANGED <<client, maxi, rset, revents, server_type, file, unread, peer>>
    PROVE  PassInv'
<1>0. i' = First /\ at' = "scan" /\ nready' = nready
  BY DEF SkipTo
<1>1. maxi \in Int /\ First \in Nat /\ First' = First /\ maxi \in -1..maxi
  BY DEF TableInv, First
<1>f. CASE Failed
  <2>1. server_type' # SELECT
    BY <1>f DEF PassInv, NewWaits
  <2>2. Failed' /\ i' \in Nat /\ i' >= First
    BY <1>0, <1>1, <1>f DEF Failed
  <2> QED
    BY <1>0, <1>1, <2>1, <2>2 DEF PassInv
<1> SUFFICES ASSUME ~Failed PROVE PassInv'
  BY <1>f
<1>a. AcceptInv
  BY DEF PassInv
<1>2. PICK top \in -1..maxi : top = maxi
  BY <1>1
<1>3. Ready(i, top)' = Ready(First, maxi)
  BY <1>0, <1>1, <1>2 DEF Ready, Marked
<1>4. nready = Cardinality(Ready(First, maxi)) + 0 /\ Cardinality(Ready(First, maxi)) \in Nat
  BY <1>a, <1>1, ReadyFinite DEF AcceptInv
<1>5. ScanTo(top)'
  <2>1. nready' = Cardinality(Ready(i, top)')
    BY <1>0, <1>3, <1>4
  <2>2. \A s \in Ready(i, top)' : Readable(file[client[s]])'
    BY <1>a, <1>3 DEF AcceptInv, Readable
  <2>3. top = maxi'
    BY <1>2
  <2> QED
    BY <2>1, <2>2, <2>3 DEF ScanTo
<1>6. i' \in Nat /\ i' >= First /\ top \in -1..maxi'
  BY <1>0, <1>1
<1>7. ~Failed'
  BY <1>0 DEF Failed
<1> QED
  BY <1>0, <1>1, <1>5, <1>6, <1>7 DEF PassInv

\* The new entry is not among those that were reported, or it is the last of PollServer.
LEMMA AcceptPass ==
    ASSUME Multiplexer, ConnectionInv, TableInv, PassInv, at = "accept", NewWaits, listening,
           NEW fd \in Fds, Accept(fd),
           client' = [client EXCEPT ![FreeSlot(First)] = fd],
           maxi' = IF FreeSlot(First) > maxi THEN FreeSlot(First) ELSE maxi,
           Continue(First),
           UNCHANGED <<rset, revents, server_type, unread, peer, listening>>
    PROVE  PassInv'
<1>f. CASE Failed
  <2>1. at' = "wait"
    BY <1>f DEF Continue, Failed
  <2> QED
    BY <2>1 DEF PassInv
<1> SUFFICES ASSUME ~Failed PROVE PassInv'
  BY <1>f
<1>0. AcceptInv /\ nready' = nready - 1
  BY DEF PassInv, Continue
<1>1. CASE at' = "wait"
  BY <1>1 DEF PassInv
<1>2. CASE at' # "wait"
  <2>0. at' = "scan" /\ i' = First /\ nready' > 0
    BY <1>2 DEF Continue
  <2>1. backlog # <<>> /\ file' = [file EXCEPT ![fd] = Head(backlog)]
    BY DEF Accept
  <2>2. PICK fs \in First..(Size - 1) : fs = FreeSlot(First) /\ client[fs] = -1
    BY <2>1, FreeSlotFacts
  <2>3. file[fd] = None /\ file \in [Fds -> Clients \cup {None}]
    BY AcceptConnections DEF ConnectionInv
  <2>4. First \in {0, 1} /\ Size \in Nat /\ First' = First /\ fs \in Int /\ maxi \in Int /\ maxi <= Size - 1
        /\ maxi >= First - 1
    BY ClientFacts DEF First, TableInv
  <2>5. client \in [Slots -> Int] /\ fs \in Slots
    BY <2>4 DEF TableInv, Slots
  <2>6. client'[fs] = fd /\ \A s \in Slots : s # fs => client'[s] = client[s]
    BY <2>2, <2>5
  <2>7. maxi' = IF fs > maxi THEN fs ELSE maxi
    BY <2>2
  <2>8. maxi' \in Int /\ maxi' <= Size - 1 /\ maxi <= maxi'
    BY <2>4, <2>7
  <2>s. \A s \in First..(Size - 1) : s \in Slots
    BY <2>4 DEF Slots
  <2>9. \A s \in First..(Size - 1) : s # fs => client'[s] = client[s] /\ (Marked(s)' <=> Marked(s))
    BY <2>6, <2>s DEF Marked
  <2>10. \A s \in First..(Size - 1) : client[s] # -1 => s <= maxi
    BY DEF TableInv
  <2>11. ASSUME server_type = SELECT \/ fs <= maxi PROVE ~Marked(fs)'
    <3>1. CASE server_type = SELECT
      <4>1. fd \notin rset
        BY <1>0, <2>3, <3>1, ClientFacts DEF AcceptInv, TableInv, OpenFds
      <4> QED
        BY <2>6, <3>1, <4>1 DEF Marked
    <3>2. CASE server_type # SELECT
      <4>1. server_type = POLL /\ First = 1
        BY <3>2 DEF Multiplexer, First
      <4>2. fs \in 1..maxi
        BY <2>4, <2>11, <3>2, <4>1
      <4>3. ~revents[fs]
        BY <1>0, <2>2, <4>1, <4>2 DEF AcceptInv
      <4> QED
        BY <3>2, <4>3 DEF Marked
    <3> QED
      BY <3>1, <3>2
  <2>12. \E top \in -1..maxi' : /\ {s \in First..top : client'[s] # -1 /\ Marked(s)'} = Ready(First, maxi)
                                /\ top = maxi' \/ server_type = POLL
    <3>1. CASE server_type = SELECT \/ fs <= maxi
      <4>1. \A s \in First..maxi' : s \in First..(Size - 1)
        BY <2>4, <2>8
      <4>2. \A s \in First..maxi : s \in First..maxi' /\ s <= maxi
        BY <2>4, <2>8
      <4>3. \A s \in First..maxi' : s <= maxi => s \in First..maxi
        BY <2>4, <2>8
      <4>4. ASSUME NEW s \in First..maxi', client'[s] # -1, Marked(s)' PROVE s \in Ready(First, maxi)
        <5>1. s # fs
          BY <2>11, <3>1, <4>4
        <5>2. client[s] # -1 /\ Marked(s)
          BY <2>9, <4>1, <4>4, <5>1
        <5>3. s \in First..maxi
          BY <2>10, <4>1, <4>3, <5>2
        <5> QED
          BY <5>2, <5>3 DEF Ready
      <4>5. ASSUME NEW s \in Ready(First, maxi) PROVE s \in First..maxi' /\ client'[s] # -1 /\ Marked(s)'
        <5>1. s \in First..maxi /\ client[s] # -1 /\ Marked(s)
          BY DEF Ready
        <5>2. s \in First..maxi' /\ s # fs
          BY <2>2, <4>2, <5>1
        <5> QED
          BY <2>9, <4>1, <5>1, <5>2
      <4>6. {s \in First..maxi' : client'[s] # -1 /\ Marked(s)'} = Ready(First, maxi)
        BY <4>4, <4>5
      <4>7. maxi' \in -1..maxi'
        BY <2>4, <2>8
      <4> QED
        BY <4>6, <4>7
    <3>2. CASE ~(server_type = SELECT \/ fs <= maxi)
      <4>1. server_type = POLL
        BY <3>2 DEF Multiplexer
      <4>2. maxi \in -1..maxi'
        BY <2>4, <2>8
      <4>3. \A s \in First..maxi : s \in First..(Size - 1) /\ s # fs
        BY <2>4, <3>2
      <4>4. {s \in First..maxi : client'[s] # -1 /\ Marked(s)'} = Ready(First, maxi)
        BY <2>9, <4>3 DEF Ready
      <4> QED
        BY <4>1, <4>2, <4>4
    <3> QED
      BY <3>1, <3>2
  <2>13. PICK top \in -1..maxi' : /\ {s \in First..top : client'[s] # -1 /\ Marked(s)'} = Ready(First, maxi)
                                  /\ top = maxi' \/ server_type = POLL
    BY <2>12
  <2>14. Ready(i, top)' = Ready(First, maxi)
    <3>1. Ready(i, top)' = {s \in i'..top : client'[s] # -1 /\ Marked(s)'}
      BY DEF Ready
    <3> QED
      BY <2>0, <2>13, <3>1
  <2>15. nready' = Cardinality(Ready(i, top)')
    <3>1. nready = Cardinality(Ready(First, maxi)) + 1 /\ Cardinality(Ready(First, maxi)) \in Nat
      BY <1>0, <2>4, ReadyFinite DEF AcceptInv
    <3> QED
      BY <1>0, <2>14, <3>1
  <2>16. ASSUME NEW s \in Ready(First, maxi) PROVE Readable(file[client[s]])'
    <3>1. /\ s \in First..(Size - 1) /\ client[s] # -1 /\ client[s] \in Fds /\ file[client[s]] \in Clients
          /\ Readable(file[client[s]])
      BY <1>0, <2>4, ReadyFacts DEF AcceptInv
    <3>2. client'[s] = client[s] /\ client[s] # fd
      BY <2>2, <2>3, <2>9, <3>1, ClientFacts
    <3>3. file'[client[s]] = file[client[s]]
      BY <2>1, <2>3, <3>1, <3>2
    <3> QED
      BY <3>1, <3>2, <3>3 DEF Readable
  <2>17. ScanTo(top)'
    <3>1. \A s \in Ready(i, top)' : Readable(file[client[s]])'
      BY <2>14, <2>16
    <3>2. (top = maxi \/ (server_type = POLL /\ nready > 0))'
      BY <2>0, <2>13
    <3> QED
      BY <2>15, <3>1, <3>2 DEF ScanTo
  <2>18. i' \in Nat /\ i' >= First
    BY <2>0, <2>4
  <2>19. ~Failed'
    BY <2>0 DEF Failed
  <2> QED
    BY <2>0, <2>4, <2>17, <2>18, <2>19 DEF PassInv
<1> QED
  BY <1>1, <1>2

\* select() reports descriptors, and the scan counts entries: as many.
LEMMA SelectWaitPass ==
    ASSUME ConnectionInv, TableInv, PassInv, server_type = SELECT, SelectWait, UNCHANGED server_type
    PROVE  PassInv'
<1> DEFINE ready == {f \in allset : f <= maxfd /\ FdReady(f)}
           Q == {s \in First..maxi : client[s] # -1 /\ client[s] \in ready}
<1>0. /\ rset' = ready /\ nready' = Cardinality(ready) /\ at' = "accept"
      /\ UNCHANGED <<client, maxi, allset, revents, file, backlog, unread, peer>>
  BY DEF SelectWait, socketVars
<1>1. /\ First = 0 /\ maxi \in Int /\ maxi <= Size - 1 /\ Size \in Nat
      /\ allset = {f \in Fds : file[f] # None} \cup {Listen}
  BY ClientFacts DEF First, TableInv, OpenFds, SELECT, POLL
<1>2. First' = First /\ maxi' = maxi
  BY <1>0 DEF First
<1>r. ready \subseteq Fds \cup {Listen} /\ \A f \in ready : f # Listen => file[f] # None /\ f \in Fds
  BY <1>1
<1>3. Ready(First, maxi)' = Q
  BY <1>0, <1>2 DEF Ready, Marked
<1>4. IsFiniteSet(Q)
  <2>1. IsFiniteSet(First..maxi) /\ Q \in SUBSET (First..maxi)
    BY <1>1, FS_Interval
  <2> HIDE DEF Q
  <2> QED
    BY <2>1, FS_Subset
<1>5. ExistsBijection(Q, ready \ {Listen})
  <2> DEFINE f == [s \in Q |-> client[s]]
  <2>1. \A s \in Q : s \in First..(Size - 1) /\ client[s] # -1 /\ client[s] \in ready
    BY <1>1
  <2>2. \A s \in Q : client[s] # Listen
    BY <2>1, ClientFacts DEF TableInv
  <2>3. f \in [Q -> ready \ {Listen}]
    BY <2>1, <2>2
  <2>4. \A a, b \in Q : f[a] = f[b] => a = b
    BY <2>1 DEF TableInv
  <2>5. ASSUME NEW t \in ready \ {Listen} PROVE \E s \in Q : f[s] = t
    <3>1. t \in Fds /\ file[t] # None
      BY <1>r
    <3>2. PICK s \in First..(Size - 1) : client[s] = t
      BY <3>1 DEF TableInv
    <3>3. client[s] # -1
      BY <3>1, <3>2, ClientFacts
    <3>4. s \in First..maxi
      BY <1>1, <3>2, <3>3 DEF TableInv
    <3>5. s \in Q
      BY <3>2, <3>3, <3>4
    <3> QED
      BY <3>2, <3>5
  <2> HIDE DEF f, Q, ready
  <2>6. f \in Bijection(Q, ready \ {Listen})
    BY <2>3, <2>4, <2>5, Fun_IsBij
  <2> QED
    BY <2>6 DEF ExistsBijection
<1>6. IsFiniteSet(ready \ {Listen}) /\ Cardinality(ready \ {Listen}) = Cardinality(Q) /\ Cardinality(Q) \in Nat
  BY <1>4, <1>5, FS_Bijection, FS_CardinalityType
<1>7. Cardinality(ready) = Cardinality(Q) + (IF Listen \in ready THEN 1 ELSE 0)
  <2> HIDE DEF ready, Q
  <2>1. CASE Listen \in ready
    <3>1. ready = (ready \ {Listen}) \cup {Listen}
      BY <2>1
    <3>2. Cardinality((ready \ {Listen}) \cup {Listen}) = Cardinality(ready \ {Listen}) + 1
      BY <1>6, FS_AddElement
    <3> QED
      BY <1>6, <2>1, <3>1, <3>2
  <2>2. CASE Listen \notin ready
    <3>1. ready = ready \ {Listen}
      BY <2>2
    <3>2. Cardinality(ready) = Cardinality(ready \ {Listen})
      BY <3>1, Zenon
    <3>3. Cardinality(ready) = Cardinality(Q) + 0
      BY <1>6, <3>2
    <3> QED
      BY <2>2, <3>3
  <2> QED
    BY <2>1, <2>2
<1>8. NewWaits' <=> Listen \in ready
  BY <1>0 DEF NewWaits
<1>9. Listen \in ready => backlog # <<>>
  BY ClientFacts DEF FdReady
<1>10. ASSUME NEW s \in Q PROVE Readable(file[client[s]])'
  <2>1. client[s] \in ready /\ client[s] # Listen
    <3>1. s \in First..maxi /\ client[s] # -1 /\ client[s] \in ready
      OBVIOUS
    <3> HIDE DEF ready, Q
    <3>2. s \in First..(Size - 1)
      BY <1>1, <3>1
    <3>3. client[s] \in Fds
      BY <3>1, <3>2 DEF TableInv
    <3> QED
      BY <3>1, <3>3, ClientFacts
  <2>2. Readable(file[client[s]])
    BY <2>1 DEF FdReady
  <2> QED
    BY <1>0, <2>2 DEF Readable
<1>11. AcceptInv'
  <2>1. nready' = Cardinality(Ready(First, maxi)') + (IF NewWaits' THEN 1 ELSE 0)
    BY <1>0, <1>3, <1>7, <1>8
  <2>2. NewWaits' => backlog' # <<>>
    BY <1>0, <1>8, <1>9
  <2>3. \A s \in Ready(First, maxi)' : Readable(file[client[s]])'
    BY <1>3, <1>10
  <2>4. rset' \subseteq allset'
    BY <1>0
  <2>5. server_type' # POLL
    BY DEF SELECT, POLL
  <2> QED
    BY <2>1, <2>2, <2>3, <2>4, <2>5 DEF AcceptInv
<1>12. ~Failed'
  <2> HIDE DEF ready, Q
  <2>1. nready' \in Nat
    BY <1>0, <1>6, <1>7
  <2> QED
    BY <2>1 DEF Failed
<1> QED
  BY <1>0, <1>11, <1>12 DEF PassInv

LEMMA PollWaitPass ==
    ASSUME ConnectionInv, TableInv, PassInv, server_type = POLL, PollWait, UNCHANGED server_type
    PROVE  PassInv'
<1> DEFINE ready == {s \in 0..maxi : client[s] >= 0 /\ FdReady(client[s])}
<1>0. /\ revents' = [s \in Slots |-> IF s <= maxi THEN s \in ready ELSE revents[s]]
      /\ nready' = Cardinality(ready) /\ at' = "accept"
      /\ UNCHANGED <<client, maxi, file, backlog, unread, peer>>
  BY DEF PollWait, socketVars
<1>1. First = 1 /\ maxi \in Int /\ maxi >= 0 /\ maxi <= Size - 1 /\ Size \in Nat /\ client[0] = Listen
  BY ClientFacts DEF First, TableInv
<1>2. First' = First /\ maxi' = maxi /\ server_type # SELECT
  BY <1>0 DEF First, SELECT, POLL
<1>3. \A s \in 0..maxi : s \in Slots /\ s <= maxi
  BY <1>1 DEF Slots
<1>4. \A s \in 0..maxi : revents'[s] <=> s \in ready
  BY <1>0, <1>3
<1>5. ASSUME NEW s \in 1..maxi
      PROVE  /\ s \in 0..maxi /\ s \in First..(Size - 1)
             /\ client[s] = -1 \/ (client[s] >= 0 /\ client[s] # -1 /\ client[s] # Listen)
  <2>1. s \in 0..maxi /\ s \in First..(Size - 1)
    BY <1>1
  <2>2. client[s] = -1 \/ client[s] \in Fds
    BY <2>1 DEF TableInv
  <2>3. client[s] \in Fds => client[s] \in Nat /\ client[s] # Listen
    BY ClientFacts
  <2>4. client[s] \in Nat => client[s] >= 0 /\ client[s] # -1
    OBVIOUS
  <2> QED
    BY <2>1, <2>2, <2>3, <2>4
<1>6. {s \in First..maxi : client[s] # -1 /\ revents'[s]} = ready \ {0}
  <2>1. \A s \in ready : client[s] # -1
    OBVIOUS
  <2>2. \A s : s \in First..maxi <=> s \in 0..maxi /\ s # 0
    BY <1>1
  <2>3. ready \subseteq 0..maxi
    OBVIOUS
  <2> HIDE DEF ready
  <2> QED
    BY <1>4, <2>1, <2>2, <2>3
<1>7. Ready(First, maxi)' = ready \ {0}
  <2>1. Ready(First, maxi)' = {s \in First..maxi : client[s] # -1 /\ revents'[s]}
    BY <1>0, <1>2 DEF Ready, Marked
  <2> QED
    BY <1>6, <2>1
<1>8. IsFiniteSet(ready) /\ Cardinality(ready) \in Nat
  <2>1. IsFiniteSet(0..maxi) /\ ready \in SUBSET (0..maxi)
    BY <1>1, FS_Interval
  <2> HIDE DEF ready
  <2>2. IsFiniteSet(ready)
    BY <2>1, FS_Subset
  <2> QED
    BY <2>2, FS_CardinalityType
<1>9. 0 \in ready => backlog # <<>>
  BY <1>1, ClientFacts DEF FdReady
<1>10. NewWaits' <=> 0 \in ready
  <2>1. 0 \in 0..maxi
    BY <1>1
  <2> QED
    BY <1>2, <1>4, <2>1 DEF NewWaits
<1>11. Cardinality(ready) = Cardinality(ready \ {0}) + (IF 0 \in ready THEN 1 ELSE 0)
  <2> HIDE DEF ready
  <2>1. Cardinality(ready \ {0}) = IF 0 \in ready THEN Cardinality(ready) - 1 ELSE Cardinality(ready)
    BY <1>8, FS_RemoveElement
  <2> QED
    BY <1>8, <2>1
<1>12. ASSUME NEW s \in ready \ {0} PROVE Readable(file[client[s]])'
  <2>1. s \in 1..maxi
    BY <1>1
  <2>2. client[s] # Listen
    BY <1>5, <2>1
  <2>3. Readable(file[client[s]])
    BY <2>2 DEF FdReady
  <2> QED
    BY <1>0, <2>3 DEF Readable
<1>13. ASSUME NEW s \in 1..maxi, client[s] = -1 PROVE ~revents'[s]
  <2>1. s \in 0..maxi
    BY <1>5
  <2>2. s \notin ready
    BY <1>13
  <2> QED
    BY <1>4, <2>1, <2>2
<1>14. AcceptInv'
  <2>1. nready' = Cardinality(Ready(First, maxi)') + (IF NewWaits' THEN 1 ELSE 0)
    BY <1>0, <1>7, <1>10, <1>11
  <2>2. NewWaits' => backlog' # <<>>
    BY <1>0, <1>9, <1>10
  <2>3. \A s \in Ready(First, maxi)' : Readable(file[client[s]])'
    BY <1>7, <1>12
  <2>4. \A s \in 1..maxi' : client'[s] = -1 => ~revents'[s]
    BY <1>0, <1>2, <1>13
  <2> QED
    BY <1>2, <2>1, <2>2, <2>3, <2>4 DEF AcceptInv
<1>15. revents' \in [Slots -> BOOLEAN]
  <2> HIDE DEF ready
  <2>1. ASSUME NEW s \in Slots PROVE (IF s <= maxi THEN s \in ready ELSE revents[s]) \in BOOLEAN
    <3>1. revents[s] \in BOOLEAN
      BY DEF PassInv
    <3>2. CASE s <= maxi
      BY <3>2
    <3>3. CASE ~(s <= maxi)
      BY <3>1, <3>3
    <3> QED
      BY <3>2, <3>3
  <2> QED
    BY <1>0, <2>1
<1>16. ~Failed'
  BY <1>0, <1>8 DEF Failed
<1> QED
  BY <1>0, <1>14, <1>15, <1>16 DEF PassInv

\* A select or poll that fails: nothing is known to be ready, and SelectServer finds all
\* of allset in rset, the listening socket first.
LEMMA WaitFailsStep ==
    ASSUME Multiplexer, ConnectionInv, TableInv, PassInv, listening, WaitFails, UNCHANGED server_type,
           server_type = SELECT => rset' = allset
    PROVE  ConnectionInv' /\ TableInv' /\ PassInv'
<1>1. /\ UNCHANGED <<client, maxi, allset, maxfd, revents, socketVars>>
      /\ at' = "accept" /\ nready' = -1
  BY DEF WaitFails
<1>2. UNCHANGED file
  BY <1>1 DEF socketVars
<1>3. server_type = SELECT => Listen \in rset'
  BY DEF TableInv
<1>4. PassInv'
  BY <1>1, <1>3 DEF PassInv, Failed
<1>5. ConnectionInv'
  BY <1>1 DEF ConnectionInv, socketVars
<1>6. TableInv'
  BY <1>1, <1>2 DEF TableInv, First, OpenFds
<1> QED
  BY <1>4, <1>5, <1>6

\* The entry the scan reads, of either server.
LEMMA ReadingFacts ==
    ASSUME Multiplexer, ConnectionInv, TableInv, PassInv, at = "scan", i <= maxi
    PROVE  /\ i \in First..(Size - 1)
           /\ client[i] >= 0 <=> client[i] # -1
           /\ client[i] < 0 <=> client[i] = -1
           /\ client[i] # -1 => client[i] \in Fds /\ file[client[i]] \in Clients
<1>1. i \in First..(Size - 1)
  BY ClientFacts DEF PassInv, TableInv, First
<1>2. client[i] = -1 \/ (client[i] \in Fds /\ file[client[i]] # None)
  BY <1>1 DEF TableInv
<1>3. client[i] \in Fds => client[i] \in Nat
  BY ClientFacts
<1>4. client[i] = -1 \/ client[i] \in Nat
  BY <1>2, <1>3
<1>5. client[i] >= 0 <=> client[i] # -1
  BY <1>4
<1>6. client[i] < 0 <=> client[i] = -1
  BY <1>4
<1>7. client[i] # -1 => client[i] \in Fds /\ file[client[i]] \in Clients
  BY <1>2 DEF ConnectionInv
<1> QED
  BY <1>1, <1>5, <1>6, <1>7

LEMMA SameConnections ==
    ASSUME ConnectionInv, listening, UNCHANGED socketVars
    PROVE  ConnectionInv'
BY DEF ConnectionInv, socketVars

LEMMA SameTable ==
    ASSUME TableInv, UNCHANGED <<client, maxi, allset, maxfd, file, server_type>>
    PROVE  TableInv'
BY DEF TableInv, First, OpenFds

LEMMA PassEndsStep ==
    ASSUME Multiplexer, ConnectionInv, TableInv, PassInv, listening, PassEnds, UNCHANGED server_type
    PROVE  ConnectionInv' /\ TableInv' /\ PassInv'
<1>1. UNCHANGED socketVars /\ UNCHANGED <<client, maxi, allset, maxfd, file, server_type, revents>> /\ at' = "wait"
  BY DEF PassEnds, socketVars
<1>2. PassInv'
  BY <1>1 DEF PassInv
<1> QED
  BY <1>1, <1>2, SameConnections, SameTable

LEMMA SelectStep ==
    ASSUME ConnectionInv, TableInv, PassInv, server_type = SELECT, listening, SelectServer, UNCHANGED server_type
    PROVE  ConnectionInv' /\ TableInv' /\ PassInv'
<1>0. Multiplexer /\ First = 0 /\ server_type # POLL
  BY DEF Multiplexer, First, SELECT, POLL
<1>1. CASE SelectWait
  <2>1. UNCHANGED socketVars /\ UNCHANGED <<client, maxi, allset, maxfd, file>>
    BY <1>1 DEF SelectWait, socketVars
  <2> QED
    BY <1>1, <2>1, SelectWaitPass, SameConnections, SameTable
<1>2. CASE SelectAccept
  <2>1. PICK fd \in Fds : Accept(fd) /\ client' = [client EXCEPT ![FreeSlot(First)] = fd]
                          /\ allset' = allset \cup {fd} /\ maxfd' = IF fd > maxfd THEN fd ELSE maxfd
    BY <1>0, <1>2 DEF SelectAccept
  <2>2. /\ at = "accept" /\ NewWaits /\ Continue(First)
        /\ maxi' = IF FreeSlot(First) > maxi THEN FreeSlot(First) ELSE maxi
        /\ UNCHANGED <<rset, revents, unread, peer, listening>>
    BY <1>0, <1>2 DEF SelectAccept, NewWaits
  <2>3. ConnectionInv'
    BY <2>1, <2>2, AcceptConnections
  <2>4. TableInv'
    BY <1>0, <2>1, <2>2, AcceptTable
  <2>5. PassInv'
    BY <1>0, <2>1, <2>2, AcceptPass
  <2> QED
    BY <2>3, <2>4, <2>5
<1>3. CASE SelectNoAccept
  <2>1. /\ at = "accept" /\ ~NewWaits /\ SkipTo(First) /\ UNCHANGED socketVars
        /\ UNCHANGED <<client, maxi, allset, rset, maxfd, revents, file, unread, peer>>
    BY <1>0, <1>3 DEF SelectNoAccept, NewWaits, socketVars
  <2> QED
    BY <1>0, <2>1, NoAcceptPass, SameConnections, SameTable
<1>4. CASE SelectSkip
  <2>1. /\ at = "scan" /\ i <= maxi /\ SkipTo(i + 1) /\ UNCHANGED socketVars
        /\ UNCHANGED <<client, maxi, allset, rset, maxfd, revents, file, unread, peer>>
    BY <1>4 DEF SelectSkip, socketVars
  <2>2. client[i] = -1 \/ ~Marked(i)
    BY <1>0, <1>4, <2>1, ReadingFacts DEF SelectSkip, Marked
  <2> QED
    BY <1>0, <2>1, <2>2, SkipPass, SameConnections, SameTable
<1>5. CASE SelectRead \/ SelectEof
  <2>1. /\ at = "scan" /\ i <= maxi /\ Continue(i + 1) /\ client[i] >= 0 /\ client[i] \in rset
        /\ UNCHANGED <<maxi, rset, revents, peer, backlog, listening, maxfd>>
    BY <1>5 DEF SelectRead, SelectEof, SelectReading
  <2>2. i \in First..(Size - 1) /\ client[i] # -1 /\ client[i] \in Fds /\ file[client[i]] \in Clients /\ Marked(i)
    BY <1>0, <2>1, ReadingFacts DEF Marked
  <2>3. \/ UNCHANGED <<client, file, allset>> /\ unread' = [unread EXCEPT ![file[client[i]]] = 0]
        \/ /\ client' = [client EXCEPT ![i] = -1] /\ file' = [file EXCEPT ![client[i]] = None]
           /\ allset' = allset \ {client[i]} /\ UNCHANGED unread
    BY <1>5 DEF SelectRead, SelectEof, ReadAll, Close
  <2>4. PassInv'
    BY <1>0, <2>1, <2>2, <2>3, ServePass
  <2>5. PICK f \in Fds, c \in Clients : f = client[i] /\ c = file[client[i]]
    BY <2>2
  <2>6. ConnectionInv'
    BY <2>1, <2>3, <2>5, ServeConnections
  <2>7. TableInv'
    BY <1>0, <2>1, <2>2, <2>3, CloseTable, SameTable
  <2> QED
    BY <2>4, <2>6, <2>7
<1> QED
  BY <1>0, <1>1, <1>2, <1>3, <1>4, <1>5, PassEndsStep, WaitFailsStep DEF SelectServer, SelectFails

LEMMA PollStep ==
    ASSUME ConnectionInv, TableInv, PassInv, server_type = POLL, listening, PollServer, UNCHANGED server_type
    PROVE  ConnectionInv' /\ TableInv' /\ PassInv'
<1>0. Multiplexer /\ First = 1 /\ server_type # SELECT
  BY DEF Multiplexer, First, SELECT, POLL
<1>1. CASE PollWait
  <2>1. UNCHANGED socketVars /\ UNCHANGED <<client, maxi, allset, maxfd, file>>
    BY <1>1 DEF PollWait, socketVars
  <2> QED
    BY <1>1, <2>1, PollWaitPass, SameConnections, SameTable
<1>2. CASE PollAccept
  <2>1. PICK fd \in Fds : Accept(fd) /\ client' = [client EXCEPT ![FreeSlot(First)] = fd]
    BY <1>0, <1>2 DEF PollAccept
  <2>2. /\ at = "accept" /\ NewWaits /\ Continue(First)
        /\ maxi' = IF FreeSlot(First) > maxi THEN FreeSlot(First) ELSE maxi
        /\ UNCHANGED <<rset, revents, unread, peer, listening>>
    BY <1>0, <1>2 DEF PollAccept, NewWaits
  <2>3. ConnectionInv'
    BY <2>1, <2>2, AcceptConnections
  <2>4. TableInv'
    BY <1>0, <2>1, <2>2, AcceptTable
  <2>5. PassInv'
    BY <1>0, <2>1, <2>2, AcceptPass
  <2> QED
    BY <2>3, <2>4, <2>5
<1>3. CASE PollNoAccept
  <2>1. /\ at = "accept" /\ ~NewWaits /\ SkipTo(First) /\ UNCHANGED socketVars
        /\ UNCHANGED <<client, maxi, allset, rset, maxfd, revents, file, unread, peer>>
    BY <1>0, <1>3 DEF PollNoAccept, NewWaits, socketVars
  <2> QED
    BY <1>0, <2>1, NoAcceptPass, SameConnections, SameTable
<1>4. CASE PollSkip
  <2>1. /\ at = "scan" /\ i <= maxi /\ SkipTo(i + 1) /\ UNCHANGED socketVars
        /\ UNCHANGED <<client, maxi, allset, rset, maxfd, revents, file, unread, peer>>
    BY <1>4 DEF PollSkip, socketVars
  <2>2. client[i] = -1 \/ ~Marked(i)
    BY <1>0, <1>4, <2>1, ReadingFacts DEF PollSkip, Marked
  <2> QED
    BY <1>0, <2>1, <2>2, SkipPass, SameConnections, SameTable
<1>5. CASE PollRead \/ PollEof
  <2>1. /\ at = "scan" /\ i <= maxi /\ Continue(i + 1) /\ client[i] >= 0 /\ revents[i]
        /\ UNCHANGED <<maxi, rset, revents, peer, backlog, listening, maxfd, allset>>
    BY <1>5 DEF PollRead, PollEof, PollReading
  <2>2. i \in First..(Size - 1) /\ client[i] # -1 /\ client[i] \in Fds /\ file[client[i]] \in Clients /\ Marked(i)
    BY <1>0, <2>1, ReadingFacts DEF Marked
  <2>3. \/ UNCHANGED <<client, file>> /\ unread' = [unread EXCEPT ![file[client[i]]] = 0]
        \/ /\ client' = [client EXCEPT ![i] = -1] /\ file' = [file EXCEPT ![client[i]] = None]
           /\ UNCHANGED unread
    BY <1>5 DEF PollRead, PollEof, ReadAll, Close
  <2>4. PassInv'
    BY <1>0, <2>1, <2>2, <2>3, ServePass
  <2>5. PICK f \in Fds, c \in Clients : f = client[i] /\ c = file[client[i]]
    BY <2>2
  <2>6. ConnectionInv'
    BY <2>1, <2>3, <2>5, ServeConnections
  <2>7. TableInv'
    BY <1>0, <2>1, <2>2, <2>3, CloseTable, SameTable
  <2> QED
    BY <2>4, <2>6, <2>7
<1> QED
  BY <1>0, <1>1, <1>2, <1>3, <1>4, <1>5, PassEndsStep, WaitFailsStep DEF PollServer, PollFails

-----------------------------------------------------------------------------
(* MultiProcessServer and ThreadPools: who reads, and what was read        *)

LEMMA HeldReaders ==
    ASSUME NEW c \in Clients
    PROVE  Readers(c) = {} <=> ~Held(c)
<1>1. ASSUME Held(c) PROVE Readers(c) # {}
  <2>1. ASSUME NEW f \in Fds, file[f] = c, connfd = f, main \in {"fork", "submit"} PROVE Readers(c) # {}
    <3>1. f \in {g \in OpenFds : file[g] = c /\ connfd = g /\ main \in {"fork", "submit"}}
      BY <2>1, ClientFacts DEF OpenFds
    <3>2. <<"main", f>> \in Readers(c)
      BY <3>1 DEF Readers
    <3> QED
      BY <3>2
  <2>2. ASSUME NEW k \in 1..Len(tasks), file[tasks[k]] = c PROVE Readers(c) # {}
    <3>1. <<"task", k>> \in Readers(c)
      BY <2>2 DEF Readers
    <3> QED
      BY <3>1
  <2>3. ASSUME NEW w \in Workers, busy[w] # None, file[busy[w]] = c PROVE Readers(c) # {}
    <3>1. <<"worker", w>> \in Readers(c)
      BY <2>3 DEF Readers
    <3> QED
      BY <3>1
  <2>4. ASSUME kid[c] = "doit" PROVE Readers(c) # {}
    <3>1. <<"child", c>> \in Readers(c)
      BY <2>4 DEF Readers
    <3> QED
      BY <3>1
  <2> QED
    BY <1>1, <2>1, <2>2, <2>3, <2>4 DEF Held
<1>2. ASSUME ~Held(c) PROVE Readers(c) = {}
  <2>1. {f \in OpenFds : file[f] = c /\ connfd = f /\ main \in {"fork", "submit"}} = {}
    BY <1>2 DEF Held, OpenFds
  <2>2. {j \in 1..Len(tasks) : file[tasks[j]] = c} = {}
    BY <1>2 DEF Held
  <2>3. {v \in Workers : busy[v] # None /\ file[busy[v]] = c} = {}
    BY <1>2 DEF Held
  <2>4. {e \in {c} : kid[e] = "doit"} = {}
    BY <1>2 DEF Held
  <2> QED
    BY <2>1, <2>2, <2>3, <2>4 DEF Readers
<1> QED
  BY <1>1, <1>2

\* The connection changes hands, or nothing happens to it.
LEMMA MoveCount ==
    ASSUME CountInv, UNCHANGED <<todo, unread, reported, peer, backlog>>,
           \A c \in Clients : Held(c)' <=> Held(c)
    PROVE  CountInv'
<1>1. \A c \in Clients : Accepted(c)' <=> Accepted(c)
  BY DEF Accepted
<1>2. \A c \in Clients : (Finished(c)' <=> Finished(c)) /\ (Balanced(c)' <=> Balanced(c))
  BY DEF Finished, Balanced, AtEof
<1> QED
  BY <1>1, <1>2 DEF CountInv

LEMMA ClientCount ==
    ASSUME ConnectionInv, CountInv, NEW c \in Clients, ClientStep(c), UNCHANGED <<poolVars, doitVars>>
    PROVE  CountInv'
<1>0. /\ UNCHANGED <<file, reported, main, connfd, tasks, busy, kid>>
      /\ backlog \in Seq(Clients) /\ unread \in [Clients -> Nat]
      /\ peer \in [Clients -> {"new", "connected", "closed", "refused"}]
      /\ todo \in [Clients -> Int] /\ reported \in [Clients -> Int]
  BY DEF ConnectionInv, CountInv, poolVars, doitVars, ClientStep, Connect, ConnectRefused, Send, CloseClient
<1>1. \A b \in Clients : Held(b)' <=> Held(b)
  BY <1>0 DEF Held
<1>2. CASE Connect(c)
  <2>1. /\ UNCHANGED <<todo, unread>> /\ peer[c] = "new" /\ peer' = [peer EXCEPT ![c] = "connected"]
        /\ backlog' = Append(backlog, c)
    BY <1>2 DEF Connect
  <2>2. /\ Len(backlog') = Len(backlog) + 1 /\ Len(backlog) \in Nat
        /\ \A k \in 1..Len(backlog) : backlog'[k] = backlog[k]
        /\ backlog'[Len(backlog) + 1] = c
    BY <1>0, <2>1, AppendProperties, LenProperties
  <2>3. \A k \in 1..Len(backlog') : k \in 1..Len(backlog) \/ k = Len(backlog) + 1
    BY <2>2
  <2>4. Len(backlog) + 1 \in 1..Len(backlog') /\ \A k \in 1..Len(backlog) : k \in 1..Len(backlog')
    BY <2>2
  <2>5. ~Accepted(c) /\ ~Accepted(c)'
    BY <2>1, <2>2, <2>4 DEF Accepted
  <2>6. ASSUME NEW b \in Clients PROVE Accepted(b)' <=> Accepted(b)
    <3>1. CASE b = c
      BY <2>5, <3>1
    <3>2. CASE b # c
      <4>1. peer'[b] = peer[b]
        BY <1>0, <2>1, <3>2
      <4>2. (\A k \in 1..Len(backlog') : backlog'[k] # b) <=> (\A k \in 1..Len(backlog) : backlog[k] # b)
        BY <2>2, <2>3, <2>4, <3>2
      <4> QED
        BY <4>1, <4>2 DEF Accepted
    <3> QED
      BY <3>1, <3>2
  <2>7. \A b \in Clients : peer'[b] = "closed" <=> peer[b] = "closed"
    BY <1>0, <2>1
  <2>8. \A b \in Clients : (Finished(b)' <=> Finished(b)) /\ (Balanced(b)' <=> Balanced(b))
    BY <1>0, <2>1, <2>7 DEF Finished, Balanced, AtEof
  <2> QED
    BY <1>0, <1>1, <2>1, <2>6, <2>7, <2>8 DEF CountInv
<1>3. CASE ConnectRefused(c)
  <2>1. /\ ~listening /\ UNCHANGED <<backlog, todo, unread>> /\ peer' = [d \in Clients |-> "refused"]
    BY <1>3 DEF ConnectRefused
  <2>2. \A b \in Clients : ~Accepted(b) /\ ~Accepted(b)' /\ peer'[b] # "closed"
    BY <2>1 DEF ConnectionInv, Accepted
  <2>3. \A b \in Clients : Balanced(b)' <=> Balanced(b)
    BY <1>0, <2>1 DEF Balanced
  <2> QED
    BY <1>0, <1>1, <2>1, <2>2, <2>3 DEF CountInv
<1>4. CASE Send(c)
  <2>1. /\ UNCHANGED <<backlog, peer>> /\ peer[c] = "connected"
        /\ todo' = [todo EXCEPT ![c] = @ - 1] /\ unread' = [unread EXCEPT ![c] = @ + 1]
    BY <1>4 DEF Send
  <2>2. \A b \in Clients : Accepted(b)' <=> Accepted(b)
    BY <2>1 DEF Accepted
  <2>3. ASSUME NEW b \in Clients, b # c PROVE todo'[b] = todo[b] /\ unread'[b] = unread[b]
    BY <1>0, <2>1, <2>3
  <2>4. \A b \in Clients : b # c => (Finished(b)' <=> Finished(b)) /\ (Balanced(b)' <=> Balanced(b))
    BY <1>0, <2>1, <2>3 DEF Finished, Balanced, AtEof
  <2>5. ~Finished(c)
    BY <2>1 DEF Finished, AtEof
  <2>6. Balanced(c)'
    <3>1. Balanced(c)
      BY <2>5 DEF CountInv
    <3>2. todo'[c] = todo[c] - 1 /\ unread'[c] = unread[c] + 1 /\ todo[c] \in Int /\ unread[c] \in Int /\ reported[c] \in Int
      BY <1>0, <2>1
    <3>3. Messages - todo[c] = unread[c] + reported[c] /\ Messages \in Int /\ reported'[c] = reported[c]
      BY <1>0, <3>1, BoundsAssumption DEF Balanced
    <3>4. Messages - todo'[c] = unread'[c] + reported'[c]
      BY <3>2, <3>3
    <3> QED
      BY <3>4 DEF Balanced
  <2>7. todo' \in [Clients -> Int]
    <3>1. todo[c] - 1 \in Int
      BY <1>0
    <3> QED
      BY <1>0, <2>1, <3>1
  <2>8. \A b \in Clients : peer'[b] = "closed" => todo'[b] = 0
    BY <2>1, <2>3 DEF CountInv
  <2>9. \A b \in Clients : Accepted(b)' /\ ~Held(b)' => Finished(b)'
    BY <1>1, <2>2, <2>4, <2>5 DEF CountInv
  <2>10. \A b \in Clients : ~Accepted(b)' \/ Held(b)' => Balanced(b)'
    BY <1>1, <2>2, <2>4, <2>6 DEF CountInv
  <2> QED
    BY <1>0, <2>7, <2>8, <2>9, <2>10 DEF CountInv
<1>5. CASE CloseClient(c)
  <2>1. /\ UNCHANGED <<backlog, todo, unread>> /\ peer[c] = "connected" /\ todo[c] = 0
        /\ peer' = [peer EXCEPT ![c] = "closed"]
    BY <1>5 DEF CloseClient
  <2>2. \A b \in Clients : b # c => peer'[b] = peer[b]
    BY <1>0, <2>1
  <2>3. peer'[c] = "closed"
    BY <1>0, <2>1
  <2>4. \A b \in Clients : Accepted(b)' <=> Accepted(b)
    BY <2>1, <2>2, <2>3 DEF Accepted
  <2>5. \A b \in Clients : Balanced(b)' <=> Balanced(b)
    BY <1>0, <2>1 DEF Balanced
  <2>6. \A b \in Clients : Finished(b) => Finished(b)'
    BY <1>0, <2>1, <2>2, <2>3 DEF Finished, AtEof
  <2> QED
    BY <1>0, <1>1, <2>1, <2>2, <2>4, <2>5, <2>6 DEF CountInv
<1> QED
  BY <1>2, <1>3, <1>4, <1>5 DEF ClientStep

LEMMA ClientKeepsAccepted ==
    ASSUME ConnectionInv, NEW c \in Clients, ClientStep(c)
    PROVE  \A b \in Clients : Accepted(b) => Accepted(b)'
<1>0. backlog \in Seq(Clients) /\ peer \in [Clients -> {"new", "connected", "closed", "refused"}]
  BY DEF ConnectionInv
<1>1. CASE Connect(c)
  <2>1. peer[c] = "new" /\ peer' = [peer EXCEPT ![c] = "connected"] /\ backlog' = Append(backlog, c)
    BY <1>1 DEF Connect
  <2>2. /\ Len(backlog') = Len(backlog) + 1 /\ Len(backlog) \in Nat
        /\ \A k \in 1..Len(backlog) : backlog'[k] = backlog[k]
        /\ backlog'[Len(backlog) + 1] = c
    BY <1>0, <2>1, AppendProperties, LenProperties
  <2>3. \A k \in 1..Len(backlog') : k \in 1..Len(backlog) \/ k = Len(backlog) + 1
    BY <2>2
  <2>4. ASSUME NEW b \in Clients, Accepted(b) PROVE Accepted(b)'
    <3>1. b # c /\ peer'[b] = peer[b]
      BY <1>0, <2>1, <2>4 DEF Accepted
    <3> QED
      BY <2>2, <2>3, <2>4, <3>1 DEF Accepted
  <2> QED
    BY <2>4
<1>2. CASE ConnectRefused(c)
  BY <1>2 DEF ConnectRefused, ConnectionInv, Accepted
<1>3. CASE Send(c) \/ CloseClient(c)
  BY <1>0, <1>3 DEF Send, CloseClient, Accepted
<1> QED
  BY <1>1, <1>2, <1>3 DEF ClientStep

\* One turn of Doit.
LEMMA ReadCount ==
    ASSUME ConnectionInv, CountInv, NEW c \in Clients, Held(c), Doit(c), UNCHANGED <<poolVars, doitVars, at>>
    PROVE  ConnectionInv' /\ CountInv' /\ UNCHANGED <<file, peer, backlog, listening>>
<1>0. /\ UNCHANGED <<file, peer, backlog, todo, listening, main, connfd, tasks, busy, kid>>
      /\ unread \in [Clients -> Nat] /\ unread[c] > 0
      /\ unread' = [unread EXCEPT ![c] = @ - 1] /\ reported' = [reported EXCEPT ![c] = @ + 1]
      /\ todo \in [Clients -> Int] /\ reported \in [Clients -> Int]
  BY DEF ConnectionInv, CountInv, Doit, ReadOne, poolVars, doitVars
<1>1. unread[c] - 1 \in Nat /\ reported[c] + 1 \in Int /\ unread[c] \in Int /\ reported[c] \in Int /\ todo[c] \in Int
  BY <1>0
<1>2. unread' \in [Clients -> Nat] /\ reported' \in [Clients -> Int]
  BY <1>0, <1>1
<1>3. ConnectionInv'
  BY <1>0, <1>2 DEF ConnectionInv
<1>4. \A b \in Clients : (Held(b)' <=> Held(b)) /\ (Accepted(b)' <=> Accepted(b))
  BY <1>0 DEF Held, Accepted
<1>5. \A b \in Clients : b # c => unread'[b] = unread[b] /\ reported'[b] = reported[b]
  BY <1>0
<1>6. \A b \in Clients : b # c => (Finished(b)' <=> Finished(b)) /\ (Balanced(b)' <=> Balanced(b))
  BY <1>0, <1>5 DEF Finished, Balanced, AtEof
<1>7. Balanced(c)'
  <2>1. Balanced(c)
    BY DEF CountInv
  <2>2. unread'[c] = unread[c] - 1 /\ reported'[c] = reported[c] + 1
    BY <1>0
  <2> QED
    BY <1>0, <1>1, <2>1, <2>2, BoundsAssumption DEF Balanced
<1>8. \A b \in Clients : Accepted(b)' /\ ~Held(b)' => Finished(b)'
  BY <1>4, <1>6 DEF CountInv
<1>9. \A b \in Clients : ~Accepted(b)' \/ Held(b)' => Balanced(b)'
  BY <1>4, <1>6, <1>7 DEF CountInv
<1>10. CountInv'
  BY <1>0, <1>2, <1>8, <1>9 DEF CountInv
<1> QED
  BY <1>0, <1>3, <1>10

\* The end of Doit: whoever had the connection leaves it.
LEMMA EndCount ==
    ASSUME ConnectionInv, CountInv, NEW c \in Clients, Held(c), ReadEnd(c),
           UNCHANGED <<listening, backlog, peer, todo, file, at>>,
           ~Held(c)', \A b \in Clients : b # c => (Held(b)' <=> Held(b)), Accepted(c)
    PROVE  ConnectionInv' /\ CountInv'
<1>0. /\ UNCHANGED unread /\ AtEof(c) /\ reported' = [reported EXCEPT ![c] = @ + 1]
      /\ unread \in [Clients -> Nat] /\ todo \in [Clients -> Int] /\ reported \in [Clients -> Int]
  BY DEF ConnectionInv, CountInv, ReadEnd
<1>1. ConnectionInv'
  BY <1>0 DEF ConnectionInv
<1>2. \A b \in Clients : Accepted(b)' <=> Accepted(b)
  BY DEF Accepted
<1>3. \A b \in Clients : b # c => reported'[b] = reported[b]
  BY <1>0
<1>4. \A b \in Clients : b # c => (Finished(b)' <=> Finished(b)) /\ (Balanced(b)' <=> Balanced(b))
  BY <1>0, <1>3 DEF Finished, Balanced, AtEof
<1>5. Finished(c)'
  <2>1. Messages - todo[c] = unread[c] + reported[c] /\ unread[c] = 0 /\ todo[c] = 0
    BY <1>0 DEF CountInv, Balanced, AtEof
  <2>2. reported'[c] = reported[c] + 1 /\ reported[c] \in Int
    BY <1>0
  <2>3. reported'[c] = Messages + 1
    BY <2>1, <2>2, BoundsAssumption
  <2> QED
    BY <1>0, <2>3 DEF Finished, AtEof
<1>6. reported' \in [Clients -> Int]
  <2>1. reported[c] + 1 \in Int
    BY <1>0
  <2> QED
    BY <1>0, <2>1
<1>7. \A b \in Clients : Accepted(b)' /\ ~Held(b)' => Finished(b)'
  BY <1>2, <1>4, <1>5 DEF CountInv
<1>8. \A b \in Clients : ~Accepted(b)' \/ Held(b)' => Balanced(b)'
  BY <1>2, <1>4 DEF CountInv
<1>9. CountInv'
  BY <1>0, <1>6, <1>7, <1>8 DEF CountInv
<1> QED
  BY <1>1, <1>9

\* accept() into un->connfd: the connection is the main thread's.
LEMMA AcceptCount ==
    ASSUME ConnectionInv, CountInv, NEW next \in {"fork", "submit"}, AcceptConnfd(next),
           \A k \in 1..Len(tasks) : tasks[k] \in Fds /\ file[tasks[k]] # None,
           \A w \in Workers : busy[w] # None => busy[w] \in Fds /\ file[busy[w]] # None
    PROVE  /\ ConnectionInv' /\ CountInv' /\ connfd' \in Fds /\ file[connfd'] = None
           /\ file'[connfd'] = Head(backlog) /\ Head(backlog) \in Clients
           /\ \A f \in Fds : f # connfd' => file'[f] = file[f]
           /\ \A b \in Clients : Accepted(b) => Accepted(b)' /\ b # Head(backlog)
<1>0. /\ main = "accept" /\ listening /\ main' = next
      /\ UNCHANGED <<listening, peer, todo, unread, reported, kid, tasks, busy>>
  BY DEF AcceptConnfd, poolVars
<1>1. PICK fd \in Fds : Accept(fd) /\ connfd' = fd
  BY DEF AcceptConnfd
<1>2. /\ backlog # <<>> /\ file' = [file EXCEPT ![fd] = Head(backlog)] /\ backlog' = Tail(backlog)
  BY <1>1 DEF Accept
<1>3. ConnectionInv' /\ file[fd] = None
  BY <1>0, <1>1, AcceptConnections
<1>d. PICK d \in Clients : d = Head(backlog)
  BY <1>2, BacklogHead
<1>4. /\ d \in Clients /\ \A f \in Fds : file[f] # d
      /\ 1 \in 1..Len(backlog) /\ d = backlog[1]
      /\ Len(backlog') = Len(backlog) - 1 /\ Len(backlog) \in Nat
      /\ \A k \in 1..(Len(backlog) - 1) : backlog'[k] = backlog[k + 1]
  BY <1>2, <1>d, BacklogHead
<1>5. file'[fd] = d /\ \A f \in Fds : f # fd => file'[f] = file[f]
  BY <1>2, <1>d DEF ConnectionInv
<1>6. ~Accepted(d)
  BY <1>4 DEF Accepted
<1>7. ASSUME NEW b \in Clients, b # d PROVE Accepted(b)' <=> Accepted(b)
  <2>1. ASSUME NEW k \in 1..Len(backlog), backlog[k] = b PROVE \E j \in 1..Len(backlog') : backlog'[j] = b
    <3>1. k # 1
      BY <1>4, <1>7, <2>1
    <3>2. k - 1 \in 1..Len(backlog') /\ backlog'[k - 1] = backlog[(k - 1) + 1] /\ (k - 1) + 1 = k
      BY <1>4, <3>1
    <3> QED
      BY <2>1, <3>2
  <2>2. ASSUME NEW j \in 1..Len(backlog'), backlog'[j] = b PROVE \E k \in 1..Len(backlog) : backlog[k] = b
    <3>1. j + 1 \in 1..Len(backlog) /\ backlog'[j] = backlog[j + 1]
      BY <1>4
    <3> QED
      BY <2>2, <3>1
  <2> QED
    BY <1>0, <2>1, <2>2 DEF Accepted
<1>8. Held(d)'
  <2>1. file'[fd] = d /\ connfd' = fd /\ main' \in {"fork", "submit"}
    BY <1>0, <1>1, <1>5
  <2> QED
    BY <2>1, Zenon DEF Held
<1>9. ASSUME NEW b \in Clients, b # d PROVE Held(b)' <=> Held(b)
  <2>1. ~(\E f \in Fds : file'[f] = b /\ connfd' = f /\ main' \in {"fork", "submit"})
    BY <1>1, <1>5, <1>9
  <2>2. ~(\E f \in Fds : file[f] = b /\ connfd = f /\ main \in {"fork", "submit"})
    BY <1>0
  <2>3. \A k \in 1..Len(tasks) : file'[tasks[k]] = file[tasks[k]]
    BY <1>3, <1>5
  <2>4. \A w \in Workers : busy[w] # None => file'[busy[w]] = file[busy[w]]
    BY <1>3, <1>5
  <2>5. (\E k \in 1..Len(tasks') : file'[tasks'[k]] = b) <=> (\E k \in 1..Len(tasks) : file[tasks[k]] = b)
    BY <1>0, <2>3
  <2>6. (\E w \in Workers : busy'[w] # None /\ file'[busy'[w]] = b)
        <=> (\E w \in Workers : busy[w] # None /\ file[busy[w]] = b)
    BY <1>0, <2>4
  <2>7. kid'[b] = "doit" <=> kid[b] = "doit"
    BY <1>0
  <2> QED
    BY <2>1, <2>2, <2>5, <2>6, <2>7, Zenon DEF Held
<1>10. \A b \in Clients : (Finished(b)' <=> Finished(b)) /\ (Balanced(b)' <=> Balanced(b))
  BY <1>0 DEF Finished, Balanced, AtEof
<1>11. \A b \in Clients : Accepted(b)' /\ ~Held(b)' => Finished(b)'
  BY <1>7, <1>8, <1>9, <1>10 DEF CountInv
<1>12. \A b \in Clients : ~Accepted(b)' \/ Held(b)' => Balanced(b)'
  BY <1>4, <1>6, <1>7, <1>9, <1>10 DEF CountInv
<1>13. CountInv'
  BY <1>0, <1>11, <1>12 DEF CountInv
<1>14. \A b \in Clients : Accepted(b) => Accepted(b)' /\ b # d
  BY <1>6, <1>7
<1> QED
  BY <1>1, <1>3, <1>4, <1>5, <1>13, <1>14, <1>d

\* MultiProcessServer.
LEMMA ChildStep ==
    ASSUME ConnectionInv, CountInv, ChildInv, UNCHANGED at,
           MultiProcessMain \/ (\E c \in Clients : MultiProcessChild(c))
    PROVE  ConnectionInv' /\ CountInv' /\ ChildInv'
<1>0. /\ tasks = <<>> /\ busy = [w \in Workers |-> None] /\ kid \in [Clients -> {"none", "doit", "zombie"}]
      /\ file \in [Fds -> Clients \cup {None}] /\ None \notin Clients /\ \A k \in 1..Len(tasks) : FALSE
  BY EmptySeq, ClientFacts DEF ChildInv, ConnectionInv
<1>1. \A c : (\A k \in 1..Len(tasks) : file[tasks[k]] # c) /\ (\A w \in Workers : ~(busy[w] # None /\ file[busy[w]] = c))
  BY <1>0
<1>h. ASSUME NEW c \in Clients
      PROVE  Held(c) <=> \/ (\E f \in Fds : file[f] = c /\ connfd = f /\ main \in {"fork", "submit"})
                         \/ kid[c] = "doit"
  BY <1>1 DEF Held
<1>2. CASE AcceptConnfd("fork")
  <2>1. /\ ConnectionInv' /\ CountInv' /\ connfd' \in Fds /\ file[connfd'] = None
        /\ file'[connfd'] = Head(backlog) /\ Head(backlog) \in Clients
        /\ \A f \in Fds : f # connfd' => file'[f] = file[f]
        /\ \A b \in Clients : Accepted(b) => Accepted(b)' /\ b # Head(backlog)
    BY <1>0, <1>2, AcceptCount
  <2>2. main = "accept" /\ main' = "fork" /\ UNCHANGED <<tasks, busy, kid>>
    BY <1>2 DEF AcceptConnfd, poolVars
  <2>3. \A f \in Fds : file'[f] # None => f = connfd'
    BY <2>1, <2>2 DEF ChildInv
  <2>4. kid[Head(backlog)] = "none"
    BY <2>1 DEF ChildInv
  <2>5. \A c \in Clients : kid[c] # "none" => Accepted(c)'
    BY <2>1 DEF ChildInv
  <2>6. ChildInv'
    BY <1>0, <2>1, <2>2, <2>3, <2>4, <2>5 DEF ChildInv
  <2> QED
    BY <2>1, <2>6
<1>3. CASE ForkChild
  <2>1. /\ main = "fork" /\ main' = "close" /\ kid' = [kid EXCEPT ![file[connfd]] = "doit"]
        /\ UNCHANGED <<connfd, socketVars, tasks, busy>>
    BY <1>3 DEF ForkChild, poolVars
  <2>2. UNCHANGED <<todo, unread, reported, peer, backlog, file, listening>>
    BY <2>1 DEF socketVars
  <2>3. PICK d \in Clients : d = file[connfd] /\ connfd \in Fds
    BY <1>0, <2>1 DEF ChildInv
  <2>4. kid'[d] = "doit" /\ \A c \in Clients : c # d => kid'[c] = kid[c]
    BY <1>0, <2>1, <2>3
  <2>5. kid' \in [Clients -> {"none", "doit", "zombie"}]
    BY <1>0, <2>1, <2>3
  <2>6. Held(d)
    <3>1. \E f \in Fds : file[f] = d /\ connfd = f /\ main \in {"fork", "submit"}
      BY <2>1, <2>3
    <3> QED
      BY <1>h, <3>1
  <2>7. Held(d)'
    BY <2>4 DEF Held
  <2>8. ASSUME NEW c \in Clients, c # d PROVE Held(c)' <=> Held(c)
    <3>1. Held(c)' <=> kid'[c] = "doit"
      BY <1>1, <2>1, <2>2 DEF Held
    <3>2. ~(\E f \in Fds : file[f] = c /\ connfd = f /\ main \in {"fork", "submit"})
      BY <2>3, <2>8
    <3> QED
      BY <1>h, <2>4, <2>8, <3>1, <3>2
  <2>9. CountInv'
    BY <2>2, <2>6, <2>7, <2>8, MoveCount
  <2>10. ConnectionInv'
    BY <2>2 DEF ConnectionInv
  <2>11. Accepted(d)
    <3>1. peer[d] \notin {"new", "refused"} /\ \A k \in 1..Len(backlog) : backlog[k] # d
      BY <2>3 DEF ConnectionInv
    <3>2. peer[d] \in {"new", "connected", "closed", "refused"}
      BY DEF ConnectionInv
    <3> QED
      BY <3>1, <3>2 DEF Accepted
  <2>12. \A c \in Clients : kid'[c] # "none" => Accepted(c)'
    BY <2>2, <2>4, <2>11 DEF ChildInv, Accepted
  <2>13. ChildInv'
    BY <2>1, <2>2, <2>5, <2>12 DEF ChildInv
  <2> QED
    BY <2>9, <2>10, <2>13
<1>4. CASE ParentCloses
  <2>1. /\ main = "close" /\ main' = "accept" /\ file' = [file EXCEPT ![connfd] = None]
        /\ UNCHANGED <<listening, backlog, peer, todo, unread, reported, connfd, kid, tasks, busy>>
    BY <1>4 DEF ParentCloses, Close, poolVars
  <2>2. connfd \in Fds /\ \A f \in Fds : file'[f] = None
    BY <1>0, <2>1 DEF ChildInv
  <2>3. ASSUME NEW c \in Clients PROVE Held(c)' <=> Held(c)
    <3>1. Held(c)' <=> kid[c] = "doit"
      BY <1>0, <2>1 DEF Held
    <3> QED
      BY <1>h, <2>1, <3>1
  <2>4. CountInv'
    BY <2>1, <2>3, MoveCount
  <2>5. ConnectionInv'
    <3>1. file' \in [Fds -> Clients \cup {None}]
      BY <1>0, <2>1
    <3>2. \A k \in 1..Len(backlog) : backlog[k] # None
      BY ClientFacts, ElementOfSeq DEF ConnectionInv
    <3> QED
      BY <1>0, <2>1, <2>2, <3>1, <3>2 DEF ConnectionInv
  <2>6. \A c \in Clients : kid'[c] # "none" => Accepted(c)'
    BY <2>1 DEF ChildInv, Accepted
  <2>7. ChildInv'
    BY <2>1, <2>2, <2>6 DEF ChildInv
  <2> QED
    BY <2>4, <2>5, <2>7
<1>5. ASSUME NEW c \in Clients, ChildReads(c) PROVE ConnectionInv' /\ CountInv' /\ ChildInv'
  <2>1. kid[c] = "doit" /\ Doit(c) /\ UNCHANGED <<poolVars, doitVars>>
    BY <1>5 DEF ChildReads
  <2>2. Held(c)
    BY <2>1 DEF Held
  <2>3. ConnectionInv' /\ CountInv' /\ UNCHANGED <<file, peer, backlog, listening>>
    BY <2>1, <2>2, ReadCount
  <2>4. \A b \in Clients : Accepted(b)' <=> Accepted(b)
    BY <2>3 DEF Accepted
  <2>5. ChildInv'
    BY <2>1, <2>3, <2>4 DEF ChildInv, poolVars, doitVars
  <2> QED
    BY <2>3, <2>5
<1>6. ASSUME NEW c \in Clients, ChildExits(c) PROVE ConnectionInv' /\ CountInv' /\ ChildInv'
  <2>1. /\ kid[c] = "doit" /\ ReadEnd(c) /\ kid' = [kid EXCEPT ![c] = "zombie"]
        /\ UNCHANGED <<main, connfd, listening, backlog, peer, todo, file, tasks, busy>>
    BY <1>6 DEF ChildExits, poolVars
  <2>2. Held(c)
    BY <2>1 DEF Held
  <2>3. kid'[c] = "zombie" /\ \A b \in Clients : b # c => kid'[b] = kid[b]
    BY <1>0, <2>1
  <2>4. kid' \in [Clients -> {"none", "doit", "zombie"}]
    BY <1>0, <2>1
  <2>5. ~(\E f \in Fds : file[f] = c /\ connfd = f /\ main \in {"fork", "submit"})
    BY <2>1 DEF ChildInv
  <2>6. ~Held(c)'
    <3>1. kid'[c] # "doit"
      BY <2>3
    <3> QED
      BY <1>1, <2>1, <2>5, <3>1 DEF Held
  <2>7. \A b \in Clients : b # c => (Held(b)' <=> Held(b))
    BY <2>1, <2>3 DEF Held
  <2>8. Accepted(c)
    BY <2>1 DEF ChildInv
  <2>9. ConnectionInv' /\ CountInv'
    BY <2>1, <2>2, <2>6, <2>7, <2>8, EndCount
  <2>10. \A b \in Clients : Accepted(b)' <=> Accepted(b)
    BY <2>1 DEF Accepted
  <2>11. \A b \in Clients : kid'[b] # "none" => Accepted(b)'
    BY <2>3, <2>8, <2>10 DEF ChildInv
  <2>12. main = "fork" => kid'[file[connfd]] = "none"
    <3> SUFFICES ASSUME main = "fork" PROVE kid'[file[connfd]] = "none"
      OBVIOUS
    <3>1. file[connfd] \in Clients /\ kid[file[connfd]] = "none"
      BY <1>0 DEF ChildInv
    <3> QED
      BY <2>1, <2>3, <3>1
  <2>13. ChildInv'
    BY <2>1, <2>4, <2>11, <2>12 DEF ChildInv
  <2> QED
    BY <2>9, <2>13
<1> QED
  BY <1>2, <1>3, <1>4, <1>5, <1>6 DEF MultiProcessMain, MultiProcessChild

\* ThreadPools.
LEMMA TaskStep ==
    ASSUME ConnectionInv, CountInv, TaskInv, UNCHANGED at,
           ThreadPoolsMain \/ (\E w \in Workers : ThreadPoolsWorker(w))
    PROVE  ConnectionInv' /\ CountInv' /\ TaskInv'
<1>0. /\ tasks \in Seq(Fds) /\ busy \in [Workers -> Fds \cup {None}] /\ kid = [c \in Clients |-> "none"]
      /\ file \in [Fds -> Clients \cup {None}] /\ None \notin Clients /\ None \notin Fds
      /\ Len(tasks) \in Nat /\ \A k \in 1..Len(tasks) : tasks[k] \in Fds
  <2>1. tasks \in Seq(Fds) /\ busy \in [Workers -> Fds \cup {None}] /\ kid = [c \in Clients |-> "none"]
        /\ file \in [Fds -> Clients \cup {None}]
    BY DEF TaskInv, ConnectionInv
  <2>2. None \notin Clients /\ None \notin Fds
    BY ClientFacts, ClientsAssumption DEF Fds
  <2> QED
    BY <2>1, <2>2, ElementOfSeq, LenProperties
<1>2. CASE AcceptConnfd("submit")
  <2>1. /\ ConnectionInv' /\ CountInv' /\ connfd' \in Fds /\ file[connfd'] = None
        /\ file'[connfd'] = Head(backlog) /\ Head(backlog) \in Clients
        /\ \A f \in Fds : f # connfd' => file'[f] = file[f]
    <3>1. \A k \in 1..Len(tasks) : tasks[k] \in Fds /\ file[tasks[k]] # None
      BY <1>0 DEF TaskInv
    <3>2. \A w \in Workers : busy[w] # None => busy[w] \in Fds /\ file[busy[w]] # None
      BY <1>0 DEF TaskInv
    <3> QED
      BY <1>2, <3>1, <3>2, AcceptCount
  <2>2. main = "accept" /\ main' = "submit" /\ UNCHANGED <<tasks, busy, kid>>
    BY <1>2 DEF AcceptConnfd, poolVars
  <2>3. PICK fd \in Fds : fd = connfd' /\ file[fd] = None /\ file'[fd] # None
    BY <1>0, <2>1
  <2>4. \A k \in 1..Len(tasks) : tasks[k] # fd /\ file'[tasks[k]] # None
    BY <1>0, <2>1, <2>3 DEF TaskInv
  <2>5. \A w \in Workers : busy[w] # fd /\ (busy[w] # None => file'[busy[w]] # None)
    BY <1>0, <2>1, <2>3 DEF TaskInv
  <2>6. TaskInv'
    BY <1>0, <2>2, <2>3, <2>4, <2>5 DEF TaskInv
  <2> QED
    BY <2>1, <2>6
<1>3. CASE SubmitDoit
  <2>1. /\ main = "submit" /\ main' = "accept" /\ tasks' = Append(tasks, connfd)
        /\ UNCHANGED <<connfd, kid, busy, socketVars>>
    BY <1>3 DEF SubmitDoit, Submit
  <2>2. UNCHANGED <<todo, unread, reported, peer, backlog, file, listening>>
    BY <2>1 DEF socketVars
  <2>3. /\ connfd \in Fds /\ file[connfd] # None /\ (\A k \in 1..Len(tasks) : tasks[k] # connfd)
        /\ \A w \in Workers : busy[w] # connfd
    BY <2>1 DEF TaskInv
  <2>4. /\ tasks' \in Seq(Fds) /\ Len(tasks') = Len(tasks) + 1 /\ tasks'[Len(tasks) + 1] = connfd
        /\ \A k \in 1..Len(tasks) : tasks'[k] = tasks[k]
    BY <1>0, <2>1, <2>3, AppendProperties
  <2>5. /\ \A k \in 1..Len(tasks') : k \in 1..Len(tasks) \/ k = Len(tasks) + 1
        /\ Len(tasks) + 1 \in 1..Len(tasks') /\ \A k \in 1..Len(tasks) : k \in 1..Len(tasks')
    BY <1>0, <2>4
  <2>6. ASSUME NEW c \in Clients PROVE Held(c)' <=> Held(c)
    <3>1. (\E k \in 1..Len(tasks') : file[tasks'[k]] = c) <=> (\E k \in 1..Len(tasks) : file[tasks[k]] = c) \/ file[connfd] = c
      BY <2>4, <2>5
    <3>2. (\E f \in Fds : file[f] = c /\ connfd = f /\ main \in {"fork", "submit"}) <=> file[connfd] = c
      BY <2>1, <2>3
    <3>3. ~(\E f \in Fds : file'[f] = c /\ connfd' = f /\ main' \in {"fork", "submit"})
      BY <2>1
    <3>4. Held(c)' <=> \/ \E k \in 1..Len(tasks') : file[tasks'[k]] = c
                       \/ \E w \in Workers : busy[w] # None /\ file[busy[w]] = c
                       \/ kid[c] = "doit"
      BY <2>1, <2>2, <3>3 DEF Held
    <3> QED
      BY <3>1, <3>2, <3>4 DEF Held
  <2>7. CountInv'
    BY <2>2, <2>6, MoveCount
  <2>8. ConnectionInv'
    BY <2>2 DEF ConnectionInv
  <2>9. \A k \in 1..Len(tasks') : file'[tasks'[k]] # None /\ \A w \in Workers : busy[w] # tasks'[k]
    BY <2>2, <2>3, <2>4, <2>5 DEF TaskInv
  <2>10. ASSUME NEW j \in 1..Len(tasks'), NEW k \in 1..Len(tasks'), tasks'[j] = tasks'[k] PROVE j = k
    <3>1. CASE j \in 1..Len(tasks) /\ k \in 1..Len(tasks)
      BY <2>4, <2>10, <3>1 DEF TaskInv
    <3>2. CASE j \in 1..Len(tasks) /\ k = Len(tasks) + 1
      BY <2>3, <2>4, <2>10, <3>2
    <3>3. CASE j = Len(tasks) + 1 /\ k \in 1..Len(tasks)
      BY <2>3, <2>4, <2>10, <3>3
    <3> QED
      BY <2>5, <3>1, <3>2, <3>3
  <2>11. TaskInv'
    BY <2>1, <2>2, <2>4, <2>9, <2>10 DEF TaskInv
  <2> QED
    BY <2>7, <2>8, <2>11
<1>4. ASSUME NEW w \in Workers, TakeDoit(w) PROVE ConnectionInv' /\ CountInv' /\ TaskInv'
  <2>1. /\ busy[w] = None /\ tasks # <<>> /\ busy' = [busy EXCEPT ![w] = Head(tasks)] /\ tasks' = Tail(tasks)
        /\ UNCHANGED <<main, connfd, kid, socketVars>>
    BY <1>4 DEF TakeDoit, Take, doitVars
  <2>2. UNCHANGED <<todo, unread, reported, peer, backlog, file, listening>>
    BY <2>1 DEF socketVars
  <2>3. /\ tasks' \in Seq(Fds) /\ Len(tasks') = Len(tasks) - 1 /\ Head(tasks) = tasks[1]
        /\ \A k \in 1..Len(tasks') : tasks'[k] = tasks[k + 1]
    BY <1>0, <2>1, HeadTailProperties
  <2>4. Len(tasks) # 0
    BY <1>0, <2>1, EmptySeq
  <2>5. 1 \in 1..Len(tasks) /\ \A k \in 1..Len(tasks') : k + 1 \in 1..Len(tasks) /\ k + 1 # 1
    BY <1>0, <2>3, <2>4
  <2>6. \A k \in 1..Len(tasks) : k = 1 \/ (k - 1 \in 1..Len(tasks') /\ tasks'[k - 1] = tasks[k])
    <3>1. ASSUME NEW k \in 1..Len(tasks), k # 1 PROVE k - 1 \in 1..Len(tasks') /\ (k - 1) + 1 = k
      BY <1>0, <2>3, <3>1
    <3> QED
      BY <2>3, <3>1
  <2>7. PICK fd \in Fds : fd = tasks[1] /\ fd = Head(tasks) /\ fd # None
    BY <1>0, <2>3, <2>5
  <2>8. busy' \in [Workers -> Fds \cup {None}] /\ busy'[w] = fd /\ \A v \in Workers : v # w => busy'[v] = busy[v]
    BY <1>0, <2>1, <2>7
  <2>9. ASSUME NEW c \in Clients PROVE Held(c)' <=> Held(c)
    <3>1. (\E k \in 1..Len(tasks) : file[tasks[k]] = c) <=> (\E k \in 1..Len(tasks') : file[tasks'[k]] = c) \/ file[fd] = c
      <4>1. ASSUME NEW k \in 1..Len(tasks), file[tasks[k]] = c
            PROVE  (\E j \in 1..Len(tasks') : file[tasks'[j]] = c) \/ file[fd] = c
        <5>1. CASE k = 1
          BY <2>7, <4>1, <5>1
        <5>2. CASE k # 1
          <6>1. k - 1 \in 1..Len(tasks') /\ tasks'[k - 1] = tasks[k]
            BY <2>6, <5>2
          <6> QED
            BY <4>1, <6>1
        <5> QED
          BY <5>1, <5>2
      <4>2. ASSUME NEW j \in 1..Len(tasks'), file[tasks'[j]] = c PROVE \E k \in 1..Len(tasks) : file[tasks[k]] = c
        <5>1. j + 1 \in 1..Len(tasks) /\ tasks'[j] = tasks[j + 1]
          BY <2>3, <2>5
        <5> QED
          BY <4>2, <5>1
      <4>3. file[fd] = c => \E k \in 1..Len(tasks) : file[tasks[k]] = c
        BY <2>5, <2>7
      <4> QED
        BY <4>1, <4>2, <4>3
    <3>2. (\E v \in Workers : busy'[v] # None /\ file[busy'[v]] = c)
          <=> (\E v \in Workers : busy[v] # None /\ file[busy[v]] = c) \/ file[fd] = c
      BY <2>1, <2>7, <2>8
    <3>3. Held(c)' <=> \/ \E f \in Fds : file[f] = c /\ connfd = f /\ main \in {"fork", "submit"}
                       \/ \E k \in 1..Len(tasks') : file[tasks'[k]] = c
                       \/ \E v \in Workers : busy'[v] # None /\ file[busy'[v]] = c
                       \/ kid[c] = "doit"
      BY <2>1, <2>2 DEF Held
    <3> QED
      BY <3>1, <3>2, <3>3 DEF Held
  <2>10. CountInv'
    BY <2>2, <2>9, MoveCount
  <2>11. ConnectionInv'
    BY <2>2 DEF ConnectionInv
  <2>12. file[fd] # None /\ \A v \in Workers : busy[v] # fd
    BY <2>5, <2>7 DEF TaskInv
  <2>13. \A k \in 1..Len(tasks') : tasks'[k] # fd
    BY <2>3, <2>5, <2>7 DEF TaskInv
  <2>14. \A k \in 1..Len(tasks') : file[tasks'[k]] # None /\ \A v \in Workers : busy[v] # tasks'[k]
    BY <2>3, <2>5 DEF TaskInv
  <2>15. \A k \in 1..Len(tasks') : \A v \in Workers : busy'[v] # tasks'[k]
    BY <2>8, <2>13, <2>14
  <2>16. \A v \in Workers : busy'[v] # None => file[busy'[v]] # None
    BY <2>8, <2>12 DEF TaskInv
  <2>17. \A u, v \in Workers : busy'[v] # None /\ busy'[v] = busy'[u] => v = u
    BY <2>8, <2>12 DEF TaskInv
  <2>18. ASSUME NEW j \in 1..Len(tasks'), NEW k \in 1..Len(tasks'), tasks'[j] = tasks'[k] PROVE j = k
    <3>1. j + 1 = k + 1
      BY <2>3, <2>5, <2>18 DEF TaskInv
    <3>2. j \in Int /\ k \in Int
      BY <1>0, <2>3
    <3> QED
      BY <3>1, <3>2
  <2>19. ASSUME main = "submit"
         PROVE  (\A k \in 1..Len(tasks') : tasks'[k] # connfd) /\ (\A v \in Workers : busy'[v] # connfd)
    <3>1. (\A k \in 1..Len(tasks) : tasks[k] # connfd) /\ (\A v \in Workers : busy[v] # connfd)
      BY <2>19 DEF TaskInv
    <3> QED
      BY <2>3, <2>5, <2>7, <2>8, <3>1
  <2>20. TaskInv'
    <3>1. \A k \in 1..Len(tasks') : file'[tasks'[k]] # None
      BY <2>2, <2>14
    <3>2. \A v \in Workers : busy'[v] # None => file'[busy'[v]] # None
      BY <2>2, <2>16
    <3>3. main' \in {"accept", "submit"} /\ kid' = [c \in Clients |-> "none"]
      BY <1>0, <2>1 DEF TaskInv
    <3>4. main' = "submit" => /\ connfd' \in Fds /\ file'[connfd'] # None
                              /\ \A k \in 1..Len(tasks') : tasks'[k] # connfd'
                              /\ \A v \in Workers : busy'[v] # connfd'
      BY <2>1, <2>2, <2>19 DEF TaskInv
    <3> QED
      BY <2>3, <2>8, <2>15, <2>17, <2>18, <3>1, <3>2, <3>3, <3>4 DEF TaskInv
  <2> QED
    BY <2>10, <2>11, <2>20
<1>5. ASSUME NEW w \in Workers, WorkerReads(w) PROVE ConnectionInv' /\ CountInv' /\ TaskInv'
  <2>1. busy[w] # None /\ Doit(file[busy[w]]) /\ UNCHANGED <<poolVars, doitVars>>
    BY <1>5 DEF WorkerReads
  <2>2. PICK c \in Clients : c = file[busy[w]]
    BY <1>0, <2>1 DEF TaskInv
  <2>3. Held(c)
    BY <2>1, <2>2 DEF Held
  <2>4. ConnectionInv' /\ CountInv' /\ UNCHANGED <<file, peer, backlog, listening>>
    BY <2>1, <2>2, <2>3, ReadCount
  <2>5. TaskInv'
    BY <2>1, <2>4 DEF TaskInv, poolVars, doitVars
  <2> QED
    BY <2>4, <2>5
<1>6. ASSUME NEW w \in Workers, WorkerReturns(w) PROVE ConnectionInv' /\ CountInv' /\ TaskInv'
  <2>1. /\ busy[w] # None /\ ReadEnd(file[busy[w]]) /\ busy' = [busy EXCEPT ![w] = None]
        /\ UNCHANGED <<main, connfd, kid, listening, backlog, peer, todo, file, tasks>>
    BY <1>6 DEF WorkerReturns, TaskReturns, doitVars
  <2>2. PICK fd \in Fds : fd = busy[w]
    BY <1>0, <2>1
  <2>3. PICK c \in Clients : c = file[fd]
    BY <1>0, <2>1, <2>2 DEF TaskInv
  <2>4. \A f \in Fds : file[f] = c => f = fd
    BY <1>0, <2>3 DEF ConnectionInv
  <2>5. busy' \in [Workers -> Fds \cup {None}] /\ busy'[w] = None /\ \A v \in Workers : v # w => busy'[v] = busy[v]
    BY <1>0, <2>1
  <2>6. Held(c)
    BY <2>1, <2>2, <2>3 DEF Held
  <2>7. ~Held(c)'
    <3>1. ~(\E f \in Fds : file[f] = c /\ connfd = f /\ main \in {"fork", "submit"})
      <4>1. main = "submit" => connfd # fd
        BY <2>2 DEF TaskInv
      <4>2. main \in {"fork", "submit"} => main = "submit"
        BY DEF TaskInv
      <4> QED
        BY <2>4, <4>1, <4>2
    <3>2. ~(\E k \in 1..Len(tasks) : file[tasks[k]] = c)
      BY <1>0, <2>2, <2>4 DEF TaskInv
    <3>3. ~(\E v \in Workers : busy'[v] # None /\ file[busy'[v]] = c)
      BY <1>0, <2>2, <2>4, <2>5 DEF TaskInv
    <3>4. kid[c] # "doit"
      BY <1>0
    <3> QED
      BY <2>1, <3>1, <3>2, <3>3, <3>4 DEF Held
  <2>8. ASSUME NEW b \in Clients, b # c PROVE Held(b)' <=> Held(b)
    <3>1. (\E v \in Workers : busy'[v] # None /\ file[busy'[v]] = b)
          <=> (\E v \in Workers : busy[v] # None /\ file[busy[v]] = b)
      BY <2>2, <2>3, <2>5, <2>8
    <3> QED
      BY <2>1, <3>1 DEF Held
  <2>9. Accepted(c)
    <3>1. peer[c] \notin {"new", "refused"} /\ \A k \in 1..Len(backlog) : backlog[k] # c
      BY <2>3 DEF ConnectionInv
    <3>2. peer[c] \in {"new", "connected", "closed", "refused"}
      BY DEF ConnectionInv
    <3> QED
      BY <3>1, <3>2 DEF Accepted
  <2>10. ConnectionInv' /\ CountInv'
    BY <2>1, <2>2, <2>3, <2>6, <2>7, <2>8, <2>9, EndCount
  <2>11. /\ \A v \in Workers : busy'[v] = None \/ busy'[v] = busy[v]
         /\ \A u, v \in Workers : busy'[v] # None /\ busy'[v] = busy'[u] => v = u
    BY <2>5 DEF TaskInv
  <2>12. /\ \A v \in Workers : busy'[v] # None => file[busy'[v]] # None
         /\ \A k \in 1..Len(tasks) : \A v \in Workers : busy'[v] # tasks[k]
         /\ main = "submit" => \A v \in Workers : busy'[v] # connfd
    BY <1>0, <2>11 DEF TaskInv
  <2>13. TaskInv'
    BY <2>1, <2>5, <2>11, <2>12 DEF TaskInv
  <2> QED
    BY <2>10, <2>13
<1> QED
  BY <1>2, <1>3, <1>4, <1>5, <1>6 DEF ThreadPoolsMain, ThreadPoolsWorker

-----------------------------------------------------------------------------
(* The servers together                                                    *)

LEMMA NetworkInit == Init => IInv
<1> SUFFICES ASSUME Init PROVE IInv
  OBVIOUS
<1>1. SocketsInit /\ (IF server_type = POLL THEN MuxInit(1) ELSE MuxInit(0))
  BY DEF Init
<1>2. /\ listening = FALSE /\ backlog = <<>> /\ peer = [c \in Clients |-> "new"]
      /\ unread = [c \in Clients |-> 0] /\ file = [f \in Fds |-> None]
      /\ todo = [c \in Clients |-> Messages] /\ reported = [c \in Clients |-> 0] /\ Messages \in Int
  BY <1>1, BoundsAssumption DEF SocketsInit
<1>3. /\ at = "wait" /\ client = [s \in Slots |-> IF s < First THEN Listen ELSE -1]
      /\ maxi = First - 1 /\ allset = {Listen} /\ maxfd = Listen
  BY <1>1 DEF MuxInit, First
<1>4. \A f \in Fds : file[f] = None
  BY <1>2
<1>5. ConnectionInv
  <2>1. backlog \in Seq(Clients) /\ Len(backlog) = 0 /\ \A k \in 1..Len(backlog) : FALSE
    BY <1>2, EmptySeq
  <2> QED
    BY <1>2, <1>3, <1>4, <2>1, ClientFacts DEF ConnectionInv
<1>6. ASSUME DoitServer PROVE CountInv
  <2>1. \A c \in Clients : ~Accepted(c) /\ peer[c] # "closed"
    BY <1>2 DEF Accepted
  <2>2. \A c \in Clients : Balanced(c)
    BY <1>2 DEF Balanced
  <2> QED
    BY <1>2, <2>1, <2>2 DEF CountInv
<1>7. /\ tasks = <<>> /\ busy = [w \in Workers |-> None] /\ main = "accept" /\ kid = [c \in Clients |-> "none"]
  BY DEF Init, PoolInit, DoitInit
<1>8. ChildInv
  BY <1>4, <1>7 DEF ChildInv
<1>9. TaskInv
  <2>1. tasks \in Seq(Fds) /\ \A k \in 1..Len(tasks) : FALSE
    BY <1>7, EmptySeq
  <2> QED
    BY <1>7, <2>1 DEF TaskInv
<1>10. ASSUME Multiplexer PROVE TableInv /\ PassInv
  <2>1. revents \in [Slots -> BOOLEAN]
    <3>1. revents \in [Slots -> {FALSE}] \/ revents \in [Slots -> BOOLEAN]
      BY <1>1 DEF MuxInit
    <3> QED
      BY <3>1
  <2>2. First \in {0, 1} /\ Size \in Nat /\ Size > 0 /\ Cardinality(Clients) \in Nat
    BY ClientFacts DEF First
  <2>3. TableInv
    <3>1. client \in [Slots -> Int]
      BY <1>3 DEF Listen
    <3>2. \A s \in First..(Size - 1) : s \in Slots /\ ~(s < First)
      BY <2>2 DEF Slots
    <3>3. \A s \in First..(Size - 1) : client[s] = -1
      BY <1>3, <3>2
    <3>5. server_type = POLL => client[0] = Listen
      BY <1>3, <2>2 DEF First, Slots
    <3>6. maxi \in (First - 1)..(Size - 1)
      BY <1>3, <2>2
    <3>7. OpenFds = {}
      BY <1>4 DEF OpenFds
    <3> QED
      BY <1>3, <1>4, <3>1, <3>3, <3>5, <3>6, <3>7 DEF TableInv, Listen
  <2> QED
    BY <1>3, <2>1, <2>3 DEF PassInv
<1> QED
  BY <1>5, <1>6, <1>8, <1>9, <1>10 DEF IInv

LEMMA NetworkStep == IInv /\ [Next]_vars => IInv'
<1> SUFFICES ASSUME IInv, [Next]_vars PROVE IInv'
  OBVIOUS
<1>0. server_type' = server_type
  BY DEF Next, vars, StartServer, RunClient, RunChild, RunMain, RunMultiProcess, RunThreadPools,
         RunSelect, RunPoll, RunEPoll, RunWorker
<1>1. ASSUME Multiplexer PROVE ConnectionInv' /\ TableInv' /\ PassInv'
  <2>0. ConnectionInv /\ TableInv /\ PassInv
    BY <1>1 DEF IInv
  <2>1. server_type # MULTI_P /\ server_type # SINGLE_P_MULTI_T /\ server_type # EPOLL
    BY <1>1 DEF Multiplexer, MULTI_P, SINGLE_P_MULTI_T, SELECT, POLL, EPOLL
  <2>2. CASE RunSelect
    BY <2>0, <2>2, SelectStep DEF RunSelect
  <2>3. CASE RunPoll
    BY <2>0, <2>3, PollStep DEF RunPoll
  <2>4. CASE (StartServer \/ UNCHANGED vars) \/ (\E c \in Clients : RunClient(c))
    BY <2>0, <2>4, QuietStep
  <2> QED
    BY <2>1, <2>2, <2>3, <2>4
    DEF Next, RunMain, RunMultiProcess, RunThreadPools, RunEPoll, RunChild, RunWorker
<1>2. ASSUME DoitServer
      PROVE  /\ ConnectionInv' /\ CountInv'
             /\ server_type = MULTI_P => ChildInv'
             /\ server_type = SINGLE_P_MULTI_T => TaskInv'
  <2>0. /\ ConnectionInv /\ CountInv
        /\ server_type = MULTI_P => ChildInv
        /\ server_type = SINGLE_P_MULTI_T => TaskInv
    BY <1>2 DEF IInv
  <2>1. /\ server_type # SELECT /\ server_type # POLL /\ server_type # EPOLL
        /\ server_type = MULTI_P => server_type # SINGLE_P_MULTI_T
    BY <1>2 DEF DoitServer, MULTI_P, SINGLE_P_MULTI_T, SELECT, POLL, EPOLL
  <2>2. CASE RunMultiProcess \/ (\E c \in Clients : RunChild(c))
    <3>1. /\ server_type = MULTI_P /\ UNCHANGED at
          /\ MultiProcessMain \/ (\E c \in Clients : MultiProcessChild(c))
      BY <2>2 DEF RunMultiProcess, RunChild, muxVars
    <3> QED
      BY <2>0, <2>1, <3>1, ChildStep
  <2>3. CASE RunThreadPools \/ (\E w \in Workers : RunWorker(w))
    <3>1. /\ server_type = SINGLE_P_MULTI_T /\ UNCHANGED at
          /\ ThreadPoolsMain \/ (\E w \in Workers : ThreadPoolsWorker(w))
      BY <2>1, <2>3 DEF RunThreadPools, RunWorker, muxVars
    <3> QED
      BY <2>0, <2>1, <3>1, TaskStep
  <2>4. ASSUME UNCHANGED <<file, main, connfd, tasks, busy, kid>>,
               \A c \in Clients : Accepted(c) => Accepted(c)'
        PROVE  (ChildInv => ChildInv') /\ (TaskInv => TaskInv')
    BY <2>4 DEF ChildInv, TaskInv
  <2>5. CASE StartServer \/ UNCHANGED vars
    <3>1. /\ UNCHANGED <<file, backlog, peer, todo, unread, reported, at, main, connfd, tasks, busy, kid>>
          /\ listening => listening'
      BY <2>5 DEF StartServer, InitUnServer, vars, socketVars, muxVars, poolVars, doitVars
    <3>2. ConnectionInv'
      BY <2>0, <3>1 DEF ConnectionInv
    <3>3. \A c \in Clients : (Held(c)' <=> Held(c)) /\ (Accepted(c)' <=> Accepted(c))
      BY <3>1 DEF Held, Accepted
    <3> QED
      BY <2>0, <2>4, <3>1, <3>2, <3>3, MoveCount
  <2>6. ASSUME NEW c \in Clients, RunClient(c)
        PROVE  ConnectionInv' /\ CountInv' /\ (ChildInv => ChildInv') /\ (TaskInv => TaskInv')
    <3>1. ClientStep(c) /\ UNCHANGED <<poolVars, doitVars, muxVars>>
      BY <2>6 DEF RunClient
    <3>2. UNCHANGED <<at, file, main, connfd, tasks, busy, kid>>
      BY <3>1 DEF muxVars, poolVars, doitVars, ClientStep, Connect, ConnectRefused, Send, CloseClient
    <3>3. ConnectionInv' /\ CountInv'
      BY <2>0, <3>1, <3>2, ClientConnections, ClientCount
    <3>4. \A b \in Clients : Accepted(b) => Accepted(b)'
      BY <2>0, <3>1, ClientKeepsAccepted
    <3> QED
      BY <2>4, <3>2, <3>3, <3>4
  <2> QED
    BY <2>0, <2>1, <2>2, <2>3, <2>5, <2>6 DEF Next, RunMain, RunSelect, RunPoll, RunEPoll
<1> QED
  BY <1>0, <1>1, <1>2 DEF IInv, DoitServer, Multiplexer

LEMMA NetworkAlways == Spec => []IInv
BY NetworkInit, NetworkStep, PTL DEF Spec

\* In MultiProcessServer and ThreadPools no two tasks or children ever have one connection,
\* and none is given up before the end of file and the last message, for any number of
\* clients, messages and workers: un->connfd is overwritten only when its value is safe.
THEOREM ReadByOne == Spec => []OneReader
<1>1. IInv => OneReader
  <2> SUFFICES ASSUME IInv, DoitServer, NEW c \in Clients
               PROVE  /\ \A x, y \in Readers(c) : x = y
                      /\ Accepted(c) /\ Readers(c) = {} => AtEof(c) /\ reported[c] = Messages + 1
    BY DEF OneReader, DoitServer
  <2>0. ConnectionInv /\ CountInv /\ None \notin Clients
    BY ClientFacts DEF IInv
  <2>1. Accepted(c) /\ Readers(c) = {} => AtEof(c) /\ reported[c] = Messages + 1
    BY <2>0, HeldReaders DEF CountInv, Finished
  <2>2. ASSUME ChildInv, NEW x \in Readers(c), NEW y \in Readers(c) PROVE x = y
    <3>1. {j \in 1..Len(tasks) : file[tasks[j]] = c} = {} /\ {v \in Workers : busy[v] # None /\ file[busy[v]] = c} = {}
      BY <2>2, EmptySeq DEF ChildInv
    <3>2. \A z \in Readers(c) : \/ z = <<"main", connfd>> /\ main = "fork" /\ file[connfd] = c
                                \/ z = <<"child", c>> /\ kid[c] = "doit"
      BY <2>2, <3>1 DEF Readers, ChildInv
    <3>3. main = "fork" /\ file[connfd] = c => kid[c] = "none"
      BY <2>2 DEF ChildInv
    <3> QED
      BY <3>2, <3>3
  <2>3. ASSUME TaskInv, NEW x \in Readers(c), NEW y \in Readers(c) PROVE x = y
    <3> DEFINE Held1 == main = "submit" /\ file[connfd] = c
    <3>0. \A k \in 1..Len(tasks) : tasks[k] \in Fds
      BY <2>3, ElementOfSeq, LenProperties DEF TaskInv
    <3>1. \A z \in Readers(c) : \/ z = <<"main", connfd>> /\ Held1
                                \/ \E k \in 1..Len(tasks) : z = <<"task", k>> /\ file[tasks[k]] = c
                                \/ \E v \in Workers : z = <<"worker", v>> /\ busy[v] # None /\ file[busy[v]] = c
      BY <2>3 DEF Readers, TaskInv
    <3>2. \A f, g \in Fds : file[f] = c /\ file[g] = c => f = g
      BY <2>0 DEF ConnectionInv
    <3>3. \A j, k \in 1..Len(tasks) : file[tasks[j]] = c /\ file[tasks[k]] = c => j = k
      BY <2>3, <3>0, <3>2 DEF TaskInv
    <3>4. \A v, w \in Workers : busy[v] # None /\ busy[w] # None /\ file[busy[v]] = c /\ file[busy[w]] = c => v = w
      BY <2>3, <3>2 DEF TaskInv
    <3>5. \A k \in 1..Len(tasks) : \A w \in Workers : ~(file[tasks[k]] = c /\ busy[w] # None /\ file[busy[w]] = c)
      BY <2>3, <3>0, <3>2 DEF TaskInv
    <3>6. Held1 => /\ \A k \in 1..Len(tasks) : file[tasks[k]] # c
                   /\ \A w \in Workers : busy[w] # None => file[busy[w]] # c
      BY <2>3, <3>0, <3>2 DEF TaskInv
    <3> HIDE DEF Held1
    <3> QED
      BY <3>1, <3>3, <3>4, <3>5, <3>6
  <2> QED
    BY <2>1, <2>2, <2>3 DEF IInv, DoitServer
<1> QED
  BY <1>1, NetworkAlways, PTL

\* SelectServer and PollServer know exactly the descriptors they have open, for a table of
\* any size that has room for the clients.
THEOREM TableIsExact == Spec => []TableMatchesFds
<1>1. IInv => TableMatchesFds
  <2> SUFFICES ASSUME IInv, Multiplexer PROVE TableMatchesFds
    BY DEF Multiplexer, TableMatchesFds
  <2> DEFINE used == {s \in Slots : client[s] > Listen}
  <2>0. TableInv
    BY DEF IInv
  <2>1. First \in {0, 1} /\ Size \in Nat
    BY ClientFacts DEF First
  <2>2. ASSUME NEW s \in Slots
        PROVE  client[s] > Listen <=> s \in First..(Size - 1) /\ client[s] # -1
    <3>1. CASE s \in First..(Size - 1)
      <4>1. client[s] = -1 \/ client[s] \in Fds
        BY <2>0, <3>1 DEF TableInv
      <4>2. client[s] \in Fds => client[s] \in Nat \ {0}
        BY ClientFacts
      <4>3. client[s] = -1 \/ client[s] \in Nat \ {0}
        BY <4>1, <4>2
      <4> QED
        BY <3>1, <4>3 DEF Listen
    <3>2. CASE s \notin First..(Size - 1)
      <4>1. server_type = POLL /\ s = 0
        BY <2>1, <3>2 DEF Slots, First
      <4>2. client[s] = 0
        BY <2>0, <4>1 DEF TableInv, Listen
      <4> QED
        BY <3>2, <4>2 DEF Listen
    <3> QED
      BY <3>1, <3>2
  <2>3. \A s \in First..(Size - 1) : s \in Slots
    BY <2>1 DEF Slots
  <2>4. \A s : s \in used <=> s \in First..(Size - 1) /\ client[s] # -1
    BY <2>2, <2>3
  <2> HIDE DEF used
  <2>5. {client[s] : s \in used} = OpenFds
    <3>1. ASSUME NEW s \in used PROVE client[s] \in OpenFds
      BY <2>0, <2>4 DEF TableInv, OpenFds
    <3>2. ASSUME NEW f \in OpenFds PROVE \E s \in used : client[s] = f
      <4>1. f \in Fds /\ file[f] # None /\ f # -1
        BY ClientFacts DEF OpenFds
      <4>2. PICK s \in First..(Size - 1) : client[s] = f
        BY <2>0, <4>1 DEF TableInv
      <4> QED
        BY <2>4, <4>1, <4>2
    <3> QED
      BY <3>1, <3>2
  <2>6. \A s \in used : s <= maxi /\ \A r \in used : client[r] = client[s] => r = s
    BY <2>0, <2>4 DEF TableInv
  <2>7. ASSUME server_type = SELECT PROVE allset = OpenFds \cup {Listen} /\ \A fd \in allset : fd <= maxfd
    BY <2>0, <2>7 DEF TableInv, Listen
  <2> QED
    BY <2>5, <2>6, <2>7 DEF TableMatchesFds, used
<1> QED
  BY <1>1, NetworkAlways, PTL

\* nready of SelectServer is the number of ready entries from the scan index on.
THEOREM NothingSkipped == Spec => []NreadyExact
<1>1. IInv => NreadyExact
  <2> SUFFICES ASSUME IInv, server_type = SELECT, at = "scan"
               PROVE  nready = Cardinality({s \in i..maxi : client[s] > Listen /\ client[s] \in rset})
    BY DEF NreadyExact
  <2>0. Multiplexer /\ TableInv /\ PassInv /\ server_type # POLL
    BY DEF IInv, Multiplexer, SELECT, POLL
  <2>1. i \in Nat /\ First = 0 /\ maxi \in Int /\ maxi <= Size - 1 /\ Size \in Nat
    BY <2>0, ClientFacts DEF PassInv, TableInv, First
  <2>2. PICK top \in -1..maxi : ScanTo(top)
    BY <2>0 DEF PassInv
  <2>3. top = maxi /\ nready = Cardinality(Ready(i, top))
    BY <2>0, <2>2 DEF ScanTo
  <2>4. ASSUME NEW s \in i..maxi PROVE client[s] > Listen <=> client[s] # -1
    <3>1. s \in First..(Size - 1)
      BY <2>1
    <3>2. client[s] = -1 \/ client[s] \in Fds
      BY <2>0, <3>1 DEF TableInv
    <3>3. client[s] \in Fds => client[s] \in Nat \ {0}
      BY ClientFacts
    <3>4. client[s] = -1 \/ client[s] \in Nat \ {0}
      BY <3>2, <3>3
    <3> QED
      BY <3>4 DEF Listen
  <2>5. Ready(i, top) = {s \in i..maxi : client[s] > Listen /\ client[s] \in rset}
    BY <2>3, <2>4 DEF Ready, Marked
  <2> QED
    BY <2>3, <2>5
<1> QED
  BY <1>1, NetworkAlways, PTL

\* Neither multiplexer ever sleeps in Accept or Read, although PollServer may find any
\* content in the revents of an entry it has just filled.
THEOREM NeverBlocks == Spec => []MultiplexerNeverBlocks
<1>1. IInv => MultiplexerNeverBlocks
  <2> SUFFICES ASSUME IInv, Multiplexer PROVE MultiplexerNeverBlocks
    BY DEF Multiplexer, MultiplexerNeverBlocks
  <2>0. ConnectionInv /\ TableInv /\ PassInv
    BY DEF IInv
  <2>1. ASSUME ~Failed, at = "accept", NewWaits PROVE backlog # <<>>
    BY <2>0, <2>1 DEF PassInv, AcceptInv
  <2>2. ASSUME ~Failed, at = "scan", i <= maxi, client[i] >= 0, Marked(i) PROVE Readable(file[client[i]])
    <3>1. PICK top \in -1..maxi : ScanTo(top)
      BY <2>0, <2>2 DEF PassInv
    <3>2. i \in Nat /\ i >= First /\ maxi \in Int /\ top \in Int
      BY <2>0, <2>2 DEF PassInv, TableInv
    <3>3. i <= top
      BY <2>0, <2>2, <3>1, <3>2, ScanWithin
    <3>4. client[i] # -1
      BY <2>0, <2>2, ReadingFacts
    <3>5. i \in Ready(i, top)
      BY <2>2, <3>2, <3>3, <3>4 DEF Ready
    <3> QED
      BY <3>1, <3>5 DEF ScanTo
  <2>3. server_type = SELECT => (Marked(i) <=> client[i] \in rset) /\ (NewWaits <=> Listen \in rset)
    BY DEF Marked, NewWaits
  <2>4. server_type = POLL => (Marked(i) <=> revents[i]) /\ (NewWaits <=> revents[0])
    BY DEF Marked, NewWaits, SELECT, POLL
  <2> QED
    BY <2>1, <2>2, <2>3, <2>4 DEF MultiplexerNeverBlocks, SelectReading, PollReading
<1> QED
  BY <1>1, NetworkAlways, PTL

=============================================================================
