----------------------------- MODULE EPollServer -----------------------------
(***************************************************************************)
(* EPollServer and DoUseFd of codesnip/src/net/net.cpp.  The listening      *)
(* socket is watched level-triggered, every connection edge-triggered: an    *)
(* arrival is reported once, whatever is left unread.  Each report becomes   *)
(* a task of the pool, a single blocking Read.                             *)
(***************************************************************************)
EXTENDS ServerPool

CONSTANT MaxEvents   \* MAX_EVENTS

ASSUME MaxEventsAssumption == MaxEvents \in Nat \ {0}

VARIABLES
    interest,   \* connections added with epoll_ctl
    events      \* descriptors reported by epoll_wait and not yet handled

epollVars == <<interest, events>>

EPollInit ==
    /\ interest = {}
    /\ events = {}

\* What epoll_wait has to report: connections with an arrival since they were
\* last reported, if it has not been read meanwhile, and the listening socket
\* while something is to be accepted.
EPollReady ==
    {fd \in interest : file[fd] \in latched /\ Readable(file[fd])} \cup
    (IF backlog # <<>> THEN {Listen} ELSE {})

\* Up to MAX_EVENTS of them, in no particular order.
EPollWait ==
    /\ listening /\ events = {} /\ EPollReady # {}
    /\ \E es \in SUBSET EPollReady :
        /\ es # {} /\ Cardinality(es) <= MaxEvents
        /\ Cardinality(es) < MaxEvents => es = EPollReady
        /\ events' = es
        /\ latched' = latched \ {file[fd] : fd \in es \ {Listen}}
    /\ UNCHANGED <<listening, backlog, peer, todo, unread, reported, file, interest>>
    /\ UNCHANGED poolVars

EPollAccept ==
    /\ Listen \in events
    /\ \E fd \in Fds : Accept(fd) /\ interest' = interest \cup {fd}
    /\ events' = events \ {Listen}
    /\ UNCHANGED <<listening, peer, todo, unread, reported, latched>>
    /\ UNCHANGED poolVars

SubmitDoUseFd ==
    \E fd \in events \ {Listen} :
        /\ Submit(fd)
        /\ events' = events \ {fd}
        /\ UNCHANGED <<busy, interest>>
        /\ UNCHANGED socketVars

EPollMain == EPollWait \/ EPollAccept \/ SubmitDoUseFd

TakeDoUseFd(w) ==
    /\ Take(w)
    /\ UNCHANGED epollVars /\ UNCHANGED socketVars

\* DoUseFd: data, or the end of file, in which case the buffer is printed all
\* the same.  A worker with neither blocks.
DoUseFd(w) ==
    /\ busy[w] # None
    /\ ReadAll(file[busy[w]]) \/ ReadEnd(file[busy[w]])
    /\ TaskReturns(w)
    /\ UNCHANGED tasks /\ UNCHANGED epollVars
    /\ UNCHANGED <<listening, backlog, peer, todo, file, latched>>

EPollWorker(w) == TakeDoUseFd(w) \/ DoUseFd(w)

EPollTypeOK ==
    /\ interest \subseteq Fds
    /\ events \subseteq Fds \cup {Listen}
    /\ Cardinality(events) <= MaxEvents
=============================================================================
