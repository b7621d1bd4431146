----------------------------- MODULE ByteStream -----------------------------
(***************************************************************************)
(* One connection of the network sample, byte by byte: SingleClient writes    *)
(* numbers with writen, Doit reads them with readn (codesnip/src/net/net.cpp  *)
(* and src/unit/syscallwrap.cpp).  The socket takes and gives any part of     *)
(* what is asked for.  A call interrupted by a signal counts as one that      *)
(* transferred nothing, and changes nothing.                                 *)
(*                                                                         *)
(* The client is a process of eight such threads: when one of them exits, all  *)
(* are gone, wherever they are.                                             *)
(***************************************************************************)
EXTENDS Integers, Sequences

CONSTANTS
    Size,        \* bytes of a number, 8 in the code
    Numbers,     \* numbers a client sends, 4 in the code
    Capacity     \* bytes the socket holds

ASSUME StreamAssumption == Size \in Nat \ {0} /\ Numbers \in Nat /\ Capacity \in Nat \ {0}

VARIABLES
    client,   \* "off", "write", "closed", "killed"
    written,  \* numbers Writen has returned for
    wleft,    \* nleft of writen
    stream,   \* bytes in the socket: <<number, offset>>
    doit,     \* "off", "read", "ended", "killed"
    rleft,    \* nleft of readn
    buff,     \* the bytes of Doit's buff, <<0, 0>> where it was never written
    output    \* what Doit prints: ret and buff

streamVars == <<client, written, wleft, stream, doit, rleft, buff, output>>

Garbage == <<0, 0>>

StreamInit ==
    /\ client = "off" /\ written = 0 /\ wleft = Size
    /\ stream = <<>>
    /\ doit = "off" /\ rleft = Size /\ buff = [k \in 1..Size |-> Garbage]
    /\ output = <<>>

\* The client has connected and the server accepted.
StartStream ==
    /\ client = "off"
    /\ client' = "write" /\ doit' = "read"
    /\ UNCHANGED <<written, wleft, stream, rleft, buff, output>>

\* Bytes of the current number from ptr on, ptr being Size - wleft.
Piece(n) == [k \in 1..n |-> <<written + 1, Size - wleft + k>>]

\* Mutant: ptr is not moved after a short write.
WriteSomeSamePtr(n) ==
    /\ client = "write" /\ doit = "read" /\ written < Numbers
    /\ Len(stream) + n <= Capacity
    /\ stream' = stream \o [k \in 1..n |-> <<written + 1, k>>]
    /\ wleft' = IF n = wleft THEN Size ELSE wleft - n
    /\ written' = IF n = wleft THEN written + 1 ELSE written
    /\ UNCHANGED <<client, doit, rleft, buff, output>>

\* write() takes n of the bytes left; with the last one Writen returns.
WriteSome(n) ==
    /\ client = "write" /\ doit = "read" /\ written < Numbers
    /\ Len(stream) + n <= Capacity
    /\ stream' = stream \o Piece(n)
    /\ wleft' = IF n = wleft THEN Size ELSE wleft - n
    /\ written' = IF n = wleft THEN written + 1 ELSE written
    /\ UNCHANGED <<client, doit, rleft, buff, output>>

\* Nobody reads any more: SIGPIPE, or an error on which Writen exits.
WriteFails ==
    /\ client = "write" /\ doit \in {"ended", "killed"} /\ written < Numbers
    /\ client' = "killed"
    /\ UNCHANGED <<written, wleft, stream, doit, rleft, buff, output>>

CloseStream ==
    /\ client = "write" /\ written = Numbers
    /\ client' = "closed"
    /\ UNCHANGED <<written, wleft, stream, doit, rleft, buff, output>>

\* Another thread of the client exits.
ClientExits ==
    /\ client = "write"
    /\ client' = "killed"
    /\ UNCHANGED <<written, wleft, stream, doit, rleft, buff, output>>

Printf(ret, bytes) == output' = Append(output, [ret |-> ret, num |-> bytes])

\* The n bytes that read() has put at ptr, which is Size - rleft.
Filled(n) ==
    [k \in 1..Size |-> IF k > Size - rleft /\ k <= Size - rleft + n THEN stream[k - Size + rleft] ELSE buff[k]]

\* read() gives n of the bytes left; with the last one Readn returns, and Doit prints.
ReadSome(n) ==
    /\ doit = "read" /\ n <= Len(stream)
    /\ stream' = SubSeq(stream, n + 1, Len(stream))
    /\ buff' = Filled(n)
    /\ \/ n = rleft /\ rleft' = Size /\ Printf(Size, Filled(n))
       \/ n < rleft /\ rleft' = rleft - n /\ UNCHANGED output
    /\ UNCHANGED <<client, written, wleft, doit>>

\* Mutant: the end of the stream is taken for an interrupted call.
ReadEndAgain ==
    /\ doit = "read" /\ stream = <<>> /\ client \in {"closed", "killed"}
    /\ rleft' = Size
    /\ UNCHANGED <<client, written, wleft, stream, doit, buff, output>>

\* read() gives nothing: Readn returns what it has, and Doit leaves if that is nothing.
ReadEnd ==
    /\ doit = "read" /\ stream = <<>> /\ client \in {"closed", "killed"}
    /\ Printf(Size - rleft, buff)
    /\ rleft' = Size
    /\ doit' = IF rleft = Size THEN "ended" ELSE "read"
    /\ UNCHANGED <<client, written, wleft, stream, buff>>

\* read() fails: Readn exits.
ReadFails ==
    /\ doit = "read"
    /\ doit' = "killed"
    /\ UNCHANGED <<client, written, wleft, stream, rleft, buff, output>>

StreamFaults == ClientExits \/ ReadFails
StreamStep ==
    \/ \E n \in 1..wleft : WriteSome(n)
    \/ \E n \in 1..rleft : ReadSome(n)
    \/ WriteFails \/ CloseStream \/ ReadEnd
StreamNext == StreamStep \/ StreamFaults

StreamTypeOK ==
    /\ client \in {"off", "write", "closed", "killed"} /\ doit \in {"off", "read", "ended", "killed"}
    /\ written \in 0..Numbers /\ wleft \in 1..Size /\ rleft \in 1..Size
    /\ Len(stream) <= Capacity

-----------------------------------------------------------------------------
(* What the loops promise: the abstract channel                            *)

\* The bytes of number m.
Whole(m) == [k \in 1..Size |-> <<m, k>>]

\* A line that Doit prints, as the number it stands for: 0 for one that was cut off or
\* for the end.
Meant(line) ==
    IF line.ret < Size THEN 0
    ELSE CHOOSE m \in -1..Numbers : line.num = Whole(m) \/ (m = -1 /\ \A j \in 1..Numbers : line.num # Whole(j))

Channel == INSTANCE NumberChannel WITH
    sent <- written,
    received <- [k \in 1..Len(output) |-> Meant(output[k])],
    sending <- client,
    receiving <- doit

\* Between them, writen and readn keep messages apart however the bytes are split:
\* see NumberChannel.
KeepsNumbersWhole == Channel!Spec

\* When no side has failed, everything written is printed and Doit ends.
EverythingArrives ==
    client = "closed" ~> doit = "killed" \/ (doit = "ended" /\ Len(output) = Numbers + 1)
=============================================================================
