--------------------------- MODULE NumberChannel ---------------------------
(***************************************************************************)
(* What Doit may rely on: a connection delivers the numbers that were sent,   *)
(* whole, once and in order.  A sender that is killed may leave one number    *)
(* cut off, after which nothing comes but the end.                           *)
(***************************************************************************)
EXTENDS Integers, Sequences

CONSTANT Numbers

VARIABLES
    sent,       \* numbers sent so far: 1, 2, ...
    received,   \* what the receiver has made of them; 0 is a number cut off, or the end
    sending,    \* "off", "write", "closed", "killed"
    receiving   \* "off", "read", "ended", "killed"

vars == <<sent, received, sending, receiving>>

Init == sent = 0 /\ received = <<>> /\ sending = "off" /\ receiving = "off"

Open ==
    /\ sending = "off"
    /\ sending' = "write" /\ receiving' = "read"
    /\ UNCHANGED <<sent, received>>

Send ==
    /\ sending = "write" /\ receiving = "read" /\ sent < Numbers
    /\ sent' = sent + 1
    /\ UNCHANGED <<received, sending, receiving>>

Close ==
    /\ sending = "write"
    /\ \/ sending' = "closed" /\ sent = Numbers
       \/ sending' = "killed"
    /\ UNCHANGED <<sent, received, receiving>>

\* Nothing was cut off so far.
Intact == Len(received) <= sent /\ \A k \in 1..Len(received) : received[k] # 0

Receive ==
    /\ receiving = "read" /\ Intact /\ Len(received) < sent
    /\ received' = Append(received, Len(received) + 1)
    /\ UNCHANGED <<sent, sending, receiving>>

Cut ==
    /\ receiving = "read" /\ sending = "killed" /\ Intact /\ Len(received) = sent
    /\ received' = Append(received, 0)
    /\ UNCHANGED <<sent, sending, receiving>>

End ==
    /\ receiving = "read" /\ sending \in {"closed", "killed"}
    /\ Len(received) >= sent
    /\ received' = Append(received, 0)
    /\ receiving' = "ended"
    /\ UNCHANGED <<sent, sending>>

ReceiverKilled ==
    /\ receiving = "read"
    /\ receiving' = "killed"
    /\ UNCHANGED <<sent, received, sending>>

Next == Open \/ Send \/ Close \/ Receive \/ Cut \/ End \/ ReceiverKilled

Spec == Init /\ [][Next]_vars
=============================================================================
