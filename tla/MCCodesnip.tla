---- MODULE MCCodesnip ----
(* Model-checking instance of Codesnip.                                    *)
EXTENDS Codesnip

\* The constructor's call is snip(0,1,2,0); numbers in and out of a byte.
MCDefault == [key \in Keys |-> CASE key = "blockiot" -> 1 [] key = "ipct" -> 2 [] OTHER -> 0]
MCNums == {-1, 3, 256}
====
