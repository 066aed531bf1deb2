----------------------------- MODULE ShiftStack -----------------------------
(***************************************************************************)
(* What the return address stack promises, without its circular buffer: a  *)
(* stack of fixed depth.  Position 0 is the top.  A push moves every       *)
(* element one position down and forgets the deepest one; a pop moves      *)
(* every element one position up and fills the bottom with 0, the value    *)
(* that stands for "no call".                                              *)
(***************************************************************************)
EXTENDS Integers

CONSTANTS
    Depth,      \* number of positions
    Ip          \* addresses that may be pushed

VARIABLE stack

Position == 0..(Depth - 1)

Empty == [k \in Position |-> 0]

Push(ip) == stack' = [k \in Position |-> IF k = 0 THEN ip ELSE stack[k - 1]]

Pop == stack' = [k \in Position |-> IF k = Depth - 1 THEN 0 ELSE stack[k + 1]]

Init == stack = Empty

Next == Pop \/ \E ip \in Ip : Push(ip)

Spec == Init /\ [][Next]_stack
=============================================================================
