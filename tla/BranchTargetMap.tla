--------------------------- MODULE BranchTargetMap ---------------------------
(***************************************************************************)
(* What a branch target buffer promises: a map from branches to the target *)
(* each last jumped to.  Learning a target may make the buffer forget any  *)
(* other branches, never change what it knows of them.                     *)
(***************************************************************************)
CONSTANTS
    Ip,         \* addresses of branches
    Target,     \* addresses they jump to
    NONE        \* nothing is known

VARIABLE known

Init == known = [ip \in Ip |-> NONE]

Learn(ip, target) ==
    /\ known' \in [Ip -> Target \cup {NONE}]
    /\ known'[ip] = target
    /\ \A j \in Ip \ {ip} : known'[j] \in {known[j], NONE}

Next == \E ip \in Ip, target \in Target : Learn(ip, target)

Spec == Init /\ [][Next]_known
=============================================================================
