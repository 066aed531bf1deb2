------------------------------ MODULE MCBTBHash ------------------------------
(***************************************************************************)
(* Every pair of small addresses, and every pair of partition sizes.       *)
(***************************************************************************)
EXTENDS BTBHash

VARIABLES a, b, coarse, fine

vars == <<a, b, coarse, fine>>

Address == {4 * x : x \in 0..(2^AddressBits - 1)}
IndexBits == 0..3

Init == /\ a \in Address
        /\ b = 0
        /\ coarse \in IndexBits
        /\ fine \in {n \in IndexBits : coarse <= n}

\* Move on to the next address to compare a with.
Compare == /\ b + 4 \in Address
           /\ b' = b + 4
           /\ UNCHANGED <<a, coarse, fine>>

Spec == Init /\ [][Compare]_vars

\* Addresses that a partition with more sets confuses are confused by a
\* partition with fewer sets as well: btb_prediction and update_btb scan the
\* partition with more sets first, and rely on it that an entry found there
\* cannot hide a different entry of the same branch behind it.
AliasesNest == Alias(a, b, fine) => Alias(a, b, coarse)

\* The fold loses nothing while the address fits in the index and the two
\* halves of the tag: distinct addresses are never confused then.
NoAliasWhenTagFits ==
    /\ a < 2^(2 + coarse + 2 * TagBits)
    /\ b < 2^(2 + coarse + 2 * TagBits)
    /\ Alias(a, b, coarse)
    => a = b
=============================================================================
