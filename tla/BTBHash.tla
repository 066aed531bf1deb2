------------------------------- MODULE BTBHash -------------------------------
(***************************************************************************)
(* How a BTB partition turns an instruction address into a set and a tag   *)
(* (struct BTB: index, get_tag).  The set is the low bits of the address   *)
(* above its two alignment bits; the tag keeps TagBits bits unchanged and  *)
(* folds the rest of the address onto TagBits more by exclusive or, so     *)
(* that different addresses may share set and tag.                         *)
(*                                                                         *)
(* The code has TagBits = 8 and addresses of 64 bits; both are parameters  *)
(* here so that every address of a small width can be enumerated.          *)
(***************************************************************************)
EXTENDS Integers, Bitwise

CONSTANTS
    TagBits,        \* width of each half of the tag
    AddressBits     \* width of an address above the alignment bits

ASSUME HashAssumption == TagBits \in Nat \ {0} /\ AddressBits \in Nat

\* The value of x when its low n bits are shifted out.
ShiftRight(x, n) == x \div 2^n

index(ip, numIndexBits) == ShiftRight(ip, 2) % 2^numIndexBits

\* Exclusive or of the successive TagBits-wide digits of x: fold[i] folds the
\* first i of them.
FoldedXor(x) ==
    LET digits == (AddressBits \div TagBits) + 1
        fold[i \in 0..digits] ==
          IF i = 0 THEN 0
          ELSE fold[i - 1] ^^ (ShiftRight(x, (i - 1) * TagBits) % 2^TagBits)
    IN  fold[digits]

\* Mutation: the digits are summed instead of combined by exclusive or.
SummedTag(ip, numIndexBits) ==
    LET addr == ShiftRight(ShiftRight(ip, 2), numIndexBits)
        high == ShiftRight(addr, TagBits)
    IN  (addr % 2^TagBits)
          + 2^TagBits * (((high % 2^TagBits) + ShiftRight(high, TagBits)) % 2^TagBits)

\* Mutation: the folded part starts where it no longer covers every bit.
ShortTag(ip, numIndexBits) ==
    LET addr == ShiftRight(ShiftRight(ip, 2), numIndexBits)
    IN  (addr % 2^TagBits) + 2^TagBits * FoldedXor(ShiftRight(addr, TagBits + 1))

get_tag(ip, numIndexBits) ==
    LET addr == ShiftRight(ShiftRight(ip, 2), numIndexBits)
    IN  (addr % 2^TagBits) + 2^TagBits * FoldedXor(ShiftRight(addr, TagBits))

\* Two addresses a partition with 2^numIndexBits sets cannot tell apart.
Alias(a, b, numIndexBits) ==
    /\ index(a, numIndexBits) = index(b, numIndexBits)
    /\ get_tag(a, numIndexBits) = get_tag(b, numIndexBits)
=============================================================================
