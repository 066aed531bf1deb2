---------------------------- MODULE MCVolatileBTB ----------------------------
(***************************************************************************)
(* A BTB of the shape of the real one (a partition with more sets and      *)
(* several ways, then one with fewer sets and a single way), scaled down:  *)
(* two sets of two ways and one set of one way, with one bit in each half  *)
(* of the tag.                                                             *)
(***************************************************************************)
EXTENDS VolatileBTB

Hash == INSTANCE BTBHash WITH TagBits <- 1, AddressBits <- 4

\* Branches at 8, 16 and 24 share a set of partition 0 under different tags,
\* and 32 has the set and the tag of 16; partition 1 also confuses 8 with 16.
MCIp == {8, 16, 24, 32}
MCTarget == {100, 200}

IndexBits == [p \in Partition |-> IF p = 0 THEN 1 ELSE 0]
MCSetIndex == 0..1
MCAssoc == [p \in Partition |-> IF p = 0 THEN 2 ELSE 1]
MCDirectMapped == [p \in Partition |-> 1]

MCIndex == [p \in Partition |->
    IF p = 0 THEN 8 :> 0 @@ 16 :> 0 @@ 24 :> 0 @@ 32 :> 0 ELSE [ip \in MCIp |-> 0]]
MCTag == [p \in Partition |->
    IF p = 0 THEN 8 :> 1 @@ 16 :> 2 @@ 24 :> 3 @@ 32 :> 2
             ELSE 8 :> 2 @@ 16 :> 2 @@ 24 :> 0 @@ 32 :> 2]

\* The tables agree with the code's functions.
ASSUME TableAssumption == \A p \in Partition, ip \in MCIp :
    /\ MCIndex[p][ip] = Hash!index(ip, IndexBits[p])
    /\ MCTag[p][ip] = Hash!get_tag(ip, IndexBits[p])

\* For "WB": a branch that may fall through, a call and a return.
MCIpCalls == {8, 16, 24}
MCBranchTypeCalls == 8 :> "BRANCH_CONDITIONAL" @@ 16 :> "BRANCH_DIRECT_CALL"
                  @@ 24 :> "BRANCH_RETURN"

\* For "REFRESH": one branch that is always taken, three that may fall through.
MCBranchTypeJumps == [ip \in Ip |-> IF ip = 24 THEN "BRANCH_DIRECT_JUMP"
                                               ELSE "BRANCH_CONDITIONAL"]

\* A zone for each of the lifetimes 0, 1, 2 and more.
MCLifetimeBounds == <<0, 1, 2>>
=============================================================================
