-------------------------- MODULE MCMultiRetentionBTB --------------------------
(***************************************************************************)
(* The BTB with promotion, scaled down to partitions of eight sets (zones  *)
(* of 4, 2 and 2) and of four (zones of 2, 1 and 1), one way per set as in *)
(* the shipped configuration.                                              *)
(***************************************************************************)
EXTENDS MultiRetentionBTB

Hash == INSTANCE BTBHash WITH TagBits <- 1, AddressBits <- 4

MCNumSets == 0 :> 8 @@ 1 :> 4
IndexBits == 0 :> 3 @@ 1 :> 2
MCAssoc == [p \in Partition |-> 1]

\* 4, 12 and 20 have one tag in partition 0, where zone 1 keeps 4 and 12
\* apart and zones 2 and 3 do not; partition 1 confuses 4 and 12 and tells 20
\* from them.  36 and 84 only share their sets.
MCIp == {4, 12, 20, 36, 84}
MCTag == 0 :> (4 :> 0 @@ 12 :> 0 @@ 20 :> 0 @@ 36 :> 1 @@ 84 :> 2)
      @@ 1 :> (4 :> 0 @@ 12 :> 0 @@ 20 :> 1 @@ 36 :> 2 @@ 84 :> 3)
MCBranchType == 36 :> "BRANCH_RETURN" @@ 84 :> "BRANCH_DIRECT_CALL"
             @@ [ip \in {4, 12, 20} |-> "BRANCH_CONDITIONAL"]

ASSUME TableAssumption == \A p \in Partition, ip \in Ip :
    Tag[p][ip] = Hash!get_tag(ip, IndexBits[p])

MCTarget == {100, 4000}

\* The nearer target fits either partition, the other only the last one.
MCOffsetPartition == [ip \in Ip |-> 100 :> 0 @@ 4000 :> 1]
=============================================================================
