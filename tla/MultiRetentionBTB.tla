--------------------------- MODULE MultiRetentionBTB ---------------------------
(***************************************************************************)
(* The STT-RAM branch target buffer of btb/multi-retention-btb.btb.  The   *)
(* sets of every partition are divided into three retention zones: a taken *)
(* branch that misses is inserted in zone 1, and each taken update that    *)
(* hits moves the entry one zone up, by erasing it and inserting it again, *)
(* until it is in zone 3.  The longer a zone retains, the longer a write   *)
(* to it takes: btb_write_latency is what read_from_trace stalls for.      *)
(* Every write wears one cell (write_counts).                              *)
(*                                                                         *)
(* Partitions differ in the number of target offset bits they are sized    *)
(* for; an insertion considers those from the smallest that fits on.       *)
(*                                                                         *)
(* Two things are history, not code: which branch wrote an entry last      *)
(* (owner), and for how many cycles read_from_trace has stalled for writes *)
(* of the BTB (stalled).                                                   *)
(***************************************************************************)
EXTENDS ReturnAddressStack, SequencesExt

CONSTANTS
    NUM_BTB_PARTITIONS,
    numSets,            \* numSets[p]: sets of partition p, a power of two
    Assoc,              \* Assoc[p]: ways of a set of partition p
    Tag,                \* Tag[p][ip]: the tag of ip in partition p
    BranchType,         \* BranchType[ip]: what the instruction at ip is
    OffsetPartition,    \* OffsetPartition[ip][target]: the smallest partition
                        \* sized for the offset between ip and target
    NONE,               \* no branch
    MaxUpdates, MaxHits \* bounds of the state space

Partition == 0..(NUM_BTB_PARTITIONS - 1)
Zone == 1..3
SetOf(p) == 0..(numSets[p] - 1)
Way(p) == 0..(Assoc[p] - 1)

CallTypes == {"BRANCH_DIRECT_CALL", "BRANCH_INDIRECT_CALL"}
AlwaysTakenTypes ==
    CallTypes \cup {"BRANCH_RETURN", "BRANCH_DIRECT_JUMP", "BRANCH_INDIRECT"}
Types == AlwaysTakenTypes \cup {"BRANCH_CONDITIONAL", "BRANCH_OTHER", "NOT_BRANCH"}

ASSUME PartitionAssumption ==
    /\ NUM_BTB_PARTITIONS \in Nat \ {0}
    /\ \A p \in Partition : numSets[p] \in Nat /\ numSets[p] >= 4 /\ numSets[p] % 4 = 0
    /\ \A p \in Partition : Assoc[p] \in Nat \ {0}
    /\ \A ip \in Ip : BranchType[ip] \in Types
    /\ \A ip \in Ip, target \in Target : OffsetPartition[ip][target] \in Partition
    /\ NONE \notin Ip

VARIABLES
    theBTB,                 \* theBTB[p][s]: the entries of a set, LRU first
    write_counts,           \* write_counts[p][s][way]
    basic_btb_lru_counter,
    btb_write_latency,
    BTB_writes,
    multi_ret_promotions,
    zone_hits,              \* multi_ret_zone1_hits .. multi_ret_zone3_hits
    resolving,              \* the branch between btb_prediction and update_btb
    stalled                 \* history

vars == <<theBTB, write_counts, basic_btb_lru_counter, btb_write_latency, BTB_writes,
          multi_ret_promotions, zone_hits, resolving, stalled, rasVars>>

BTBEntry ==
    [tag : UNION {{Tag[p][ip] : ip \in Ip} : p \in Partition},
     target_ip : Target,
     branch_type : Types,
     lru : Nat,
     way_id : Nat,
     zone_id : Zone,
     owner : Ip]

TypeOK ==
    /\ RASTypeOK
    /\ DOMAIN theBTB = Partition /\ DOMAIN write_counts = Partition
    /\ \A p \in Partition :
         /\ theBTB[p] \in [SetOf(p) -> Seq(BTBEntry)]
         /\ write_counts[p] \in [SetOf(p) -> [Way(p) -> Nat]]
    /\ basic_btb_lru_counter \in Nat
    /\ btb_write_latency \in {0, 2, 3, 4}
    /\ BTB_writes \in Nat
    /\ multi_ret_promotions \in Nat
    /\ zone_hits \in [Zone -> Nat]
    /\ resolving \in Ip \cup {NONE}
    /\ stalled \in Nat

Init ==
    /\ RASInit
    /\ theBTB = [p \in Partition |-> [s \in SetOf(p) |-> <<>>]]
    /\ write_counts = [p \in Partition |-> [s \in SetOf(p) |-> [w \in Way(p) |-> 0]]]
    /\ basic_btb_lru_counter = 0
    /\ btb_write_latency = 0
    /\ BTB_writes = 0
    /\ multi_ret_promotions = 0
    /\ zone_hits = [z \in Zone |-> 0]
    /\ resolving = NONE
    /\ stalled = 0

-----------------------------------------------------------------------------
(* Lookup. *)

\* Mutation: zone 2 starts within zone 1.
OverlappingBase(p, zone) ==
    CASE zone = 1 -> 0
      [] zone = 2 -> numSets[p] \div 2 - 1
      [] zone = 3 -> numSets[p] \div 2 + numSets[p] \div 4

\* Zone 1 is the first half of the sets, zones 2 and 3 a quarter each.
ZoneBase(p, zone) ==
    CASE zone = 1 -> 0
      [] zone = 2 -> numSets[p] \div 2
      [] zone = 3 -> numSets[p] \div 2 + numSets[p] \div 4

ZoneSize(p, zone) == IF zone = 1 THEN numSets[p] \div 2 ELSE numSets[p] \div 4

index(p, ip, zone) == ZoneBase(p, zone) + ((ip \div 4) % ZoneSize(p, zone))

ThisSet(p, ip, zone) == theBTB[p][index(p, ip, zone)]

Matches(p, ip, zone) ==
    {w \in DOMAIN ThisSet(p, ip, zone) : ThisSet(p, ip, zone)[w].tag = Tag[p][ip]}

\* get_BTBentry scans the zones of a partition in order, and btb_prediction
\* and update_btb the partitions; all stop at the first match.
ZonesWith(p, ip) == {z \in Zone : Matches(p, ip, z) # {}}
Holders(ip) == {p \in Partition : ZonesWith(p, ip) # {}}
Home(ip) == Min(Holders(ip))
HomeZone(ip) == Min(ZonesWith(Home(ip), ip))
HomeWay(ip) == Min(Matches(Home(ip), ip, HomeZone(ip)))

get_BTBentry(ip) == ThisSet(Home(ip), ip, HomeZone(ip))[HomeWay(ip)]

-----------------------------------------------------------------------------
(* btb_prediction *)

PushIfCall(ip, type) ==
    IF type \in CallTypes THEN push_basic_btb_ras(ip) ELSE UNCHANGED rasVars

PredictMiss(ip, branch_type) ==
    /\ Holders(ip) = {}
    /\ PushIfCall(ip, branch_type)
    /\ UNCHANGED zone_hits

PredictHit(ip) ==
    /\ Holders(ip) # {}
    /\ zone_hits' = [zone_hits EXCEPT ![HomeZone(ip)] = @ + 1]
    /\ PushIfCall(ip, get_BTBentry(ip).branch_type)

btb_prediction(ip, branch_type) ==
    /\ PredictMiss(ip, branch_type) \/ PredictHit(ip)
    /\ UNCHANGED <<theBTB, write_counts, basic_btb_lru_counter, btb_write_latency,
                   BTB_writes, multi_ret_promotions>>

-----------------------------------------------------------------------------
(* update_btb *)

get_lru_value(p, ip) ==
    IF Len(ThisSet(p, ip, 1)) < Assoc[p] THEN 0 ELSE Head(ThisSet(p, ip, 1)).lru

\* The first partition, from start on, with the smallest value.
get_lru_partition(start, ip) ==
    CHOOSE p \in start..(NUM_BTB_PARTITIONS - 1) : \A q \in start..(NUM_BTB_PARTITIONS - 1) :
        \/ get_lru_value(p, ip) < get_lru_value(q, ip)
        \/ get_lru_value(p, ip) = get_lru_value(q, ip) /\ p <= q

smallest_offset_partition_id(ip, target) ==
    IF BranchType[ip] = "BRANCH_RETURN" THEN 0 ELSE OffsetPartition[ip][target]

\* The cycles a write to a zone takes.
WriteLatency(zone) == zone + 1

\* insert_entry: the way of the entry it evicts, or the next free one.
FreeWay(p, s) ==
    IF Len(theBTB[p][s]) >= Assoc[p] THEN Head(theBTB[p][s]).way_id ELSE Len(theBTB[p][s])

Inserted(p, ip, target, zone) ==
    LET s    == index(p, ip, zone)
        rest == IF Len(theBTB[p][s]) >= Assoc[p] THEN Tail(theBTB[p][s]) ELSE theBTB[p][s]
    IN  Append(rest, [tag |-> Tag[p][ip], target_ip |-> target,
                      branch_type |-> BranchType[ip], lru |-> basic_btb_lru_counter,
                      way_id |-> FreeWay(p, s), zone_id |-> zone,
                      owner |-> ip])

\* Mutation: the insertion does not count as a write.
WearInsertNothing(p, ip, zone) == UNCHANGED write_counts

WearInsert(p, ip, zone) ==
    LET s == index(p, ip, zone)
    IN  write_counts' = [write_counts EXCEPT ![p][s][FreeWay(p, s)] = @ + 1]

UpdateMiss(ip, branch_target) ==
    LET p == get_lru_partition(smallest_offset_partition_id(ip, branch_target), ip)
    IN  /\ Holders(ip) = {}
        /\ theBTB' = [theBTB EXCEPT ![p][index(p, ip, 1)] = Inserted(p, ip, branch_target, 1)]
        /\ WearInsert(p, ip, 1)
        /\ BTB_writes' = BTB_writes + 1
        /\ btb_write_latency' = WriteLatency(1)
        /\ UNCHANGED multi_ret_promotions

\* Mutation: the entry is copied to the next zone and stays in its own.
PromoteCopying(ip, branch_target) ==
    LET p    == Home(ip)
        zone == HomeZone(ip)
    IN  /\ Holders(ip) # {}
        /\ zone < 3
        /\ theBTB' = [theBTB EXCEPT
             ![p][index(p, ip, zone + 1)] = Inserted(p, ip, branch_target, zone + 1)]
        /\ WearInsert(p, ip, zone + 1)
        /\ multi_ret_promotions' = multi_ret_promotions + 1
        /\ btb_write_latency' = WriteLatency(zone + 1)
        /\ UNCHANGED BTB_writes

\* Mutation: the stall is that of the zone the entry comes from.
PromoteAtOldLatency(ip, branch_target) ==
    LET p    == Home(ip)
        zone == HomeZone(ip)
    IN  /\ Holders(ip) # {}
        /\ zone < 3
        /\ theBTB' = [theBTB EXCEPT
             ![p][index(p, ip, zone)] = RemoveAt(@, HomeWay(ip)),
             ![p][index(p, ip, zone + 1)] = Inserted(p, ip, branch_target, zone + 1)]
        /\ WearInsert(p, ip, zone + 1)
        /\ multi_ret_promotions' = multi_ret_promotions + 1
        /\ btb_write_latency' = WriteLatency(zone)
        /\ UNCHANGED BTB_writes

\* update_hit_BTB below zone 3: the entry moves to the next zone, where it
\* may evict another.
Promote(ip, branch_target) ==
    LET p    == Home(ip)
        zone == HomeZone(ip)
    IN  /\ Holders(ip) # {}
        /\ zone < 3
        /\ theBTB' = [theBTB EXCEPT
             ![p][index(p, ip, zone)] = RemoveAt(@, HomeWay(ip)),
             ![p][index(p, ip, zone + 1)] = Inserted(p, ip, branch_target, zone + 1)]
        /\ WearInsert(p, ip, zone + 1)
        /\ multi_ret_promotions' = multi_ret_promotions + 1
        /\ btb_write_latency' = WriteLatency(zone + 1)
        /\ UNCHANGED BTB_writes

\* update_hit_BTB in zone 3: the entry is rewritten in its way.
RewriteInPlace(ip, branch_target) ==
    LET p     == Home(ip)
        s     == index(p, ip, 3)
        entry == [get_BTBentry(ip) EXCEPT
                    !.branch_type = BranchType[ip],
                    !.target_ip = IF branch_target # 0 THEN branch_target ELSE @,
                    !.lru = basic_btb_lru_counter,
                    !.owner = ip]
    IN  /\ Holders(ip) # {}
        /\ HomeZone(ip) = 3
        /\ theBTB' = [theBTB EXCEPT ![p][s] = Append(RemoveAt(@, HomeWay(ip)), entry)]
        /\ write_counts' = [write_counts EXCEPT ![p][s][entry.way_id] = @ + 1]
        /\ btb_write_latency' = WriteLatency(3)
        /\ UNCHANGED <<multi_ret_promotions, BTB_writes>>

\* A branch that was not taken changes nothing but the stack.
update_btb(ip, branch_target, taken) ==
    /\ IF BranchType[ip] = "BRANCH_RETURN"
       THEN ResolveReturn(branch_target)
       ELSE UNCHANGED rasVars
    /\ \/ /\ ~taken
          /\ UNCHANGED <<theBTB, write_counts, basic_btb_lru_counter, btb_write_latency,
                         BTB_writes, multi_ret_promotions>>
       \/ /\ taken
          /\ \/ UpdateMiss(ip, branch_target)
             \/ Promote(ip, branch_target)
             \/ RewriteInPlace(ip, branch_target)
          /\ basic_btb_lru_counter' = basic_btb_lru_counter + 1
    /\ UNCHANGED zone_hits

-----------------------------------------------------------------------------
(* The callers. *)

HitsBounded(ip) == Holders(ip) # {} => SumFunction(zone_hits) < MaxHits

\* spec_inst_prefetch looks up whatever address the front end runs ahead to.
SpecPrediction(ip) ==
    /\ resolving = NONE
    /\ HitsBounded(ip)
    /\ btb_prediction(ip, "NOT_BRANCH")
    /\ UNCHANGED <<resolving, stalled>>

\* read_from_trace predicts a branch ...
TracePrediction(ip) ==
    /\ resolving = NONE
    /\ BranchType[ip] # "NOT_BRANCH"
    /\ basic_btb_lru_counter < MaxUpdates /\ HitsBounded(ip)
    /\ btb_prediction(ip, BranchType[ip])
    /\ resolving' = ip
    /\ UNCHANGED stalled

\* ... tells the BTB what the trace says it did, and stalls the fetch for
\* the latency the BTB has left behind if the branch was taken.
TraceUpdate(branch_target, taken) ==
    /\ resolving # NONE
    /\ BranchType[resolving] \in AlwaysTakenTypes => taken
    /\ (branch_target = 0) = ~taken
    /\ update_btb(resolving, branch_target, taken)
    /\ resolving' = NONE
    /\ stalled' = IF taken THEN stalled + btb_write_latency' ELSE stalled

Next ==
    \/ \E ip \in Ip : SpecPrediction(ip) \/ TracePrediction(ip)
    \/ \E target \in Target \cup {0}, taken \in BOOLEAN : TraceUpdate(target, taken)

Spec == Init /\ [][Next]_vars

-----------------------------------------------------------------------------
(* Properties. *)

\* The write counters of the cells of a zone, summed over all partitions.
ZoneSets(p, zone) == ZoneBase(p, zone)..(ZoneBase(p, zone) + ZoneSize(p, zone) - 1)
ZoneWear(zone) ==
    SumFunction([p \in Partition |->
      SumFunction([s \in ZoneSets(p, zone) |-> SumFunction(write_counts[p][s])])])

\* The endurance counters and the timing model see the same writes: the
\* cycles the fetch stalled for are those of the cells that were worn, each
\* at the latency of the zone it is in, and no write is counted twice.
WearPaidFor ==
    stalled = SumFunction([zone \in Zone |-> WriteLatency(zone) * ZoneWear(zone)])

\* Every taken update wears exactly one cell.
WearAccounted == SumFunction([zone \in Zone |-> ZoneWear(zone)]) = basic_btb_lru_counter

\* The entries of a set that have been promoted, at their positions.
Promoted(p, s) ==
    [w \in {v \in DOMAIN theBTB[p][s] : theBTB[p][s][v].zone_id > 1} |-> theBTB[p][s][w]]

\* Branches that are seen for the first time cannot displace one that has
\* earned a longer retention: an insertion leaves zones 2 and 3 alone.
InsertionsKeepPromoted ==
    [][BTB_writes' # BTB_writes =>
         \A p \in Partition : \A s \in SetOf(p) : Promoted(p, s)' = Promoted(p, s)]_vars

Places == UNION {UNION {{<<p, s, w>> : w \in DOMAIN theBTB[p][s]} : s \in SetOf(p)}
                   : p \in Partition}
EntryAt(place) == theBTB[place[1]][place[2]][place[3]]

\* The place a lookup of ip ends at.
FoundAt(ip) == <<Home(ip), index(Home(ip), ip, HomeZone(ip)), HomeWay(ip)>>

\* The entry that the latest taken update wrote is stored, and a lookup of
\* its branch ends at it, whichever partition and zone the update left it in:
\* no entry of another branch, and no older one of its own, hides what was
\* just written.  (With more than one way per set this fails; every shipped
\* partition has one.)
LatestFound ==
    basic_btb_lru_counter > 0 =>
      \E x \in Places :
        LET entry == EntryAt(x)
        IN  /\ entry.lru + 1 = basic_btb_lru_counter
            /\ Holders(entry.owner) # {} /\ x = FoundAt(entry.owner)

\* Branches whose tags differ from those of all others in every partition,
\* and the target of the entry each wrote last, if it is still stored.
Unconfused ==
    {ip \in Ip : \A j \in Ip \ {ip}, p \in Partition : Tag[p][j] # Tag[p][ip]}
Known == [ip \in Unconfused |->
            IF \E x \in Places : EntryAt(x).owner = ip
            THEN EntryAt(CHOOSE x \in Places : EntryAt(x).owner = ip).target_ip
            ELSE NONE]

TargetMap == INSTANCE BranchTargetMap WITH Ip <- Unconfused, known <- Known

\* Only an update of a taken branch changes what is known.  One of a branch
\* that can be told from all others teaches it the target the trace gave; one
\* of another branch may at most displace what is known of these.
LearnsFromTrace ==
    IF \E target \in Target : TraceUpdate(target, TRUE)
    THEN \E target \in Target :
           /\ TraceUpdate(target, TRUE)
           /\ IF resolving \in Unconfused THEN TargetMap!Learn(resolving, target)
              ELSE \A ip \in Unconfused : Known'[ip] \in {Known[ip], NONE}
    ELSE Known' = Known

\* A lookup of such a branch (returns aside, whose target comes from the
\* stack) predicts what is known of it.
PredictsKnown ==
    \A ip \in Unconfused :
        Holders(ip) # {} /\ get_BTBentry(ip).branch_type # "BRANCH_RETURN" =>
            get_BTBentry(ip).target_ip = Known[ip]

\* For branches that no other is confused with, promotion between zones,
\* eviction and the choice of partition keep the BTB a map to the target each
\* last jumped to, which may forget a branch when it learns another, does
\* nothing else and predicts what it knows, whatever branches that are
\* confused do beside them.
ImplementsTargetMap == TargetMap!Init /\ [][LearnsFromTrace]_vars /\ []PredictsKnown
=============================================================================
