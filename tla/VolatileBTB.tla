----------------------------- MODULE VolatileBTB -----------------------------
(***************************************************************************)
(* The STT-RAM branch target buffer of btb/sttram_volatile_core.h under    *)
(* its two policies for entries that outlive the retention time:           *)
(*                                                                         *)
(*   "REFRESH"  entries never expire; the refreshes they would have needed *)
(*              are computed from their lifetime when they leave the BTB   *)
(*              and at the end of the simulation;                          *)
(*   "WB"       a lookup of an entry older than the retention time is      *)
(*              counted as an eviction and treated as a miss.              *)
(*                                                                         *)
(* The BTB is a sequence of partitions, each a set-associative array whose *)
(* sets are lists ordered from least to most recently used.  Lookups scan  *)
(* the partitions in order.  A branch of the trace calls btb_prediction    *)
(* and then update_btb within one invocation of read_from_trace; between   *)
(* branches the front end may look up arbitrary addresses speculatively    *)
(* (spec_inst_prefetch) and the clock advances.  At the end of the run     *)
(* dump_stt_write_stats is called by print_branch_stats and by main.       *)
(*                                                                         *)
(* Two fields of an entry and four variables are history, not code: they   *)
(* record which branch wrote the target of an entry (owner), whether its   *)
(* cell lost the target (lost), how many retention periods the stored      *)
(* entries have lived through (expirations), how many of those an update   *)
(* discarded (forgotten), which calls of the trace have not returned       *)
(* (calls), and whether nothing has yet happened that keeps the return     *)
(* address stack from following them (clean).                              *)
(***************************************************************************)
EXTENDS ReturnAddressStack, SequencesExt

CONSTANTS
    NUM_BTB_PARTITIONS,
    SetIndex,           \* set numbers
    Assoc,              \* Assoc[p]: ways of a set of partition p
    Index,              \* Index[p][ip]: the set of ip in partition p
    Tag,                \* Tag[p][ip]: the tag of ip in partition p
    BranchType,         \* BranchType[ip]: what the instruction at ip is
    POLICY,             \* "REFRESH" or "WB"
    RETENTION_CYCLES,
    LifetimeBounds,     \* the lifetimes that separate the zones of mot_stats
    NONE,               \* no branch
    \* Bounds of the state space; the code has none of them.
    MaxCycle, MaxUpdates, MaxHits, MaxEvictions

Partition == 0..(NUM_BTB_PARTITIONS - 1)

CallTypes == {"BRANCH_DIRECT_CALL", "BRANCH_INDIRECT_CALL"}

\* Types whose branches are always taken; conditional branches and branches
\* of unrecognised kind may fall through.
AlwaysTakenTypes ==
    CallTypes \cup {"BRANCH_RETURN", "BRANCH_DIRECT_JUMP", "BRANCH_INDIRECT"}

Types == AlwaysTakenTypes \cup {"BRANCH_CONDITIONAL", "BRANCH_OTHER", "NOT_BRANCH"}

\* Two addresses that partition p cannot tell apart.
Alias(p, a, b) == Index[p][a] = Index[p][b] /\ Tag[p][a] = Tag[p][b]

ASSUME PartitionAssumption ==
    /\ NUM_BTB_PARTITIONS \in Nat \ {0}
    /\ \A p \in Partition : Assoc[p] \in Nat \ {0}
    /\ \A p \in Partition, ip \in Ip : Index[p][ip] \in SetIndex
    /\ \A ip \in Ip : BranchType[ip] \in Types
    /\ RETENTION_CYCLES \in Nat \ {0}
    /\ IsFiniteSet(SetIndex)
    /\ LifetimeBounds \in Seq(Nat)
    /\ NONE \notin Ip

\* Partitions are ordered from more to fewer sets, and a partition with
\* fewer sets confuses at least the addresses one with more sets confuses
\* (AliasesNest of MCBTBHash checks it of index and get_tag).
ASSUME AliasAssumption ==
    \A p, q \in Partition, a, b \in Ip :
        p < q /\ Alias(p, a, b) => Alias(q, a, b)

VARIABLES
    theBTB,                 \* theBTB[p][s]: the entries of a set, LRU first
    basic_btb_lru_counter,
    current_core_cycle,
    BTB_writes,
    sttram_refreshes,
    sttram_evictions,
    mot_stats,              \* evicted entries by lifetime zone and hit bucket
    resolving,              \* the branch between btb_prediction and update_btb
    dumps,                  \* calls of dump_stt_write_stats so far
    expirations, forgotten, calls, clean    \* history

statVars == <<BTB_writes, sttram_refreshes, sttram_evictions, mot_stats>>
refreshHistory == <<expirations, forgotten>>
callHistory == <<calls, clean>>
vars == <<theBTB, basic_btb_lru_counter, current_core_cycle, resolving, dumps,
          rasVars, statVars, refreshHistory, callHistory>>

BTBEntry ==
    [tag : UNION {{Tag[p][ip] : ip \in Ip} : p \in Partition},
     target_ip : Target,
     branch_type : Types,
     lru : Nat,
     write_timestamp : Nat,
     hit_count : Nat,
     owner : Ip,
     lost : BOOLEAN]

BTBTypeOK ==
    /\ theBTB \in [Partition -> [SetIndex -> Seq(BTBEntry)]]
    /\ basic_btb_lru_counter \in Nat
    /\ current_core_cycle \in Nat
    /\ resolving \in Ip \cup {NONE}

TypeOK ==
    /\ RASTypeOK
    /\ BTBTypeOK
    /\ BTB_writes \in Nat
    /\ sttram_refreshes \in Nat
    /\ sttram_evictions \in Nat
    /\ mot_stats \in [0..Len(LifetimeBounds) -> [0..4 -> Nat]]
    /\ dumps \in 0..2
    /\ expirations \in Nat
    /\ forgotten \in Nat
    /\ calls \in Seq(Ip)
    /\ clean \in BOOLEAN

Init ==
    /\ RASInit
    /\ theBTB = [p \in Partition |-> [s \in SetIndex |-> <<>>]]
    /\ basic_btb_lru_counter = 0
    /\ current_core_cycle = 0
    /\ BTB_writes = 0
    /\ sttram_refreshes = 0
    /\ sttram_evictions = 0
    /\ mot_stats = [z \in 0..Len(LifetimeBounds) |-> [h \in 0..4 |-> 0]]
    /\ resolving = NONE
    /\ dumps = 0
    /\ expirations = 0
    /\ forgotten = 0
    /\ calls = <<>>
    /\ clean = TRUE

-----------------------------------------------------------------------------
(* Lookup. *)

ThisSet(p, ip) == theBTB[p][Index[p][ip]]

\* The ways of partition p whose tag is that of ip.
Matches(p, ip) == {w \in DOMAIN ThisSet(p, ip) : ThisSet(p, ip)[w].tag = Tag[p][ip]}

\* The partitions that hold an entry for ip; the loops of btb_prediction and
\* update_btb stop at the first of them.
Holders(ip) == {p \in Partition : Matches(p, ip) # {}}
Home(ip) == Min(Holders(ip))

get_BTBentry(p, ip) == ThisSet(p, ip)[Min(Matches(p, ip))]

Lifetime(entry) == current_core_cycle - entry.write_timestamp

Expired(entry) == POLICY = "WB" /\ Lifetime(entry) > RETENTION_CYCLES

\* What btb_prediction returns as target when it finds a live entry for ip.
Prediction(ip) ==
    LET entry == get_BTBentry(Home(ip), ip)
    IN  IF entry.branch_type = "BRANCH_RETURN" THEN PredictedReturn ELSE entry.target_ip

Hits(ip) == Holders(ip) # {} /\ ~Expired(get_BTBentry(Home(ip), ip))

-----------------------------------------------------------------------------
(* btb_prediction *)

PushIfCall(ip, type) ==
    IF type \in CallTypes THEN push_basic_btb_ras(ip) ELSE UNCHANGED rasVars

PredictMiss(ip, branch_type) ==
    /\ Holders(ip) = {}
    /\ PushIfCall(ip, branch_type)
    /\ UNCHANGED <<theBTB, sttram_evictions>>

\* Mutation: an expired call is treated as if it were no branch at all.
PredictExpiredNoPush(ip, branch_type) ==
    /\ Holders(ip) # {}
    /\ Expired(get_BTBentry(Home(ip), ip))
    /\ sttram_evictions' = sttram_evictions + 1
    /\ UNCHANGED <<theBTB, rasVars>>

\* The entry is counted as evicted and stays where it is.
PredictExpired(ip, branch_type) ==
    /\ Holders(ip) # {}
    /\ Expired(get_BTBentry(Home(ip), ip))
    /\ sttram_evictions' = sttram_evictions + 1
    /\ PushIfCall(ip, branch_type)
    /\ UNCHANGED theBTB

PredictHit(ip) ==
    /\ Hits(ip)
    /\ theBTB' = [theBTB EXCEPT
         ![Home(ip)][Index[Home(ip)][ip]][Min(Matches(Home(ip), ip))].hit_count = @ + 1]
    /\ PushIfCall(ip, get_BTBentry(Home(ip), ip).branch_type)
    /\ UNCHANGED sttram_evictions

btb_prediction(ip, branch_type) ==
    /\ \/ PredictMiss(ip, branch_type)
       \/ PredictExpired(ip, branch_type)
       \/ PredictHit(ip)
    /\ UNCHANGED <<basic_btb_lru_counter, current_core_cycle, dumps, BTB_writes,
                   sttram_refreshes, mot_stats, refreshHistory>>

-----------------------------------------------------------------------------
(* update_btb *)

get_lru_value(p, ip) ==
    IF Len(ThisSet(p, ip)) < Assoc[p] THEN 0 ELSE Head(ThisSet(p, ip)).lru

\* Mutation: a miss always goes to the first partition.
FirstPartition(ip) == CHOOSE p \in Partition : \A q \in Partition : p <= q

\* The first partition among those with the smallest value.
get_lru_partition(ip) ==
    CHOOSE p \in Partition : \A q \in Partition :
        \/ get_lru_value(p, ip) < get_lru_value(q, ip)
        \/ get_lru_value(p, ip) = get_lru_value(q, ip) /\ p <= q

LifetimeZone(lifetime) ==
    Cardinality({i \in DOMAIN LifetimeBounds : lifetime > LifetimeBounds[i]})

HitBucket(hits) == IF hits <= 1 THEN 0 ELSE IF hits > 5 THEN 4 ELSE hits - 1

RefreshesOf(entry) ==
    IF POLICY = "REFRESH" THEN Lifetime(entry) \div RETENTION_CYCLES ELSE 0

NewEntry(p, ip, target) ==
    [tag |-> Tag[p][ip], target_ip |-> target, branch_type |-> BranchType[ip],
     lru |-> basic_btb_lru_counter, write_timestamp |-> current_core_cycle,
     hit_count |-> 0, owner |-> ip, lost |-> FALSE]

\* Mutation: a rewrite stores the target of a branch that was not taken.
OverwrittenEntry(entry, ip, target) ==
    [entry EXCEPT
       !.branch_type = BranchType[ip],
       !.target_ip = target,
       !.lru = basic_btb_lru_counter,
       !.write_timestamp = current_core_cycle,
       !.hit_count = 0,
       !.owner = ip,
       !.lost = FALSE]

\* A rewrite keeps the stored target when the branch was not taken; what an
\* expired cell held is not brought back by that.
RewrittenEntry(entry, ip, target) ==
    [entry EXCEPT
       !.branch_type = BranchType[ip],
       !.target_ip = IF target # 0 THEN target ELSE @,
       !.lru = basic_btb_lru_counter,
       !.write_timestamp = current_core_cycle,
       !.hit_count = 0,
       !.owner = IF target # 0 THEN ip ELSE @,
       !.lost = target = 0 /\ (@ \/ Expired(entry))]

\* update_BTB, no way matches: the LRU entry of a full set makes room.
InsertFree(p, ip, target) ==
    /\ Len(ThisSet(p, ip)) < Assoc[p]
    /\ theBTB' = [theBTB EXCEPT ![p][Index[p][ip]] = Append(@, NewEntry(p, ip, target))]
    /\ UNCHANGED <<sttram_refreshes, mot_stats>>

\* Mutation: the victim leaves without being accounted for.
InsertEvictingSilently(p, ip, target) ==
    /\ Len(ThisSet(p, ip)) >= Assoc[p]
    /\ theBTB' = [theBTB EXCEPT ![p][Index[p][ip]] = Append(Tail(@), NewEntry(p, ip, target))]
    /\ UNCHANGED <<sttram_refreshes, mot_stats>>

InsertEvicting(p, ip, target) ==
    LET victim == Head(ThisSet(p, ip))
    IN  /\ Len(ThisSet(p, ip)) >= Assoc[p]
        /\ theBTB' = [theBTB EXCEPT
             ![p][Index[p][ip]] = Append(Tail(@), NewEntry(p, ip, target))]
        /\ sttram_refreshes' = sttram_refreshes + RefreshesOf(victim)
        /\ mot_stats' = [mot_stats EXCEPT
             ![LifetimeZone(Lifetime(victim))][HitBucket(victim.hit_count)] = @ + 1]

\* Mutation: the rewritten entry keeps its place in the LRU order.
RewriteInPlace(p, ip, target) ==
    LET w == Min(Matches(p, ip))
    IN  theBTB' = [theBTB EXCEPT ![p][Index[p][ip]][w] = RewrittenEntry(@, ip, target)]

\* update_BTB, way w matches: the entry is rewritten and becomes the most
\* recently used.
Rewrite(p, ip, target) ==
    LET w == Min(Matches(p, ip))
    IN  theBTB' = [theBTB EXCEPT
          ![p][Index[p][ip]] = Append(RemoveAt(@, w), RewrittenEntry(@[w], ip, target))]

\* Mutation: the branch is inserted whether or not a partition holds it.
UpdateMissUnchecked(ip, branch_target, taken) ==
    LET p == get_lru_partition(ip)
    IN  /\ BTB_writes' = BTB_writes + 1
        /\ branch_target # 0 /\ taken
        /\ InsertFree(p, ip, branch_target) \/ InsertEvicting(p, ip, branch_target)
        /\ UNCHANGED forgotten

UpdateMiss(ip, branch_target, taken) ==
    LET p == get_lru_partition(ip)
    IN  /\ Holders(ip) = {}
        /\ BTB_writes' = BTB_writes + 1
        /\ \/ /\ ~(branch_target # 0 /\ taken)
              /\ UNCHANGED <<theBTB, sttram_refreshes, mot_stats>>
           \/ /\ branch_target # 0 /\ taken
              /\ InsertFree(p, ip, branch_target) \/ InsertEvicting(p, ip, branch_target)
        /\ UNCHANGED forgotten

UpdateHit(ip, branch_target) ==
    /\ Holders(ip) # {}
    /\ Rewrite(Home(ip), ip, branch_target)
    /\ forgotten' = forgotten + RefreshesOf(get_BTBentry(Home(ip), ip))
    /\ UNCHANGED <<BTB_writes, sttram_refreshes, mot_stats>>

update_btb(ip, branch_target, taken) ==
    /\ IF BranchType[ip] = "BRANCH_RETURN"
       THEN ResolveReturn(branch_target)
       ELSE UNCHANGED rasVars
    /\ UpdateMiss(ip, branch_target, taken) \/ UpdateHit(ip, branch_target)
    /\ basic_btb_lru_counter' = basic_btb_lru_counter + 1
    /\ UNCHANGED <<current_core_cycle, dumps, sttram_evictions, expirations, clean>>

-----------------------------------------------------------------------------
(* The callers. *)

Running == dumps = 0 /\ resolving = NONE

HitsCall(ip) == Hits(ip) /\ get_BTBentry(Home(ip), ip).branch_type \in CallTypes

\* spec_inst_prefetch looks up whatever address the front end runs ahead to.
SpecPrediction(ip) ==
    /\ Running
    /\ Holders(ip) # {} => IF Expired(get_BTBentry(Home(ip), ip))
                           THEN sttram_evictions < MaxEvictions
                           ELSE get_BTBentry(Home(ip), ip).hit_count < MaxHits
    /\ btb_prediction(ip, "NOT_BRANCH")
    /\ clean' = (clean /\ ~HitsCall(ip))
    /\ UNCHANGED <<resolving, calls>>

\* read_from_trace predicts a branch ...
TracePrediction(ip) ==
    /\ Running
    /\ BranchType[ip] # "NOT_BRANCH"
    /\ basic_btb_lru_counter < MaxUpdates
    /\ btb_prediction(ip, BranchType[ip])
    /\ resolving' = ip
    /\ calls' = IF BranchType[ip] \in CallTypes THEN Append(calls, ip) ELSE calls
    /\ clean' = (/\ clean
                 /\ Len(calls') <= BASIC_BTB_RAS_SIZE
                 /\ Hits(ip) => HitsCall(ip) = (BranchType[ip] \in CallTypes))

\* ... and then tells the BTB what the trace says it did.
TraceUpdate(branch_target, taken) ==
    /\ resolving # NONE
    /\ BranchType[resolving] \in AlwaysTakenTypes => taken
    /\ (branch_target = 0) = ~taken
    /\ update_btb(resolving, branch_target, taken)
    /\ resolving' = NONE
    /\ calls' = IF BranchType[resolving] = "BRANCH_RETURN" /\ calls # <<>>
                THEN Front(calls) ELSE calls

\* Every entry of the BTB, by the place that holds it.
Places == UNION {{<<p, s, w>> : w \in DOMAIN theBTB[p][s]} : p \in Partition, s \in SetIndex}
EntryAt(place) == theBTB[place[1]][place[2]][place[3]]

\* One more cycle; the entries whose age becomes a multiple of the retention
\* time would have to be refreshed now.
Cycle ==
    /\ Running
    /\ current_core_cycle < MaxCycle
    /\ current_core_cycle' = current_core_cycle + 1
    /\ expirations' = expirations +
         Cardinality({x \in Places :
           /\ POLICY = "REFRESH"
           /\ (Lifetime(EntryAt(x)) + 1) % RETENTION_CYCLES = 0})
    /\ UNCHANGED <<theBTB, basic_btb_lru_counter, resolving, dumps, rasVars, statVars,
                   forgotten, callHistory>>

RefreshesStored == SumFunction([x \in Places |-> RefreshesOf(EntryAt(x))])

\* dump_stt_write_stats, called by print_branch_stats and then by main.
dump_stt_write_stats ==
    /\ resolving = NONE
    /\ dumps < 2
    /\ dumps' = dumps + 1
    /\ sttram_refreshes' = sttram_refreshes + RefreshesStored
    /\ UNCHANGED <<theBTB, basic_btb_lru_counter, current_core_cycle, resolving, rasVars,
                   BTB_writes, sttram_evictions, mot_stats, refreshHistory, callHistory>>

Next ==
    \/ \E ip \in Ip : SpecPrediction(ip) \/ TracePrediction(ip)
    \/ \E target \in Target \cup {0}, taken \in BOOLEAN : TraceUpdate(target, taken)
    \/ Cycle
    \/ dump_stt_write_stats

Spec == Init /\ [][Next]_vars

-----------------------------------------------------------------------------
(* Properties. *)

\* The head of every set is its least recently used entry and no two entries
\* carry the same stamp: the assert(0) of get_lru_value ("We should never
\* enter here because head should be LRU") is unreachable.
HeadIsLRU ==
    \A p \in Partition, s \in SetIndex :
        \A v, w \in DOMAIN theBTB[p][s] :
            v < w => theBTB[p][s][v].lru < theBTB[p][s][w].lru

\* A lookup of the branch that wrote an entry's target finds that entry:
\* nothing another branch does to either partition can hide it, although
\* partitions confuse addresses and lookups stop at the first match.
OwnEntryFound ==
    \A x \in Places :
        LET ip == EntryAt(x).owner
        IN  Holders(ip) # {} /\ x = <<Home(ip), Index[Home(ip)][ip], Min(Matches(Home(ip), ip))>>

\* What the BTB knows about each branch: the target of the entry it wrote,
\* if that is still stored.
Known == [ip \in Ip |->
            IF \E x \in Places : EntryAt(x).owner = ip
            THEN EntryAt(CHOOSE x \in Places : EntryAt(x).owner = ip).target_ip
            ELSE NONE]

TargetMap == INSTANCE BranchTargetMap WITH known <- Known

\* Only an update of a taken branch teaches the map, and it teaches that
\* branch the target the trace gave; an update of one that was not taken,
\* which passes 0 for a target, changes nothing that is known, not even of a
\* branch whose entry it rewrites by mistake.
LearnsFromTrace ==
    IF \E target \in Target : TraceUpdate(target, TRUE)
    THEN \E target \in Target : TraceUpdate(target, TRUE) /\ TargetMap!Learn(resolving, target)
    ELSE Known' = Known

\* A lookup that hits predicts (returns aside, whose target comes from the
\* stack) what is known of the branch or, if nothing is, what is known of one
\* that the partition cannot tell from it.
PredictsKnown ==
    \A ip \in Ip :
        Hits(ip) /\ get_BTBentry(Home(ip), ip).branch_type # "BRANCH_RETURN" =>
            IF Known[ip] # NONE THEN Prediction(ip) = Known[ip]
            ELSE \E j \in Ip : Alias(Home(ip), j, ip) /\ Prediction(ip) = Known[j]

\* Whatever the sets, partitions, aliases, expiry and replacement do, the
\* BTB is a map from branches to the target they last jumped to, which may
\* forget a branch when it learns another and does nothing else; it learns
\* what the trace says and predicts what it has learned.
ImplementsTargetMap == TargetMap!Spec /\ [][LearnsFromTrace]_vars /\ []PredictsKnown

\* What an eviction removes is no younger than any entry the resolving branch
\* could replace, and is the very first stamped one if there is room for it.
EvictsOldest ==
    \A p \in Partition, s \in SetIndex :
        mot_stats' # mot_stats /\ theBTB'[p][s] # theBTB[p][s] =>
          LET victim == Head(theBTB[p][s])
          IN  \A q \in Partition :
                LET set == ThisSet(q, resolving)
                IN  /\ Len(set) < Assoc[q] => victim.lru = 0
                    /\ \A w \in DOMAIN set : victim.lru <= set[w].lru

\* An update that misses evicts nothing while a way is free in one of the
\* partitions, except an entry whose stamp is 0: get_lru_value returns 0 for
\* a set with room, which the very first entry's stamp ties with.  What it
\* evicts otherwise is older than every entry the branch could replace.
VictimIsOldest == [][EvictsOldest]_vars

Stored == Cardinality(Places)
Profiled == SumFunction([z \in DOMAIN mot_stats |-> SumFunction(mot_stats[z])])
Inserting == BTB_writes' # BTB_writes /\ theBTB' # theBTB

\* Every entry that was ever inserted is stored or counted in mot_stats
\* under exactly one zone and bucket: what a set loses, the profile gains.
EvictionsProfiled ==
    [][Stored' + Profiled' = Stored + Profiled + (IF Inserting THEN 1 ELSE 0)]_vars

\* Each retention period an entry lives through ends up in sttram_refreshes
\* once when the entry leaves the BTB, is forgotten when an update rewrites
\* the entry, or is still pending in a stored entry; a dump adds what is
\* pending without clearing it.
RefreshesConserved ==
    sttram_refreshes + forgotten + RefreshesStored = expirations + dumps * RefreshesStored

\* While no speculative lookup hit a call (nothing undoes the push it makes),
\* no branch was taken for an aliasing branch of another kind and the stack
\* did not overflow, the return address stack holds exactly the calls of the
\* trace that have not returned: hits, misses and expired entries push alike.
StackFollowsTrace ==
    clean => \A k \in Slot :
               StackView[k] = IF k < Len(calls) THEN calls[Len(calls) - k] ELSE 0

\* The documentation of the write-back policy says that an expired entry "is
\* invalidated": a lookup never serves a target its cell has lost.
ExpiredNotServed ==
    \A ip \in Ip : Hits(ip) => ~get_BTBentry(Home(ip), ip).lost
=============================================================================
