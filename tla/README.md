# A TLA+ verification of the multi-retention STT-RAM BTB simulator

The repository is a fork of the ChampSim trace-driven simulator (the IPC-1
edition) that studies branch target buffers (BTBs) built from STT-RAM: cells
whose data expires after a retention time, or has to be refreshed, and whose
writes take long. This directory models its core logic in TLA+, checks the
models with TLC, and proves their main invariants with TLAPS.

## The system

One process simulates one or more cores, cycle by cycle. `main` increases each
core's cycle and calls its stages backwards, from retirement to trace reading,
then the caches, then DRAM. Everything is single-threaded; what is concurrent is
the hardware: branches, BTB writes, cache answers and page faults that overlap
in time and share a few registers.

| Component | State | Operations | Interacts with |
|---|---|---|---|
| Volatile STT-RAM BTB (`btb/sttram_volatile_core.h`) | partitions of sets of entries, LRU counter, refresh, eviction and profile counters | `btb_prediction`, `update_btb`, `dump_stt_write_stats` | called by the front end, once speculatively and once with the trace; owns the return address stack |
| Return address stack (same file) | circular array, index, call sizes | push, peek, pop, learning the call size | pushed by predictions of calls, popped by updates of returns |
| Index and tag hash (same file) | none | `index`, `get_tag` | every lookup |
| Multi-retention BTB (`btb/multi-retention-btb.btb`) | partitions split in three zones, wear counters, `btb_write_latency` | `btb_prediction`, `update_btb` with promotion on a hit | sets the latency that stalls the fetch |
| Front end (`src/ooo_cpu.cc`) | fetch buffer, decode buffer, `fetch_stall`, `fetch_resume_cycle`, `IBUF_occupancy`, `skip_next_cycle` | `read_from_trace`, `spec_inst_prefetch`, `fetch_instruction`, `decode_and_dispatch` | BTB, direction predictor, L1I, reorder buffer |
| Out-of-order core (`src/ooo_cpu.cc`) | reorder buffer, load and store queues, dependency sets | scheduling, execution, completion, retirement | front end, L1D, TLBs |
| Caches (`src/cache.cc`) | blocks, RQ, WQ, PQ, MSHR, PROCESSED | `operate` (fill, write-back, read, prefetch), `add_*`, `return_data` | the level above and below |
| DRAM (`src/dram_controller.cc`) | RQ, WQ, banks, bus, write mode | `operate`, `schedule`, `process`, `add_*` | LLC |
| Page allocation (`va_to_pa` in `src/main.cc`) | page tables, recent pages | translate, allocate, swap | caches (invalidation), `stall_cycle` |

What makes each correct:

- *Volatile BTB*: a lookup never gives a target that was not the last one
  written for the entry; partitions, which hash differently, do not hide entries
  from their branches; the victim is the oldest entry; expired data is not used;
  refreshes, evictions and lifetimes are counted once each.
- *Return address stack*: it is a stack, of bounded depth, in step with the calls
  and returns of the trace, whatever is looked up speculatively.
- *Hash*: addresses that fit the tag are told apart; a smaller partition confuses
  whatever a larger one confuses.
- *Multi-retention BTB*: as the volatile BTB, and promotion leaves no copies,
  zones are disjoint, and every cell write is counted and paid for once.
- *DRAM*: banks, queues and counters agree whatever the mode does, what is cached
  about the queues is never out of date, the bus turns around, requests are served.
- *Caches*: whoever waits is answered, once; an answer goes to the cache that asked;
  a set does not hold a line twice; stores survive until they are written below;
  nothing waits in a circle.
- *Out-of-order core*: it behaves as if instructions ran one after the other;
  operands are ready when used; counts of what is in flight agree with what is;
  its assertions hold; it never stands still.
- *Front end*: every stall ends, none before its cause is over; buffers stay
  within their size.

The hard behaviours are listed, with the line where they bite, under `hazards` in
`PROJECT.json`.

## Modules

| Module | Models | Notes |
|---|---|---|
| `ShiftStack` | abstract specification | a stack of fixed depth: a push drops the oldest element, a pop of nothing gives zeros |
| `ReturnAddressStack` | the return address stack | `[index, slots]` as in the code; refined to `ShiftStack` |
| `BTBHash` | `index`, `get_tag` | parameterised by the width of the tag halves; the exclusive or of digits as a recursive function |
| `BranchTargetMap` | abstract specification | a map from branches to targets that learns one branch at a time and may forget others; both BTBs tie it to the trace |
| `VolatileBTB` | the volatile BTB with its stack | see below |
| `MultiRetentionBTB` | the BTB with promotion | see below |
| `FrontEnd` | trace reading, fetch, decode, stalls | see below |
| `DRAMController` | one channel of the memory controller | see below |
| `Cache` | L1I and L1D over L2C | see below |
| `ProgramOrder` | abstract specification | a machine that runs one instruction after the other, and what loads read from it |
| `Core` | reorder buffer, scheduling, load and store queues | see below; refined to `ProgramOrder` |
| `BTBProofs` | | theorems about the return address stack; lemmas on minima and sums that both BTBs need |
| `VolatileBTBProofs`, `MultiRetentionBTBProofs`, `FrontEndProofs`, `DRAMControllerProofs`, `CacheProofs` | | the theorems about one module each |
| `CoreProofs`, `CoreQueueProofs` | | the invariant of `Core`; its register half, then its memory half and the theorems |
| `MC...` | | constants for TLC |

### VolatileBTB

State: `theBTB` (partition, set, sequence of entries; the head of a set is the
element `begin()` of the C++ vector), `basic_btb_lru_counter`, the statistics, the
current cycle, the return address stack (by extending `ReturnAddressStack`).
Actions: `SpecPrediction` (the lookup of `spec_inst_prefetch`, for any address,
branch type unknown), `TracePrediction` and `TraceUpdate` (the pair of calls
`read_from_trace` makes for a branch; no other call comes between them),
`Cycle`, `dump_stt_write_stats`. Addresses are a small set and `Index` and `Tag`
are tables the MC module computes with `BTBHash` from the addresses; the
number of offset bits of a target matters only as the set of partitions that can
hold it. `POLICY` stands for the two preprocessor policies.
`ImplementsTargetMap` has three parts: the stored targets change as `BranchTargetMap` says; they change
only by the update of a taken branch, which enters for that branch the target the trace gave
(`LearnsFromTrace`); and a lookup that hits answers with what is known of the branch, or, if nothing is,
of one its partition cannot tell from it (`PredictsKnown`).
History variables, which no action reads: `owner` (for which branch an entry was
last written), the actual call stack of the trace, the refreshes and evictions
that have happened.

### MultiRetentionBTB

The same shape with zones inside each partition. `Promote` and `RewriteInPlace`
are the two outcomes of `update_hit_BTB`; `Inserted` is `insert_entry`, whose
`way_id` is reused from the evicted entry. `stalled` is history: the cycles the
fetch has been asked to wait. `ImplementsTargetMap` is that of `VolatileBTB` for the branches that no other is
confused with (`Unconfused`); what else happens in the BTB may only make it forget those. It says nothing of
the others, of which `LatestFound` covers the one that wrote last.

### FrontEnd

A variable `stage` walks through one cycle in the order of `main`: retire,
execute, decode, fetch, front, (read), tick. Of an instruction the model keeps
where a misprediction of it is resolved (the code's `branch_mispredicted`,
`branch_type` and `resolve_cond_branch_in_decode`), the cache line and the fetch
status. Cycle numbers become the number of cycles left. Cache and execution
latencies are open: any answer may come in any cycle. A branch is chosen freely
as what the trace, the BTB and the direction predictor say of it, within what
the code can produce (a direct branch is taken, a right target comes of a hit).
Not-taken branches, BTB misses, sequential BTB accesses, the end of warmup and
stalled cycles (page faults) are all included. A full data cache write queue
appears as `retire_rob` retiring fewer instructions than it could.
Instruction translation (ITLB) is part of waiting for the instruction cache.

### DRAMController

`operate` is split into three stages, each a choice of actions: the mode
(`SwitchMode`, which includes `reset_remain_requests`, or `KeepMode`), `schedule`,
and `process` (`Transfer` or `WaitForBus`). In a fourth stage the cache calls
`add_rq` and `add_wq` any number of times, then `NextCycle` follows. `queue`, `bank`
and the cached `next_schedule` and `next_process` are the code's; `request_index` is
`NONE` where the code has `working` 0. Cycles are kept as the number of cycles until
then. Cycles that are past matter by their order only, so `NextCycle` ranks them;
how long the bus has been free matters up to `BusFloor`. A read comes with the
`event_cycle` the cache gave it, now or before (`RequestCycles`), so that reads can be
older than the queue order says. `transfer` is history: which queue used the bus
last, and until when. Channels share no state and the default has one, so one
channel stands for each. Statistics are left out, and ranks are part of the bank.

### Cache

A cache is one entry of `block`, `RQ`, `WQ`, `PQ` and `MSHR`, so that each handler is
written once, as `cache.cc` is. The alternatives of a handler are the branches of the code: a hit,
a new miss, a merged miss, and for write-backs a fill. `operate` lets one handler of one
cache take one request, in any order, since latencies decide when requests become
ready and they are not modelled. A packet keeps its `fill_level` and the flags
`fill_l1i` and `fill_l1d`, from which L2C learns whom to answer; `who` stands for
the sets of entries of the fetch buffer and the load queue that depend on it. The MSHR
is a function from lines, as `check_mshr` never makes two entries for one;
`MSHRFull` keeps its size. `add_rq`, `add_pq` and `add_wq` are the queue after the
call. Answers to the core (PROCESSED) are given at once. `SwapOut` is what `va_to_pa` does to the caches when
it evicts a page. The caller ignores what `add_rq` of the level below returns;
`CacheAssumption` says why that loses nothing: the read queue of L2C (32) has room for
every miss of the two caches above (8 and 16). The rest of it gives sizes and tables their types, lets each
prefetcher fill its own level or below (that of L1I its own), keeps fetches and loads apart and `NONE` different from addresses and lines.
`unwritten` is history: the lines with a store the level below L2C has not got, and of each whether the
store joined the miss of a load.

The model shows behaviour that a reader of `cache.cc` may not expect. A store that joins the miss of a load in
L1D leaves its type LOAD, so the line is filled clean and the store is never written back (`RFOMerged`, `cache.cc:362`).
`unwritten` marks such a store and `StoresKept` exempts it, and no other; without the exemption TLC finds the loss in the
run `cache`. The comment at `cache.cc:158` says "RFO marks cache line dirty", but nothing says what should become of this
store, and data has no value in the simulator. A line that L1D writes back to L2C while a request of L2C for it is
in flight gets two ways. That takes a stored-to line and one of two things: L2C is asked for the line on another
account (fetches, its own prefetches, what the prefetchers above pass down), or its page is swapped out, since a
block that is invalidated while dirty keeps its dirty mark, and its way is written back later. `NoTwoCopies`
exempts those lines in L2C and no others. TLC finds a line held twice on small instances when either
exemption is dropped, and the theorem shows that there is no third way.

### Core

An instruction is its position in a program; a program is an initial value, so one run
takes all of them. The sets that the code keeps (`registers_index_depend_on_me`,
`memory_instrs_depend_on_me`) are sets, whose members are visited by index as `expand` of
`inc/set.h` gives them (`ByIndex`); of the rings RTE0, RTE1 and STA the order counts and
is kept, while those of the load and store queues (RTS0 to RTL1) become the
state of an entry, since with latencies open any of them may be next. `check_and_add_lsq`
takes the operands of an instruction one after the other, loads then stores, of each at most
four, and hands on the state of the queues; that, and a store with the loads it forwards to, is one call
of the code and one step. STA gets the stores of an instruction as it enters the buffer, though
`read_from_trace` fills it when it reads the instruction: the order is the same and only the head is
looked at. `data` is history: which store a load has read. Only addresses and
instructions matter, so a stored value is the instruction that stored it.
A store that executes finds loads by their addresses among the instructions that ever depended on its own, and goes by the
queue index each was given (`Dependents`, `EntryOf`). `OwnLoads` is the assertion of the code on what it finds there;
`execute_store` is guarded by it, and where it fails `assert_fails` stands for the program
that has stopped. The assertion looks only at the instruction an entry waits for, so the entry may be another load's, of another
address: what that load reads is `ASTRAY`.
`Searched` keeps a quirk of the code: `schedule_instruction` does not look past the end of the
circular buffer, as `next_fetch[1]` stays 0; it costs time but `NoStandstill` holds.

## Runs

| Run | Checks | Bounds | Shows |
|---|---|---|---|
| `hash` | `AliasesNest`, `NoAliasWhenTagFits` | all pairs of 128 addresses, index bits 0..3, 2-bit tag halves | wide enough for three digits to be folded |
| `volatile_wb` | `TypeOK`, `StackFollowsTrace`, `ImplementsShiftStack`, `ImplementsTargetMap`, `VictimIsOldest` | two direct-mapped partitions, a call, a return, a conditional branch; a stack that wraps; 4 updates, 2 cycles, retention 1 | expiry, speculation, calls and returns together; the stack as the BTB uses it |
| `volatile_refresh` | `OwnEntryFound`, `HeadIsLRU`, `RefreshesConserved`, `EvictionsProfiled` | partitions of 2x2 and 1x1 with aliases in both; 4 updates, 2 cycles | two refreshes of one entry, evictions from either partition |
| `promotion` | `TypeOK`, `WearAccounted`, `WearPaidFor`, `LatestFound`, `ImplementsTargetMap`, `InsertionsKeepPromoted` | zones of 4, 2, 2 and 2, 1, 1 sets, one way (as shipped); five branches with a call and a return, aliases; 4 updates | an entry reaches zone 3 in three updates, one is left to evict or alias |
| `front_end` | `TypeOK`, `StallHasEnd`, `ResumesAfterResolving`, `RunsAheadWithinBuffer`, `FetchResumes` | buffers of 2, 2 and 1; two instructions per cycle; write latency 0 or 2 | full and empty buffers, two branches in flight, stalls that overlap; no bound on length |
| `dram` | `TypeOK`, `BanksAgree`, `NextUpToDate`, `BusTurnsAround`, `RequestsServed` | two banks, one with two rows; queues of 2 reads and 3 writes, marks at 3 and 2; latencies of one cycle, turn-around of two; 4 requests | requests taken back from their banks in both directions, bank conflicts, row hits, merging |
| `expired_served` | `ExpiredNotServed` is violated | 2 partitions | finding 1 |
| `resumed_early` | `NoFetchPastMispredict` is violated | | finding 2 |
| `cache` | `TypeOK`, `OneRequestBelow`, `RequesterHeldOnce`, `NoTwoCopies`, `StoresKept`, `Drains` | L1s of one way, one MSHR and queues of one, L2C with two; lines of code, of data that is written only, of data that is read, written and prefetched; `MaxInFlight` 3 | every full queue and table, merging in queues and MSHRs, dirty victims at both levels |
| `code_next_to_data` | `CollisionsLoseNoMiss` is violated | one line that holds code and data | finding 3 |
| `core` | `TypeOK`, `OperandsReady`, `CountsAgree`, `FindsItsLoads`, `NextEntryFree`, `ImplementsProgramOrder`, `NoStandstill` | all programs of three of nine kinds of instruction, of four of three kinds, of five of two kinds, and one that is partly overwritten; reorder buffer 4, scheduler 3, queues of 2 | the buffer wraps and fills, queues are full, stores are found waiting, executed and retired |
| `loads_block_loads` | `NoStandstill` is violated | eight instructions; all sizes 8 but for the store queue of 2 | finding 4 |

Bounds. `MaxUpdates`, `MaxHits`, `MaxCycle` and `MaxEvictions` cap the LRU
counter, hit counters, the cycle and the eviction count of the BTB models; they
are guards, and the runs that have them stop there (`CHECK_DEADLOCK FALSE`). The
front end needs none. In `dram` `MaxRequests` is a guard of the cache's
requests, not of the controller, which goes on for ever; three writes and a read
are enough to reach the high mark while a read is on a bank. The turn-around
takes two cycles because a column access of one cycle would hide a shorter one; with
the shipped values the column access (12.5 ns) hides the turn-around (7.5 ns) likewise.

In `cache` the bound is `MaxInFlight`: with three requests in queues or MSHRs, which is more than a
cache of the first level can hold of one kind, the core and the prefetchers ask for
nothing new. What the handlers send down is not bounded by it. In that run no line holds code and
data, which is what finding 3 needs, and the prefetchers are those of the README's first
build commands: none for L1I, `next_line` for L1D, and for L2C one that fills L2C or below. In `core` a
program ends, and deadlock is checked: `Ended` is the only step at its end, `assert_fails` at a failed assertion. With a store queue of
two, a partly overwritten program always stops there; with three entries it may get past it (see *Observed*). Sizes
keep the order of the code's, a scheduler that is smaller than the buffer (128 of 352)
included; in `loads_block_loads` the load queue and the scheduler have one size, as in the code
(128).

Fairness. `FetchResumes` is checked under `FairSpec`. The main loop never stops
(`WF_vars(Next)`). In one of the cycles, which come round again and again, so
that the conditions hold only at certain stages (hence strong fairness): the
data cache has room and the head of the reorder buffer retires, execution of the
oldest instruction ends, the instruction cache accepts what is wanted and
answers. Nothing is assumed of branches, of BTB writes or of the warmup.
`RequestsServed` needs only `WF_vars(Next)`: `operate` is called in every cycle. It speaks
of the requests that wait once the cache stops asking. For a stream that never
ends the code promises nothing: writes can keep reads waiting, and row hits can
overtake an older request.

`Drains` needs weak fairness of the handlers as a whole (`WF_vars(Handlers)`):
`main` calls each of them in every cycle and the level below L2C answers. That is
all: no handler has to be favoured, as every step of one leaves less to do. It speaks
of requests that are open once no new ones come, for the reason given for
`RequestsServed`. `Core` needs no fairness: `NoStandstill` says that some step is possible, or the program has ended or
stopped at its assertion, and no step repeats itself.

Every property of a passing run has a mutant in `PROJECT.json`: a plausible bug
in a modelled definition that TLC finds with that property.

## Findings

1. *An expired entry comes back.* `btb_prediction` treats an entry past its
   retention time as a miss but leaves it in the set. If the branch is then not
   taken, `update_btb` sees a hit, keeps the lost target (the new one is 0) and
   renews `write_timestamp`; the next lookup serves the lost target.
   `motivational_analysis_summary.md:47` says the entry is invalidated.
2. *A BTB write ends the stall of its own misprediction.* `read_from_trace`
   sets `fetch_resume_cycle` for the write of a taken branch, mispredicted or
   not; the fetch resumes when the write ends, before the branch is resolved,
   and the resolution leaves a resume cycle behind that ends the next stall at
   once. Without a write latency this cannot happen (`ResumesAfterResolving`).
3. *Code next to data loses an answer.* A fetch that meets, in the MSHR of L2C, the
   prefetch of L1D for the same line replaces it together with its flags, so L1D is
   never answered; a load of the line then waits for ever. `check_mshr` had a safeguard, which
   is commented out, and the comment at `cache.cc:644` still relies on it.
4. *Loads block loads.* Slots of the load queue go to whoever is ready first. Loads that wait for
   older stores can take all of them while the stores wait for the data of an older load that gets its
   registers late. The order STA keeps is for stores only, though it is there for execution "without
   deadlock" (`ooo_cpu.cc:80`). It takes instructions with two loads (or more instructions
   in the scheduler than slots in the queue) and two such stores.

Observed, and without a run of its own:

- `print_branch_stats` and `main` (lines 183 and 1073) both call `dump_stt_write_stats`, which adds the
  pending refreshes again: they are counted twice in what is printed last.
- A hit with a new target keeps the entry's partition however many offset bits the target
  needs (`multi-retention-btb.btb:165`).
- *A store wakes a load that is not its own.* `memory_instrs_depend_on_me` notes instructions, not loads. After an
  instruction that stores to two addresses and a later store to one of them, an instruction that loads
  both depends on the first store for one load only. That store finds the other load too, when it executes to its
  address, and the assertion at `ooo_cpu.cc:2023` stops the program. The run `core` contains this program and takes
  `assert_fails` in it; `FindsItsLoads` says that no other instructions than those that are partly overwritten get there.
- With a store queue of three entries or more, a partly overwritten program can get past that assertion: in
  `<<store x y; store x; load x y; load y>>` with two entries in the load queue, the load of `x` has been answered and its entry
  has been taken by the load of `y` of the last instruction, which waits for the first store as well. The first store
  then finds that entry under `x`, and takes it for its own: the load of `y` is completed with an address of `x`
  (`ASTRAY`). The other invariants of `core` hold there.
- The items under *Cache*.

## Proofs

TLAPS checks every theorem for all values of the constants that satisfy the
modules' `ASSUME`s; TLC evaluates those assumptions in the runs. What they ask is: sizes,
widths and latencies are numbers, positive where an array has the size; tables have the right
domains; `NONE` is none of the values it is compared with; there are finitely many sets
(`SetIndex`) and cache lines (`Line`). Some say more and are named where they are used below.

How the proofs are built. Each component has one inductive invariant. Where many actions change
one structure, a lemma says first what they have in common (`StepEffect` of the volatile BTB,
`Stores` of the multi-retention BTB, `Takes`, `Executes` and `Becomes` of the core, `Effect` of the caches), and the proofs of the
invariants use that in place of the actions. The choices the code makes by a search (the
youngest producer, the oldest request, the least recent way) are `CHOOSE` in the models; that what is
chosen exists is proved by a smallest counterexample.

### Return address stack (`BTBProofs`)

`RASTypeCorrect`, `RASImplementsShiftStack`: type correctness and refinement. The mapping reads
the array from the index downwards; the lemmas are about the wrap of `NextSlot` and `PreviousSlot`
and about how a push or a pop shifts the element at each depth. `StackImplemented` says the same of the
stack inside the volatile BTB.

### Volatile BTB (`VolatileBTBProofs`)

- `LRUOrderKept` (`[]HeadIsLRU`): not inductive alone. `LRUInv` adds the type and
  `StampsPast`: no entry's stamp is ahead of the LRU counter, so an entry
  appended with the current stamp keeps the order of the set. `EvictionsOldest` (`VictimIsOldest`)
  follows: the chosen partition's head has the least value of all.
- `LookupsFindOwn` (`[]OwnEntryFound`): `OwnInv` adds `OwnerFits` (an entry has the
  set and tag of its owner) and `NotHidden` (no earlier partition holds an entry
  that matches). It needs `AliasAssumption`: what a partition confuses, later
  partitions, which have fewer sets, confuse too. The run `hash` checks that the
  code's hash has that property (`AliasesNest`). `ImplementsMap` rests on the same invariant: the entry an update writes is the one its branch finds, so what
  enters the map is the target of the trace, and what a lookup finds was written for its branch or an alias.
- `RefreshesAlwaysConserved` and `EvictionsAlwaysProfiled`: the accounts are sums over all stored entries
  and all cells of the profile, and an update changes one set, so a step must move one term
  of the sum. `BooksInv` supplies what that takes: entries are in order, none was written in the
  future (a refresh count is then a number), and no update comes after the end-of-run dump
  (`ResolvedFirst`).
- `StackAlwaysFollows` (`[]StackFollowsTrace`): `StackInv` adds the types and `WithinStack`, that
  while the history calls the run clean the calls fit the buffer.
- `TypeCorrect`: the whole state.

Sums. `SumFunction` of the community modules is a fold, and induction over a finite set is out
of reach here. `BTBProofs` gets what is needed (`SumIsTotal` and the lemmas after it: sums are
numbers, changing one term changes the sum by as much, an empty sum is 0, moving terms along a bijection changes
nothing) from a recursive function over subsets and an induction that is
the well-foundedness of the naturals: of all sets that refute a fact one has the least size, and that one leads to a
smaller one.

### Multi-retention BTB (`MultiRetentionBTBProofs`)

`BTBInv`: types; no set is longer than its associativity (`WithinWays`); an entry lies in the set and carries
the tag its owner's lookup uses, and wears a cell of that set (`WellPlaced`); a branch that no other is confused
with has one entry at most (`OnePlace`). Promotion is the hard case: one set loses an entry in the middle,
another, maybe the same, loses its first and gains one at the end. `Stores` describes insertion, promotion and rewriting
alike, `Origin` where each entry of a set came from. From it follow

- `TargetMapImplemented` for every associativity, and `PromotedNeverDisplaced`, for which the zones have to be
  disjoint ranges of the sets (`index`);
- `LatestAlwaysFound`, with one way per set (`OneWay`, a hypothesis of the theorem; all shipped partitions have
  one, and with more `LatestFound` is false);
- `WearAlwaysAccounted` and `WearAlwaysPaidFor`, by the sums above: each update writes one cell
  of the zone whose latency the fetch pays.

### Front end (`FrontEndProofs`)

`FrontInv` has three parts beyond the types. `ReadsWithinBounds` is the condition of the reading loop; `RunsAheadWithinBuffer`
and `StallHasEnd` are inductive with it. `ResumesAfterResolving` is not: it needs `SingleStall`, that at most one branch that
stalled the fetch is unresolved in all buffers together (`OnlyOne`), and that a resume cycle is set only once it
has been resolved. That part is inductive only while no BTB write has stalled the fetch, which is finding 2 seen
from the other side.

### DRAM controller (`DRAMControllerProofs`)

`DRAMInv` adds to `BanksAgree` and `NextUpToDate`, which are inductive together, `PerQueue` (shapes) and `BusFree`: the bus is not
free before the last transfer is over and, if that was in the other direction, before the bus has turned around. `BusFree` speaks of
times relative to now, which `NextCycle` truncates and ranks; that ranking keeps the order of request times is a lemma
of its own. `BusAlwaysTurnsAround` follows from it.

### Out-of-order core (`CoreProofs`, `CoreQueueProofs`)

`CoreInv` is the largest. `RegistersInv`: a reader is noted at one producer per
operand, its count is the number of its notes, and the last writer of each operand is among them until it has completed.
`QueuesInv`: entries and operands point to each other; a load waits for the last store to its address, or for
nobody if no store in the buffer has it; what was read came from the last store, which if still in the buffer can forward; the
store queue is a ring in program order and STA holds what comes after it; operations and counters agree. It is stated of a state record, so that
`check_and_add_lsq` is followed operand by operand (`TryLoadKeeps`, `TryStoreKeeps`); a load that has taken an entry and is
about to be answered at once breaks it for one entry (`QueuesBut`, `MayRead`). From `CoreInv` follow

- `OperandsAreReady`, `CountersAgree`;
- `NextEntryIsFree`, from the order of the ring: the assertion of `add_store_queue` holds of every program;
- `StoresFindTheirLoads`: a store finds only loads of its own unless its instruction is `PartlyOverwritten`: an
  instruction loads two addresses it stores to, and only one has been overwritten in between. Otherwise it is
  the last store to both or to neither (`LastToBoth`), and a load it finds cannot have been answered before it executed. The
  condition is on the program, not an assumption of the module: the programs it excludes are those of *Observed*;
- `OrderImplemented`, for programs in which nothing is partly overwritten (`NothingPartlyOverwritten`, a hypothesis of the theorem):
  retirement is the step of `ProgramOrder`, everything else stutters. What the head has read came from the
  last store before it, which has retired by then, so it is what `memory` holds.

### Caches (`CacheProofs`)

`BaseInv` types the state and says what each queue and MSHR may hold: sizes are kept, a queue in which requests merge holds a line once, an MSHR
entry is kept under the line of its address, the flags `fill_l1i` and `fill_l1d` name only lines those caches may ask for,
and what is valid or dirty in a block is the line of some address. `StepEffect` shows that every step keeps it and has one of
the effects listed in `Effect`; the other four invariants are proved from those effects, each from the parts of the state it is about. From them follow

- `CacheTypeOK`, from `BaseInv` alone;
- `CacheStoresKept`: `StoresKept` is inductive with `BaseInv`. A stored-to line is, unless the store joined the miss of a load, dirty in a block, in the write queue of L2C or in
  a miss of L1D, and a fill, an eviction or another merge that takes it from one place puts it in the next;
  a page that is swapped out counts as written;
- `CacheRequesterHeldOnce`: `WaitersInv` says under which line each requester waits, and that it is in the read queue or in the MSHR, not both;
- `CacheAnswersExpected`: L2C never holds two requests it will answer for one miss above, nor one for a miss that is gone, so the
  assertion in `return_data` holds. `BelowInv` locates each request: in the read queue, the prefetch queue or the MSHR of L2C, in one of them only. That an ignored
  answer of `add_rq` loses nothing is proved too (the lemma `ReadRoom`, from the sizes in `CacheAssumption`);
- `CacheOneRequestBelow`: there is exactly one. This half needs `Separate`, a hypothesis of the theorem: neither L1's prefetcher asks
  for lines of the other. The run `cache` satisfies it; `code_next_to_data` does not, and shows that without it the
  answer can be lost (finding 3);
- `CacheNoTwoCopies`: `CopiesInv` adds that a valid block lies in the set of its line, that only stores make an L1 block dirty, that a line
  that is in a cache has no miss there, and that a line on its way from L1D to L2C is not on its way to L2C from below.
  The last two are restricted to the lines `NoTwoCopies` does not exempt.

### Only model-checked

- `FetchResumes`, `RequestsServed`, `Drains`: liveness under fairness is out of reach of TLAPS. `NoStandstill` does
  not hold for all programs and sizes (finding 4), so the run states it for its own.
- `AliasesNest` and `NoAliasWhenTagFits`: what the recursive exclusive-or computes, an induction over data.
- The violation runs, which are counterexamples.

## Not modelled, and the plan

Done: steps 1 to 8. The order is that of importance for what this
repository adds to ChampSim, then of how much state interacts.

1. Return address stack, hash, volatile BTB; their proofs.
2. Multi-retention BTB.
3. Front end and fetch stalls.
4. Inventory, hazards, findings.
5. DRAM controller.
6. Caches of one core.
7. Out-of-order core, refined to program order.
8. Proofs of the multi-retention BTB, the front end, the DRAM controller, the core and the caches, and of
   the accounts of the volatile BTB.
9. Composition of `MultiRetentionBTB` with `FrontEnd`, so that write latencies come
   of promotions; the warmup and the end of the run, with statistics.
10. `va_to_pa`; PDede.

Not modelled yet, or left out of a module:

- Caches: the LLC, which runs the same code (with `llc_find_victim`, whose answer may be to bypass) over DRAM and is the environment
  of `Cache`; the ITLB, DTLB and STLB, which are caches without write-backs; latencies; the size of
  PROCESSED; an L1I prefetcher such as fdip; statistics. The caches of several cores share
  the LLC only.
- Core: the number of operations per cycle, latencies, merging in the DTLB, the full queues of DTLB and L1D
  (a request that is refused is made again), stores that wait for the write queue of L1D (in
  `FrontEnd`, as retirement that stops).
- `va_to_pa` but for the invalidation of a page.
- PDede, and the other BTB organisations, which are simpler forms of the two
  that are modelled.

Left out for good: direction predictors and prefetchers (free choices to
the rest), LLC replacement policies other than LRU (unchanged from ChampSim,
with no state shared with anything), tracers and converters (separate
programs), scripts, and printed statistics other than those named above.
