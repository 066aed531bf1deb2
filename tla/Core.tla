--------------------------------- MODULE Core ---------------------------------
(***************************************************************************)
(* The out-of-order part of a core (src/ooo_cpu.cc, from add_to_rob on):   *)
(* instructions enter the reorder buffer, are scheduled in order, wait for *)
(* the registers they read, take entries of the load and store queues, are *)
(* translated and executed out of order, and retire in order.              *)
(*                                                                         *)
(* An instruction is known by its position in the program, and so is its   *)
(* entry of the buffer, index (i - 1) % ROB_SIZE.  Latencies are left out: *)
(* what may happen in this cycle may happen in any later one, and any      *)
(* request to the TLB or to L1D may be answered next.                      *)
(* data is history: whose store a load reads, 0 if nobody's, ASTRAY if it  *)
(* has been given what was stored to another address.                      *)
(***************************************************************************)
EXTENDS Integers, FiniteSets, SequencesExt

CONSTANTS
    Address,        \* of the data
    Register,
    Programs,       \* instructions that the front end may bring
    ROB_SIZE, SCHEDULER_SIZE, LQ_SIZE, SQ_SIZE,
    NONE

\* source_registers and destination_registers, source_memory and
\* destination_memory, by slot and without the empty slots.
Instruction == [reads : Seq(Register), writes : SUBSET Register,
                loads : Seq(Address), stores : Seq(Address)]

\* How far an entry of the load queue has come.  One that waits for the
\* store it depends on is in no queue.
LoadState == {"waiting", "RTL0", "DTLB", "RTL1", "L1D"}
StoreState == {"RTS0", "DTLB", "RTS1", "executed"}

Loading == [instr : Nat, slot : 1..4, producer : Nat \cup {NONE}, state : LoadState]
Storing == [instr : Nat, slot : 1..4, state : StoreState]

\* An instruction has up to four slots for registers, loads and stores
\* (NUM_INSTR_SOURCES, MAX_INSTR_DESTINATIONS).
ASSUME CoreAssumption ==
    /\ ROB_SIZE \in Nat \ {0} /\ SCHEDULER_SIZE \in Nat \ {0}
    /\ LQ_SIZE \in Nat \ {0} /\ SQ_SIZE \in Nat \ {0}
    /\ NONE \notin Int /\ NONE \notin Loading /\ NONE \notin Storing
    /\ \A p \in Programs :
         /\ p \in Seq(Instruction)
         /\ \A i \in DOMAIN p :
              /\ Len(p[i].reads) <= 4
              /\ IsInjective(p[i].loads) /\ Len(p[i].loads) <= 4
              /\ IsInjective(p[i].stores) /\ Len(p[i].stores) <= 4

VARIABLES
    program,
    head, tail, next_schedule,      \* of the reorder buffer
    ROB,                            \* entries, by instruction
    RTE0, RTE1,                     \* ready to execute, in order
    STA,                            \* stores not in the store queue, in order
                                    \*   (of the instructions in the buffer)
    LQ, SQ, SQ_tail,                \* load and store queue, by index
    inflight_reg_executions, inflight_mem_executions,
    data

scheduling == <<head, tail, next_schedule, RTE0, RTE1>>
memory == <<STA, LQ, SQ, SQ_tail, data>>
inflight == <<inflight_reg_executions, inflight_mem_executions>>
vars == <<program, scheduling, ROB, memory, inflight>>

INFLIGHT == 1
COMPLETED == 2
ASTRAY == -1

Instr == DOMAIN program
InROB == head..(tail - 1)
LQIndex == 0..(LQ_SIZE - 1)
SQIndex == 0..(SQ_SIZE - 1)

is_memory(i) == program[i].loads # <<>> \/ program[i].stores # <<>>

\* source_added and destination_added tell whether lq_index and sq_index of
\* the slot are set.
Entry(i) ==
    [scheduled : 0..2, executed : 0..2, reg_ready : BOOLEAN,
     num_reg_dependent : Nat, num_mem_ops : Nat,
     registers_index_depend_on_me : SUBSET (Instr \X (1..4)),
     memory_instrs_depend_on_me : SUBSET Instr,
     lq_index : [DOMAIN program[i].loads -> LQIndex \cup {NONE}],
     sq_index : [DOMAIN program[i].stores -> SQIndex \cup {NONE}]]

TypeOK ==
    /\ program \in Programs
    /\ head \in 1..tail /\ tail \in 1..(Len(program) + 1) /\ tail - head <= ROB_SIZE
    /\ next_schedule \in head..tail
    /\ DOMAIN ROB = Instr
    /\ \A i \in Instr : IF i \in InROB THEN ROB[i] \in Entry(i) ELSE ROB[i] = NONE
    /\ RTE0 \in Seq(InROB) /\ RTE1 \in Seq(InROB)
    /\ IsInjective(RTE0) /\ IsInjective(RTE1) /\ Range(RTE0) \cap Range(RTE1) = {}
    /\ STA \in Seq(Instr)
    /\ LQ \in [LQIndex -> Loading \cup {NONE}]
    /\ SQ \in [SQIndex -> Storing \cup {NONE}] /\ SQ_tail \in SQIndex
    /\ inflight_reg_executions \in Nat /\ inflight_mem_executions \in Nat
    /\ DOMAIN data = Instr
    /\ \A i \in Instr : data[i] \in [DOMAIN program[i].loads -> {NONE, ASTRAY, 0} \cup Instr]

Init ==
    /\ program \in Programs
    /\ head = 1 /\ tail = 1 /\ next_schedule = 1
    /\ ROB = [i \in Instr |-> NONE]
    /\ RTE0 = <<>> /\ RTE1 = <<>>
    /\ STA = <<>>
    /\ LQ = [l \in LQIndex |-> NONE]
    /\ SQ = [s \in SQIndex |-> NONE] /\ SQ_tail = 0
    /\ inflight_reg_executions = 0 /\ inflight_mem_executions = 0
    /\ data = [i \in Instr |-> [j \in DOMAIN program[i].loads |-> NONE]]

-----------------------------------------------------------------------------
(* The reorder buffer and registers.                                       *)

new_entry(i) ==
    [scheduled |-> 0, executed |-> 0, reg_ready |-> FALSE, num_reg_dependent |-> 0,
     num_mem_ops |-> Len(program[i].loads) + Len(program[i].stores),
     registers_index_depend_on_me |-> {}, memory_instrs_depend_on_me |-> {},
     lq_index |-> [j \in DOMAIN program[i].loads |-> NONE],
     sq_index |-> [j \in DOMAIN program[i].stores |-> NONE]]

\* read_from_trace has filled STA in the order of the instructions.
StoresOf(i) == [j \in DOMAIN program[i].stores |-> i]

\* Mutation: the buffer takes one instruction too many.
OverfullROB ==
    /\ tail \in Instr
    /\ tail - head <= ROB_SIZE
    /\ ROB' = [ROB EXCEPT ![tail] = new_entry(tail)]
    /\ STA' = STA \o StoresOf(tail)
    /\ tail' = tail + 1
    /\ UNCHANGED <<program, head, next_schedule, RTE0, RTE1, LQ, SQ, SQ_tail, data, inflight>>

\* decode_and_dispatch hands over the next instruction.
add_to_rob ==
    /\ tail \in Instr
    /\ tail - head < ROB_SIZE
    /\ ROB' = [ROB EXCEPT ![tail] = new_entry(tail)]
    /\ STA' = STA \o StoresOf(tail)
    /\ tail' = tail + 1
    /\ UNCHANGED <<program, head, next_schedule, RTE0, RTE1, LQ, SQ, SQ_tail, data, inflight>>

Youngest(instrs) == IF instrs = {} THEN NONE ELSE CHOOSE i \in instrs : \A k \in instrs : k <= i

\* reg_dependency: the youngest older instruction that has not executed and
\* writes the register that i reads in slot j.
reg_RAW_dependency(i, j) ==
    Youngest({p \in head..(i - 1) : /\ ROB[p].executed # COMPLETED
                                    /\ program[i].reads[j] \in program[p].writes})

\* The scheduler looks at SCHEDULER_SIZE entries from head on, and no
\* further than the end of the buffer (next_fetch[1] stays 0).
rob_index(i) == (i - 1) % ROB_SIZE
Searched(i) ==
    /\ i - head < SCHEDULER_SIZE
    /\ rob_index(i) >= rob_index(head)

do_scheduling ==
    LET i         == next_schedule
        dependent == {j \in DOMAIN program[i].reads : reg_RAW_dependency(i, j) # NONE}
        scheduled == [ROB[i] EXCEPT
                        !.reg_ready = dependent = {},
                        !.num_reg_dependent = Cardinality(dependent),
                        !.scheduled = IF is_memory(i) THEN INFLIGHT ELSE COMPLETED]
    IN  /\ i \in InROB
        /\ Searched(i)
        /\ ROB' = [k \in Instr |->
             IF k = i THEN scheduled
             ELSE IF k \notin InROB THEN ROB[k]
             ELSE [ROB[k] EXCEPT !.registers_index_depend_on_me =
                     @ \cup {<<i, j>> : j \in {d \in dependent : reg_RAW_dependency(i, d) = k}}]]
        /\ next_schedule' = i + 1
        /\ RTE1' = IF dependent = {} /\ ~is_memory(i) THEN Append(RTE1, i) ELSE RTE1
        /\ UNCHANGED <<program, head, tail, RTE0, memory, inflight>>

do_execution(i) ==
    /\ ROB' = [ROB EXCEPT ![i].executed = INFLIGHT]
    /\ inflight_reg_executions' = inflight_reg_executions + 1

execute_instruction ==
    /\ \/ RTE0 # <<>> /\ do_execution(Head(RTE0)) /\ RTE0' = Tail(RTE0) /\ UNCHANGED RTE1
       \/ RTE1 # <<>> /\ do_execution(Head(RTE1)) /\ RTE1' = Tail(RTE1) /\ UNCHANGED RTE0
    /\ UNCHANGED <<program, head, tail, next_schedule, memory, inflight_mem_executions>>

\* Mutation: an instruction is released by the first of its producers.
ReleaseAtOnce(entries, i) ==
    LET slots(k) == {j \in DOMAIN program[k].reads :
                       <<k, j>> \in entries[i].registers_index_depend_on_me}
    IN  [k \in Instr |->
           IF slots(k) = {} THEN entries[k]
           ELSE [entries[k] EXCEPT !.num_reg_dependent = 0, !.reg_ready = TRUE]]

\* The entries after i has given up its registers to those that wait.
reg_RAW_release(entries, i) ==
    LET slots(k) == {j \in DOMAIN program[k].reads :
                       <<k, j>> \in entries[i].registers_index_depend_on_me}
        left(k)  == entries[k].num_reg_dependent - Cardinality(slots(k))
    IN  [k \in Instr |->
           IF slots(k) = {} THEN entries[k]
           ELSE [entries[k] EXCEPT !.num_reg_dependent = left(k), !.reg_ready = left(k) = 0]]

\* A fast set gives its members by index.
ByIndex(s) == \A a, b \in DOMAIN s : a < b => rob_index(s[a]) < rob_index(s[b])

\* complete_execution: update_rob looks at every entry while anything is in
\* flight.
complete_execution(i) ==
    LET entries == reg_RAW_release([ROB EXCEPT ![i].executed = COMPLETED], i)
        woken   == {k \in InROB : entries[k].reg_ready /\ ~ROB[k].reg_ready /\ ~is_memory(k)}
    IN  /\ inflight_reg_executions > 0 \/ inflight_mem_executions > 0
        /\ i \in InROB
        /\ ROB[i].executed = INFLIGHT
        /\ ROB[i].num_mem_ops = 0
        /\ ROB' = entries
        /\ \E s \in SetToSeqs(woken) : ByIndex(s) /\ RTE0' = RTE0 \o s
        /\ IF is_memory(i)
           THEN /\ inflight_mem_executions' = inflight_mem_executions - 1
                /\ UNCHANGED inflight_reg_executions
           ELSE /\ inflight_reg_executions' = inflight_reg_executions - 1
                /\ UNCHANGED inflight_mem_executions
        /\ UNCHANGED <<program, head, tail, next_schedule, RTE1, memory>>

-----------------------------------------------------------------------------
(* The load and the store queue.  st holds what the operations of an       *)
(* instruction change as they enter the queues one after the other.        *)

st0 == [ROB |-> ROB, LQ |-> LQ, SQ |-> SQ, SQ_tail |-> SQ_tail, STA |-> STA,
        inflight |-> inflight_mem_executions, data |-> data]

Becomes(st) ==
    /\ ROB' = st.ROB /\ LQ' = st.LQ /\ SQ' = st.SQ /\ SQ_tail' = st.SQ_tail
    /\ STA' = st.STA /\ inflight_mem_executions' = st.inflight /\ data' = st.data
    /\ UNCHANGED <<program, scheduling, inflight_reg_executions>>

Room(queue) == \E x \in DOMAIN queue : queue[x] = NONE

\* Mutation: every operation that is done counts for an instruction.
EveryOpCounts(st, i) == [st EXCEPT !.ROB[i].num_mem_ops = @ - 1, !.inflight = @ + 1]

\* One memory operation of i is done.
MemOpDone(st, i) ==
    [st EXCEPT !.ROB[i].num_mem_ops = @ - 1,
               !.inflight = IF st.ROB[i].num_mem_ops = 1 THEN @ + 1 ELSE @]

\* Load j of i reads what p stored, and leaves the queue.
LoadDone(st, i, j, p) ==
    MemOpDone([st EXCEPT !.data[i][j] = p, !.LQ[st.ROB[i].lq_index[j]] = NONE], i)

\* Mutation: a load looks at the stores in the store queue only.
InQueueProducer(st, i, addr) ==
    Youngest({p \in head..(i - 1) :
                \E s \in SQIndex : st.SQ[s] # NONE /\ st.SQ[s].instr = p
                                   /\ program[p].stores[st.SQ[s].slot] = addr})

\* The youngest older instruction that stores to addr, in the store queue
\* or not.
mem_RAW_dependency(st, i, addr) ==
    Youngest({p \in head..(i - 1) : addr \in Range(program[p].stores)})

\* Mutation: any store of p that has executed will do.
ForwardsAnyStore(st, p, addr) ==
    \E s \in SQIndex : st.SQ[s] # NONE /\ st.SQ[s].instr = p /\ st.SQ[s].state = "executed"

\* The store of p to addr has executed.
Forwards(st, p, addr) ==
    \E s \in SQIndex : /\ st.SQ[s] # NONE
                       /\ st.SQ[s].instr = p
                       /\ program[p].stores[st.SQ[s].slot] = addr
                       /\ st.SQ[s].state = "executed"

FirstFree(queue) ==
    CHOOSE x \in LQIndex : queue[x] = NONE /\ \A y \in LQIndex : queue[y] = NONE => x <= y

\* Load j of i takes entry l, and is noted at its producer p.
LoadAdded(st, i, j, l, p) ==
    [st EXCEPT !.ROB[i].lq_index[j] = l,
               !.LQ[l] = [instr |-> i, slot |-> j, producer |-> p,
                          state |-> IF p = NONE THEN "RTL0" ELSE "waiting"]]
LoadNoted(st, i, p) ==
    IF p = NONE THEN st ELSE [st EXCEPT !.ROB[p].memory_instrs_depend_on_me = @ \cup {i}]

add_load_queue(st, i, j) ==
    LET addr  == program[i].loads[j]
        p     == mem_RAW_dependency(st, i, addr)
        noted == LoadNoted(LoadAdded(st, i, j, FirstFree(st.LQ), p), i, p)
    IN  IF p # NONE /\ Forwards(st, p, addr) THEN LoadDone(noted, i, j, p) ELSE noted

\* Mutation: a store takes the first entry that is free, as loads do.
StoreTakesFirstFree(st, i, j) ==
    LET s == CHOOSE x \in SQIndex :
               st.SQ[x] = NONE /\ \A y \in SQIndex : st.SQ[y] = NONE => x <= y
    IN  [st EXCEPT !.ROB[i].sq_index[j] = s,
                   !.SQ[s] = [instr |-> i, slot |-> j, state |-> "RTS0"],
                   !.SQ_tail = (@ + 1) % SQ_SIZE,
                   !.STA = Tail(@)]

\* A store takes the next entry of the ring; that it is free is asserted.
add_store_queue(st, i, j) ==
    [st EXCEPT !.ROB[i].sq_index[j] = st.SQ_tail,
               !.SQ[st.SQ_tail] = [instr |-> i, slot |-> j, state |-> "RTS0"],
               !.SQ_tail = (@ + 1) % SQ_SIZE,
               !.STA = Tail(@)]

MayLoad(st, i, j) == st.ROB[i].lq_index[j] = NONE /\ Room(st.LQ)

\* Mutation: stores take their entries in any order.
MayStoreAnytime(st, i, j) == st.ROB[i].sq_index[j] = NONE /\ Room(st.SQ)

\* Stores take their entries in the order of the program.
MayStore(st, i, j) ==
    /\ st.ROB[i].sq_index[j] = NONE
    /\ Room(st.SQ)
    /\ st.STA # <<>> /\ Head(st.STA) = i

TryLoad(st, i, j) ==
    IF j \in DOMAIN program[i].loads /\ MayLoad(st, i, j) THEN add_load_queue(st, i, j) ELSE st
TryStore(st, i, j) ==
    IF j \in DOMAIN program[i].stores /\ MayStore(st, i, j) THEN add_store_queue(st, i, j) ELSE st

AddLoads(st, i) == TryLoad(TryLoad(TryLoad(TryLoad(st, i, 1), i, 2), i, 3), i, 4)
AddStores(st, i) == TryStore(TryStore(TryStore(TryStore(st, i, 1), i, 2), i, 3), i, 4)

check_and_add_lsq(st, i) == AddStores(AddLoads(st, i), i)

\* i waits for entries of the queues, and can get some.
Waits(i) == is_memory(i) /\ ROB[i].reg_ready /\ ROB[i].scheduled = INFLIGHT
CanAdd(i) == \/ \E j \in DOMAIN program[i].loads : MayLoad(st0, i, j)
             \/ \E j \in DOMAIN program[i].stores : MayStore(st0, i, j)

\* schedule_memory_instruction tries the entries from head on.
do_memory_scheduling(i) ==
    LET st  == check_and_add_lsq(st0, i)
        all == NONE \notin Range(st.ROB[i].lq_index) \cup Range(st.ROB[i].sq_index)
    IN  /\ i \in InROB /\ Waits(i) /\ CanAdd(i)
        /\ \A k \in head..(i - 1) : ~(Waits(k) /\ CanAdd(k))
        /\ Becomes(IF all
                   THEN [st EXCEPT !.ROB[i].scheduled = COMPLETED,
                                   !.ROB[i].executed = IF @ = 0 THEN INFLIGHT ELSE @]
                   ELSE st)

\* operate_lsq and complete_data_fetch: a store is translated,
StoreMoves(s, from, to) ==
    /\ SQ[s] # NONE /\ SQ[s].state = from
    /\ Becomes([st0 EXCEPT !.SQ[s].state = to])

\* then executed: it hands its data to the loads of its address among the
\* instructions that wait for its own.
Dependents(s) ==
    LET i == SQ[s].instr
    IN  {d \in ROB[i].memory_instrs_depend_on_me \X (1..4) :
           /\ d[2] \in DOMAIN program[d[1]].loads
           /\ program[d[1]].loads[d[2]] = program[i].stores[SQ[s].slot]
           /\ ROB[d[1]].lq_index[d[2]] # NONE}

\* It goes by the index that the load was given, and asserts that the entry
\* waits for its instruction: an entry that has been given back does not
\* (nor does one that it has just given back itself), unless it has been
\* taken by another load that does.
EntryOf(d) == ROB[d[1]].lq_index[d[2]]
DependsOn(d, s) == LQ[EntryOf(d)] # NONE /\ LQ[EntryOf(d)].producer = SQ[s].instr
OwnLoads(s) ==
    \A d \in Dependents(s) :
      DependsOn(d, s) /\ \A e \in Dependents(s) \ {d} : EntryOf(e) # EntryOf(d)

\* The loads that the entries belong to.
Resolved(s) == {<<LQ[EntryOf(d)].instr, LQ[EntryOf(d)].slot>> : d \in Dependents(s)}

\* How many operations of k that completes.
OpsDone(s, k) == Cardinality({j \in DOMAIN program[k].loads : <<k, j>> \in Resolved(s)})
                 + (IF k = SQ[s].instr THEN 1 ELSE 0)

\* What load j of k is given.
Given(s, k, j) ==
    IF program[k].loads[j] = program[SQ[s].instr].stores[SQ[s].slot] THEN SQ[s].instr ELSE ASTRAY

execute_store(s) ==
    LET finished == {k \in InROB : OpsDone(s, k) > 0 /\ ROB[k].num_mem_ops = OpsDone(s, k)}
        released == {EntryOf(d) : d \in Dependents(s)}
    IN  /\ SQ[s] # NONE /\ SQ[s].state = "RTS1"
        /\ OwnLoads(s)
        /\ SQ' = [SQ EXCEPT ![s].state = "executed"]
        /\ ROB' = [k \in Instr |-> IF k \in InROB
                                   THEN [ROB[k] EXCEPT !.num_mem_ops = @ - OpsDone(s, k)]
                                   ELSE ROB[k]]
        /\ LQ' = [l \in LQIndex |-> IF l \in released THEN NONE ELSE LQ[l]]
        /\ data' = [k \in Instr |-> [j \in DOMAIN program[k].loads |->
                     IF <<k, j>> \in Resolved(s) THEN Given(s, k, j) ELSE data[k][j]]]
        /\ inflight_mem_executions' = inflight_mem_executions + Cardinality(finished)
        /\ UNCHANGED <<program, scheduling, STA, SQ_tail, inflight_reg_executions>>

\* The assertion fails: the program stops.
assert_fails ==
    /\ \E s \in SQIndex : SQ[s] # NONE /\ SQ[s].state = "RTS1" /\ ~OwnLoads(s)
    /\ UNCHANGED vars

\* A load without a producer is translated and sent to L1D,
LoadMoves(l, from, to) ==
    /\ LQ[l] # NONE /\ LQ[l].state = from
    /\ Becomes([st0 EXCEPT !.LQ[l].state = to])

\* which answers with what was last stored by an instruction that retired.
Stored(addr) ==
    LET stores == {p \in 1..(head - 1) : addr \in Range(program[p].stores)}
    IN  IF stores = {} THEN 0 ELSE Youngest(stores)

LoadAnswered(l) ==
    /\ LQ[l] # NONE /\ LQ[l].state = "L1D"
    /\ Becomes(LoadDone(st0, LQ[l].instr, LQ[l].slot,
                        Stored(program[LQ[l].instr].loads[LQ[l].slot])))

operate_lsq ==
    \/ \E s \in SQIndex : \/ StoreMoves(s, "RTS0", "DTLB")
                          \/ StoreMoves(s, "DTLB", "RTS1")
                          \/ execute_store(s)
    \/ \E l \in LQIndex : \/ LoadMoves(l, "RTL0", "DTLB")
                          \/ LoadMoves(l, "DTLB", "RTL1")
                          \/ LoadMoves(l, "RTL1", "L1D")
                          \/ LoadAnswered(l)

-----------------------------------------------------------------------------

\* The oldest instruction leaves, its stores go to L1D (when that has room).
retire_rob ==
    /\ head \in InROB
    /\ ROB[head].executed = COMPLETED
    /\ SQ' = [s \in SQIndex |-> IF s \in Range(ROB[head].sq_index) THEN NONE ELSE SQ[s]]
    /\ ROB' = [ROB EXCEPT ![head] = NONE]
    /\ head' = head + 1
    /\ UNCHANGED <<program, tail, next_schedule, RTE0, RTE1, STA, LQ, SQ_tail, data, inflight>>

\* The trace is over.
Ended == head = Len(program) + 1 /\ UNCHANGED vars

Next ==
    \/ add_to_rob
    \/ do_scheduling
    \/ execute_instruction
    \/ \E i \in Instr : complete_execution(i) \/ do_memory_scheduling(i)
    \/ operate_lsq
    \/ assert_fails
    \/ retire_rob
    \/ Ended

Spec == Init /\ [][Next]_vars

-----------------------------------------------------------------------------
(* Properties.                                                             *)

LastBefore(i, P(_)) == Youngest({p \in 1..(i - 1) : P(p)})

\* An instruction executes, and its loads and stores enter the queues, only
\* when whoever last wrote each of its registers has executed: through any
\* order of execution, several writers of a register, several registers of
\* one producer, and retirement in between (reg_dependency,
\* reg_RAW_release).
OperandsReady ==
    \A i \in InROB :
      \/ /\ ROB[i].executed = 0
         /\ Range(ROB[i].lq_index) \cup Range(ROB[i].sq_index) \subseteq {NONE}
      \/ \A j \in DOMAIN program[i].reads :
           LET w == LastBefore(i, LAMBDA p : program[i].reads[j] \in program[p].writes)
           IN  w = NONE \/ w < head \/ ROB[w].executed = COMPLETED

\* num_mem_ops counts the operations of an instruction that are not done, in
\* the queues or not yet, whoever finishes them (execute_store, a forwarding
\* add_load_queue, an answer of L1D); update_rob relies on the two counters
\* of what is in flight to look for instructions that are done.
CountsAgree ==
    /\ \A i \in InROB :
         ROB[i].num_mem_ops =
             Cardinality({j \in DOMAIN ROB[i].lq_index : ROB[i].lq_index[j] = NONE})
           + Cardinality({j \in DOMAIN ROB[i].sq_index : ROB[i].sq_index[j] = NONE})
           + Cardinality({l \in LQIndex : LQ[l] # NONE /\ LQ[l].instr = i})
           + Cardinality({s \in SQIndex : SQ[s] # NONE /\ SQ[s].instr = i
                                          /\ SQ[s].state # "executed"})
    /\ inflight_mem_executions =
         Cardinality({i \in InROB : is_memory(i) /\ ROB[i].num_mem_ops = 0
                                    /\ ROB[i].executed # COMPLETED})
    /\ inflight_reg_executions =
         Cardinality({i \in InROB : ~is_memory(i) /\ ROB[i].executed = INFLIGHT})

\* An instruction loads two addresses that p stores to, of which one has been
\* overwritten in between, and the other has not.
Overwritten(p, k, addr) == \E w \in (p + 1)..(k - 1) : addr \in Range(program[w].stores)
PartlyOverwritten(p) ==
    \E k \in (p + 1)..Len(program) :
      \E a, b \in Range(program[k].loads) \cap Range(program[p].stores) :
        Overwritten(p, k, a) /\ ~Overwritten(p, k, b)
NothingPartlyOverwritten == \A p \in Instr : ~PartlyOverwritten(p)

\* What is true of the assertion of execute_store, that a load which a store
\* finds by its address waits for the instruction of the store: it holds
\* unless that instruction is partly overwritten, whatever the order in which
\* stores execute, loads enter the queue and are answered, and entries are
\* given back and taken again (add_load_queue, execute_store).  It does fail
\* for some that are (assert_fails).
FindsItsLoads ==
    \A s \in SQIndex :
      SQ[s] # NONE /\ SQ[s].state = "RTS1" => OwnLoads(s) \/ PartlyOverwritten(SQ[s].instr)

\* The assertion of add_store_queue: the next entry of the ring is free while
\* the queue has room, though instructions take several entries and give
\* them back when they retire.
NextEntryFree == Room(SQ) => SQ[SQ_tail] = NONE

\* What an instruction has read once it has retired, and the memory then.
Order == INSTANCE ProgramOrder WITH
    retired <- head - 1,
    memory  <- [a \in Address |-> Stored(a)],
    read    <- [i \in 1..(head - 1) |-> data[i]]

\* The core keeps the promise of ProgramOrder: every load reads what the
\* last store before it wrote, whether the store executes before or after
\* the load enters its queue, sits in the queue or has retired, or younger
\* stores overtake the load (add_load_queue, execute_store).  Programs in
\* which an instruction is partly overwritten stop at the assertion or, with
\* three entries of the store queue and more, may be answered ASTRAY.
ImplementsProgramOrder == Order!Spec

\* The core never stands still with instructions left: however the queues
\* fill up, none waits for an entry that only a younger one could give back
\* ("this structure is required to execute store instructions properly
\* without deadlock").  No step repeats itself, so every program ends, or
\* stops at the assertion of execute_store.
NoStandstill ==
    \/ head = Len(program) + 1
    \/ tail \in Instr /\ tail - head < ROB_SIZE
    \/ next_schedule \in InROB /\ Searched(next_schedule)
    \/ RTE0 \o RTE1 # <<>>
    \/ \E i \in InROB : \/ ROB[i].executed = INFLIGHT /\ ROB[i].num_mem_ops = 0
                        \/ Waits(i) /\ CanAdd(i)
    \/ \E s \in SQIndex : SQ[s] # NONE /\ SQ[s].state # "executed"
    \/ \E l \in LQIndex : LQ[l] # NONE /\ LQ[l].state # "waiting"
    \/ head \in InROB /\ ROB[head].executed = COMPLETED
=============================================================================
