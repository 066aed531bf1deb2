---------------------------- MODULE CoreQueueProofs ----------------------------
(***************************************************************************)
(* The steps of the load and store queues keep the invariant of the core,  *)
(* and what follows from it: the theorems about Core.tla.                  *)
(***************************************************************************)
EXTENDS CoreProofs

-----------------------------------------------------------------------------
(* The state of the queues while an instruction enters them.               *)

TypedState(st) ==
    /\ st = [ROB |-> st.ROB, LQ |-> st.LQ, SQ |-> st.SQ, SQ_tail |-> st.SQ_tail,
             STA |-> st.STA, inflight |-> st.inflight, data |-> st.data]
    /\ DOMAIN st.ROB = Instr
    /\ \A k \in InROB : st.ROB[k] \in Entry(k)
    /\ \A k \in Instr \ InROB : st.ROB[k] = NONE
    /\ st.LQ \in [LQIndex -> Loading \cup {NONE}]
    /\ st.SQ \in [SQIndex -> Storing \cup {NONE}]
    /\ st.SQ_tail \in SQIndex
    /\ st.STA \in Seq(Instr)
    /\ st.inflight \in Nat
    /\ DOMAIN st.data = Instr
    /\ \A k \in Instr : st.data[k] \in [DOMAIN program[k].loads -> {NONE, ASTRAY, 0} \cup Instr]

\* The registers are left alone, and so are the indices of the others.
SameRegisters(st) ==
    \A k \in InROB :
      /\ st.ROB[k].scheduled = ROB[k].scheduled
      /\ st.ROB[k].executed = ROB[k].executed
      /\ st.ROB[k].reg_ready = ROB[k].reg_ready
      /\ st.ROB[k].num_reg_dependent = ROB[k].num_reg_dependent
      /\ st.ROB[k].registers_index_depend_on_me = ROB[k].registers_index_depend_on_me
SameIndices(st, i) ==
    \A k \in InROB : k # i => /\ st.ROB[k].lq_index = ROB[k].lq_index
                              /\ st.ROB[k].sq_index = ROB[k].sq_index

\* What an instruction that has retired has read stays.
SameData(st) == \A k \in Instr \ InROB : st.data[k] = data[k]

\* The state as i enters.
Entering(st, i) ==
    /\ TypedState(st)
    /\ SameRegisters(st) /\ SameIndices(st, i) /\ SameData(st)
    /\ QueuesInv(st)

\* The walk of an instruction through check_and_add_lsq starts from the state
\* of the core, which has what the walk keeps.
LEMMA InitialState ==
    ASSUME CoreInv, NEW i
    PROVE  Entering(st0, i)
  BY BufferFacts DEF CoreInv, TypeOK, Entering, TypedState, SameRegisters, SameIndices,
                     SameData, st0

\* The entries of the ring before the tail.
LEMMA BackInRange ==
    ASSUME NEW st, st.SQ_tail \in SQIndex, NEW k \in 1..SQ_SIZE
    PROVE  Back(st, k) \in SQIndex
  BY Sizes DEF Back, SQIndex

\* The state that a step of the queues leaves behind.
LEMMA BecomesPreserves ==
    ASSUME CoreInv, NEW st, Becomes(st), TypedState(st), QueuesInv(st),
           \A k \in InROB :
             /\ st.ROB[k].reg_ready = ROB[k].reg_ready
             /\ st.ROB[k].num_reg_dependent = ROB[k].num_reg_dependent
             /\ st.ROB[k].registers_index_depend_on_me = ROB[k].registers_index_depend_on_me
             /\ st.ROB[k].executed = COMPLETED <=> ROB[k].executed = COMPLETED
             /\ \/ ROB[k].reg_ready /\ is_memory(k)
                \/ /\ st.ROB[k].scheduled = ROB[k].scheduled
                   /\ st.ROB[k].executed = ROB[k].executed
                   /\ st.ROB[k].lq_index = ROB[k].lq_index
                   /\ st.ROB[k].sq_index = ROB[k].sq_index
    PROVE  CoreInv'
  <1>1. /\ TypeOK /\ RegistersInv /\ ReadyInv
        /\ inflight_reg_executions = Cardinality(RegInFlight)
    BY DEF CoreInv
  <1>2. /\ UNCHANGED <<program, head, tail, next_schedule, RTE0, RTE1, inflight_reg_executions>>
        /\ ROB' = st.ROB /\ LQ' = st.LQ /\ SQ' = st.SQ /\ SQ_tail' = st.SQ_tail
        /\ STA' = st.STA /\ inflight_mem_executions' = st.inflight /\ data' = st.data
    BY DEF Becomes, scheduling
  <1>3. /\ InROB' = InROB /\ Instr' = Instr /\ InROB \in SUBSET Instr
        /\ \A k : is_memory(k)' = is_memory(k)
    BY <1>1, <1>2, BufferFacts DEF InROB, Instr, is_memory
  <1>4. TypeOK'
    <2>1. \A k : Entry(k)' = Entry(k)
      BY <1>2, <1>3 DEF Entry, LQIndex, SQIndex
    <2>2. /\ DOMAIN ROB' = Instr'
          /\ \A k \in Instr' : IF k \in InROB' THEN ROB'[k] \in Entry(k)' ELSE ROB'[k] = NONE
      BY <1>2, <1>3, <2>1 DEF TypedState
    <2> QED
      BY <1>1, <1>2, <1>3, <2>2 DEF TypeOK, TypedState, LQIndex, SQIndex
  <1>5. ReadyBeforeUse'
    <2> SUFFICES ASSUME NEW k \in InROB, ~ROB'[k].reg_ready
                 PROVE  ROB'[k].executed = 0 /\ NoIndex(k)'
      BY <1>3 DEF ReadyBeforeUse
    <2>1. ~ROB[k].reg_ready
      BY <1>2
    <2>2. /\ ROB'[k].executed = ROB[k].executed
          /\ ROB'[k].lq_index = ROB[k].lq_index /\ ROB'[k].sq_index = ROB[k].sq_index
      BY <1>2, <2>1
    <2> QED
      BY <1>1, <1>2, <2>1, <2>2 DEF RegistersInv, ReadyBeforeUse, NoIndex
  <1>6. RegistersInv'
    <2>1. \A k \in InROB : k >= next_schedule => ROB'[k].scheduled = ROB[k].scheduled
      BY <1>1, <1>2 DEF RegistersInv, UnscheduledIdle
    <2>2. \A k \in InROB :
             /\ ROB'[k].reg_ready = ROB[k].reg_ready
             /\ ROB'[k].num_reg_dependent = ROB[k].num_reg_dependent
             /\ ROB'[k].registers_index_depend_on_me = ROB[k].registers_index_depend_on_me
             /\ ROB'[k].executed = COMPLETED <=> ROB[k].executed = COMPLETED
      BY <1>2
    <2> QED
      BY <1>1, <1>2, <1>5, <2>1, <2>2, RegistersFrame
  <1>7. ReadyInv'
    <2>1. Range(RTE0) \cup Range(RTE1) \subseteq InROB
      BY <1>1, RangeOfSeq DEF TypeOK
    <2> QED
      BY <1>1, <1>2, <1>3, <2>1 DEF ReadyInv
  <1>8. QueuesInv(st0)'
    <2>1. st0' = st
      BY <1>2 DEF st0, TypedState
    <2>2. /\ \A p, i, addr : NotStored(p, i, addr)' = NotStored(p, i, addr)
          /\ \A p, i, addr : LastStore(p, i, addr)' = LastStore(p, i, addr)
      BY <1>2 DEF LastStore, NotStored
    <2>3. \A p, addr : Forwards(st0, p, addr)' = Forwards(st, p, addr)
      BY SMTT(30), <1>2, <2>1 DEF Forwards, SQIndex
    <2>4. LoadEntries(st0)' /\ LoadSlots(st0)'
      <3>1. LoadEntries(st) /\ LoadSlots(st)
        BY <1>3 DEF QueuesInv, EntriesInv
      <3>2. LoadEntries(st0)'
        BY ZenonT(30), <3>1, <1>2, <1>3, <2>1 DEF LoadEntries, LQIndex
      <3>3. LoadSlots(st0)'
        BY ZenonT(30), <3>1, <1>2, <1>3, <2>1 DEF LoadSlots
      <3> QED
        BY <3>2, <3>3
    <2>5. WaitsForLast(st0)'
      BY SMTT(30), <1>2, <1>3, <2>1, <2>2, <2>3
      DEF QueuesInv, EntriesInv, WaitsForLast, WaitsFor, ProducerOf, LQIndex
    <2>6. ReadsLast(st0)'
      BY <1>2, <1>3, <2>1, <2>2, <2>3, AstrayStays DEF QueuesInv, EntriesInv, ReadsLast
    <2>7. NotedLoads(st0)'
      BY SMTT(30), <1>2, <1>3, <2>1, <2>2 DEF QueuesInv, EntriesInv, NotedLoads
    <2>8. StoreEntries(st0)' /\ StoreSlots(st0)'
      BY <1>2, <1>3, <2>1 DEF QueuesInv, EntriesInv, StoreEntries, StoreSlots, SQIndex
    <2>9. Ring(st0)' /\ StoresInOrder(st0)'
      BY <1>2, <2>1 DEF QueuesInv, EntriesInv, Ring, Back, StoresInOrder, SQIndex
    <2>10. OpsCounted(st0)'
      <3>1. \A i \in InROB : OpenLoads(st0, i)' = OpenLoads(st, i)
                             /\ OpenStores(st0, i)' = OpenStores(st, i)
        BY <1>2, <2>1 DEF OpenLoads, OpenStores
      <3> QED
        BY <1>3, <2>1, <3>1 DEF QueuesInv, EntriesInv, OpsCounted
    <2>11. DoneWhenCompleted(st0)' /\ MemInFlightCounted(st0)'
      <3>1. MemInFlight(st0)' = MemInFlight(st)
        BY <1>3, <2>1 DEF MemInFlight, COMPLETED
      <3> QED
        BY <1>3, <2>1, <3>1 DEF QueuesInv, DoneWhenCompleted, MemInFlightCounted, COMPLETED
    <2> QED
      BY <2>4, <2>5, <2>6, <2>7, <2>8, <2>9, <2>10, <2>11 DEF QueuesInv, EntriesInv
  <1>9. RegInFlight' = RegInFlight
    BY <1>2, <1>3 DEF RegInFlight
  <1> QED
    BY <1>1, <1>2, <1>4, <1>6, <1>7, <1>8, <1>9 DEF CoreInv

-----------------------------------------------------------------------------
(* Loads and stores are translated.                                        *)

\* operate_lsq moves a store towards execution without touching any entry's
\* address, owner or order.
LEMMA StoreMovesPreserves ==
    ASSUME CoreInv, NEW s \in SQIndex, NEW from, NEW to \in {"DTLB", "RTS1"},
           from # "executed", StoreMoves(s, from, to)
    PROVE  CoreInv'
  <1> DEFINE st == [st0 EXCEPT !.SQ[s].state = to]
  <1>1. Becomes(st) /\ SQ[s] # NONE /\ SQ[s].state = from
    BY DEF StoreMoves
  <1>2. Entering(st0, 0) /\ QueuesInv(st0) /\ TypedState(st0)
    BY InitialState DEF Entering
  <1>3. SQ \in [SQIndex -> Storing \cup {NONE}] /\ SQ[s] \in Storing
    BY <1>1, <1>2 DEF TypedState, st0
  <1> DEFINE q == [SQ[s] EXCEPT !.state = to]
  <1>4. /\ q \in Storing /\ q # NONE /\ q.instr = SQ[s].instr /\ q.slot = SQ[s].slot
        /\ q.state = to /\ to # "executed"
    BY <1>3, Sizes DEF Storing, StoreState
  <1>5. /\ st = [ROB |-> ROB, LQ |-> LQ, SQ |-> [SQ EXCEPT ![s] = q], SQ_tail |-> SQ_tail,
                 STA |-> STA, inflight |-> inflight_mem_executions, data |-> data]
    BY DEF st0
  <1> HIDE DEF q
  <1> DEFINE S == [SQ EXCEPT ![s] = q]
  <1>6. /\ S \in [SQIndex -> Storing \cup {NONE}]
        /\ S[s] = q /\ \A x \in SQIndex : x # s => S[x] = SQ[x]
    BY <1>3, <1>4
  <1>7. /\ \A x \in SQIndex : S[x] # NONE <=> SQ[x] # NONE
        /\ \A x \in SQIndex : S[x].instr = SQ[x].instr /\ S[x].slot = SQ[x].slot
        /\ \A x \in SQIndex : S[x].state = "executed" <=> SQ[x].state = "executed"
    BY <1>1, <1>4, <1>6
  <1> HIDE DEF S
  <1>8. /\ st.ROB = ROB /\ st.LQ = LQ /\ st.SQ = S /\ st.SQ_tail = SQ_tail /\ st.STA = STA
        /\ st.inflight = inflight_mem_executions /\ st.data = data
        /\ st0.ROB = ROB /\ st0.LQ = LQ /\ st0.SQ = SQ /\ st0.SQ_tail = SQ_tail /\ st0.STA = STA
        /\ st0.inflight = inflight_mem_executions /\ st0.data = data
    BY <1>5 DEF st0, S
  <1>9. TypedState(st)
    BY <1>2, <1>5, <1>6, <1>8 DEF TypedState, S
  <1> HIDE DEF st
  <1>10. QueuesInv(st)
    <2>1. \A p, addr : Forwards(st, p, addr) <=> Forwards(st0, p, addr)
      BY <1>7, <1>8 DEF Forwards
    <2>2. LoadEntries(st) /\ LoadSlots(st)
      BY <1>2, <1>8 DEF QueuesInv, EntriesInv, LoadEntries, LoadSlots
    <2>3. WaitsForLast(st)
      BY <1>2, <1>8, <2>1 DEF QueuesInv, EntriesInv, WaitsForLast, WaitsFor, ProducerOf
    <2>4. ReadsLast(st) /\ NotedLoads(st)
      BY <1>2, <1>8, <2>1 DEF QueuesInv, EntriesInv, ReadsLast, NotedLoads
    <2>5. \A i \in InROB : ROB[i] \in Entry(i)
      BY <1>2, <1>8 DEF TypedState
    <2>6. StoreEntries(st)
      BY <1>2, <1>7, <1>8 DEF QueuesInv, EntriesInv, StoreEntries
    <2>7. StoreSlots(st)
      BY <1>2, <1>7, <1>8, <2>5 DEF QueuesInv, EntriesInv, StoreSlots, Entry
    <2>8. Ring(st)
      <3>1. \A k : Back(st, k) = Back(st0, k)
        BY <1>8 DEF Back
      <3> SUFFICES ASSUME NEW k \in 1..SQ_SIZE, NEW m \in 1..(k - 1), S[Back(st0, k)] # NONE
                   PROVE  /\ S[Back(st0, m)] # NONE
                          /\ S[Back(st0, k)].instr <= S[Back(st0, m)].instr
        BY <1>8, <3>1 DEF Ring
      <3>2. m \in 1..SQ_SIZE
        BY Sizes
      <3>3. Back(st0, k) \in SQIndex /\ Back(st0, m) \in SQIndex
        BY <3>2, <1>2, BackInRange DEF TypedState
      <3>4. /\ SQ[Back(st0, m)] # NONE
            /\ SQ[Back(st0, k)].instr <= SQ[Back(st0, m)].instr
        BY <1>2, <1>7, <1>8, <3>3 DEF QueuesInv, EntriesInv, Ring
      <3> QED
        BY <1>7, <3>3, <3>4
    <2>9. StoresInOrder(st)
      BY <1>2, <1>7, <1>8 DEF QueuesInv, EntriesInv, StoresInOrder
    <2>10. OpsCounted(st)
      <3>1. \A i \in InROB : OpenLoads(st, i) = OpenLoads(st0, i)
                             /\ OpenStores(st, i) = OpenStores(st0, i)
        BY <1>7, <1>8, <2>5 DEF OpenLoads, OpenStores, Entry
      <3> QED
        BY <1>2, <1>8, <3>1 DEF QueuesInv, EntriesInv, OpsCounted
    <2>11. DoneWhenCompleted(st) /\ MemInFlightCounted(st)
      BY <1>2, <1>8 DEF QueuesInv, DoneWhenCompleted, MemInFlightCounted, MemInFlight
    <2> QED
      BY <2>2, <2>3, <2>4, <2>6, <2>7, <2>8, <2>9, <2>10, <2>11 DEF QueuesInv, EntriesInv
  <1> QED
    BY <1>1, <1>8, <1>9, <1>10, BecomesPreserves

\* operate_lsq moves a load that waits for nobody towards the cache; it keeps
\* its owner and its place.
LEMMA LoadMovesPreserves ==
    ASSUME CoreInv, NEW l \in LQIndex, NEW from, NEW to \in {"DTLB", "RTL1", "L1D"},
           from # "waiting", LoadMoves(l, from, to)
    PROVE  CoreInv'
  <1> DEFINE st == [st0 EXCEPT !.LQ[l].state = to]
  <1>1. Becomes(st) /\ LQ[l] # NONE /\ LQ[l].state = from
    BY DEF LoadMoves
  <1>2. QueuesInv(st0) /\ TypedState(st0)
    BY InitialState DEF Entering
  <1>3. LQ \in [LQIndex -> Loading \cup {NONE}] /\ LQ[l] \in Loading
    BY <1>1, <1>2 DEF TypedState, st0
  <1> DEFINE q == [LQ[l] EXCEPT !.state = to]
  <1>4. /\ q \in Loading /\ q # NONE /\ q.instr = LQ[l].instr /\ q.slot = LQ[l].slot
        /\ q.producer = LQ[l].producer /\ q.state = to /\ to # "waiting"
    BY <1>3, Sizes DEF Loading, LoadState
  <1>5. /\ st = [ROB |-> ROB, LQ |-> [LQ EXCEPT ![l] = q], SQ |-> SQ, SQ_tail |-> SQ_tail,
                 STA |-> STA, inflight |-> inflight_mem_executions, data |-> data]
    BY DEF st0
  <1> HIDE DEF q
  <1> DEFINE L == [LQ EXCEPT ![l] = q]
  <1>6. /\ L \in [LQIndex -> Loading \cup {NONE}]
        /\ L[l] = q /\ \A x \in LQIndex : x # l => L[x] = LQ[x]
    BY <1>3, <1>4
  <1>7. /\ \A x \in LQIndex : L[x] # NONE <=> LQ[x] # NONE
        /\ \A x \in LQIndex : L[x].instr = LQ[x].instr /\ L[x].slot = LQ[x].slot
                              /\ L[x].producer = LQ[x].producer
        /\ \A x \in LQIndex : L[x].state = "waiting" <=> LQ[x].state = "waiting"
    BY <1>1, <1>4, <1>6
  <1> HIDE DEF L
  <1>8. /\ st.ROB = ROB /\ st.LQ = L /\ st.SQ = SQ /\ st.SQ_tail = SQ_tail /\ st.STA = STA
        /\ st.inflight = inflight_mem_executions /\ st.data = data
        /\ st0.ROB = ROB /\ st0.LQ = LQ /\ st0.SQ = SQ /\ st0.SQ_tail = SQ_tail /\ st0.STA = STA
        /\ st0.inflight = inflight_mem_executions /\ st0.data = data
    BY <1>5 DEF st0, L
  <1>9. TypedState(st)
    BY <1>2, <1>5, <1>6, <1>8 DEF TypedState, L
  <1> HIDE DEF st
  <1>10. QueuesInv(st)
    <2>1. \A p, addr : Forwards(st, p, addr) <=> Forwards(st0, p, addr)
      BY <1>8 DEF Forwards
    <2>2. \A i \in InROB : ROB[i] \in Entry(i)
      BY <1>2, <1>8 DEF TypedState
    <2>3. LoadEntries(st)
      BY <1>2, <1>7, <1>8 DEF QueuesInv, EntriesInv, LoadEntries
    <2>4. LoadSlots(st)
      BY <1>2, <1>7, <1>8, <2>2 DEF QueuesInv, EntriesInv, LoadSlots, Entry
    <2>5. WaitsForLast(st)
      BY <1>2, <1>7, <1>8, <2>1 DEF QueuesInv, EntriesInv, WaitsForLast, WaitsFor, ProducerOf
    <2>6. ReadsLast(st) /\ NotedLoads(st)
      BY <1>2, <1>8, <2>1 DEF QueuesInv, EntriesInv, ReadsLast, NotedLoads
    <2>7. StoreEntries(st) /\ StoreSlots(st) /\ Ring(st) /\ StoresInOrder(st)
      BY <1>2, <1>8 DEF QueuesInv, EntriesInv, StoreEntries, StoreSlots, Ring, Back, StoresInOrder
    <2>8. OpsCounted(st)
      BY <1>2, <1>8 DEF QueuesInv, EntriesInv, OpsCounted, OpenLoads, OpenStores
    <2>9. DoneWhenCompleted(st) /\ MemInFlightCounted(st)
      BY <1>2, <1>8 DEF QueuesInv, DoneWhenCompleted, MemInFlightCounted, MemInFlight
    <2> QED
      BY <2>3, <2>4, <2>5, <2>6, <2>7, <2>8, <2>9 DEF QueuesInv, EntriesInv
  <1> QED
    BY <1>1, <1>8, <1>9, <1>10, BecomesPreserves

-----------------------------------------------------------------------------
(* A load reads.                                                           *)

\* What is left of an instruction's entry as one of its operations is done.
OneOpLess(e, f) ==
    /\ f.num_mem_ops = e.num_mem_ops - 1
    /\ f.scheduled = e.scheduled /\ f.executed = e.executed
    /\ f.reg_ready = e.reg_ready /\ f.num_reg_dependent = e.num_reg_dependent
    /\ f.registers_index_depend_on_me = e.registers_index_depend_on_me
    /\ f.memory_instrs_depend_on_me = e.memory_instrs_depend_on_me
    /\ f.lq_index = e.lq_index /\ f.sq_index = e.sq_index

\* A load that gets its data frees its place in the load queue, completes one
\* operation of its instruction, and counts the instruction in flight when
\* that was the last one.
LEMMA LoadDoneEffect ==
    ASSUME TypeOK, NEW st, TypedState(st), NEW i \in InROB, NEW j \in DOMAIN program[i].loads,
           NEW p \in {0} \cup Instr, NEW l \in LQIndex, st.ROB[i].lq_index[j] = l,
           st.ROB[i].num_mem_ops \in Nat \ {0},
           NEW n, n = LoadDone(st, i, j, p)
    PROVE  /\ TypedState(n)
           /\ n.SQ = st.SQ /\ n.SQ_tail = st.SQ_tail /\ n.STA = st.STA
           /\ n.LQ[l] = NONE /\ \A x \in LQIndex \ {l} : n.LQ[x] = st.LQ[x]
           /\ n.data[i][j] = p
           /\ \A b \in DOMAIN program[i].loads : b # j => n.data[i][b] = st.data[i][b]
           /\ \A k \in Instr \ {i} : n.data[k] = st.data[k]
           /\ OneOpLess(st.ROB[i], n.ROB[i])
           /\ \A k \in InROB \ {i} : n.ROB[k] = st.ROB[k]
           /\ n.inflight = IF st.ROB[i].num_mem_ops = 1 THEN st.inflight + 1 ELSE st.inflight
  <1> DEFINE f == [st.ROB[i] EXCEPT !.num_mem_ops = st.ROB[i].num_mem_ops - 1]
             c == IF st.ROB[i].num_mem_ops = 1 THEN st.inflight + 1 ELSE st.inflight
             D == [st.data EXCEPT ![i][j] = p]
             L == [st.LQ EXCEPT ![l] = NONE]
             R == [st.ROB EXCEPT ![i] = f]
  <1>1. InROB \in SUBSET Instr
    BY BufferFacts
  <1>2. st.ROB[i] \in Entry(i) /\ DOMAIN st.ROB = Instr /\ DOMAIN st.LQ = LQIndex
        /\ DOMAIN st.data = Instr /\ i \in Instr
    BY <1>1 DEF TypedState
  <1>3. n = [ROB |-> R, LQ |-> L, SQ |-> st.SQ, SQ_tail |-> st.SQ_tail,
             STA |-> st.STA, inflight |-> c, data |-> D]
    BY <1>2 DEF LoadDone, MemOpDone, TypedState
  <1>4. f \in Entry(i) /\ OneOpLess(st.ROB[i], f)
    <2>1. st.ROB[i].num_mem_ops - 1 \in Nat
      OBVIOUS
    <2>2. ASSUME NEW e \in Entry(i), NEW m \in Nat, NEW g, g = [e EXCEPT !.num_mem_ops = m]
          PROVE  /\ g \in Entry(i) /\ g.num_mem_ops = m
                 /\ g.scheduled = e.scheduled /\ g.executed = e.executed
                 /\ g.reg_ready = e.reg_ready /\ g.num_reg_dependent = e.num_reg_dependent
                 /\ g.registers_index_depend_on_me = e.registers_index_depend_on_me
                 /\ g.memory_instrs_depend_on_me = e.memory_instrs_depend_on_me
                 /\ g.lq_index = e.lq_index /\ g.sq_index = e.sq_index
      BY <2>2 DEF Entry
    <2> QED
      BY <1>2, <2>1, <2>2 DEF OneOpLess
  <1>5. /\ DOMAIN R = Instr /\ R[i] = f /\ \A k \in Instr : k # i => R[k] = st.ROB[k]
        /\ L \in [LQIndex -> Loading \cup {NONE}]
        /\ L[l] = NONE /\ \A x \in LQIndex \ {l} : L[x] = st.LQ[x]
        /\ c \in Nat
    BY <1>2 DEF TypedState
  <1>51. D[i] = [st.data[i] EXCEPT ![j] = p] /\ (\A k \in Instr \ {i} : D[k] = st.data[k])
         /\ DOMAIN D = Instr
    BY <1>2
  <1> HIDE DEF D
  <1>6. /\ DOMAIN D = Instr /\ D[i][j] = p
        /\ \A b \in DOMAIN program[i].loads : b # j => D[i][b] = st.data[i][b]
        /\ \A k \in Instr \ {i} : D[k] = st.data[k]
        /\ \A k \in Instr : D[k] \in [DOMAIN program[k].loads -> {NONE, ASTRAY, 0} \cup Instr]
    <2>1. st.data[i] \in [DOMAIN program[i].loads -> {NONE, ASTRAY, 0} \cup Instr]
      BY <1>2 DEF TypedState
    <2>2. D[i] = [st.data[i] EXCEPT ![j] = p]
      BY <1>51
    <2>3. D[i] \in [DOMAIN program[i].loads -> {NONE, ASTRAY, 0} \cup Instr]
      BY <2>1, <2>2
    <2>4. D[i][j] = p /\ \A b \in DOMAIN program[i].loads : b # j => D[i][b] = st.data[i][b]
      BY <2>1, <2>2
    <2>5. \A k \in Instr : D[k] \in [DOMAIN program[k].loads -> {NONE, ASTRAY, 0} \cup Instr]
      <3> SUFFICES ASSUME NEW k \in Instr
                   PROVE  D[k] \in [DOMAIN program[k].loads -> {NONE, ASTRAY, 0} \cup Instr]
        OBVIOUS
      <3>1. CASE k = i
        BY <2>3, <3>1
      <3>2. CASE k # i
        BY <1>51, <3>2 DEF TypedState
      <3> QED
        BY <3>1, <3>2
    <2> QED
      BY <1>51, <2>4, <2>5
  <1> HIDE DEF R, L, c, f
  <1>7. /\ n.ROB = R /\ n.LQ = L /\ n.SQ = st.SQ /\ n.SQ_tail = st.SQ_tail
        /\ n.STA = st.STA /\ n.inflight = c /\ n.data = D
        /\ n = [ROB |-> n.ROB, LQ |-> n.LQ, SQ |-> n.SQ, SQ_tail |-> n.SQ_tail,
                STA |-> n.STA, inflight |-> n.inflight, data |-> n.data]
    BY <1>3
  <1>8. TypedState(n)
    BY <1>1, <1>2, <1>4, <1>5, <1>6, <1>7 DEF TypedState
  <1> QED
    BY <1>1, <1>2, <1>4, <1>5, <1>6, <1>7, <1>8 DEF c

\* What holds when the load of entry l reads, which may still have been
\* waiting for a store that has executed.
QueuesBut(st, l) ==
    /\ LoadEntries(st) /\ LoadSlots(st)
    /\ \A x \in LQIndex \ {l} : st.LQ[x] # NONE => WaitsFor(st, x)
    /\ ReadsLast(st) /\ NotedLoads(st)
    /\ StoreEntries(st) /\ StoreSlots(st) /\ Ring(st) /\ StoresInOrder(st)
    /\ OpsCounted(st) /\ DoneWhenCompleted(st) /\ MemInFlightCounted(st)

\* Slot j of i is the load of entry l, and may read what p has stored.
MayRead(st, l, i, j, p) ==
    /\ st.LQ[l] # NONE /\ i = st.LQ[l].instr /\ j = st.LQ[l].slot
    /\ LastStore(p, i, program[i].loads[j])
    /\ p \in InROB => Forwards(st, p, program[i].loads[j])

\* A load that reads the last store before it, or memory when there is none,
\* keeps every condition on the queues that held while its entry alone was in
\* doubt.
LEMMA LoadDoneKeeps ==
    ASSUME TypeOK, NEW st, TypedState(st), NEW l \in LQIndex, NEW i, NEW j, NEW p,
           QueuesBut(st, l), MayRead(st, l, i, j, p),
           NEW n, n = LoadDone(st, i, j, p)
    PROVE  /\ i \in InROB /\ j \in DOMAIN program[i].loads
           /\ TypedState(n) /\ QueuesInv(n)
           /\ OneOpLess(st.ROB[i], n.ROB[i])
           /\ \A k \in InROB \ {i} : n.ROB[k] = st.ROB[k]
           /\ \A k \in Instr \ {i} : n.data[k] = st.data[k]
  <1>0. st.LQ[l] # NONE /\ i = st.LQ[l].instr /\ j = st.LQ[l].slot
    BY DEF MayRead
  <1>1. /\ i \in InROB /\ j \in DOMAIN program[i].loads /\ st.ROB[i].lq_index[j] = l
        /\ st.data[i][j] = NONE /\ l # NONE
    <2>1. /\ i \in InROB /\ j \in DOMAIN program[i].loads /\ st.ROB[i].lq_index[j] = l
          /\ st.data[i][j] = NONE
      BY <1>0 DEF QueuesBut, LoadEntries
    <2>2. l # NONE
      BY Sizes DEF LQIndex
    <2> QED
      BY SMTT(30), <2>1, <2>2
  <1>2. /\ InROB \in SUBSET Instr /\ IsFiniteSet(InROB) /\ i \in Instr
        /\ \A k \in InROB : k \in Nat /\ head <= k /\ k < tail
        /\ \A k : k \in Instr <=> k \in Nat /\ 1 <= k /\ k <= Len(program)
        /\ program \in Programs
    BY <1>1, BufferFacts DEF TypeOK
  <1>3. Len(program) \in Nat /\ DOMAIN program[i].loads \subseteq 1..4
        /\ DOMAIN program[i].stores \subseteq 1..4
        /\ IsInjective(program[i].loads)
    BY <1>2, ProgramFacts
  <1>4. p \in {0} \cup Instr
    <2>1. p \in 0..(i - 1) /\ i \in Nat /\ i <= Len(program) /\ Len(program) \in Nat
      BY <1>2, <1>3 DEF MayRead, LastStore
    <2>2. ASSUME NEW len \in Nat, i <= len
          PROVE  p = 0 \/ (p \in Nat /\ 1 <= p /\ p <= len)
      BY <2>1, <2>2
    <2> QED
      BY SMTT(30), <1>2, <2>1, <2>2
  <1>5. /\ j \in OpenLoads(st, i) /\ IsFiniteSet(OpenLoads(st, i))
        /\ IsFiniteSet(OpenStores(st, i))
    <2>1. OpenLoads(st, i) \in SUBSET (1..4) /\ OpenStores(st, i) \in SUBSET (1..4)
      BY <1>3 DEF OpenLoads, OpenStores
    <2>2. j \in OpenLoads(st, i)
      BY <1>1 DEF OpenLoads
    <2> QED
      BY <2>1, <2>2, CardUpTo, FS_Subset
  <1>6. /\ Cardinality(OpenLoads(st, i)) \in Nat /\ Cardinality(OpenStores(st, i)) \in Nat
        /\ Cardinality(OpenLoads(st, i) \ {j}) = Cardinality(OpenLoads(st, i)) - 1
        /\ Cardinality(OpenLoads(st, i) \ {j}) \in Nat
    BY <1>5, FS_CardinalityType, FS_RemoveElement
  <1>7. /\ st.ROB[i].num_mem_ops
             = Cardinality(OpenLoads(st, i)) + Cardinality(OpenStores(st, i))
        /\ st.ROB[i].num_mem_ops \in Nat \ {0}
        /\ st.ROB[i].num_mem_ops - 1
             = Cardinality(OpenLoads(st, i) \ {j}) + Cardinality(OpenStores(st, i))
    BY <1>1, <1>6 DEF QueuesBut, OpsCounted
  <1>8. /\ TypedState(n)
        /\ n.SQ = st.SQ /\ n.SQ_tail = st.SQ_tail /\ n.STA = st.STA
        /\ n.LQ[l] = NONE /\ \A x \in LQIndex \ {l} : n.LQ[x] = st.LQ[x]
        /\ n.data[i][j] = p
        /\ \A b \in DOMAIN program[i].loads : b # j => n.data[i][b] = st.data[i][b]
        /\ \A k \in Instr \ {i} : n.data[k] = st.data[k]
        /\ OneOpLess(st.ROB[i], n.ROB[i])
        /\ \A k \in InROB \ {i} : n.ROB[k] = st.ROB[k]
        /\ n.inflight = IF st.ROB[i].num_mem_ops = 1 THEN st.inflight + 1 ELSE st.inflight
    BY <1>1, <1>4, <1>7, LoadDoneEffect
  <1>9. \A k \in InROB : /\ n.ROB[k].lq_index = st.ROB[k].lq_index
                         /\ n.ROB[k].sq_index = st.ROB[k].sq_index
                         /\ n.ROB[k].executed = st.ROB[k].executed
                         /\ n.ROB[k].memory_instrs_depend_on_me = st.ROB[k].memory_instrs_depend_on_me
    BY <1>8 DEF OneOpLess
  <1>10. p # NONE
    BY <1>4, <1>2, Sizes
  <1>11. \A q, addr : Forwards(n, q, addr) <=> Forwards(st, q, addr)
    BY <1>8 DEF Forwards
  <1>12. LoadEntries(n)
    <2> SUFFICES ASSUME NEW x \in LQIndex, n.LQ[x] # NONE
                 PROVE  /\ n.LQ[x].instr \in InROB
                        /\ n.LQ[x].slot \in DOMAIN program[n.LQ[x].instr].loads
                        /\ n.ROB[n.LQ[x].instr].lq_index[n.LQ[x].slot] = x
                        /\ n.data[n.LQ[x].instr][n.LQ[x].slot] = NONE
                        /\ (n.LQ[x].state = "waiting") <=> (n.LQ[x].producer # NONE)
      BY SMTT(30) DEF LoadEntries
    <2>1. x # l /\ n.LQ[x] = st.LQ[x]
      BY <1>8
    <2>2. /\ st.LQ[x].instr \in InROB
          /\ st.LQ[x].slot \in DOMAIN program[st.LQ[x].instr].loads
          /\ st.ROB[st.LQ[x].instr].lq_index[st.LQ[x].slot] = x
          /\ st.data[st.LQ[x].instr][st.LQ[x].slot] = NONE
          /\ (st.LQ[x].state = "waiting") <=> (st.LQ[x].producer # NONE)
      BY <2>1 DEF QueuesBut, LoadEntries
    <2>3. ~(st.LQ[x].instr = i /\ st.LQ[x].slot = j)
      BY <1>1, <2>1, <2>2
    <2>4. n.data[st.LQ[x].instr][st.LQ[x].slot] = NONE
      BY SMTT(30), <1>2, <1>8, <2>2, <2>3
    <2> QED
      BY SMTT(30), <2>1, <2>2, <2>4, <1>9
  <1>13. LoadSlots(n)
    <2> SUFFICES ASSUME NEW k \in InROB, NEW b \in DOMAIN program[k].loads
                 PROVE  IF n.ROB[k].lq_index[b] = NONE THEN n.data[k][b] = NONE
                        ELSE \/ n.data[k][b] # NONE
                             \/ LET q == n.LQ[n.ROB[k].lq_index[b]]
                                IN  q # NONE /\ q.instr = k /\ q.slot = b
      BY DEF LoadSlots
    <2>1. IF st.ROB[k].lq_index[b] = NONE THEN st.data[k][b] = NONE
          ELSE \/ st.data[k][b] # NONE
               \/ LET q == st.LQ[st.ROB[k].lq_index[b]]
                  IN  q # NONE /\ q.instr = k /\ q.slot = b
      BY DEF QueuesBut, LoadSlots
    <2>2. CASE k = i /\ b = j
      BY SMTT(30), <1>1, <1>8, <1>9, <1>10, <2>2
    <2>3. CASE ~(k = i /\ b = j)
      <3>1. n.data[k][b] = st.data[k][b]
        BY SMTT(30), <1>2, <1>8, <2>3
      <3>2. CASE st.ROB[k].lq_index[b] = NONE \/ st.data[k][b] # NONE
        BY SMTT(30), <3>1, <3>2, <2>1, <1>9
      <3>3. CASE st.ROB[k].lq_index[b] # NONE /\ st.data[k][b] = NONE
        <4>1. st.ROB[k].lq_index[b] \in LQIndex
          <5>1. st.ROB[k] \in Entry(k)
            BY DEF TypedState
          <5> QED
            BY <5>1, <3>3 DEF Entry
        <4>2. st.LQ[st.ROB[k].lq_index[b]].instr = k /\ st.LQ[st.ROB[k].lq_index[b]].slot = b
              /\ st.LQ[st.ROB[k].lq_index[b]] # NONE
          BY <3>3, <2>1
        <4>3. st.ROB[k].lq_index[b] # l
          BY <4>2, <2>3, <1>0
        <4>4. n.LQ[st.ROB[k].lq_index[b]] = st.LQ[st.ROB[k].lq_index[b]]
          BY SMTT(30), <4>1, <4>3, <1>8
        <4> QED
          BY <4>2, <4>4, <3>3, <1>9
      <3> QED
        BY <3>2, <3>3
    <2> QED
      BY SMTT(30), <2>2, <2>3
  <1>14. WaitsForLast(n)
    BY SMTT(30), <1>8, <1>9, <1>11 DEF QueuesBut, WaitsForLast, WaitsFor, ProducerOf
  <1>15. ReadsLast(n)
    <2> SUFFICES ASSUME NEW k \in Instr, NEW b \in DOMAIN program[k].loads, n.data[k][b] # NONE
                 PROVE  /\ k < tail
                        /\ \/ n.data[k][b] = ASTRAY /\ MayGoAstray(k, program[k].loads[b])
                           \/ /\ LastStore(n.data[k][b], k, program[k].loads[b])
                              /\ n.data[k][b] \in InROB /\ k \in InROB
                                   => Forwards(n, n.data[k][b], program[k].loads[b])
      BY DEF ReadsLast
    <2>1. CASE k = i /\ b = j
      BY ZenonT(30), <1>1, <1>2, <1>8, <1>11, <2>1 DEF MayRead
    <2>2. CASE ~(k = i /\ b = j)
      <3>1. n.data[k][b] = st.data[k][b]
        BY <1>8, <2>2
      <3> QED
        BY <3>1, <1>11 DEF QueuesBut, ReadsLast
    <2> QED
      BY <2>1, <2>2
  <1>16. NotedLoads(n)
    BY <1>9 DEF QueuesBut, NotedLoads
  <1>17. StoreEntries(n) /\ StoreSlots(n) /\ Ring(n) /\ StoresInOrder(n)
    <2>0. \A k \in InROB : n.ROB[k].sq_index = st.ROB[k].sq_index
      BY <1>9
    <2>1. StoreEntries(n)
      BY SMTT(30), <2>0, <1>8 DEF QueuesBut, StoreEntries
    <2>3. StoreSlots(n)
      BY SMTT(30), <2>0, <1>8 DEF QueuesBut, StoreSlots
    <2>2. Ring(n) /\ StoresInOrder(n)
      BY <1>8 DEF QueuesBut, Ring, Back, StoresInOrder
    <2> QED
      BY <2>1, <2>2, <2>3
  <1>18. OpsCounted(n)
    <2> SUFFICES ASSUME NEW k \in InROB
                 PROVE  n.ROB[k].num_mem_ops
                          = Cardinality(OpenLoads(n, k)) + Cardinality(OpenStores(n, k))
      BY DEF OpsCounted
    <2>1. OpenStores(n, k) = OpenStores(st, k)
      BY <1>8, <1>9 DEF OpenStores
    <2>2. CASE k = i
      <3>1. OpenLoads(n, k) = OpenLoads(st, i) \ {j}
        BY <1>8, <1>10, <2>2 DEF OpenLoads
      <3>2. n.ROB[k].num_mem_ops = st.ROB[i].num_mem_ops - 1
        BY <1>8, <2>2 DEF OneOpLess
      <3> QED
        BY <2>1, <2>2, <3>1, <3>2, <1>7
    <2>3. CASE k # i
      <3>1. OpenLoads(n, k) = OpenLoads(st, k) /\ n.ROB[k] = st.ROB[k]
        BY <1>2, <1>8, <2>3 DEF OpenLoads
      <3> QED
        BY <2>1, <3>1 DEF QueuesBut, OpsCounted
    <2> QED
      BY <2>2, <2>3
  <1>19. DoneWhenCompleted(n)
    <2>1. st.ROB[i].executed # COMPLETED
      BY <1>1, <1>7 DEF QueuesBut, DoneWhenCompleted
    <2> QED
      BY <2>1, <1>8, <1>9 DEF QueuesBut, DoneWhenCompleted
  <1>20. MemInFlightCounted(n)
    <2>1. IsFiniteSet(MemInFlight(st)) /\ i \notin MemInFlight(st)
      <3>1. MemInFlight(st) \subseteq InROB
        BY DEF MemInFlight
      <3> QED
        BY <3>1, <1>2, <1>7, FS_Subset DEF MemInFlight
    <2>2. n.ROB[i].num_mem_ops = st.ROB[i].num_mem_ops - 1
          /\ st.ROB[i].executed # COMPLETED
      BY <1>1, <1>7, <1>8 DEF QueuesBut, OneOpLess, DoneWhenCompleted
    <2>3. is_memory(i)
      BY <1>1 DEF is_memory
    <2>4. CASE st.ROB[i].num_mem_ops = 1
      <3>1. n.ROB[i].num_mem_ops = 0
        BY <2>2, <2>4
      <3>2. MemInFlight(n) = MemInFlight(st) \cup {i}
        BY <1>1, <1>8, <1>9, <2>2, <2>3, <3>1 DEF MemInFlight
      <3>3. Cardinality(MemInFlight(st) \cup {i}) = Cardinality(MemInFlight(st)) + 1
        BY <2>1, FS_AddElement
      <3> QED
        BY <1>8, <2>4, <3>2, <3>3 DEF QueuesBut, MemInFlightCounted
    <2>5. CASE st.ROB[i].num_mem_ops # 1
      <3>1. n.ROB[i].num_mem_ops # 0
        BY <1>7, <2>2, <2>5
      <3>2. MemInFlight(n) = MemInFlight(st)
        BY <1>8, <1>9, <2>1, <3>1 DEF MemInFlight
      <3> QED
        BY <1>8, <2>5, <3>2 DEF QueuesBut, MemInFlightCounted
    <2> QED
      BY <2>4, <2>5
  <1> QED
    BY SMTT(30), <1>1, <1>8, <1>12, <1>13, <1>14, <1>15, <1>16, <1>17, <1>18, <1>19, <1>20
    DEF QueuesInv, EntriesInv

\* What the memory holds is from the last store among the instructions that
\* have retired.
LEMMA StoredIsLast ==
    ASSUME TypeOK, NEW addr
    PROVE  /\ Stored(addr) \in 0..(head - 1)
           /\ Stored(addr) # 0 => addr \in Range(program[Stored(addr)].stores)
           /\ NotStored(Stored(addr) + 1, head, addr)
  <1> DEFINE S == {p \in 1..(head - 1) : addr \in Range(program[p].stores)}
  <1>1. head \in Nat /\ 1 <= head
    BY BufferFacts
  <1>2. Stored(addr) = IF S = {} THEN 0 ELSE Youngest(S)
    BY DEF Stored
  <1>3. CASE S = {}
    BY <1>1, <1>2, <1>3 DEF NotStored
  <1>4. CASE S # {}
    <2>1. S \in SUBSET (0..(head - 1)) /\ head - 1 \in Nat
      BY <1>1
    <2>2. Youngest(S) \in S /\ \A k \in S : k <= Youngest(S)
      BY <1>4, <2>1, YoungestIsMax
    <2>3. NotStored(Youngest(S) + 1, head, addr)
      BY <1>1, <2>2 DEF NotStored
    <2> QED
      BY <1>1, <1>2, <1>4, <2>2, <2>3
  <1> QED
    BY <1>3, <1>4

\* complete_data_fetch answers a load only when no earlier store to its
\* address is in flight, so what it reads is right.
LEMMA LoadAnsweredPreserves ==
    ASSUME CoreInv, NEW l \in LQIndex, LoadAnswered(l)
    PROVE  CoreInv'
  <1> DEFINE i == LQ[l].instr
             j == LQ[l].slot
             addr == program[i].loads[j]
             p == Stored(addr)
             n == LoadDone(st0, i, j, p)
  <1>1. LQ[l] # NONE /\ LQ[l].state = "L1D" /\ Becomes(n)
    BY DEF LoadAnswered
  <1>2. TypeOK /\ TypedState(st0) /\ QueuesInv(st0) /\ st0.LQ = LQ /\ st0.ROB = ROB
    BY InitialState DEF Entering, CoreInv, st0
  <1>3. QueuesBut(st0, l)
    BY <1>2 DEF QueuesInv, EntriesInv, WaitsForLast, QueuesBut
  <1>4. i \in InROB /\ LQ[l].producer = NONE
    BY <1>1, <1>2 DEF QueuesInv, EntriesInv, LoadEntries
  <1>5. NotStored(head, i, addr)
    BY <1>1, <1>2, <1>4 DEF QueuesInv, EntriesInv, WaitsForLast, WaitsFor
  <1>6. /\ head \in Nat /\ 1 <= head /\ i \in Nat /\ head <= i
        /\ \A k : k \in InROB => k \in Nat /\ head <= k
    BY <1>2, <1>4, BufferFacts
  <1>7. /\ p \in 0..(head - 1)
        /\ p # 0 => addr \in Range(program[p].stores)
        /\ NotStored(p + 1, head, addr)
    BY <1>2, StoredIsLast
  <1> HIDE DEF p
  <1>8. MayRead(st0, l, i, j, p)
    <2>1. LastStore(p, i, addr)
      BY <1>5, <1>6, <1>7 DEF LastStore, NotStored
    <2>2. p \notin InROB
      BY <1>6, <1>7
    <2> QED
      BY <1>1, <1>2, <2>1, <2>2 DEF MayRead
  <1> HIDE DEF i, j, n
  <1>9. /\ i \in InROB /\ TypedState(n) /\ QueuesInv(n)
        /\ OneOpLess(ROB[i], n.ROB[i])
        /\ \A k \in InROB \ {i} : n.ROB[k] = ROB[k]
    BY <1>2, <1>3, <1>8, LoadDoneKeeps DEF n
  <1>10. \A k \in InROB :
           /\ n.ROB[k].reg_ready = ROB[k].reg_ready
           /\ n.ROB[k].num_reg_dependent = ROB[k].num_reg_dependent
           /\ n.ROB[k].registers_index_depend_on_me = ROB[k].registers_index_depend_on_me
           /\ n.ROB[k].scheduled = ROB[k].scheduled
           /\ n.ROB[k].executed = ROB[k].executed
           /\ n.ROB[k].lq_index = ROB[k].lq_index
           /\ n.ROB[k].sq_index = ROB[k].sq_index
    BY <1>9 DEF OneOpLess
  <1> QED
    BY <1>1, <1>9, <1>10, BecomesPreserves

-----------------------------------------------------------------------------
(* A load enters the queue.                                                *)

\* The producer of a load is the last store before it in the buffer.
LEMMA MemProducer ==
    ASSUME TypeOK, NEW st, NEW i \in InROB, NEW addr, NEW p, p = mem_RAW_dependency(st, i, addr)
    PROVE  /\ p = NONE => NotStored(head, i, addr)
           /\ p # NONE => p \in InROB /\ p < i /\ LastStore(p, i, addr)
  <1> DEFINE S == {q \in head..(i - 1) : addr \in Range(program[q].stores)}
  <1>1. p = Youngest(S)
    BY DEF mem_RAW_dependency
  <1>2. /\ head \in Nat /\ 1 <= head /\ tail \in Nat /\ i \in Nat /\ head <= i /\ i < tail
        /\ \A k : k \in InROB <=> k \in Nat /\ head <= k /\ k < tail
    BY BufferFacts
  <1>3. CASE S = {}
    BY <1>1, <1>2, <1>3 DEF Youngest, NotStored
  <1>4. CASE S # {}
    <2>1. S \in SUBSET (0..i)
      BY <1>2
    <2>2. p \in S /\ \A k \in S : k <= p
      BY <1>1, <1>2, <1>4, <2>1, YoungestIsMax
    <2>3. p # NONE /\ p \in InROB /\ p < i
      BY <1>2, <2>2, Sizes
    <2>4. LastStore(p, i, addr)
      BY <1>2, <2>2 DEF LastStore, NotStored
    <2> QED
      BY <2>3, <2>4
  <1> QED
    BY <1>3, <1>4

\* A queue with room has a first free entry.
LEMMA FreeEntry ==
    ASSUME NEW Q, Room(Q), DOMAIN Q = LQIndex
    PROVE  FirstFree(Q) \in LQIndex /\ Q[FirstFree(Q)] = NONE
  <1> DEFINE S == {x \in LQIndex : Q[x] = NONE}
  <1>1. S \in SUBSET Nat /\ S # {}
    BY Sizes DEF Room, LQIndex
  <1>2. PICK x \in S : \A y \in S : x <= y
    BY <1>1, MinExists
  <1> QED
    BY <1>2 DEF FirstFree

\* Load j of i takes entry l and is noted at its producer p, if it has one.
Takes(st, n, i, j, l, p) ==
    /\ TypedState(n)
    /\ n.SQ = st.SQ /\ n.SQ_tail = st.SQ_tail /\ n.STA = st.STA
    /\ n.inflight = st.inflight /\ n.data = st.data
    /\ n.LQ[l] = [instr |-> i, slot |-> j, producer |-> p,
                  state |-> IF p = NONE THEN "RTL0" ELSE "waiting"]
    /\ \A x \in LQIndex \ {l} : n.LQ[x] = st.LQ[x]
    /\ n.ROB[i].lq_index[j] = l
    /\ \A b \in DOMAIN program[i].loads : b # j => n.ROB[i].lq_index[b] = st.ROB[i].lq_index[b]
    /\ \A k \in InROB \ {i} : n.ROB[k].lq_index = st.ROB[k].lq_index
    /\ \A k \in InROB :
         /\ n.ROB[k].scheduled = st.ROB[k].scheduled
         /\ n.ROB[k].executed = st.ROB[k].executed
         /\ n.ROB[k].reg_ready = st.ROB[k].reg_ready
         /\ n.ROB[k].num_reg_dependent = st.ROB[k].num_reg_dependent
         /\ n.ROB[k].registers_index_depend_on_me = st.ROB[k].registers_index_depend_on_me
         /\ n.ROB[k].num_mem_ops = st.ROB[k].num_mem_ops
         /\ n.ROB[k].sq_index = st.ROB[k].sq_index
         /\ n.ROB[k].memory_instrs_depend_on_me =
              IF k = p THEN st.ROB[k].memory_instrs_depend_on_me \cup {i}
              ELSE st.ROB[k].memory_instrs_depend_on_me

\* add_load_queue takes a free entry for the load and notes it at the store
\* it waits for, if there is one.
LEMMA TakesEffect ==
    ASSUME TypeOK, NEW st, TypedState(st), NEW i \in InROB, NEW j \in DOMAIN program[i].loads,
           NEW l \in LQIndex, NEW p \in InROB \cup {NONE}, p # i,
           NEW n, n = LoadNoted(LoadAdded(st, i, j, l, p), i, p)
    PROVE  Takes(st, n, i, j, l, p)
  <1> DEFINE ix == [st.ROB[i].lq_index EXCEPT ![j] = l]
             f == [st.ROB[i] EXCEPT !.lq_index = ix]
             load == [instr |-> i, slot |-> j, producer |-> p,
                      state |-> IF p = NONE THEN "RTL0" ELSE "waiting"]
             L == [st.LQ EXCEPT ![l] = load]
             notes == st.ROB[p].memory_instrs_depend_on_me \cup {i}
             g == [st.ROB[p] EXCEPT !.memory_instrs_depend_on_me = notes]
             R1 == [st.ROB EXCEPT ![i] = f]
             R == IF p = NONE THEN R1 ELSE [R1 EXCEPT ![p] = g]
  <1> DEFINE added == LoadAdded(st, i, j, l, p)
  <1>1. /\ InROB \in SUBSET Instr /\ (\A k \in InROB : k \in Nat)
        /\ DOMAIN program[i].loads \subseteq 1..4 /\ NONE \notin InROB /\ NONE \notin Instr
    <2>1. InROB \in SUBSET Instr /\ (\A k \in Instr : k \in Nat) /\ program \in Programs
      BY BufferFacts DEF TypeOK
    <2>2. DOMAIN program[i].loads \subseteq 1..4
      BY <2>1, ProgramFacts
    <2> QED
      BY <2>1, <2>2, Sizes
  <1>2. /\ DOMAIN st.ROB = Instr /\ DOMAIN st.LQ = LQIndex /\ i \in Instr
        /\ \A k \in InROB : st.ROB[k] \in Entry(k)
        /\ st.LQ \in [LQIndex -> Loading \cup {NONE}]
    BY <1>1 DEF TypedState
  <1>3. ix \in [DOMAIN program[i].loads -> LQIndex \cup {NONE}] /\ ix[j] = l
        /\ \A b \in DOMAIN program[i].loads : b # j => ix[b] = st.ROB[i].lq_index[b]
    <2>1. st.ROB[i].lq_index \in [DOMAIN program[i].loads -> LQIndex \cup {NONE}]
      BY <1>2 DEF Entry
    <2> QED
      BY <2>1
  <1>4. ASSUME NEW k \in InROB, NEW e \in Entry(k),
               NEW m \in [DOMAIN program[k].loads -> LQIndex \cup {NONE}], NEW h,
               h = [e EXCEPT !.lq_index = m]
        PROVE  /\ h \in Entry(k) /\ h.lq_index = m
               /\ h.scheduled = e.scheduled /\ h.executed = e.executed
               /\ h.reg_ready = e.reg_ready /\ h.num_reg_dependent = e.num_reg_dependent
               /\ h.registers_index_depend_on_me = e.registers_index_depend_on_me
               /\ h.num_mem_ops = e.num_mem_ops /\ h.sq_index = e.sq_index
               /\ h.memory_instrs_depend_on_me = e.memory_instrs_depend_on_me
    BY <1>4 DEF Entry
  <1>6. load \in Loading
    BY <1>1 DEF Loading, LoadState
  <1>7. /\ added = [ROB |-> R1, LQ |-> L, SQ |-> st.SQ, SQ_tail |-> st.SQ_tail,
                    STA |-> st.STA, inflight |-> st.inflight, data |-> st.data]
    <2>1. R1 = [st.ROB EXCEPT ![i].lq_index[j] = l]
      OBVIOUS
    <2> HIDE DEF R1
    <2>2. added = [st EXCEPT !.ROB[i].lq_index[j] = l, !.LQ[l] = load]
      BY DEF LoadAdded
    <2> HIDE DEF added, load
    <2>3. st = [ROB |-> st.ROB, LQ |-> st.LQ, SQ |-> st.SQ, SQ_tail |-> st.SQ_tail,
                STA |-> st.STA, inflight |-> st.inflight, data |-> st.data]
      BY DEF TypedState
    <2> QED
      BY <2>1, <2>2, <2>3
  <1> HIDE DEF added
  <1>8. p # NONE => R1[p] = st.ROB[p]
    BY <1>1, <1>2
  <1>9. n = [ROB |-> R, LQ |-> L, SQ |-> st.SQ, SQ_tail |-> st.SQ_tail,
             STA |-> st.STA, inflight |-> st.inflight, data |-> st.data]
    <2>1. CASE p = NONE
      BY <2>1, <1>7 DEF LoadNoted, added
    <2>2. CASE p # NONE
      <3> HIDE DEF R1, L
      <3>0. n = [added EXCEPT !.ROB[p].memory_instrs_depend_on_me = @ \cup {i}]
        BY <2>2 DEF LoadNoted, added
      <3>1. n = [ROB |-> [R1 EXCEPT ![p].memory_instrs_depend_on_me = @ \cup {i}],
                 LQ |-> L, SQ |-> st.SQ, SQ_tail |-> st.SQ_tail,
                 STA |-> st.STA, inflight |-> st.inflight, data |-> st.data]
        BY <1>7, <3>0
      <3>2. [R1 EXCEPT ![p].memory_instrs_depend_on_me = @ \cup {i}] = [R1 EXCEPT ![p] = g]
        BY <1>8, <2>2
      <3> QED
        BY <3>1, <3>2, <2>2
    <2> QED
      BY <2>1, <2>2
  <1> HIDE DEF ix
  <1>10. f \in Entry(i) /\ f.lq_index = ix
         /\ f.scheduled = st.ROB[i].scheduled /\ f.executed = st.ROB[i].executed
         /\ f.reg_ready = st.ROB[i].reg_ready
         /\ f.num_reg_dependent = st.ROB[i].num_reg_dependent
         /\ f.registers_index_depend_on_me = st.ROB[i].registers_index_depend_on_me
         /\ f.num_mem_ops = st.ROB[i].num_mem_ops /\ f.sq_index = st.ROB[i].sq_index
         /\ f.memory_instrs_depend_on_me = st.ROB[i].memory_instrs_depend_on_me
    BY <1>2, <1>3, <1>4
  <1>11. p # NONE =>
            /\ g \in Entry(p) /\ g.memory_instrs_depend_on_me = notes
            /\ g.scheduled = st.ROB[p].scheduled /\ g.executed = st.ROB[p].executed
            /\ g.reg_ready = st.ROB[p].reg_ready
            /\ g.num_reg_dependent = st.ROB[p].num_reg_dependent
            /\ g.registers_index_depend_on_me = st.ROB[p].registers_index_depend_on_me
            /\ g.num_mem_ops = st.ROB[p].num_mem_ops /\ g.sq_index = st.ROB[p].sq_index
            /\ g.lq_index = st.ROB[p].lq_index
    <2> SUFFICES ASSUME p # NONE
                 PROVE  /\ g \in Entry(p) /\ g.memory_instrs_depend_on_me = notes
                        /\ g.scheduled = st.ROB[p].scheduled /\ g.executed = st.ROB[p].executed
                        /\ g.reg_ready = st.ROB[p].reg_ready
                        /\ g.num_reg_dependent = st.ROB[p].num_reg_dependent
                        /\ g.registers_index_depend_on_me
                             = st.ROB[p].registers_index_depend_on_me
                        /\ g.num_mem_ops = st.ROB[p].num_mem_ops
                        /\ g.sq_index = st.ROB[p].sq_index /\ g.lq_index = st.ROB[p].lq_index
      OBVIOUS
    <2>1. p \in InROB /\ st.ROB[p] \in Entry(p)
      BY <1>2
    <2>2. st.ROB[p].memory_instrs_depend_on_me \in SUBSET Instr
      BY <2>1 DEF Entry
    <2>3. notes \in SUBSET Instr
      BY <2>2, <1>1, <1>2
    <2>4. g = [st.ROB[p] EXCEPT !.memory_instrs_depend_on_me = notes]
      OBVIOUS
    <2> HIDE DEF notes, g
    <2> QED
      BY <2>1, <2>3, <2>4 DEF Entry
  <1> HIDE DEF f, g
  <1>12. /\ DOMAIN R = Instr /\ R[i] = f /\ (p # NONE => R[p] = g)
         /\ \A k \in Instr : k # i /\ k # p => R[k] = st.ROB[k]
    BY <1>1, <1>2
  <1>13. /\ L \in [LQIndex -> Loading \cup {NONE}] /\ L[l] = load
         /\ \A x \in LQIndex \ {l} : L[x] = st.LQ[x]
    <2> HIDE DEF load
    <2> QED
      BY <1>2, <1>6
  <1> HIDE DEF R, L, R1
  <1>14. /\ n.ROB = R /\ n.LQ = L /\ n.SQ = st.SQ /\ n.SQ_tail = st.SQ_tail
         /\ n.STA = st.STA /\ n.inflight = st.inflight /\ n.data = st.data
         /\ n = [ROB |-> n.ROB, LQ |-> n.LQ, SQ |-> n.SQ, SQ_tail |-> n.SQ_tail,
                 STA |-> n.STA, inflight |-> n.inflight, data |-> n.data]
    BY <1>9
  <1>15. \A k \in InROB :
           /\ n.ROB[k] \in Entry(k)
           /\ n.ROB[k].scheduled = st.ROB[k].scheduled
           /\ n.ROB[k].executed = st.ROB[k].executed
           /\ n.ROB[k].reg_ready = st.ROB[k].reg_ready
           /\ n.ROB[k].num_reg_dependent = st.ROB[k].num_reg_dependent
           /\ n.ROB[k].registers_index_depend_on_me = st.ROB[k].registers_index_depend_on_me
           /\ n.ROB[k].num_mem_ops = st.ROB[k].num_mem_ops
           /\ n.ROB[k].sq_index = st.ROB[k].sq_index
           /\ k # i => n.ROB[k].lq_index = st.ROB[k].lq_index
           /\ n.ROB[k].memory_instrs_depend_on_me =
                IF k = p THEN st.ROB[k].memory_instrs_depend_on_me \cup {i}
                ELSE st.ROB[k].memory_instrs_depend_on_me
    <2> TAKE k \in InROB
    <2>1. CASE k = i
      BY <2>1, <1>10, <1>12, <1>14
    <2>2. CASE k # i /\ k = p
      <3>1. p # NONE
        BY <2>2, <1>1
      <3> QED
        BY <2>2, <3>1, <1>11, <1>12, <1>14
    <2>3. CASE k # i /\ k # p
      BY <2>3, <1>1, <1>2, <1>12, <1>14
    <2> QED
      BY <2>1, <2>2, <2>3
  <1>16. n.ROB[i].lq_index = ix
    BY <1>10, <1>12, <1>14
  <1>17. TypedState(n)
    <2>1. \A k \in Instr \ InROB : n.ROB[k] = NONE
      BY <1>1, <1>12, <1>14 DEF TypedState
    <2> QED
      BY <2>1, <1>12, <1>13, <1>14, <1>15 DEF TypedState
  <1> QED
    <2>1. n.LQ[l] = [instr |-> i, slot |-> j, producer |-> p,
                     state |-> IF p = NONE THEN "RTL0" ELSE "waiting"]
      BY <1>13, <1>14
    <2>2. \A x \in LQIndex \ {l} : n.LQ[x] = st.LQ[x]
      BY <1>13, <1>14
    <2>3. \A k \in InROB \ {i} : n.ROB[k].lq_index = st.ROB[k].lq_index
      BY <1>15
    <2>4. n.ROB[i].lq_index[j] = l
          /\ \A b \in DOMAIN program[i].loads : b # j => n.ROB[i].lq_index[b] = st.ROB[i].lq_index[b]
      BY <1>3, <1>16
    <2> QED
      BY <2>1, <2>2, <2>3, <2>4, <1>14, <1>15, <1>17 DEF Takes

\* The entry that a load takes, and the producer that it has found.
Free(st, i, j, l, p) ==
    /\ st.ROB[i].lq_index[j] = NONE
    /\ l \in LQIndex /\ st.LQ[l] = NONE
    /\ p \in InROB \cup {NONE} /\ p # i
    /\ p = NONE => NotStored(head, i, program[i].loads[j])
    /\ p # NONE => LastStore(p, i, program[i].loads[j])

\* A load that has taken an entry leaves the other entries' conditions as
\* they were; its own is either that its store can forward to it now, or that
\* it waits for that store.
LEMMA TakesKeeps ==
    ASSUME TypeOK, NEW st, NEW i \in InROB, NEW j \in DOMAIN program[i].loads,
           Entering(st, i), NEW l, NEW p, Free(st, i, j, l, p), NEW n, Takes(st, n, i, j, l, p)
    PROVE  /\ QueuesBut(n, l) /\ SameRegisters(n) /\ SameIndices(n, i)
           /\ p # NONE /\ Forwards(st, p, program[i].loads[j]) => MayRead(n, l, i, j, p)
           /\ ~(p # NONE /\ Forwards(st, p, program[i].loads[j])) => WaitsFor(n, l)
  <1> DEFINE addr == program[i].loads[j]
  <1>1. /\ TypedState(st) /\ SameRegisters(st) /\ SameIndices(st, i)
        /\ LoadEntries(st) /\ LoadSlots(st) /\ WaitsForLast(st) /\ ReadsLast(st) /\ NotedLoads(st)
        /\ StoreEntries(st) /\ StoreSlots(st) /\ Ring(st) /\ StoresInOrder(st) /\ OpsCounted(st)
        /\ DoneWhenCompleted(st) /\ MemInFlightCounted(st)
    BY DEF Entering, QueuesInv, EntriesInv
  <1>2. /\ n.SQ = st.SQ /\ n.SQ_tail = st.SQ_tail /\ n.STA = st.STA
        /\ n.inflight = st.inflight /\ n.data = st.data
        /\ n.LQ[l] # NONE /\ n.LQ[l].instr = i /\ n.LQ[l].slot = j /\ n.LQ[l].producer = p
        /\ (n.LQ[l].state = "waiting") <=> (p # NONE)
        /\ \A x \in LQIndex \ {l} : n.LQ[x] = st.LQ[x]
    <2>1. n.LQ[l] = [instr |-> i, slot |-> j, producer |-> p,
                     state |-> IF p = NONE THEN "RTL0" ELSE "waiting"]
      BY DEF Takes
    <2>2. /\ n.LQ[l].instr = i /\ n.LQ[l].slot = j /\ n.LQ[l].producer = p
          /\ (n.LQ[l].state = "waiting") <=> (p # NONE)
      BY <2>1
    <2>3. i \in Nat /\ j \in 1..4
      <3>1. i \in Instr /\ i \in Nat /\ program \in Programs
        BY BufferFacts DEF TypeOK
      <3> QED
        BY <3>1, ProgramFacts
    <2>4. p \in Nat \cup {NONE}
      BY BufferFacts DEF Free
    <2>5. n.LQ[l] \in Loading
      BY <2>1, <2>3, <2>4 DEF Loading, LoadState
    <2>6. n.LQ[l] # NONE
      BY <2>5, Sizes
    <2> QED
      BY <2>2, <2>6 DEF Takes
  <1>3. /\ n.ROB[i].lq_index[j] = l
        /\ \A b \in DOMAIN program[i].loads : b # j => n.ROB[i].lq_index[b] = st.ROB[i].lq_index[b]
        /\ \A k \in InROB \ {i} : n.ROB[k].lq_index = st.ROB[k].lq_index
    BY DEF Takes
  <1>4. \A k \in InROB :
          /\ n.ROB[k].executed = st.ROB[k].executed
          /\ n.ROB[k].num_mem_ops = st.ROB[k].num_mem_ops
          /\ n.ROB[k].sq_index = st.ROB[k].sq_index
          /\ n.ROB[k].memory_instrs_depend_on_me =
               IF k = p THEN st.ROB[k].memory_instrs_depend_on_me \cup {i}
               ELSE st.ROB[k].memory_instrs_depend_on_me
    BY DEF Takes
  <1>5. /\ st.ROB[i].lq_index[j] = NONE /\ l \in LQIndex /\ st.LQ[l] = NONE /\ l # NONE
        /\ p \in InROB \cup {NONE} /\ p # i
        /\ p = NONE => NotStored(head, i, addr)
        /\ p # NONE => LastStore(p, i, addr)
    BY Sizes DEF Free, LQIndex
  <1>6. \A q, a : Forwards(n, q, a) <=> Forwards(st, q, a)
    BY <1>2 DEF Forwards
  <1>7. \A x \in LQIndex \ {l} : st.LQ[x] # NONE => ~(st.LQ[x].instr = i /\ st.LQ[x].slot = j)
    BY <1>1, <1>5, Sizes DEF LoadEntries, LQIndex
  <1>8. \A k \in InROB : \A b \in DOMAIN program[k].loads :
          ~(k = i /\ b = j) => n.ROB[k].lq_index[b] = st.ROB[k].lq_index[b]
    BY <1>3
  <1>81. \A k \in InROB : n.ROB[k].sq_index = st.ROB[k].sq_index
    BY DEF Takes
  <1>82. \A k \in InROB : n.ROB[k].executed = st.ROB[k].executed
    BY DEF Takes
  <1>83. \A k \in InROB : n.ROB[k].num_mem_ops = st.ROB[k].num_mem_ops
    BY DEF Takes
  <1>84. n.SQ = st.SQ /\ n.data = st.data /\ n.inflight = st.inflight
    BY DEF Takes
  <1>9. LoadEntries(n)
    <2> SUFFICES ASSUME NEW x \in LQIndex, n.LQ[x] # NONE
                 PROVE  /\ n.LQ[x].instr \in InROB
                        /\ n.LQ[x].slot \in DOMAIN program[n.LQ[x].instr].loads
                        /\ n.ROB[n.LQ[x].instr].lq_index[n.LQ[x].slot] = x
                        /\ n.data[n.LQ[x].instr][n.LQ[x].slot] = NONE
                        /\ (n.LQ[x].state = "waiting") <=> (n.LQ[x].producer # NONE)
      BY DEF LoadEntries
    <2>1. CASE x = l
      <3>1. st.data[i][j] = NONE
        BY <1>1, <1>5 DEF LoadSlots
      <3> QED
        BY <2>1, <3>1, <1>2, <1>3
    <2>2. CASE x # l
      <3>1. n.LQ[x] = st.LQ[x] /\ n.data = st.data
        BY <2>2, <1>2
      <3>2. /\ st.LQ[x].instr \in InROB
            /\ st.LQ[x].slot \in DOMAIN program[st.LQ[x].instr].loads
            /\ st.ROB[st.LQ[x].instr].lq_index[st.LQ[x].slot] = x
            /\ st.data[st.LQ[x].instr][st.LQ[x].slot] = NONE
            /\ (st.LQ[x].state = "waiting") <=> (st.LQ[x].producer # NONE)
        BY <1>1, <3>1 DEF LoadEntries
      <3>3. n.ROB[st.LQ[x].instr].lq_index[st.LQ[x].slot] = x
        BY SMTT(30), <2>2, <3>1, <3>2, <1>7, <1>8
      <3> QED
        BY <3>1, <3>2, <3>3
    <2> QED
      BY <2>1, <2>2
  <1>10. LoadSlots(n)
    <2> SUFFICES ASSUME NEW k \in InROB, NEW b \in DOMAIN program[k].loads
                 PROVE  IF n.ROB[k].lq_index[b] = NONE THEN n.data[k][b] = NONE
                        ELSE \/ n.data[k][b] # NONE
                             \/ LET q == n.LQ[n.ROB[k].lq_index[b]]
                                IN  q # NONE /\ q.instr = k /\ q.slot = b
      BY DEF LoadSlots
    <2>1. CASE k = i /\ b = j
      BY SMTT(30), <2>1, <1>2, <1>3, <1>5
    <2>2. CASE ~(k = i /\ b = j)
      <3>1. /\ n.ROB[k].lq_index[b] = st.ROB[k].lq_index[b]
            /\ n.data[k][b] = st.data[k][b]
        BY SMTT(30), <1>2, <1>8, <2>2
      <3>2. IF st.ROB[k].lq_index[b] = NONE THEN st.data[k][b] = NONE
            ELSE \/ st.data[k][b] # NONE
                 \/ LET q == st.LQ[st.ROB[k].lq_index[b]]
                    IN  q # NONE /\ q.instr = k /\ q.slot = b
        BY <1>1 DEF LoadSlots
      <3>3. st.ROB[k].lq_index[b] \in LQIndex \cup {NONE}
        <4>1. st.ROB[k] \in Entry(k)
          BY <1>1 DEF TypedState
        <4> QED
          BY <4>1 DEF Entry
      <3>4. CASE st.ROB[k].lq_index[b] = l
        BY SMTT(30), <3>1, <3>2, <3>4, <1>5
      <3>5. CASE st.ROB[k].lq_index[b] # l
        BY <3>1, <3>2, <3>3, <3>5, <1>2
      <3> QED
        BY <3>4, <3>5
    <2> QED
      BY <2>1, <2>2
  <1>11. \A x \in LQIndex \ {l} : n.LQ[x] # NONE => WaitsFor(n, x)
    <2> SUFFICES ASSUME NEW x \in LQIndex \ {l}, n.LQ[x] # NONE
                 PROVE  WaitsFor(n, x)
      OBVIOUS
    <2>1. n.LQ[x] = st.LQ[x] /\ WaitsFor(st, x)
      BY <1>1, <1>2 DEF WaitsForLast
    <2>2. ASSUME NEW q, NEW k, NEW a, ProducerOf(st, q, k, a)
          PROVE  ProducerOf(n, q, k, a)
      BY <1>4, <1>6, <2>2 DEF ProducerOf
    <2> QED
      BY <2>1, <2>2 DEF WaitsFor
  <1>12. ReadsLast(n)
    BY <1>1, <1>2, <1>6 DEF ReadsLast
  <1>13. NotedLoads(n)
    <2> SUFFICES ASSUME NEW q \in InROB, NEW d \in n.ROB[q].memory_instrs_depend_on_me
                 PROVE  /\ d \in InROB
                        /\ \E b \in DOMAIN program[d].loads : LastStore(q, d, program[d].loads[b])
      BY DEF NotedLoads
    <2>1. CASE q = p /\ d = i
      <3>1. p # NONE
        BY <2>1, BufferFacts, Sizes
      <3> QED
        BY <2>1, <3>1, <1>5
    <2>2. CASE ~(q = p /\ d = i)
      <3>1. d \in st.ROB[q].memory_instrs_depend_on_me
        BY <1>4, <2>2
      <3> QED
        BY <3>1, <1>1 DEF NotedLoads
    <2> QED
      BY <2>1, <2>2
  <1>14. StoreEntries(n)
    BY <1>1, <1>81, <1>84 DEF StoreEntries
  <1>15. StoreSlots(n)
    BY SMTT(30), <1>1, <1>81, <1>84 DEF StoreSlots
  <1>16. Ring(n) /\ StoresInOrder(n)
    BY <1>1, <1>2 DEF Ring, Back, StoresInOrder
  <1>17. OpsCounted(n)
    <2>1. \A k \in InROB : OpenLoads(n, k) = OpenLoads(st, k) /\ OpenStores(n, k) = OpenStores(st, k)
      BY <1>81, <1>84 DEF OpenLoads, OpenStores
    <2> QED
      BY <1>1, <1>83, <2>1 DEF OpsCounted
  <1>18. DoneWhenCompleted(n) /\ MemInFlightCounted(n)
    <2>1. MemInFlight(n) = MemInFlight(st)
      BY <1>82, <1>83 DEF MemInFlight
    <2> QED
      BY <1>1, <1>82, <1>83, <1>84, <2>1 DEF DoneWhenCompleted, MemInFlightCounted
  <1>19. SameRegisters(n) /\ SameIndices(n, i)
    <2>1. SameRegisters(n)
      <3> SUFFICES ASSUME NEW k \in InROB
                   PROVE  /\ n.ROB[k].scheduled = ROB[k].scheduled
                          /\ n.ROB[k].executed = ROB[k].executed
                          /\ n.ROB[k].reg_ready = ROB[k].reg_ready
                          /\ n.ROB[k].num_reg_dependent = ROB[k].num_reg_dependent
                          /\ n.ROB[k].registers_index_depend_on_me
                               = ROB[k].registers_index_depend_on_me
        BY DEF SameRegisters
      <3>1. /\ st.ROB[k].scheduled = ROB[k].scheduled
            /\ st.ROB[k].executed = ROB[k].executed
            /\ st.ROB[k].reg_ready = ROB[k].reg_ready
            /\ st.ROB[k].num_reg_dependent = ROB[k].num_reg_dependent
            /\ st.ROB[k].registers_index_depend_on_me = ROB[k].registers_index_depend_on_me
        BY <1>1 DEF SameRegisters
      <3> QED
        BY <3>1 DEF Takes
    <2>2. SameIndices(n, i)
      BY <1>1, <1>3, <1>81 DEF SameIndices
    <2> QED
      BY <2>1, <2>2
  <1>20. ASSUME p # NONE, Forwards(st, p, addr)
         PROVE  MayRead(n, l, i, j, p)
    BY <1>2, <1>5, <1>6, <1>20 DEF MayRead
  <1>21. ASSUME ~(p # NONE /\ Forwards(st, p, addr))
         PROVE  WaitsFor(n, l)
    <2>1. CASE p = NONE
      BY <1>2, <1>5, <2>1 DEF WaitsFor
    <2>2. CASE p # NONE
      <3>1. ProducerOf(n, p, i, addr)
        BY <1>4, <1>5, <1>6, <1>21, <2>2 DEF ProducerOf
      <3> QED
        BY <1>2, <2>2, <3>1 DEF WaitsFor
    <2> QED
      BY <2>1, <2>2
  <1> QED
    BY <1>9, <1>10, <1>11, <1>12, <1>13, <1>14, <1>15, <1>16, <1>17, <1>18, <1>19, <1>20, <1>21
    DEF QueuesBut

\* The walk keeps its conditions over one load operand, whether the load
\* enters the queue or not.
LEMMA TryLoadKeeps ==
    ASSUME TypeOK, NEW st, NEW i \in InROB, NEW j, Entering(st, i)
    PROVE  Entering(TryLoad(st, i, j), i)
  <1>1. CASE ~(j \in DOMAIN program[i].loads /\ MayLoad(st, i, j))
    BY <1>1 DEF TryLoad
  <1>2. CASE j \in DOMAIN program[i].loads /\ MayLoad(st, i, j)
    <2> DEFINE addr == program[i].loads[j]
               l == FirstFree(st.LQ)
               p == mem_RAW_dependency(st, i, addr)
               n == LoadNoted(LoadAdded(st, i, j, l, p), i, p)
    <2>1. TryLoad(st, i, j) = IF p # NONE /\ Forwards(st, p, addr)
                              THEN LoadDone(n, i, j, p) ELSE n
      BY <1>2 DEF TryLoad, add_load_queue
    <2>2. l \in LQIndex /\ st.LQ[l] = NONE
      <3>1. Room(st.LQ) /\ DOMAIN st.LQ = LQIndex
        BY <1>2 DEF MayLoad, Entering, TypedState
      <3> QED
        BY <3>1, FreeEntry
    <2>3. /\ p = NONE => NotStored(head, i, addr)
          /\ p # NONE => p \in InROB /\ p < i /\ LastStore(p, i, addr)
      BY MemProducer
    <2>4. i \in Nat
      BY BufferFacts
    <2> HIDE DEF l, p
    <2>5. p # i
      <3>1. NONE # i
        BY <2>4, Sizes
      <3> QED
        BY <2>3, <2>4, <3>1
    <2>6. Free(st, i, j, l, p)
      BY <1>2, <2>2, <2>3, <2>5 DEF Free, MayLoad
    <2>7. Takes(st, n, i, j, l, p)
      BY <1>2, <2>6, TakesEffect DEF Entering, Free
    <2> HIDE DEF n
    <2>8. /\ QueuesBut(n, l) /\ SameRegisters(n) /\ SameIndices(n, i)
          /\ p # NONE /\ Forwards(st, p, addr) => MayRead(n, l, i, j, p)
          /\ ~(p # NONE /\ Forwards(st, p, addr)) => WaitsFor(n, l)
      BY <1>2, <2>6, <2>7, TakesKeeps
    <2>9. TypedState(n)
      BY <2>7 DEF Takes
    <2>10. SameData(n)
      BY <1>2, <2>7 DEF Takes, Entering, SameData
    <2>11. CASE p # NONE /\ Forwards(st, p, addr)
      <3> DEFINE m == LoadDone(n, i, j, p)
      <3>1. /\ TypedState(m) /\ QueuesInv(m)
            /\ OneOpLess(n.ROB[i], m.ROB[i])
            /\ \A k \in InROB \ {i} : m.ROB[k] = n.ROB[k]
            /\ \A k \in Instr \ {i} : m.data[k] = n.data[k]
        BY <2>2, <2>8, <2>9, <2>11, LoadDoneKeeps
      <3>2. TryLoad(st, i, j) = m
        BY <2>1, <2>11
      <3> HIDE DEF m
      <3>3. SameRegisters(m) /\ SameIndices(m, i) /\ SameData(m)
        <4>1. SameRegisters(m)
          BY <2>8, <3>1 DEF SameRegisters, OneOpLess
        <4>2. SameIndices(m, i)
          BY <2>8, <3>1 DEF SameIndices
        <4>3. SameData(m)
          BY <2>10, <3>1 DEF SameData
        <4> QED
          BY <4>1, <4>2, <4>3
      <3> QED
        BY <3>1, <3>2, <3>3 DEF Entering
    <2>12. CASE ~(p # NONE /\ Forwards(st, p, addr))
      <3>1. QueuesInv(n)
        BY <2>8, <2>12 DEF QueuesBut, QueuesInv, EntriesInv, WaitsForLast
      <3> QED
        BY <2>1, <2>8, <2>9, <2>12, <2>10, <3>1 DEF Entering
    <2> QED
      BY <2>11, <2>12
  <1> QED
    BY <1>1, <1>2

-----------------------------------------------------------------------------
(* A store enters the queue.                                               *)

\* The entry after the last of a ring is the first.
LEMMA NextInRing ==
    ASSUME NEW n \in Nat, n > 0, NEW t \in 0..(n - 1)
    PROVE  (t + 1) % n = IF t + 1 = n THEN 0 ELSE t + 1
  OBVIOUS

\* The assertion of add_store_queue: a queue that has room has it at the
\* tail of the ring.
LEMMA FreeTail ==
    ASSUME NEW st, TypedState(st), Ring(st), Room(st.SQ)
    PROVE  st.SQ[st.SQ_tail] = NONE
  <1>1. /\ SQ_SIZE \in Nat /\ SQ_SIZE > 0 /\ st.SQ_tail \in SQIndex /\ DOMAIN st.SQ = SQIndex
        /\ st.SQ_tail \in Nat /\ st.SQ_tail < SQ_SIZE
    BY Sizes DEF TypedState, SQIndex
  <1>2. PICK x \in SQIndex : st.SQ[x] = NONE
    BY <1>1 DEF Room
  <1>3. Back(st, SQ_SIZE) = st.SQ_tail /\ SQ_SIZE \in 1..SQ_SIZE
    BY <1>1 DEF Back
  <1> DEFINE m == IF x < st.SQ_tail THEN st.SQ_tail - x ELSE st.SQ_tail - x + SQ_SIZE
  <1>4. x \in Nat /\ x < SQ_SIZE /\ m \in 1..SQ_SIZE /\ Back(st, m) = x
    BY <1>1 DEF SQIndex, Back
  <1>5. CASE m = SQ_SIZE
    BY <1>2, <1>3, <1>4, <1>5
  <1>6. CASE m # SQ_SIZE
    <2>1. m \in 1..(SQ_SIZE - 1)
      BY <1>1, <1>4, <1>6
    <2> HIDE DEF m
    <2>2. st.SQ[st.SQ_tail] # NONE => st.SQ[Back(st, m)] # NONE
      BY <1>3, <2>1 DEF Ring
    <2> QED
      BY <1>2, <1>4, <2>2
  <1> QED
    BY <1>5, <1>6

\* Store j of i takes entry t, the tail of the ring.
TakesTail(st, n, i, j, t) ==
    /\ TypedState(n)
    /\ n.LQ = st.LQ /\ n.inflight = st.inflight /\ n.data = st.data
    /\ n.SQ[t] = [instr |-> i, slot |-> j, state |-> "RTS0"]
    /\ \A x \in SQIndex \ {t} : n.SQ[x] = st.SQ[x]
    /\ n.SQ_tail = (t + 1) % SQ_SIZE
    /\ n.STA = Tail(st.STA)
    /\ n.ROB[i].sq_index[j] = t
    /\ \A b \in DOMAIN program[i].stores : b # j => n.ROB[i].sq_index[b] = st.ROB[i].sq_index[b]
    /\ \A k \in InROB \ {i} : n.ROB[k].sq_index = st.ROB[k].sq_index
    /\ \A k \in InROB :
         /\ n.ROB[k].scheduled = st.ROB[k].scheduled
         /\ n.ROB[k].executed = st.ROB[k].executed
         /\ n.ROB[k].reg_ready = st.ROB[k].reg_ready
         /\ n.ROB[k].num_reg_dependent = st.ROB[k].num_reg_dependent
         /\ n.ROB[k].registers_index_depend_on_me = st.ROB[k].registers_index_depend_on_me
         /\ n.ROB[k].num_mem_ops = st.ROB[k].num_mem_ops
         /\ n.ROB[k].lq_index = st.ROB[k].lq_index
         /\ n.ROB[k].memory_instrs_depend_on_me = st.ROB[k].memory_instrs_depend_on_me

\* add_store_queue puts the store at the tail of the queue, takes its address
\* off the STA and moves the tail on.
LEMMA TakesTailEffect ==
    ASSUME TypeOK, NEW st, TypedState(st), NEW i \in InROB, NEW j \in DOMAIN program[i].stores,
           st.STA # <<>>, NEW n, n = add_store_queue(st, i, j)
    PROVE  TakesTail(st, n, i, j, st.SQ_tail)
  <1> DEFINE t == st.SQ_tail
             ix == [st.ROB[i].sq_index EXCEPT ![j] = t]
             f == [st.ROB[i] EXCEPT !.sq_index = ix]
             store == [instr |-> i, slot |-> j, state |-> "RTS0"]
             S == [st.SQ EXCEPT ![t] = store]
             R == [st.ROB EXCEPT ![i] = f]
             u == (t + 1) % SQ_SIZE
             Q == Tail(st.STA)
  <1>1. /\ InROB \in SUBSET Instr /\ (\A k \in Instr : k \in Nat)
        /\ DOMAIN program[i].stores \subseteq 1..4 /\ i \in Instr
    <2>1. InROB \in SUBSET Instr /\ (\A k \in Instr : k \in Nat) /\ program \in Programs
      BY BufferFacts DEF TypeOK
    <2> QED
      BY <2>1, ProgramFacts
  <1>2. /\ DOMAIN st.ROB = Instr
        /\ (\A k \in InROB : st.ROB[k] \in Entry(k))
        /\ st.SQ \in [SQIndex -> Storing \cup {NONE}]
        /\ t \in SQIndex /\ st.STA \in Seq(Instr)
    BY DEF TypedState
  <1>3. u \in SQIndex /\ Q \in Seq(Instr)
    <2>1. /\ SQ_SIZE \in Nat /\ SQ_SIZE > 0 /\ t \in 0..(SQ_SIZE - 1)
      BY <1>2, Sizes DEF SQIndex
    <2> HIDE DEF t
    <2>2. u \in SQIndex
      BY <2>1, NextInRing DEF SQIndex
    <2> QED
      BY <1>2, <2>2
  <1>4. R = [st.ROB EXCEPT ![i].sq_index[j] = t]
    OBVIOUS
  <1>5. n = [ROB |-> R, LQ |-> st.LQ, SQ |-> S, SQ_tail |-> u,
             STA |-> Q, inflight |-> st.inflight, data |-> st.data]
    <2>1. st = [ROB |-> st.ROB, LQ |-> st.LQ, SQ |-> st.SQ, SQ_tail |-> st.SQ_tail,
                STA |-> st.STA, inflight |-> st.inflight, data |-> st.data]
      BY DEF TypedState
    <2>2. n = [st EXCEPT !.ROB[i].sq_index[j] = t, !.SQ[t] = store, !.SQ_tail = u, !.STA = Q]
      BY DEF add_store_queue
    <2> HIDE DEF R, store, u, Q
    <2> QED
      BY <1>4, <2>1, <2>2
  <1>6. ix \in [DOMAIN program[i].stores -> SQIndex \cup {NONE}] /\ ix[j] = t
        /\ \A b \in DOMAIN program[i].stores : b # j => ix[b] = st.ROB[i].sq_index[b]
    <2>1. st.ROB[i].sq_index \in [DOMAIN program[i].stores -> SQIndex \cup {NONE}]
      BY <1>2 DEF Entry
    <2> HIDE DEF t
    <2> QED
      BY <1>2, <2>1
  <1> HIDE DEF ix
  <1>7. f \in Entry(i) /\ f.sq_index = ix
        /\ f.scheduled = st.ROB[i].scheduled /\ f.executed = st.ROB[i].executed
        /\ f.reg_ready = st.ROB[i].reg_ready
        /\ f.num_reg_dependent = st.ROB[i].num_reg_dependent
        /\ f.registers_index_depend_on_me = st.ROB[i].registers_index_depend_on_me
        /\ f.num_mem_ops = st.ROB[i].num_mem_ops /\ f.lq_index = st.ROB[i].lq_index
        /\ f.memory_instrs_depend_on_me = st.ROB[i].memory_instrs_depend_on_me
    BY ZenonT(30), <1>2, <1>6 DEF Entry
  <1>8. store \in Storing
    BY <1>1 DEF Storing, StoreState
  <1> HIDE DEF f
  <1>9. /\ DOMAIN R = Instr /\ R[i] = f
        /\ \A k \in Instr : k # i => R[k] = st.ROB[k]
    BY <1>1, <1>2
  <1> HIDE DEF store, t, R
  <1>10. /\ S \in [SQIndex -> Storing \cup {NONE}] /\ S[t] = store
         /\ \A x \in SQIndex \ {t} : S[x] = st.SQ[x]
    BY <1>2, <1>8
  <1> HIDE DEF S, u, Q
  <1>11. /\ n.ROB = R /\ n.LQ = st.LQ /\ n.SQ = S /\ n.SQ_tail = u
         /\ n.STA = Q /\ n.inflight = st.inflight /\ n.data = st.data
         /\ n = [ROB |-> n.ROB, LQ |-> n.LQ, SQ |-> n.SQ, SQ_tail |-> n.SQ_tail,
                 STA |-> n.STA, inflight |-> n.inflight, data |-> n.data]
    BY <1>5
  <1>12. \A k \in InROB :
           /\ n.ROB[k] \in Entry(k)
           /\ n.ROB[k].scheduled = st.ROB[k].scheduled
           /\ n.ROB[k].executed = st.ROB[k].executed
           /\ n.ROB[k].reg_ready = st.ROB[k].reg_ready
           /\ n.ROB[k].num_reg_dependent = st.ROB[k].num_reg_dependent
           /\ n.ROB[k].registers_index_depend_on_me = st.ROB[k].registers_index_depend_on_me
           /\ n.ROB[k].num_mem_ops = st.ROB[k].num_mem_ops
           /\ n.ROB[k].lq_index = st.ROB[k].lq_index
           /\ n.ROB[k].memory_instrs_depend_on_me = st.ROB[k].memory_instrs_depend_on_me
           /\ k # i => n.ROB[k].sq_index = st.ROB[k].sq_index
    <2> TAKE k \in InROB
    <2>1. CASE k = i
      BY <2>1, <1>7, <1>9, <1>11
    <2>2. CASE k # i
      BY <2>2, <1>1, <1>2, <1>9, <1>11
    <2> QED
      BY <2>1, <2>2
  <1>13. TypedState(n)
    <2>1. \A k \in Instr \ InROB : n.ROB[k] = NONE
      BY <1>9, <1>11 DEF TypedState
    <2> QED
      BY <2>1, <1>3, <1>9, <1>10, <1>11, <1>12 DEF TypedState
  <1>14. n.ROB[i].sq_index = ix
    BY <1>7, <1>9, <1>11
  <1> QED
    <2>1. /\ n.SQ[t] = [instr |-> i, slot |-> j, state |-> "RTS0"]
          /\ n.SQ_tail = (t + 1) % SQ_SIZE /\ n.STA = Tail(st.STA)
      BY <1>10, <1>11 DEF store, u, Q
    <2>2. \A x \in SQIndex \ {t} : n.SQ[x] = st.SQ[x]
      BY <1>10, <1>11
    <2>3. \A k \in InROB \ {i} : n.ROB[k].sq_index = st.ROB[k].sq_index
      BY <1>12
    <2>4. n.ROB[i].sq_index[j] = t
          /\ \A b \in DOMAIN program[i].stores : b # j => n.ROB[i].sq_index[b] = st.ROB[i].sq_index[b]
      BY <1>6, <1>14
    <2>5. TakesTail(st, n, i, j, t)
      BY <2>1, <2>2, <2>3, <2>4, <1>11, <1>12, <1>13 DEF TakesTail
    <2> QED
      BY <2>5 DEF t

\* A store that enters at the tail is younger than all that are in the queue,
\* so the order of the queue and every load's last store stay right.
LEMMA TakesTailKeeps ==
    ASSUME TypeOK, NEW st, NEW i \in InROB, NEW j \in DOMAIN program[i].stores,
           Entering(st, i), st.ROB[i].sq_index[j] = NONE,
           st.STA # <<>>, Head(st.STA) = i,
           NEW t, t = st.SQ_tail, st.SQ[t] = NONE, NEW n, TakesTail(st, n, i, j, t)
    PROVE  Entering(n, i)
  <1>1. /\ TypedState(st) /\ SameRegisters(st) /\ SameIndices(st, i)
        /\ LoadEntries(st) /\ LoadSlots(st) /\ WaitsForLast(st) /\ ReadsLast(st) /\ NotedLoads(st)
        /\ StoreEntries(st) /\ StoreSlots(st) /\ Ring(st) /\ StoresInOrder(st) /\ OpsCounted(st)
        /\ DoneWhenCompleted(st) /\ MemInFlightCounted(st)
    BY DEF Entering, QueuesInv, EntriesInv
  <1>2. /\ n.SQ[t] # NONE /\ n.SQ[t].instr = i /\ n.SQ[t].slot = j /\ n.SQ[t].state = "RTS0"
        /\ \A x \in SQIndex \ {t} : n.SQ[x] = st.SQ[x]
    <2>1. n.SQ[t] = [instr |-> i, slot |-> j, state |-> "RTS0"]
      BY DEF TakesTail
    <2>2. i \in Nat /\ j \in 1..4
      <3>1. i \in Instr /\ i \in Nat /\ program \in Programs
        BY BufferFacts DEF TypeOK
      <3> QED
        BY <3>1, ProgramFacts
    <2>3. n.SQ[t] \in Storing
      BY <2>1, <2>2 DEF Storing, StoreState
    <2> QED
      BY <2>1, <2>3, Sizes DEF TakesTail
  <1>3. /\ n.ROB[i].sq_index[j] = t
        /\ \A b \in DOMAIN program[i].stores : b # j => n.ROB[i].sq_index[b] = st.ROB[i].sq_index[b]
        /\ \A k \in InROB \ {i} : n.ROB[k].sq_index = st.ROB[k].sq_index
    BY DEF TakesTail
  <1>4. \A k \in InROB : \A b \in DOMAIN program[k].stores :
          ~(k = i /\ b = j) => n.ROB[k].sq_index[b] = st.ROB[k].sq_index[b]
    BY <1>3
  <1>5. \A k \in InROB : n.ROB[k].lq_index = st.ROB[k].lq_index
    BY DEF TakesTail
  <1>6. \A k \in InROB : n.ROB[k].executed = st.ROB[k].executed
    BY DEF TakesTail
  <1>7. \A k \in InROB : n.ROB[k].num_mem_ops = st.ROB[k].num_mem_ops
    BY DEF TakesTail
  <1>8. \A k \in InROB : n.ROB[k].memory_instrs_depend_on_me = st.ROB[k].memory_instrs_depend_on_me
    BY DEF TakesTail
  <1>9. n.LQ = st.LQ /\ n.data = st.data /\ n.inflight = st.inflight
    BY DEF TakesTail
  <1>10. t \in SQIndex /\ t # NONE
    BY <1>1, Sizes DEF TypedState, SQIndex
  <1>11. \A q, a : Forwards(n, q, a) <=> Forwards(st, q, a)
    BY SMTT(30), <1>2, <1>10 DEF Forwards
  <1>12. LoadEntries(n) /\ LoadSlots(n)
    <2>1. LoadEntries(n)
      BY <1>1, <1>5, <1>9 DEF LoadEntries
    <2>2. LoadSlots(n)
      BY <1>1, <1>5, <1>9 DEF LoadSlots
    <2> QED
      BY <2>1, <2>2
  <1>13. WaitsForLast(n)
    BY <1>1, <1>8, <1>9, <1>11 DEF WaitsForLast, WaitsFor, ProducerOf
  <1>14. ReadsLast(n) /\ NotedLoads(n)
    BY <1>1, <1>8, <1>9, <1>11 DEF ReadsLast, NotedLoads
  <1>15. \A x \in SQIndex \ {t} : st.SQ[x] # NONE => ~(st.SQ[x].instr = i /\ st.SQ[x].slot = j)
    BY <1>1, Sizes DEF StoreEntries, SQIndex
  <1>16. StoreEntries(n)
    <2> SUFFICES ASSUME NEW x \in SQIndex, n.SQ[x] # NONE
                 PROVE  /\ n.SQ[x].instr \in InROB
                        /\ n.SQ[x].slot \in DOMAIN program[n.SQ[x].instr].stores
                        /\ n.ROB[n.SQ[x].instr].sq_index[n.SQ[x].slot] = x
      BY DEF StoreEntries
    <2>1. CASE x = t
      BY <2>1, <1>2, <1>3
    <2>2. CASE x # t
      <3>1. n.SQ[x] = st.SQ[x]
        BY <2>2, <1>2
      <3>2. /\ st.SQ[x].instr \in InROB
            /\ st.SQ[x].slot \in DOMAIN program[st.SQ[x].instr].stores
            /\ st.ROB[st.SQ[x].instr].sq_index[st.SQ[x].slot] = x
        BY <1>1, <3>1 DEF StoreEntries
      <3>3. n.ROB[st.SQ[x].instr].sq_index[st.SQ[x].slot] = x
        BY SMTT(30), <2>2, <3>1, <3>2, <1>4, <1>15
      <3> QED
        BY <3>1, <3>2, <3>3
    <2> QED
      BY <2>1, <2>2
  <1>17. \A k \in InROB : \A b \in DOMAIN program[k].stores :
           st.ROB[k].sq_index[b] # NONE =>
             LET x == st.ROB[k].sq_index[b]
             IN  x \in SQIndex /\ x # t /\ n.SQ[x] = st.SQ[x]
                 /\ st.SQ[x] # NONE /\ st.SQ[x].instr = k /\ st.SQ[x].slot = b
    <2> SUFFICES ASSUME NEW k \in InROB, NEW b \in DOMAIN program[k].stores,
                        NEW x, x = st.ROB[k].sq_index[b], x # NONE
                 PROVE  x \in SQIndex /\ x # t /\ n.SQ[x] = st.SQ[x]
                        /\ st.SQ[x] # NONE /\ st.SQ[x].instr = k /\ st.SQ[x].slot = b
      OBVIOUS
    <2>1. st.ROB[k] \in Entry(k)
      BY <1>1 DEF TypedState
    <2>2. x \in SQIndex
      BY <2>1 DEF Entry
    <2>3. st.SQ[x] # NONE /\ st.SQ[x].instr = k /\ st.SQ[x].slot = b
      BY <1>1 DEF StoreSlots
    <2>4. x # t
      BY <2>3
    <2> QED
      BY SMTT(30), <2>2, <2>3, <2>4, <1>2
  <1>18. StoreSlots(n)
    <2> SUFFICES ASSUME NEW k \in InROB, NEW b \in DOMAIN program[k].stores,
                        n.ROB[k].sq_index[b] # NONE
                 PROVE  LET q == n.SQ[n.ROB[k].sq_index[b]]
                        IN  q # NONE /\ q.instr = k /\ q.slot = b
      BY DEF StoreSlots
    <2>1. CASE k = i /\ b = j
      BY <2>1, <1>2, <1>3
    <2>2. CASE ~(k = i /\ b = j)
      <3>1. n.ROB[k].sq_index[b] = st.ROB[k].sq_index[b]
        BY SMTT(30), <2>2, <1>4
      <3> DEFINE x == st.ROB[k].sq_index[b]
      <3>2. n.SQ[x] = st.SQ[x] /\ st.SQ[x] # NONE /\ st.SQ[x].instr = k /\ st.SQ[x].slot = b
        BY SMTT(30), <3>1, <1>17
      <3> QED
        BY <3>1, <3>2
    <2> QED
      BY <2>1, <2>2
  <1>19. Ring(n) /\ StoresInOrder(n)
    <2>1. /\ SQ_SIZE \in Nat /\ SQ_SIZE > 0 /\ t \in 0..(SQ_SIZE - 1)
          /\ st.STA \in Seq(Instr) /\ \A k \in Instr : k \in Nat
          /\ tail \in Nat /\ i \in Nat /\ i < tail
      BY <1>1, <1>10, Sizes, BufferFacts DEF TypedState, SQIndex
    <2>2. n.SQ_tail = IF t + 1 = SQ_SIZE THEN 0 ELSE t + 1
      BY <2>1, NextInRing DEF TakesTail
    <2>3. Back(n, 1) = t
      BY <2>1, <2>2 DEF Back
    <2>4. \A k \in 1..(SQ_SIZE - 1) : /\ Back(n, k + 1) = Back(st, k)
                                      /\ Back(st, k) \in SQIndex /\ Back(st, k) # t
      <3> SUFFICES ASSUME NEW k \in 1..(SQ_SIZE - 1)
                   PROVE  Back(n, k + 1) = Back(st, k) /\ Back(st, k) \in SQIndex /\ Back(st, k) # t
        OBVIOUS
      <3>1. Back(st, k) = IF k <= t THEN t - k ELSE t - k + SQ_SIZE
        BY DEF Back
      <3>2. Back(st, k) \in SQIndex /\ Back(st, k) # t
        BY SMTT(30), <2>1, <3>1 DEF SQIndex
      <3> DEFINE u == n.SQ_tail
      <3>3. Back(n, k + 1) = IF k + 1 <= u THEN u - (k + 1) ELSE u - (k + 1) + SQ_SIZE
        BY DEF Back
      <3>4. u = IF t + 1 = SQ_SIZE THEN 0 ELSE t + 1
        BY <2>2
      <3> HIDE DEF u
      <3>6. Back(n, k + 1) = Back(st, k)
        <4>1. (IF k + 1 <= u THEN u - (k + 1) ELSE u - (k + 1) + SQ_SIZE)
                = IF k <= t THEN t - k ELSE t - k + SQ_SIZE
          <5>1. SQ_SIZE \in Nat /\ t \in Nat /\ t < SQ_SIZE /\ k \in Nat /\ 1 <= k /\ k < SQ_SIZE
            BY <2>1
          <5>2. CASE t + 1 = SQ_SIZE
            BY <5>1, <5>2, <3>4
          <5>3. CASE t + 1 # SQ_SIZE
            <6>1. u = t + 1
              BY <5>3, <3>4
            <6> QED
              BY <5>1, <6>1
          <5> QED
            BY <5>2, <5>3
        <4> QED
          BY <4>1, <3>1, <3>3
      <3> QED
        BY <3>2, <3>6
    <2> DEFINE len == Len(st.STA)
    <2>5. /\ len \in Nat /\ len > 0 /\ DOMAIN st.STA = 1..len /\ st.STA[1] = i
          /\ DOMAIN n.STA = 1..(len - 1)
          /\ \A a \in 1..(len - 1) : n.STA[a] = st.STA[a + 1]
      BY <2>1 DEF TakesTail
    <2>6. /\ \A a, b \in 1..len : a <= b => st.STA[a] <= st.STA[b]
          /\ \A a \in 1..len : st.STA[a] < tail /\ st.STA[a] \in Nat
          /\ \A s \in SQIndex : \A a \in 1..len : st.SQ[s] # NONE => st.SQ[s].instr <= st.STA[a]
      <3>1. \A a \in 1..len : st.STA[a] \in Nat
        BY <2>1, <2>5
      <3>2. /\ \A a, b \in 1..len : a <= b => st.STA[a] <= st.STA[b]
            /\ \A a \in 1..len : st.STA[a] < tail
            /\ \A s \in SQIndex : \A a \in 1..len : st.SQ[s] # NONE => st.SQ[s].instr <= st.STA[a]
        BY <1>1, <2>5 DEF StoresInOrder
      <3> QED
        BY <3>1, <3>2
    <2> HIDE DEF len
    <2>7. StoresInOrder(n)
      <3>1. \A a, b \in 1..(len - 1) : a <= b => n.STA[a] <= n.STA[b]
        BY <2>5, <2>6
      <3>2. ASSUME NEW a \in 1..(len - 1)
            PROVE  n.STA[a] < tail
        <4>1. a + 1 \in 1..len /\ n.STA[a] = st.STA[a + 1]
          BY <2>5
        <4> QED
          BY <4>1, <2>6
      <3>3. ASSUME NEW s \in SQIndex, NEW a \in 1..(len - 1), n.SQ[s] # NONE
            PROVE  n.SQ[s].instr <= n.STA[a]
        <4>1. a + 1 \in 1..len /\ n.STA[a] = st.STA[a + 1] /\ 1 \in 1..len /\ 1 <= a + 1
          BY <2>5
        <4>2. CASE s = t
          BY <4>1, <4>2, <1>2, <2>5, <2>6
        <4>3. CASE s # t
          BY <4>1, <4>3, <3>3, <1>2, <2>6
        <4> QED
          BY <4>2, <4>3
      <3> QED
        BY <2>5, <3>1, <3>2, <3>3 DEF StoresInOrder
    <2>8. Ring(n)
      <3> SUFFICES ASSUME NEW k \in 1..SQ_SIZE, NEW m \in 1..(k - 1), n.SQ[Back(n, k)] # NONE
                   PROVE  /\ n.SQ[Back(n, m)] # NONE
                          /\ n.SQ[Back(n, k)].instr <= n.SQ[Back(n, m)].instr
        BY DEF Ring
      <3> DEFINE b == Back(st, k - 1)
      <3>1. k - 1 \in 1..(SQ_SIZE - 1) /\ k - 1 \in 1..SQ_SIZE /\ k = (k - 1) + 1
        BY SMTT(30), <2>1
      <3>2. Back(n, k) = b /\ b \in SQIndex /\ b # t
        BY <2>4, <3>1
      <3>3. n.SQ[b] = st.SQ[b] /\ st.SQ[b] # NONE
        BY <3>2, <1>2
      <3>4. CASE m = 1
        <4>1. st.SQ[b].instr <= i
          BY <2>5, <2>6, <3>2, <3>3
        <4> QED
          BY <4>1, <3>2, <3>3, <3>4, <2>3, <1>2
      <3>5. CASE m # 1
        <4>1. m - 1 \in 1..((k - 1) - 1) /\ m - 1 \in 1..(SQ_SIZE - 1) /\ m = (m - 1) + 1
          BY SMTT(30), <2>1, <3>1, <3>5
        <4>2. Back(n, m) = Back(st, m - 1) /\ Back(st, m - 1) \in SQIndex /\ Back(st, m - 1) # t
          BY <2>4, <4>1
        <4>3. n.SQ[Back(n, m)] = st.SQ[Back(st, m - 1)]
          BY <4>2, <1>2
        <4>4. /\ st.SQ[Back(st, m - 1)] # NONE
              /\ st.SQ[b].instr <= st.SQ[Back(st, m - 1)].instr
          BY <1>1, <3>1, <3>3, <4>1 DEF Ring
        <4> QED
          BY <3>2, <3>3, <4>3, <4>4
      <3> QED
        BY <3>4, <3>5
    <2> QED
      BY <2>7, <2>8
  <1>20. OpsCounted(n)
    <2>1. \A k \in InROB : OpenLoads(n, k) = OpenLoads(st, k)
      BY <1>9 DEF OpenLoads
    <2>2. \A k \in InROB : OpenStores(n, k) = OpenStores(st, k)
      <3> SUFFICES ASSUME NEW k \in InROB, NEW b \in DOMAIN program[k].stores
                   PROVE  (\/ n.ROB[k].sq_index[b] = NONE
                           \/ n.SQ[n.ROB[k].sq_index[b]].state # "executed")
                      <=> (\/ st.ROB[k].sq_index[b] = NONE
                           \/ st.SQ[st.ROB[k].sq_index[b]].state # "executed")
        BY DEF OpenStores
      <3>1. CASE k = i /\ b = j
        BY <3>1, <1>2, <1>3
      <3>2. CASE ~(k = i /\ b = j)
        <4>1. n.ROB[k].sq_index[b] = st.ROB[k].sq_index[b]
          BY <3>2, <1>4
        <4> DEFINE x == st.ROB[k].sq_index[b]
        <4>2. x # NONE => n.SQ[x] = st.SQ[x]
          BY <1>17
        <4> QED
          BY <4>1, <4>2
      <3> QED
        BY <3>1, <3>2
    <2> QED
      BY <1>1, <1>7, <2>1, <2>2 DEF OpsCounted
  <1>21. DoneWhenCompleted(n) /\ MemInFlightCounted(n)
    <2>1. MemInFlight(n) = MemInFlight(st)
      BY <1>6, <1>7 DEF MemInFlight
    <2> QED
      BY <1>1, <1>6, <1>7, <1>9, <2>1 DEF DoneWhenCompleted, MemInFlightCounted
  <1>22. SameRegisters(n)
    <2> SUFFICES ASSUME NEW k \in InROB
                 PROVE  /\ n.ROB[k].scheduled = ROB[k].scheduled
                        /\ n.ROB[k].executed = ROB[k].executed
                        /\ n.ROB[k].reg_ready = ROB[k].reg_ready
                        /\ n.ROB[k].num_reg_dependent = ROB[k].num_reg_dependent
                        /\ n.ROB[k].registers_index_depend_on_me
                             = ROB[k].registers_index_depend_on_me
      BY DEF SameRegisters
    <2>1. /\ st.ROB[k].scheduled = ROB[k].scheduled
          /\ st.ROB[k].executed = ROB[k].executed
          /\ st.ROB[k].reg_ready = ROB[k].reg_ready
          /\ st.ROB[k].num_reg_dependent = ROB[k].num_reg_dependent
          /\ st.ROB[k].registers_index_depend_on_me = ROB[k].registers_index_depend_on_me
      BY <1>1 DEF SameRegisters
    <2> QED
      BY <2>1 DEF TakesTail
  <1>23. SameIndices(n, i)
    BY <1>1, <1>3, <1>5 DEF SameIndices
  <1>24. TypedState(n)
    BY DEF TakesTail
  <1>25. SameData(n)
    BY DEF TakesTail, Entering, SameData
  <1> QED
    BY <1>12, <1>13, <1>14, <1>16, <1>18, <1>19, <1>20, <1>21, <1>22, <1>23, <1>24, <1>25
    DEF Entering, QueuesInv, EntriesInv

\* The walk keeps its conditions over one store operand, whether the store
\* enters the queue or not.
LEMMA TryStoreKeeps ==
    ASSUME TypeOK, NEW st, NEW i \in InROB, NEW j, Entering(st, i)
    PROVE  Entering(TryStore(st, i, j), i)
  <1>1. CASE ~(j \in DOMAIN program[i].stores /\ MayStore(st, i, j))
    BY <1>1 DEF TryStore
  <1>2. CASE j \in DOMAIN program[i].stores /\ MayStore(st, i, j)
    <2> DEFINE n == add_store_queue(st, i, j)
    <2>1. TryStore(st, i, j) = n
      BY <1>2 DEF TryStore
    <2>2. /\ st.ROB[i].sq_index[j] = NONE /\ Room(st.SQ) /\ st.STA # <<>> /\ Head(st.STA) = i
      BY <1>2 DEF MayStore
    <2>3. TypedState(st) /\ Ring(st)
      BY DEF Entering, QueuesInv, EntriesInv
    <2>4. st.SQ[st.SQ_tail] = NONE
      BY <2>2, <2>3, FreeTail
    <2> HIDE DEF n
    <2>5. TakesTail(st, n, i, j, st.SQ_tail)
      BY <1>2, <2>2, <2>3, TakesTailEffect DEF n
    <2>6. Entering(n, i)
      BY <1>2, <2>2, <2>4, <2>5, TakesTailKeeps
    <2> QED
      BY <2>1, <2>6
  <1> QED
    BY <1>1, <1>2

-----------------------------------------------------------------------------
(* An instruction enters the queues.                                       *)

\* check_and_add_lsq, over all operands, keeps the conditions of the walk.
LEMMA EnteringKeeps ==
    ASSUME TypeOK, NEW st, NEW i \in InROB, Entering(st, i)
    PROVE  Entering(check_and_add_lsq(st, i), i)
  <1>1. Entering(AddLoads(st, i), i)
    <2>1. Entering(TryLoad(st, i, 1), i)
      BY TryLoadKeeps
    <2>2. Entering(TryLoad(TryLoad(st, i, 1), i, 2), i)
      BY <2>1, TryLoadKeeps
    <2>3. Entering(TryLoad(TryLoad(TryLoad(st, i, 1), i, 2), i, 3), i)
      BY <2>2, TryLoadKeeps
    <2>4. Entering(TryLoad(TryLoad(TryLoad(TryLoad(st, i, 1), i, 2), i, 3), i, 4), i)
      BY <2>3, TryLoadKeeps
    <2> QED
      BY <2>4 DEF AddLoads
  <1> DEFINE l == AddLoads(st, i)
  <1>2. Entering(AddStores(l, i), i)
    <2> HIDE DEF l
    <2>0. Entering(l, i)
      BY <1>1 DEF l
    <2>1. Entering(TryStore(l, i, 1), i)
      BY <2>0, TryStoreKeeps
    <2>2. Entering(TryStore(TryStore(l, i, 1), i, 2), i)
      BY <2>1, TryStoreKeeps
    <2>3. Entering(TryStore(TryStore(TryStore(l, i, 1), i, 2), i, 3), i)
      BY <2>2, TryStoreKeeps
    <2>4. Entering(TryStore(TryStore(TryStore(TryStore(l, i, 1), i, 2), i, 3), i, 4), i)
      BY <2>3, TryStoreKeeps
    <2> QED
      BY <2>4 DEF AddStores
  <1> QED
    BY <1>2 DEF check_and_add_lsq

\* An instruction with all its entries is completely scheduled.
Entered(st, i) ==
    [st EXCEPT !.ROB[i].scheduled = COMPLETED,
               !.ROB[i].executed = IF @ = 0 THEN INFLIGHT ELSE @]

\* Marking the instruction as scheduled after the walk disturbs no condition
\* on the queues.
LEMMA EnteredKeeps ==
    ASSUME TypeOK, NEW st, NEW i \in InROB, TypedState(st), QueuesInv(st),
           NEW n, n = Entered(st, i)
    PROVE  /\ TypedState(n) /\ QueuesInv(n)
           /\ \A k \in InROB \ {i} : n.ROB[k] = st.ROB[k]
           /\ n.ROB[i].reg_ready = st.ROB[i].reg_ready
           /\ n.ROB[i].num_reg_dependent = st.ROB[i].num_reg_dependent
           /\ n.ROB[i].registers_index_depend_on_me = st.ROB[i].registers_index_depend_on_me
           /\ n.ROB[i].executed = COMPLETED <=> st.ROB[i].executed = COMPLETED
  <1> DEFINE x == IF st.ROB[i].executed = 0 THEN INFLIGHT ELSE st.ROB[i].executed
             f == [st.ROB[i] EXCEPT !.scheduled = COMPLETED, !.executed = x]
             R == [st.ROB EXCEPT ![i] = f]
  <1>1. /\ InROB \in SUBSET Instr /\ i \in Instr
        /\ DOMAIN st.ROB = Instr
        /\ \A k \in InROB : st.ROB[k] \in Entry(k)
    BY BufferFacts DEF TypedState
  <1>2. n = [ROB |-> R, LQ |-> st.LQ, SQ |-> st.SQ, SQ_tail |-> st.SQ_tail,
             STA |-> st.STA, inflight |-> st.inflight, data |-> st.data]
    BY <1>1 DEF TypedState, Entered
  <1>3. x \in 0..2 /\ (x = COMPLETED <=> st.ROB[i].executed = COMPLETED)
    <2>1. st.ROB[i].executed \in 0..2
      BY <1>1 DEF Entry
    <2> QED
      BY <2>1 DEF INFLIGHT, COMPLETED
  <1> HIDE DEF x
  <1>4. /\ f \in Entry(i) /\ f.executed = x
        /\ f.reg_ready = st.ROB[i].reg_ready
        /\ f.num_reg_dependent = st.ROB[i].num_reg_dependent
        /\ f.registers_index_depend_on_me = st.ROB[i].registers_index_depend_on_me
        /\ f.num_mem_ops = st.ROB[i].num_mem_ops /\ f.lq_index = st.ROB[i].lq_index
        /\ f.memory_instrs_depend_on_me = st.ROB[i].memory_instrs_depend_on_me
        /\ f.sq_index = st.ROB[i].sq_index
    <2>1. st.ROB[i] \in Entry(i) /\ COMPLETED \in 0..2
      BY <1>1 DEF COMPLETED
    <2> QED
      BY <1>3, <2>1 DEF Entry
  <1> HIDE DEF f
  <1>5. DOMAIN R = Instr /\ R[i] = f /\ \A k \in Instr : k # i => R[k] = st.ROB[k]
    BY <1>1
  <1> HIDE DEF R
  <1>6. /\ n.ROB = R /\ n.LQ = st.LQ /\ n.SQ = st.SQ /\ n.SQ_tail = st.SQ_tail
        /\ n.STA = st.STA /\ n.inflight = st.inflight /\ n.data = st.data
        /\ n = [ROB |-> n.ROB, LQ |-> n.LQ, SQ |-> n.SQ, SQ_tail |-> n.SQ_tail,
                STA |-> n.STA, inflight |-> n.inflight, data |-> n.data]
    BY <1>2
  <1>7. TypedState(n)
    BY <1>1, <1>4, <1>5, <1>6 DEF TypedState
  <1>8. \A k \in InROB : n.ROB[k].lq_index = st.ROB[k].lq_index
    BY <1>1, <1>4, <1>5, <1>6
  <1>9. \A k \in InROB : n.ROB[k].sq_index = st.ROB[k].sq_index
    BY <1>1, <1>4, <1>5, <1>6
  <1>10. \A k \in InROB : n.ROB[k].num_mem_ops = st.ROB[k].num_mem_ops
    BY <1>1, <1>4, <1>5, <1>6
  <1>11. \A k \in InROB : n.ROB[k].memory_instrs_depend_on_me = st.ROB[k].memory_instrs_depend_on_me
    BY <1>1, <1>4, <1>5, <1>6
  <1>12. \A k \in InROB : n.ROB[k].executed = COMPLETED <=> st.ROB[k].executed = COMPLETED
    BY <1>1, <1>3, <1>4, <1>5, <1>6
  <1>13. n.LQ = st.LQ /\ n.SQ = st.SQ /\ n.SQ_tail = st.SQ_tail
         /\ n.STA = st.STA /\ n.inflight = st.inflight /\ n.data = st.data
    BY <1>6
  <1>14. QueuesInv(n)
    <2>1. \A q, a : Forwards(n, q, a) <=> Forwards(st, q, a)
      BY SMTT(30), <1>13 DEF Forwards
    <2>2. LoadEntries(n) /\ LoadSlots(n)
      <3>1. LoadEntries(st) /\ LoadSlots(st)
        BY DEF QueuesInv, EntriesInv
      <3>2. LoadEntries(n)
        BY <3>1, <1>8, <1>13 DEF LoadEntries
      <3>3. LoadSlots(n)
        BY <3>1, <1>8, <1>13 DEF LoadSlots
      <3> QED
        BY <3>2, <3>3
    <2>3. WaitsForLast(n)
      BY <1>11, <1>13, <2>1 DEF QueuesInv, EntriesInv, WaitsForLast, WaitsFor, ProducerOf
    <2>4. ReadsLast(n) /\ NotedLoads(n)
      BY <1>11, <1>13, <2>1 DEF QueuesInv, EntriesInv, ReadsLast, NotedLoads
    <2>5. StoreEntries(n)
      BY SMTT(30), <1>9, <1>13 DEF QueuesInv, EntriesInv, StoreEntries
    <2>6. StoreSlots(n)
      BY SMTT(30), <1>9, <1>13 DEF QueuesInv, EntriesInv, StoreSlots
    <2>7. Ring(n) /\ StoresInOrder(n)
      BY <1>13 DEF QueuesInv, EntriesInv, Ring, Back, StoresInOrder
    <2>8. OpsCounted(n)
      <3>1. \A k \in InROB : OpenLoads(n, k) = OpenLoads(st, k)
                             /\ OpenStores(n, k) = OpenStores(st, k)
        BY <1>9, <1>13 DEF OpenLoads, OpenStores
      <3> QED
        BY <1>10, <3>1 DEF QueuesInv, EntriesInv, OpsCounted
    <2>9. DoneWhenCompleted(n) /\ MemInFlightCounted(n)
      <3>1. MemInFlight(n) = MemInFlight(st)
        BY <1>10, <1>12 DEF MemInFlight
      <3> QED
        BY <1>10, <1>12, <1>13, <3>1 DEF QueuesInv, DoneWhenCompleted, MemInFlightCounted
    <2> QED
      BY <2>2, <2>3, <2>4, <2>5, <2>6, <2>7, <2>8, <2>9 DEF QueuesInv, EntriesInv
  <1> QED
    BY <1>1, <1>3, <1>4, <1>5, <1>6, <1>7, <1>14

\* do_memory_scheduling, whole, keeps the inductive invariant.
LEMMA MemorySchedulingPreserves ==
    ASSUME CoreInv, NEW i \in Instr, do_memory_scheduling(i)
    PROVE  CoreInv'
  <1> DEFINE st == check_and_add_lsq(st0, i)
             all == NONE \notin Range(st.ROB[i].lq_index) \cup Range(st.ROB[i].sq_index)
             n == IF all THEN Entered(st, i) ELSE st
  <1>1. /\ i \in InROB /\ is_memory(i) /\ ROB[i].reg_ready /\ Becomes(n)
    BY DEF do_memory_scheduling, Waits, Entered
  <1>2. TypeOK /\ Entering(st0, i)
    BY InitialState DEF CoreInv
  <1>3. Entering(st, i)
    BY <1>1, <1>2, EnteringKeeps
  <1> HIDE DEF st
  <1>4. TypedState(st) /\ QueuesInv(st)
    BY <1>3 DEF Entering
  <1>5. /\ TypedState(n) /\ QueuesInv(n)
        /\ \A k \in InROB \ {i} : n.ROB[k] = st.ROB[k]
        /\ n.ROB[i].reg_ready = st.ROB[i].reg_ready
        /\ n.ROB[i].num_reg_dependent = st.ROB[i].num_reg_dependent
        /\ n.ROB[i].registers_index_depend_on_me = st.ROB[i].registers_index_depend_on_me
        /\ n.ROB[i].executed = COMPLETED <=> st.ROB[i].executed = COMPLETED
    <2>1. CASE all
      BY <1>1, <1>2, <1>4, <2>1, EnteredKeeps
    <2>2. CASE ~all
      BY <1>4, <2>2
    <2> QED
      BY <2>1, <2>2
  <1> HIDE DEF n
  <1>6. SameRegisters(st) /\ SameIndices(st, i)
    BY <1>3 DEF Entering
  <1>7. \A k \in InROB :
          /\ n.ROB[k].reg_ready = ROB[k].reg_ready
          /\ n.ROB[k].num_reg_dependent = ROB[k].num_reg_dependent
          /\ n.ROB[k].registers_index_depend_on_me = ROB[k].registers_index_depend_on_me
          /\ n.ROB[k].executed = COMPLETED <=> ROB[k].executed = COMPLETED
          /\ \/ ROB[k].reg_ready /\ is_memory(k)
             \/ /\ n.ROB[k].scheduled = ROB[k].scheduled
                /\ n.ROB[k].executed = ROB[k].executed
                /\ n.ROB[k].lq_index = ROB[k].lq_index
                /\ n.ROB[k].sq_index = ROB[k].sq_index
    <2> TAKE k \in InROB
    <2>1. /\ st.ROB[k].scheduled = ROB[k].scheduled
          /\ st.ROB[k].executed = ROB[k].executed
          /\ st.ROB[k].reg_ready = ROB[k].reg_ready
          /\ st.ROB[k].num_reg_dependent = ROB[k].num_reg_dependent
          /\ st.ROB[k].registers_index_depend_on_me = ROB[k].registers_index_depend_on_me
      BY <1>6 DEF SameRegisters
    <2>2. CASE k = i
      BY <1>1, <1>5, <2>1, <2>2
    <2>3. CASE k # i
      <3>1. n.ROB[k] = st.ROB[k]
        BY <1>5, <2>3
      <3>2. st.ROB[k].lq_index = ROB[k].lq_index /\ st.ROB[k].sq_index = ROB[k].sq_index
        BY <1>6, <2>3 DEF SameIndices
      <3> QED
        BY <2>1, <3>1, <3>2
    <2> QED
      BY <2>2, <2>3
  <1> QED
    BY <1>1, <1>5, <1>7, BecomesPreserves

-----------------------------------------------------------------------------
(* A store executes.                                                       *)

\* There is one last store to an address.
LEMMA LastStoreUnique ==
    ASSUME NEW i \in Nat, NEW addr, NEW p, NEW q, LastStore(p, i, addr), LastStore(q, i, addr)
    PROVE  p = q
  <1>1. p \in Nat /\ p < i /\ q \in Nat /\ q < i
    BY DEF LastStore
  <1>2. CASE p < q
    <2>1. q \in (p + 1)..(i - 1) /\ q # 0
      BY <1>1, <1>2
    <2> QED
      BY <2>1 DEF LastStore, NotStored
  <1>3. CASE q < p
    <2>1. p \in (q + 1)..(i - 1) /\ p # 0
      BY <1>1, <1>3
    <2> QED
      BY <2>1 DEF LastStore, NotStored
  <1> QED
    BY <1>1, <1>2, <1>3

\* Where nothing is partly overwritten, an instruction that loads from two
\* addresses of an older one finds the older one the last store to both, or
\* to neither.
LEMMA LastToBoth ==
    ASSUME TypeOK, NEW i \in InROB, NEW k \in InROB, i < k, ~PartlyOverwritten(i),
           NEW a \in Range(program[k].loads) \cap Range(program[i].stores),
           NEW b \in Range(program[k].loads) \cap Range(program[i].stores),
           LastStore(i, k, a)
    PROVE  LastStore(i, k, b)
  <1>1. /\ i \in Nat /\ k \in Nat /\ 1 <= i /\ i < k /\ i \in 0..(k - 1)
        /\ k \in (i + 1)..Len(program)
    <2>1. k \in Instr /\ Instr = 1..Len(program) /\ Len(program) \in Nat
          /\ i \in Nat /\ k \in Nat /\ 1 <= i
      <3>1. program \in Programs
        BY DEF TypeOK
      <3>2. Instr = 1..Len(program) /\ Len(program) \in Nat
        BY <3>1, ProgramFacts
      <3>3. i \in Instr /\ k \in Instr
        BY BufferFacts
      <3> QED
        BY <3>2, <3>3
    <2> QED
      BY <2>1
  <1>2. Overwritten(i, k, b) => Overwritten(i, k, a)
    BY <1>1 DEF PartlyOverwritten
  <1>3. ~Overwritten(i, k, a)
    BY DEF LastStore, NotStored, Overwritten
  <1>4. NotStored(i + 1, k, b)
    BY <1>2, <1>3 DEF NotStored, Overwritten
  <1> QED
    BY <1>1, <1>4 DEF LastStore

\* The store of entry s, which has not executed.
Executing(s) == s \in SQIndex /\ SQ[s] # NONE /\ SQ[s].state # "executed"
StoreAddress(s) == program[SQ[s].instr].stores[SQ[s].slot]

\* A store that has not executed belongs to an instruction in the buffer and
\* owns its entry, and it cannot have forwarded to anyone yet.
LEMMA ExecutingFacts ==
    ASSUME CoreInv, NEW s, Executing(s)
    PROVE  /\ SQ[s].instr \in InROB /\ SQ[s].instr \in Instr /\ SQ[s].instr \in Nat
           /\ SQ[s].slot \in DOMAIN program[SQ[s].instr].stores
           /\ ROB[SQ[s].instr].sq_index[SQ[s].slot] = s
           /\ StoreAddress(s) \in Range(program[SQ[s].instr].stores)
           /\ ~Forwards(st0, SQ[s].instr, StoreAddress(s))
  <1> DEFINE i == SQ[s].instr
             b == SQ[s].slot
  <1>1. TypeOK /\ StoreEntries(st0) /\ st0.SQ = SQ /\ st0.ROB = ROB
    BY DEF CoreInv, QueuesInv, EntriesInv, st0
  <1>2. i \in InROB /\ b \in DOMAIN program[i].stores /\ ROB[i].sq_index[b] = s
    BY <1>1 DEF Executing, StoreEntries
  <1>3. i \in Instr /\ i \in Nat /\ program \in Programs
    BY <1>1, <1>2, BufferFacts DEF TypeOK
  <1>4. IsInjective(program[i].stores)
    BY <1>3, ProgramFacts
  <1>5. ASSUME NEW r \in SQIndex, SQ[r] # NONE, SQ[r].instr = i,
               program[i].stores[SQ[r].slot] = program[i].stores[b]
        PROVE  r = s
    <2>1. SQ[r].slot \in DOMAIN program[i].stores /\ ROB[i].sq_index[SQ[r].slot] = r
      BY <1>1, <1>5 DEF StoreEntries
    <2>2. SQ[r].slot = b
      BY <1>2, <1>4, <1>5, <2>1 DEF IsInjective
    <2> QED
      BY <1>2, <2>1, <2>2
  <1>6. ~Forwards(st0, i, StoreAddress(s))
    BY <1>1, <1>5 DEF Forwards, StoreAddress, Executing
  <1>7. StoreAddress(s) \in Range(program[i].stores)
    BY <1>2 DEF StoreAddress, Range
  <1> QED
    BY <1>2, <1>3, <1>6, <1>7

\* A load that it finds by its address has entered the queue, and waits for
\* this store, if no other load of its instruction has been overwritten.
LEMMA DependentFacts ==
    ASSUME CoreInv, NEW s, Executing(s), NEW d \in Dependents(s),
           NEW i, i = SQ[s].instr
    PROVE  /\ d = <<d[1], d[2]>> /\ d[1] \in InROB /\ d[1] \in Nat /\ i < d[1]
           /\ d[2] \in DOMAIN program[d[1]].loads
           /\ program[d[1]].loads[d[2]] = StoreAddress(s)
           /\ EntryOf(d) \in LQIndex
           /\ \/ PartlyOverwritten(i)
              \/ LQ[EntryOf(d)] # NONE /\ LQ[EntryOf(d)].instr = d[1] /\ LQ[EntryOf(d)].slot = d[2]
                 /\ LQ[EntryOf(d)].producer = i
  <1> DEFINE k == d[1]
             j == d[2]
             addr == StoreAddress(s)
             l == EntryOf(d)
  <1>1. /\ TypeOK /\ NotedLoads(st0) /\ ReadsLast(st0) /\ LoadSlots(st0) /\ WaitsForLast(st0)
        /\ LoadEntries(st0)
        /\ st0.SQ = SQ /\ st0.ROB = ROB /\ st0.LQ = LQ /\ st0.data = data
    BY DEF CoreInv, QueuesInv, EntriesInv, st0
  <1>2. /\ i \in InROB /\ i \in Instr /\ i \in Nat /\ addr \in Range(program[i].stores)
        /\ ~Forwards(st0, i, addr)
    BY ExecutingFacts
  <1>3. /\ d = <<k, j>> /\ k \in ROB[i].memory_instrs_depend_on_me
        /\ j \in DOMAIN program[k].loads /\ program[k].loads[j] = addr /\ l # NONE
    BY DEF Dependents, StoreAddress, EntryOf
  <1>4. k \in InROB /\ \E m \in DOMAIN program[k].loads : LastStore(i, k, program[k].loads[m])
    BY <1>1, <1>2, <1>3 DEF NotedLoads
  <1>5. PICK m \in DOMAIN program[k].loads : LastStore(i, k, program[k].loads[m])
    BY <1>4
  <1>6. /\ k \in Nat /\ k \in Instr /\ head \in Nat /\ head <= i /\ 1 <= i /\ tail \in Nat
    BY <1>1, <1>2, <1>4, BufferFacts
  <1>7. i < k /\ program[k].loads[m] \in Range(program[i].stores)
    BY <1>2, <1>5, <1>6 DEF LastStore
  <1>8. l \in LQIndex
    <2>1. ROB[k] \in Entry(k)
      BY <1>1, <1>4, BufferFacts DEF TypeOK
    <2> QED
      BY <1>3, <2>1 DEF Entry, EntryOf
  <1>9. ASSUME ~PartlyOverwritten(i)
        PROVE  LQ[l] # NONE /\ LQ[l].instr = k /\ LQ[l].slot = j /\ LQ[l].producer = i
    <2>1. LastStore(i, k, addr)
      <3>1. program[k].loads[m] \in Range(program[k].loads) /\ addr \in Range(program[k].loads)
        BY <1>3, <1>5 DEF Range
      <3> HIDE DEF k, addr
      <3> QED
        BY <1>1, <1>2, <1>4, <1>5, <1>7, <1>9, <3>1, LastToBoth
    <2>2. data[k][j] = NONE
      <3> SUFFICES ASSUME data[k][j] # NONE
                   PROVE  FALSE
        OBVIOUS
      <3>1. \/ \E p : LastStore(p, k, addr) /\ PartlyOverwritten(p)
            \/ /\ LastStore(data[k][j], k, addr)
               /\ data[k][j] \in InROB => Forwards(st0, data[k][j], addr)
        BY <1>1, <1>3, <1>4, <1>6 DEF ReadsLast, MayGoAstray
      <3>2. LastStore(data[k][j], k, addr) /\ (data[k][j] \in InROB => Forwards(st0, data[k][j], addr))
        BY <1>6, <1>9, <2>1, <3>1, LastStoreUnique
      <3>3. data[k][j] = i
        BY <1>6, <2>1, <3>2, LastStoreUnique
      <3> QED
        BY <1>2, <3>2, <3>3
    <2>3. LQ[l] # NONE /\ LQ[l].instr = k /\ LQ[l].slot = j
      BY <1>1, <1>3, <1>4, <2>2 DEF LoadSlots, EntryOf
    <2>4. LQ[l].producer = i
      <3>1. IF LQ[l].producer = NONE THEN NotStored(head, k, addr)
            ELSE ProducerOf(st0, LQ[l].producer, k, addr)
        BY <1>1, <1>3, <1>8, <2>3 DEF WaitsForLast, WaitsFor
      <3>2. ~NotStored(head, k, addr)
        BY SMTT(30), <1>2, <1>6, <1>7 DEF NotStored
      <3>3. LastStore(LQ[l].producer, k, addr)
        BY <3>1, <3>2 DEF ProducerOf
      <3> QED
        BY <1>6, <2>1, <3>3, LastStoreUnique
    <2> QED
      BY <2>3, <2>4
  <1> QED
    BY <1>3, <1>4, <1>6, <1>7, <1>8, <1>9

\* The entries that it finds wait for its instruction, as the assertion says:
\* so do their loads, which the instruction is the last to store for.  One of
\* another address means that a load has been overwritten.
LEMMA ResolvedFacts ==
    ASSUME CoreInv, NEW s, Executing(s), OwnLoads(s), NEW k, NEW j,
           <<k, j>> \in Resolved(s), NEW i, i = SQ[s].instr
    PROVE  /\ k \in InROB /\ k \in Nat /\ i < k /\ j \in DOMAIN program[k].loads
           /\ LastStore(i, k, program[k].loads[j])
           /\ program[k].loads[j] = StoreAddress(s) \/ PartlyOverwritten(i)
           /\ data[k][j] = NONE
           /\ ROB[k].lq_index[j] \in LQIndex
           /\ LQ[ROB[k].lq_index[j]] # NONE
           /\ LQ[ROB[k].lq_index[j]].instr = k /\ LQ[ROB[k].lq_index[j]].slot = j
           /\ \E d \in Dependents(s) : EntryOf(d) = ROB[k].lq_index[j]
  <1>1. /\ TypeOK /\ WaitsForLast(st0) /\ LoadEntries(st0)
        /\ st0.SQ = SQ /\ st0.ROB = ROB /\ st0.LQ = LQ /\ st0.data = data
    BY DEF CoreInv, QueuesInv, EntriesInv, st0
  <1>2. i \in InROB /\ i \in Nat /\ i # NONE
    BY ExecutingFacts, Sizes
  <1>3. PICK d \in Dependents(s) : k = LQ[EntryOf(d)].instr /\ j = LQ[EntryOf(d)].slot
    <2>1. PICK d \in Dependents(s) : <<k, j>> = <<LQ[EntryOf(d)].instr, LQ[EntryOf(d)].slot>>
      BY DEF Resolved
    <2> QED
      BY <2>1
  <1> DEFINE l == EntryOf(d)
  <1>4. /\ l \in LQIndex
        /\ program[d[1]].loads[d[2]] = StoreAddress(s)
        /\ PartlyOverwritten(i) \/ (LQ[l].instr = d[1] /\ LQ[l].slot = d[2])
    BY DependentFacts
  <1> HIDE DEF l
  <1>5. LQ[l] # NONE /\ LQ[l].producer = i
    BY DEF OwnLoads, DependsOn, l
  <1>6. k = LQ[l].instr /\ j = LQ[l].slot
    BY <1>3 DEF l
  <1>7. /\ k \in InROB /\ j \in DOMAIN program[k].loads /\ ROB[k].lq_index[j] = l
        /\ data[k][j] = NONE
    BY <1>1, <1>4, <1>5, <1>6 DEF LoadEntries
  <1>8. LastStore(i, k, program[k].loads[j])
    BY <1>1, <1>2, <1>4, <1>5, <1>6 DEF WaitsForLast, WaitsFor, ProducerOf
  <1>9. k \in Nat /\ i < k
    <2>1. k \in Nat
      BY <1>1, <1>7, BufferFacts
    <2> QED
      BY <1>2, <1>8, <2>1 DEF LastStore
  <1>10. program[k].loads[j] = StoreAddress(s) \/ PartlyOverwritten(i)
    BY <1>4, <1>6
  <1>11. EntryOf(d) = ROB[k].lq_index[j]
    BY <1>7 DEF l
  <1> QED
    BY <1>4, <1>5, <1>6, <1>7, <1>8, <1>9, <1>10, <1>11

\* And a load that waits for this store is among them.
LEMMA WaitingIsDependent ==
    ASSUME CoreInv, NEW s, Executing(s), NEW l \in LQIndex, LQ[l] # NONE,
           LQ[l].producer = SQ[s].instr,
           program[LQ[l].instr].loads[LQ[l].slot] = StoreAddress(s)
    PROVE  /\ <<LQ[l].instr, LQ[l].slot>> \in Dependents(s)
           /\ EntryOf(<<LQ[l].instr, LQ[l].slot>>) = l
           /\ <<LQ[l].instr, LQ[l].slot>> \in Resolved(s)
  <1> DEFINE i == SQ[s].instr
             k == LQ[l].instr
             j == LQ[l].slot
  <1>1. /\ TypeOK /\ WaitsForLast(st0) /\ LoadEntries(st0)
        /\ st0.SQ = SQ /\ st0.ROB = ROB /\ st0.LQ = LQ
    BY DEF CoreInv, QueuesInv, EntriesInv, st0
  <1>2. i \in InROB /\ i \in Nat
    BY ExecutingFacts
  <1>3. k \in InROB /\ j \in DOMAIN program[k].loads /\ ROB[k].lq_index[j] = l
    BY <1>1 DEF LoadEntries
  <1>4. l # NONE /\ i # NONE
    BY <1>2, Sizes DEF LQIndex
  <1>5. k \in ROB[i].memory_instrs_depend_on_me
    BY <1>1, <1>4 DEF WaitsForLast, WaitsFor, ProducerOf
  <1>6. j \in 1..4
    <2>1. k \in Instr /\ program \in Programs
      BY <1>1, <1>3, BufferFacts DEF TypeOK
    <2> QED
      BY <1>3, <2>1, ProgramFacts
  <1>7. <<k, j>> \in Dependents(s)
    BY <1>3, <1>4, <1>5, <1>6 DEF Dependents, StoreAddress
  <1>8. EntryOf(<<k, j>>) = l
    BY <1>3 DEF EntryOf
  <1>9. <<k, j>> \in Resolved(s)
    BY <1>7, <1>8 DEF Resolved
  <1> QED
    BY <1>7, <1>8, <1>9

\* The operands of an instruction that are still open are finite in number,
\* and one fewer when one of them is done.
LEMMA OpenFacts ==
    ASSUME TypeOK, NEW st, NEW k \in InROB
    PROVE  /\ IsFiniteSet(OpenLoads(st, k)) /\ IsFiniteSet(OpenStores(st, k))
           /\ Cardinality(OpenLoads(st, k)) \in Nat /\ Cardinality(OpenStores(st, k)) \in Nat
           /\ \A j \in OpenLoads(st, k) :
                Cardinality(OpenLoads(st, k) \ {j}) = Cardinality(OpenLoads(st, k)) - 1
                /\ Cardinality(OpenLoads(st, k) \ {j}) \in Nat
           /\ \A j \in OpenStores(st, k) :
                Cardinality(OpenStores(st, k) \ {j}) = Cardinality(OpenStores(st, k)) - 1
                /\ Cardinality(OpenStores(st, k) \ {j}) \in Nat
  <1>1. k \in Instr /\ program \in Programs
    BY BufferFacts DEF TypeOK
  <1>2. DOMAIN program[k].loads \subseteq 1..4 /\ DOMAIN program[k].stores \subseteq 1..4
    BY <1>1, ProgramFacts
  <1>3. OpenLoads(st, k) \in SUBSET (1..4) /\ OpenStores(st, k) \in SUBSET (1..4)
    BY <1>2 DEF OpenLoads, OpenStores
  <1>4. IsFiniteSet(OpenLoads(st, k)) /\ IsFiniteSet(OpenStores(st, k))
    BY <1>3, CardUpTo, FS_Subset
  <1> QED
    BY <1>4, FS_CardinalityType, FS_RemoveElement

\* The loads of k that it resolves, which are open, like its own store.
ResolvedOf(s, k) == {j \in DOMAIN program[k].loads : <<k, j>> \in Resolved(s)}

\* What it completes of an instruction is open: the loads it resolves, or its
\* own store.
LEMMA OpsDoneFacts ==
    ASSUME CoreInv, NEW s, Executing(s), OwnLoads(s), NEW k \in InROB
    PROVE  /\ ResolvedOf(s, k) \in SUBSET OpenLoads(st0, k)
           /\ Cardinality(ResolvedOf(s, k)) \in Nat
           /\ Cardinality(OpenLoads(st0, k) \ ResolvedOf(s, k))
                = Cardinality(OpenLoads(st0, k)) - Cardinality(ResolvedOf(s, k))
           /\ k = SQ[s].instr => SQ[s].slot \in OpenStores(st0, k) /\ ResolvedOf(s, k) = {}
           /\ OpsDone(s, k) = Cardinality(ResolvedOf(s, k)) + (IF k = SQ[s].instr THEN 1 ELSE 0)
           /\ OpsDone(s, k) \in Nat /\ ROB[k].num_mem_ops \in Nat
           /\ ROB[k].num_mem_ops - OpsDone(s, k) \in Nat
           /\ OpsDone(s, k) > 0 => is_memory(k) /\ ROB[k].executed # COMPLETED
  <1> DEFINE i == SQ[s].instr
             D == ResolvedOf(s, k)
             O == OpenLoads(st0, k)
             T == OpenStores(st0, k)
  <1>1. /\ TypeOK /\ OpsCounted(st0) /\ DoneWhenCompleted(st0)
        /\ st0.ROB = ROB /\ st0.SQ = SQ /\ st0.data = data
    BY DEF CoreInv, QueuesInv, EntriesInv, st0
  <1>2. D \in SUBSET O
    BY <1>1, ResolvedFacts DEF ResolvedOf, OpenLoads
  <1>3. i \in Nat /\ (k = i => SQ[s].slot \in T)
    <2>1. i \in Nat /\ SQ[s].slot \in DOMAIN program[i].stores /\ ROB[i].sq_index[SQ[s].slot] = s
      BY ExecutingFacts
    <2> QED
      BY <1>1, <2>1 DEF OpenStores, Executing
  <1>4. k = i => D = {}
    <2>1. \A j \in D : i < k
      BY ResolvedFacts DEF ResolvedOf
    <2> QED
      BY <1>3, <2>1
  <1>5. OpsDone(s, k) = Cardinality(D) + (IF k = i THEN 1 ELSE 0)
    BY DEF OpsDone, ResolvedOf
  <1>6. /\ IsFiniteSet(O) /\ IsFiniteSet(T) /\ Cardinality(O) \in Nat /\ Cardinality(T) \in Nat
        /\ \A b \in T : Cardinality(T) - 1 \in Nat
    BY <1>1, OpenFacts
  <1>7. ROB[k].num_mem_ops = Cardinality(O) + Cardinality(T)
    BY <1>1 DEF OpsCounted
  <1> HIDE DEF D, O, T
  <1>8. /\ Cardinality(D) \in Nat /\ Cardinality(D) <= Cardinality(O)
        /\ Cardinality(O \ D) = Cardinality(O) - Cardinality(D)
    <2>1. IsFiniteSet(D) /\ Cardinality(D) <= Cardinality(O) /\ O \cap D = D
      BY <1>2, <1>6, FS_Subset
    <2>2. Cardinality(O \ D) = Cardinality(O) - Cardinality(O \cap D)
      BY <1>6, <2>1, FS_Difference
    <2> QED
      BY <2>1, <2>2, FS_CardinalityType
  <1>9. /\ OpsDone(s, k) \in Nat /\ ROB[k].num_mem_ops \in Nat
        /\ ROB[k].num_mem_ops - OpsDone(s, k) \in Nat
    <2>1. CASE k = i
      BY <1>3, <1>5, <1>6, <1>7, <1>8, <2>1
    <2>2. CASE k # i
      BY <1>5, <1>6, <1>7, <1>8, <2>2
    <2> QED
      BY <2>1, <2>2
  <1>10. ASSUME OpsDone(s, k) > 0
         PROVE  is_memory(k) /\ ROB[k].executed # COMPLETED
    <2>1. ROB[k].executed # COMPLETED
      BY <1>1, <1>9, <1>10 DEF DoneWhenCompleted
    <2>2. (\E j : j \in O) \/ (\E j : j \in T)
      <3>1. CASE k = i
        BY <1>3, <3>1
      <3>2. CASE k # i
        <4>1. D # {}
          BY <1>5, <1>10, <3>2, FS_EmptySet
        <4> QED
          BY <1>2, <4>1
      <3> QED
        BY <3>1, <3>2
    <2>3. is_memory(k)
      BY <2>2 DEF is_memory, OpenLoads, OpenStores, O, T
    <2> QED
      BY <2>1, <2>3
  <1> QED
    BY <1>2, <1>3, <1>4, <1>5, <1>8, <1>9, <1>10 DEF D, O, T

\* What the store of entry s leaves behind.
Executes(s, n) ==
    /\ TypedState(n)
    /\ n.SQ_tail = SQ_tail /\ n.STA = STA
    /\ n.SQ[s] # NONE /\ n.SQ[s].instr = SQ[s].instr /\ n.SQ[s].slot = SQ[s].slot
    /\ n.SQ[s].state = "executed"
    /\ \A x \in SQIndex \ {s} : n.SQ[x] = SQ[x]
    /\ \A l \in LQIndex :
         n.LQ[l] = IF \E d \in Dependents(s) : EntryOf(d) = l THEN NONE ELSE LQ[l]
    /\ \A k \in Instr : \A j \in DOMAIN program[k].loads :
         n.data[k][j] = IF <<k, j>> \in Resolved(s) THEN Given(s, k, j) ELSE data[k][j]
    /\ \A k \in InROB :
         /\ n.ROB[k].num_mem_ops = ROB[k].num_mem_ops - OpsDone(s, k)
         /\ n.ROB[k].scheduled = ROB[k].scheduled
         /\ n.ROB[k].executed = ROB[k].executed
         /\ n.ROB[k].reg_ready = ROB[k].reg_ready
         /\ n.ROB[k].num_reg_dependent = ROB[k].num_reg_dependent
         /\ n.ROB[k].registers_index_depend_on_me = ROB[k].registers_index_depend_on_me
         /\ n.ROB[k].lq_index = ROB[k].lq_index
         /\ n.ROB[k].sq_index = ROB[k].sq_index
         /\ n.ROB[k].memory_instrs_depend_on_me = ROB[k].memory_instrs_depend_on_me
    /\ n.inflight = inflight_mem_executions
                    + Cardinality({k \in InROB : OpsDone(s, k) > 0
                                                 /\ ROB[k].num_mem_ops = OpsDone(s, k)})

\* execute_store marks its entry, frees those that it finds, and counts what
\* it completed.
LEMMA ExecuteEffect ==
    ASSUME CoreInv, NEW s \in SQIndex, execute_store(s)
    PROVE  \E n : Becomes(n) /\ Executes(s, n) /\ Executing(s) /\ OwnLoads(s)
  <1> DEFINE i == SQ[s].instr
             S == [SQ EXCEPT ![s].state = "executed"]
             q == [SQ[s] EXCEPT !.state = "executed"]
             R == [k \in Instr |-> IF k \in InROB
                                   THEN [ROB[k] EXCEPT !.num_mem_ops = @ - OpsDone(s, k)]
                                   ELSE ROB[k]]
             released == {EntryOf(d) : d \in Dependents(s)}
             L == [l \in LQIndex |-> IF l \in released THEN NONE ELSE LQ[l]]
             D == [k \in Instr |-> [j \in DOMAIN program[k].loads |->
                     IF <<k, j>> \in Resolved(s) THEN Given(s, k, j) ELSE data[k][j]]]
             finished == {k \in InROB : OpsDone(s, k) > 0 /\ ROB[k].num_mem_ops = OpsDone(s, k)}
             c == inflight_mem_executions + Cardinality(finished)
             n == [ROB |-> R, LQ |-> L, SQ |-> S, SQ_tail |-> SQ_tail,
                   STA |-> STA, inflight |-> c, data |-> D]
  <1>1. Becomes(n) /\ Executing(s) /\ OwnLoads(s)
    BY DEF execute_store, Becomes, Executing
  <1>2. /\ TypeOK /\ InROB \in SUBSET Instr /\ IsFiniteSet(InROB)
        /\ \A k \in InROB : ROB[k] \in Entry(k)
        /\ \A k \in Instr \ InROB : ROB[k] = NONE
        /\ SQ \in [SQIndex -> Storing \cup {NONE}] /\ LQ \in [LQIndex -> Loading \cup {NONE}]
        /\ SQ_tail \in SQIndex /\ STA \in Seq(Instr) /\ inflight_mem_executions \in Nat
        /\ \A k \in Instr : data[k] \in [DOMAIN program[k].loads -> {NONE, ASTRAY, 0} \cup Instr]
    BY BufferFacts DEF CoreInv, TypeOK
  <1>3. i \in Instr
    BY <1>1, ExecutingFacts
  <1>4. \A k \in Instr : \A j : Given(s, k, j) \in {ASTRAY} \cup Instr
    BY <1>3 DEF Given
  <1>5. \A k \in InROB : ROB[k].num_mem_ops - OpsDone(s, k) \in Nat
    BY <1>1, OpsDoneFacts
  <1>6. \A k \in InROB :
          /\ R[k].num_mem_ops = ROB[k].num_mem_ops - OpsDone(s, k)
          /\ R[k].scheduled = ROB[k].scheduled
          /\ R[k].executed = ROB[k].executed
          /\ R[k].reg_ready = ROB[k].reg_ready
          /\ R[k].num_reg_dependent = ROB[k].num_reg_dependent
          /\ R[k].registers_index_depend_on_me = ROB[k].registers_index_depend_on_me
          /\ R[k].lq_index = ROB[k].lq_index
          /\ R[k].sq_index = ROB[k].sq_index
          /\ R[k].memory_instrs_depend_on_me = ROB[k].memory_instrs_depend_on_me
          /\ R[k] \in Entry(k)
    <2> TAKE k \in InROB
    <2> DEFINE m == ROB[k].num_mem_ops - OpsDone(s, k)
    <2>1. ROB[k] \in Entry(k) /\ k \in Instr
      BY <1>2
    <2>2. m \in Nat /\ m = ROB[k].num_mem_ops - OpsDone(s, k)
      BY <1>5
    <2>3. R[k] = [ROB[k] EXCEPT !.num_mem_ops = m]
      BY <2>1
    <2> HIDE DEF m, R
    <2> QED
      BY <2>1, <2>2, <2>3 DEF Entry
  <1>7. DOMAIN R = Instr /\ \A k \in Instr \ InROB : R[k] = NONE
    BY <1>2
  <1>8. /\ S = [SQ EXCEPT ![s] = q]
        /\ q \in Storing /\ q.instr = SQ[s].instr /\ q.slot = SQ[s].slot /\ q.state = "executed"
    <2>1. SQ[s] \in Storing
      BY <1>1, <1>2 DEF Executing
    <2> QED
      BY <2>1 DEF Storing, StoreState
  <1> HIDE DEF S, q
  <1>9. /\ S \in [SQIndex -> Storing \cup {NONE}] /\ S[s] = q /\ q # NONE
        /\ \A x \in SQIndex \ {s} : S[x] = SQ[x]
    BY <1>2, <1>8, Sizes
  <1>10. /\ L \in [LQIndex -> Loading \cup {NONE}]
         /\ \A l \in LQIndex :
              L[l] = IF \E d \in Dependents(s) : EntryOf(d) = l THEN NONE ELSE LQ[l]
    BY <1>2
  <1>11. /\ DOMAIN D = Instr
         /\ \A k \in Instr : D[k] \in [DOMAIN program[k].loads -> {NONE, ASTRAY, 0} \cup Instr]
         /\ \A k \in Instr : \A j \in DOMAIN program[k].loads :
              D[k][j] = IF <<k, j>> \in Resolved(s) THEN Given(s, k, j) ELSE data[k][j]
    <2>1. ASSUME NEW k \in Instr
          PROVE  /\ D[k] \in [DOMAIN program[k].loads -> {NONE, ASTRAY, 0} \cup Instr]
                 /\ \A j \in DOMAIN program[k].loads :
                      D[k][j] = IF <<k, j>> \in Resolved(s) THEN Given(s, k, j) ELSE data[k][j]
      BY <1>2, <1>4
    <2> QED
      BY <2>1
  <1>12. c \in Nat
    <2>1. finished \in SUBSET InROB
      OBVIOUS
    <2> HIDE DEF finished
    <2>2. Cardinality(finished) \in Nat
      BY <1>2, <2>1, FS_Subset, FS_CardinalityType
    <2> QED
      BY <1>2, <2>2
  <1>13. c = inflight_mem_executions
             + Cardinality({k \in InROB : OpsDone(s, k) > 0 /\ ROB[k].num_mem_ops = OpsDone(s, k)})
    OBVIOUS
  <1> HIDE DEF R, L, D, c, finished
  <1>14. /\ n.ROB = R /\ n.LQ = L /\ n.SQ = S /\ n.SQ_tail = SQ_tail
         /\ n.STA = STA /\ n.inflight = c /\ n.data = D
         /\ n = [ROB |-> n.ROB, LQ |-> n.LQ, SQ |-> n.SQ, SQ_tail |-> n.SQ_tail,
                 STA |-> n.STA, inflight |-> n.inflight, data |-> n.data]
    OBVIOUS
  <1> HIDE DEF n
  <1>15. TypedState(n)
    BY <1>2, <1>6, <1>7, <1>9, <1>10, <1>11, <1>12, <1>14 DEF TypedState
  <1>16. /\ n.SQ[s] # NONE /\ n.SQ[s].instr = SQ[s].instr /\ n.SQ[s].slot = SQ[s].slot
         /\ n.SQ[s].state = "executed"
         /\ \A x \in SQIndex \ {s} : n.SQ[x] = SQ[x]
    BY <1>8, <1>9, <1>14
  <1>17. Executes(s, n)
    BY <1>6, <1>10, <1>11, <1>13, <1>14, <1>15, <1>16 DEF Executes
  <1> QED
    BY <1>1, <1>17

\* The size of two sets that share nothing is the sum of their sizes.
LEMMA DisjointUnion ==
    ASSUME NEW S, NEW T, IsFiniteSet(S), IsFiniteSet(T), S \cap T = {}
    PROVE  Cardinality(S \cup T) = Cardinality(S) + Cardinality(T)
  <1>1. /\ Cardinality(S \cup T) = Cardinality(S) + Cardinality(T) - Cardinality(S \cap T)
        /\ Cardinality(S \cap T) = 0
        /\ Cardinality(S) \in Nat /\ Cardinality(T) \in Nat
    BY FS_Union, FS_EmptySet, FS_CardinalityType
  <1> QED
    BY <1>1

\* The conditions on the queues hold after execute_store: the loads it
\* answers read the last store before them.
LEMMA ExecutesKeeps ==
    ASSUME CoreInv, NEW s, Executing(s), OwnLoads(s), NEW n, Executes(s, n)
    PROVE  QueuesInv(n)
  <1> DEFINE i == SQ[s].instr
             addr == StoreAddress(s)
  <1>1. /\ TypeOK /\ TypedState(st0)
        /\ LoadEntries(st0) /\ LoadSlots(st0) /\ WaitsForLast(st0) /\ ReadsLast(st0)
        /\ NotedLoads(st0) /\ StoreEntries(st0) /\ StoreSlots(st0) /\ Ring(st0)
        /\ StoresInOrder(st0) /\ OpsCounted(st0)
        /\ DoneWhenCompleted(st0) /\ MemInFlightCounted(st0)
    BY InitialState DEF CoreInv, QueuesInv, EntriesInv, Entering
  <1>2. /\ st0.SQ = SQ /\ st0.ROB = ROB /\ st0.LQ = LQ /\ st0.data = data
        /\ st0.SQ_tail = SQ_tail /\ st0.STA = STA /\ st0.inflight = inflight_mem_executions
    BY DEF st0
  <1>3. /\ i \in InROB /\ i \in Instr /\ i \in Nat /\ SQ[s].slot \in DOMAIN program[i].stores
        /\ ROB[i].sq_index[SQ[s].slot] = s /\ s \in SQIndex /\ SQ[s] # NONE
        /\ SQ[s].state # "executed" /\ i # NONE
    BY ExecutingFacts, Sizes DEF Executing
  <1>4. \A l \in LQIndex : (\E d \in Dependents(s) : EntryOf(d) = l)
          => LQ[l] # NONE /\ <<LQ[l].instr, LQ[l].slot>> \in Resolved(s)
    BY DEF OwnLoads, DependsOn, Resolved
  <1>5. \A k, j : <<k, j>> \in Resolved(s) =>
          /\ k \in InROB /\ i < k /\ k \in Nat /\ j \in DOMAIN program[k].loads
          /\ LastStore(i, k, program[k].loads[j])
          /\ program[k].loads[j] = addr \/ PartlyOverwritten(i)
          /\ data[k][j] = NONE
          /\ ROB[k].lq_index[j] \in LQIndex
          /\ LQ[ROB[k].lq_index[j]] # NONE
          /\ LQ[ROB[k].lq_index[j]].instr = k
          /\ LQ[ROB[k].lq_index[j]].slot = j
          /\ \E d \in Dependents(s) : EntryOf(d) = ROB[k].lq_index[j]
    BY ResolvedFacts
  <1>6. \A k \in InROB : /\ n.ROB[k].executed = ROB[k].executed
                         /\ n.ROB[k].lq_index = ROB[k].lq_index
                         /\ n.ROB[k].sq_index = ROB[k].sq_index
                         /\ n.ROB[k].memory_instrs_depend_on_me = ROB[k].memory_instrs_depend_on_me
    BY DEF Executes
  <1>7. \A k \in InROB : n.ROB[k].num_mem_ops = ROB[k].num_mem_ops - OpsDone(s, k)
    BY DEF Executes
  <1>8. \A k \in Instr : \A j \in DOMAIN program[k].loads :
          /\ n.data[k][j] = IF <<k, j>> \in Resolved(s) THEN Given(s, k, j) ELSE data[k][j]
          /\ Given(s, k, j) = IF program[k].loads[j] = addr THEN i ELSE ASTRAY
          /\ Given(s, k, j) # NONE
    <2>1. ASTRAY # NONE
      BY Sizes DEF ASTRAY
    <2> QED
      BY <1>3, <2>1 DEF Executes, Given, StoreAddress
  <1>9. /\ \A x \in SQIndex : (n.SQ[x] # NONE <=> SQ[x] # NONE)
                              /\ n.SQ[x].instr = SQ[x].instr /\ n.SQ[x].slot = SQ[x].slot
        /\ n.SQ[s].state = "executed"
        /\ \A x \in SQIndex \ {s} : n.SQ[x] = SQ[x]
    BY <1>3 DEF Executes
  <1>10. \A p, a : Forwards(n, p, a) <=> Forwards(st0, p, a) \/ (p = i /\ a = addr)
    BY <1>2, <1>3, <1>9 DEF Forwards, StoreAddress
  <1>11. \A l \in LQIndex : n.LQ[l] # NONE =>
           /\ n.LQ[l] = LQ[l] /\ LQ[l] # NONE
           /\ <<LQ[l].instr, LQ[l].slot>> \notin Resolved(s)
    <2> SUFFICES ASSUME NEW l \in LQIndex, n.LQ[l] # NONE
                 PROVE  /\ n.LQ[l] = LQ[l] /\ LQ[l] # NONE
                        /\ <<LQ[l].instr, LQ[l].slot>> \notin Resolved(s)
      OBVIOUS
    <2>1. n.LQ[l] = IF \E d \in Dependents(s) : EntryOf(d) = l THEN NONE ELSE LQ[l]
      BY DEF Executes
    <2>2. n.LQ[l] = LQ[l] /\ LQ[l] # NONE
          /\ ~ \E d \in Dependents(s) : EntryOf(d) = l
      BY <2>1
    <2>3. ROB[LQ[l].instr].lq_index[LQ[l].slot] = l
      BY <1>1, <1>2, <2>2 DEF LoadEntries
    <2>4. <<LQ[l].instr, LQ[l].slot>> \notin Resolved(s)
      BY <1>5, <2>2, <2>3
    <2> QED
      BY <2>2, <2>4
  <1>12. InROB \in SUBSET Instr /\ \A k \in InROB : k \in Nat /\ head <= k /\ k < tail
    BY <1>1, BufferFacts
  <1>13. LoadEntries(n)
    <2> SUFFICES ASSUME NEW l \in LQIndex, n.LQ[l] # NONE
                 PROVE  /\ n.LQ[l].instr \in InROB
                        /\ n.LQ[l].slot \in DOMAIN program[n.LQ[l].instr].loads
                        /\ n.ROB[n.LQ[l].instr].lq_index[n.LQ[l].slot] = l
                        /\ n.data[n.LQ[l].instr][n.LQ[l].slot] = NONE
                        /\ (n.LQ[l].state = "waiting") <=> (n.LQ[l].producer # NONE)
      BY DEF LoadEntries
    <2>1. /\ n.LQ[l] = LQ[l] /\ LQ[l] # NONE
          /\ <<LQ[l].instr, LQ[l].slot>> \notin Resolved(s)
      BY <1>11
    <2>2. /\ LQ[l].instr \in InROB
          /\ LQ[l].slot \in DOMAIN program[LQ[l].instr].loads
          /\ ROB[LQ[l].instr].lq_index[LQ[l].slot] = l
          /\ data[LQ[l].instr][LQ[l].slot] = NONE
          /\ (LQ[l].state = "waiting") <=> (LQ[l].producer # NONE)
      BY SMTT(30), <1>1, <1>2, <2>1 DEF LoadEntries
    <2> QED
      BY <1>6, <1>8, <1>12, <2>1, <2>2
  <1>14. LoadSlots(n)
    <2> SUFFICES ASSUME NEW k \in InROB, NEW b \in DOMAIN program[k].loads
                 PROVE  IF n.ROB[k].lq_index[b] = NONE THEN n.data[k][b] = NONE
                        ELSE \/ n.data[k][b] # NONE
                             \/ LET q == n.LQ[n.ROB[k].lq_index[b]]
                                IN  q # NONE /\ q.instr = k /\ q.slot = b
      BY DEF LoadSlots
    <2>1. /\ n.ROB[k].lq_index[b] = ROB[k].lq_index[b]
          /\ n.data[k][b] = IF <<k, b>> \in Resolved(s) THEN Given(s, k, b) ELSE data[k][b]
          /\ Given(s, k, b) # NONE
      BY <1>6, <1>8, <1>12
    <2>2. CASE <<k, b>> \in Resolved(s)
      <3>1. ROB[k].lq_index[b] # NONE
        BY SMTT(30), <1>5, <2>2, Sizes DEF LQIndex
      <3> QED
        BY <2>1, <2>2, <3>1
    <2>3. CASE <<k, b>> \notin Resolved(s)
      <3> DEFINE x == ROB[k].lq_index[b]
      <3>1. IF x = NONE THEN data[k][b] = NONE
            ELSE \/ data[k][b] # NONE
                 \/ LQ[x] # NONE /\ LQ[x].instr = k /\ LQ[x].slot = b
        BY <1>1, <1>2 DEF LoadSlots
      <3>2. CASE x = NONE \/ data[k][b] # NONE
        BY <2>1, <2>3, <3>1, <3>2
      <3>3. CASE x # NONE /\ data[k][b] = NONE
        <4>1. LQ[x] # NONE /\ LQ[x].instr = k /\ LQ[x].slot = b
          BY <3>1, <3>3
        <4>2. x \in LQIndex
          <5>1. ROB[k] \in Entry(k)
            BY <1>1, <1>2 DEF TypedState
          <5> QED
            BY <5>1, <3>3 DEF Entry
        <4>3. ~ \E d \in Dependents(s) : EntryOf(d) = x
          BY <1>4, <2>3, <4>1, <4>2
        <4>4. n.LQ[x] = LQ[x]
          BY <4>2, <4>3 DEF Executes
        <4> QED
          BY <2>1, <3>3, <4>1, <4>4
      <3> QED
        BY <3>2, <3>3
    <2> QED
      BY <2>2, <2>3
  <1>15. WaitsForLast(n)
    <2> SUFFICES ASSUME NEW l \in LQIndex, n.LQ[l] # NONE
                 PROVE  WaitsFor(n, l)
      BY DEF WaitsForLast
    <2> DEFINE k == LQ[l].instr
               a == program[k].loads[LQ[l].slot]
    <2>1. n.LQ[l] = LQ[l] /\ LQ[l] # NONE /\ <<LQ[l].instr, LQ[l].slot>> \notin Resolved(s)
      BY <1>11
    <2>2. IF LQ[l].producer = NONE THEN NotStored(head, k, a)
          ELSE ProducerOf(st0, LQ[l].producer, k, a)
      BY <1>1, <1>2, <2>1 DEF WaitsForLast, WaitsFor
    <2>3. CASE LQ[l].producer = NONE
      BY <2>1, <2>2, <2>3 DEF WaitsFor
    <2>4. CASE LQ[l].producer # NONE
      <3>1. ~(LQ[l].producer = i /\ a = addr)
        BY <2>1, WaitingIsDependent
      <3>2. ProducerOf(n, LQ[l].producer, k, a)
        <4>1. ProducerOf(st0, LQ[l].producer, k, a)
          BY <2>2, <2>4
        <4> QED
          BY <1>2, <1>6, <1>10, <3>1, <4>1 DEF ProducerOf
      <3> QED
        BY <2>1, <2>4, <3>2 DEF WaitsFor
    <2> QED
      BY <2>3, <2>4
  <1>16. ReadsLast(n)
    <2> SUFFICES ASSUME NEW k \in Instr, NEW b \in DOMAIN program[k].loads, n.data[k][b] # NONE
                 PROVE  /\ k < tail
                        /\ \/ n.data[k][b] = ASTRAY /\ MayGoAstray(k, program[k].loads[b])
                           \/ /\ LastStore(n.data[k][b], k, program[k].loads[b])
                              /\ n.data[k][b] \in InROB /\ k \in InROB
                                   => Forwards(n, n.data[k][b], program[k].loads[b])
      BY DEF ReadsLast
    <2>1. CASE <<k, b>> \in Resolved(s)
      <3>1. n.data[k][b] = IF program[k].loads[b] = addr THEN i ELSE ASTRAY
        BY <1>8, <2>1
      <3>2. /\ k \in InROB /\ LastStore(i, k, program[k].loads[b])
            /\ program[k].loads[b] = addr \/ PartlyOverwritten(i)
        BY <1>5, <2>1
      <3>3. Forwards(n, i, addr)
        BY <1>10
      <3>4. CASE program[k].loads[b] = addr
        BY <1>12, <3>1, <3>2, <3>3, <3>4
      <3>5. CASE program[k].loads[b] # addr
        BY <1>3, <1>12, <3>1, <3>2, <3>5 DEF MayGoAstray
      <3> QED
        BY <3>4, <3>5
    <2>2. CASE <<k, b>> \notin Resolved(s)
      <3>1. n.data[k][b] = data[k][b]
        BY <1>8, <2>2
      <3> QED
        BY <1>1, <1>2, <1>10, <3>1 DEF ReadsLast
    <2> QED
      BY <2>1, <2>2
  <1>17. NotedLoads(n)
    BY <1>1, <1>2, <1>6 DEF NotedLoads
  <1>18. \A k \in InROB : n.ROB[k].sq_index = ROB[k].sq_index /\ ROB[k] \in Entry(k)
    BY <1>1, <1>2, <1>6 DEF TypedState
  <1>19. StoreEntries(n)
    BY <1>1, <1>2, <1>9, <1>18 DEF StoreEntries
  <1>20. StoreSlots(n)
    <2> SUFFICES ASSUME NEW k \in InROB, NEW b \in DOMAIN program[k].stores,
                        n.ROB[k].sq_index[b] # NONE
                 PROVE  LET q == n.SQ[n.ROB[k].sq_index[b]]
                        IN  q # NONE /\ q.instr = k /\ q.slot = b
      BY DEF StoreSlots
    <2> DEFINE x == ROB[k].sq_index[b]
    <2>1. n.ROB[k].sq_index[b] = x /\ x # NONE
      BY <1>18
    <2>2. x \in SQIndex
      BY <1>18, <2>1 DEF Entry
    <2>3. SQ[x] # NONE /\ SQ[x].instr = k /\ SQ[x].slot = b
      BY <1>1, <1>2, <2>1 DEF StoreSlots
    <2> QED
      BY <1>9, <2>1, <2>2, <2>3
  <1>21. Ring(n)
    <2>1. \A k : Back(n, k) = Back(st0, k)
      BY <1>2 DEF Back, Executes
    <2> SUFFICES ASSUME NEW k \in 1..SQ_SIZE, NEW m \in 1..(k - 1), n.SQ[Back(st0, k)] # NONE
                 PROVE  /\ n.SQ[Back(st0, m)] # NONE
                        /\ n.SQ[Back(st0, k)].instr <= n.SQ[Back(st0, m)].instr
      BY <2>1 DEF Ring
    <2>2. m \in 1..SQ_SIZE
      BY Sizes
    <2>3. Back(st0, k) \in SQIndex /\ Back(st0, m) \in SQIndex
      BY <1>1, <2>2, BackInRange DEF TypedState
    <2>4. SQ[Back(st0, m)] # NONE /\ SQ[Back(st0, k)].instr <= SQ[Back(st0, m)].instr
      BY <1>1, <1>2, <1>9, <2>3 DEF Ring
    <2> QED
      BY <1>9, <2>3, <2>4
  <1>22. StoresInOrder(n)
    BY <1>1, <1>2, <1>9 DEF StoresInOrder, Executes
  <1>23. OpsCounted(n)
    <2> SUFFICES ASSUME NEW k \in InROB
                 PROVE  n.ROB[k].num_mem_ops
                          = Cardinality(OpenLoads(n, k)) + Cardinality(OpenStores(n, k))
      BY DEF OpsCounted
    <2>1. ROB[k].num_mem_ops = Cardinality(OpenLoads(st0, k)) + Cardinality(OpenStores(st0, k))
      BY <1>1, <1>2 DEF OpsCounted
    <2>2. OpenLoads(n, k) = OpenLoads(st0, k) \ ResolvedOf(s, k)
      <3>1. \A j \in DOMAIN program[k].loads :
              n.data[k][j] = NONE <=> data[k][j] = NONE /\ <<k, j>> \notin Resolved(s)
        BY <1>8, <1>12
      <3> QED
        BY <1>2, <3>1 DEF OpenLoads, ResolvedOf
    <2>3. \A b \in DOMAIN program[k].stores :
            b \in OpenStores(n, k) <=> b \in OpenStores(st0, k) /\ ~(k = i /\ b = SQ[s].slot)
      <3> SUFFICES ASSUME NEW b \in DOMAIN program[k].stores
                   PROVE  (\/ n.ROB[k].sq_index[b] = NONE
                           \/ n.SQ[n.ROB[k].sq_index[b]].state # "executed")
                      <=> /\ \/ ROB[k].sq_index[b] = NONE
                             \/ SQ[ROB[k].sq_index[b]].state # "executed"
                          /\ ~(k = i /\ b = SQ[s].slot)
        BY <1>2 DEF OpenStores
      <3> DEFINE x == ROB[k].sq_index[b]
      <3>1. n.ROB[k].sq_index[b] = x
        BY <1>18
      <3>2. CASE x = NONE
        BY <1>3, <3>1, <3>2, Sizes DEF SQIndex
      <3>3. CASE x # NONE
        <4>1. x \in SQIndex
          BY <1>18, <3>3 DEF Entry
        <4>2. SQ[x].instr = k /\ SQ[x].slot = b
          BY <1>1, <1>2, <3>3 DEF StoreSlots
        <4>3. CASE x = s
          BY <1>9, <3>1, <3>3, <4>2, <4>3
        <4>4. CASE x # s
          <5>1. ~(k = i /\ b = SQ[s].slot)
            BY SMTT(30), <1>3, <4>4
          <5> QED
            BY <1>9, <3>1, <3>3, <4>1, <4>4, <5>1
        <4> QED
          BY <4>3, <4>4
      <3> QED
        BY <3>2, <3>3
    <2>4. /\ OpenStores(n, k) = IF k = i THEN OpenStores(st0, k) \ {SQ[s].slot}
                                ELSE OpenStores(st0, k)
      BY <2>3 DEF OpenStores
    <2>5. /\ Cardinality(OpenLoads(st0, k)) \in Nat /\ Cardinality(OpenStores(st0, k)) \in Nat
          /\ \A j \in OpenStores(st0, k) :
               Cardinality(OpenStores(st0, k) \ {j}) = Cardinality(OpenStores(st0, k)) - 1
      BY <1>1, OpenFacts
    <2>6. /\ Cardinality(ResolvedOf(s, k)) \in Nat
          /\ Cardinality(OpenLoads(n, k))
               = Cardinality(OpenLoads(st0, k)) - Cardinality(ResolvedOf(s, k))
          /\ k = i => SQ[s].slot \in OpenStores(st0, k)
          /\ n.ROB[k].num_mem_ops = ROB[k].num_mem_ops
               - (Cardinality(ResolvedOf(s, k)) + (IF k = i THEN 1 ELSE 0))
      BY <1>7, <2>2, OpsDoneFacts
    <2>7. CASE k = i
      <3>1. Cardinality(OpenStores(n, k)) = Cardinality(OpenStores(st0, k)) - 1
        BY <2>4, <2>5, <2>6, <2>7
      <3> QED
        BY <2>1, <2>5, <2>6, <2>7, <3>1
    <2>8. CASE k # i
      BY <2>1, <2>4, <2>5, <2>6, <2>8
    <2> QED
      BY <2>7, <2>8
  <1>24. \A k \in InROB : /\ OpsDone(s, k) \in Nat /\ ROB[k].num_mem_ops \in Nat
                          /\ ROB[k].num_mem_ops - OpsDone(s, k) \in Nat
                          /\ OpsDone(s, k) > 0 => is_memory(k) /\ ROB[k].executed # COMPLETED
    BY OpsDoneFacts
  <1>25. DoneWhenCompleted(n)
    BY <1>1, <1>2, <1>6, <1>7, <1>24 DEF DoneWhenCompleted
  <1>26. MemInFlightCounted(n)
    <2> DEFINE F == {k \in InROB : OpsDone(s, k) > 0 /\ ROB[k].num_mem_ops = OpsDone(s, k)}
               M == MemInFlight(st0)
    <2>1. MemInFlight(n) = M \cup F
      <3>1. \A k \in InROB : n.ROB[k].num_mem_ops = 0
              <=> \/ ROB[k].num_mem_ops = 0
                  \/ OpsDone(s, k) > 0 /\ ROB[k].num_mem_ops = OpsDone(s, k)
        BY <1>7, <1>24
      <3> QED
        BY <1>2, <1>6, <1>24, <3>1 DEF MemInFlight
    <2>2. M \cap F = {} /\ M \in SUBSET InROB /\ F \in SUBSET InROB
      BY <1>2, <1>24 DEF MemInFlight
    <2>3. IsFiniteSet(M) /\ IsFiniteSet(F)
      BY <1>1, <2>2, BufferFacts, FS_Subset
    <2>4. Cardinality(M \cup F) = Cardinality(M) + Cardinality(F)
      BY <2>2, <2>3, DisjointUnion
    <2>5. n.inflight = inflight_mem_executions + Cardinality(F)
      BY DEF Executes
    <2>6. inflight_mem_executions = Cardinality(M)
      BY <1>1, <1>2 DEF MemInFlightCounted
    <2> QED
      BY <2>1, <2>4, <2>5, <2>6 DEF MemInFlightCounted
  <1> QED
    BY <1>13, <1>14, <1>15, <1>16, <1>17, <1>19, <1>20, <1>21, <1>22, <1>23, <1>25, <1>26
    DEF QueuesInv, EntriesInv

\* execute_store, whole, keeps the inductive invariant.
LEMMA ExecuteStorePreserves ==
    ASSUME CoreInv, NEW s \in SQIndex, execute_store(s)
    PROVE  CoreInv'
  <1>1. PICK n : Becomes(n) /\ Executes(s, n) /\ Executing(s) /\ OwnLoads(s)
    BY ExecuteEffect
  <1>2. QueuesInv(n)
    BY <1>1, ExecutesKeeps
  <1>3. TypedState(n)
    BY <1>1 DEF Executes
  <1>4. \A k \in InROB :
          /\ n.ROB[k].reg_ready = ROB[k].reg_ready
          /\ n.ROB[k].num_reg_dependent = ROB[k].num_reg_dependent
          /\ n.ROB[k].registers_index_depend_on_me = ROB[k].registers_index_depend_on_me
          /\ n.ROB[k].scheduled = ROB[k].scheduled
          /\ n.ROB[k].executed = ROB[k].executed
          /\ n.ROB[k].lq_index = ROB[k].lq_index
          /\ n.ROB[k].sq_index = ROB[k].sq_index
    BY <1>1 DEF Executes
  <1> QED
    BY <1>1, <1>2, <1>3, <1>4, BecomesPreserves

-----------------------------------------------------------------------------
(* The oldest instruction retires.                                         *)

\* What has executed has read all its loads, and its stores have executed.
LEMMA CompletedFacts ==
    ASSUME CoreInv, NEW h \in InROB, ROB[h].executed = COMPLETED
    PROVE  /\ h < next_schedule
           /\ \A j \in DOMAIN program[h].loads : data[h][j] # NONE
           /\ \A l \in LQIndex : LQ[l] # NONE => LQ[l].instr # h
           /\ \A j \in DOMAIN program[h].stores :
                /\ ROB[h].sq_index[j] \in SQIndex
                /\ SQ[ROB[h].sq_index[j]] # NONE
                /\ SQ[ROB[h].sq_index[j]].instr = h /\ SQ[ROB[h].sq_index[j]].slot = j
                /\ SQ[ROB[h].sq_index[j]].state = "executed"
           /\ \A addr \in Range(program[h].stores) : Forwards(st0, h, addr)
           /\ \A s \in SQIndex : s \in Range(ROB[h].sq_index) <=> SQ[s] # NONE /\ SQ[s].instr = h
  <1>1. /\ TypeOK /\ RegistersInv /\ OpsCounted(st0) /\ DoneWhenCompleted(st0) /\ LoadEntries(st0)
        /\ StoreEntries(st0) /\ StoreSlots(st0)
        /\ st0.SQ = SQ /\ st0.ROB = ROB /\ st0.LQ = LQ /\ st0.data = data
    BY DEF CoreInv, QueuesInv, EntriesInv, st0
  <1>2. h \in Nat /\ next_schedule \in Nat /\ ROB[h] \in Entry(h)
    BY <1>1, BufferFacts DEF TypeOK
  <1>3. h < next_schedule
    <2>1. ROB[h].reg_ready
      BY <1>1 DEF RegistersInv, ReadyBeforeUse, COMPLETED
    <2> QED
      BY <1>1, <1>2, <2>1 DEF RegistersInv, UnscheduledIdle
  <1>4. OpenLoads(st0, h) = {} /\ OpenStores(st0, h) = {}
    <2>1. Cardinality(OpenLoads(st0, h)) + Cardinality(OpenStores(st0, h)) = 0
      BY <1>1 DEF OpsCounted, DoneWhenCompleted
    <2>2. /\ IsFiniteSet(OpenLoads(st0, h)) /\ IsFiniteSet(OpenStores(st0, h))
          /\ Cardinality(OpenLoads(st0, h)) \in Nat /\ Cardinality(OpenStores(st0, h)) \in Nat
      BY <1>1, OpenFacts
    <2>3. Cardinality(OpenLoads(st0, h)) = 0 /\ Cardinality(OpenStores(st0, h)) = 0
      BY <2>1, <2>2
    <2> QED
      BY <2>2, <2>3, FS_EmptySet
  <1>5. \A j \in DOMAIN program[h].loads : data[h][j] # NONE
    BY <1>1, <1>4 DEF OpenLoads
  <1>6. \A l \in LQIndex : LQ[l] # NONE => LQ[l].instr # h
    BY <1>1, <1>5 DEF LoadEntries
  <1>7. ASSUME NEW j \in DOMAIN program[h].stores
        PROVE  /\ ROB[h].sq_index[j] \in SQIndex
               /\ SQ[ROB[h].sq_index[j]] # NONE
               /\ SQ[ROB[h].sq_index[j]].instr = h /\ SQ[ROB[h].sq_index[j]].slot = j
               /\ SQ[ROB[h].sq_index[j]].state = "executed"
    <2>1. ROB[h].sq_index[j] # NONE /\ SQ[ROB[h].sq_index[j]].state = "executed"
      BY <1>1, <1>4 DEF OpenStores
    <2>2. ROB[h].sq_index[j] \in SQIndex
      BY <1>2, <2>1 DEF Entry
    <2> QED
      BY <1>1, <2>1, <2>2 DEF StoreSlots
  <1>8. ASSUME NEW addr \in Range(program[h].stores)
        PROVE  Forwards(st0, h, addr)
    <2>1. PICK j \in DOMAIN program[h].stores : program[h].stores[j] = addr
      BY DEF Range
    <2> QED
      BY <1>1, <1>7, <2>1 DEF Forwards
  <1>9. ASSUME NEW s \in SQIndex
        PROVE  s \in Range(ROB[h].sq_index) <=> SQ[s] # NONE /\ SQ[s].instr = h
    <2>1. DOMAIN ROB[h].sq_index = DOMAIN program[h].stores
      BY <1>2 DEF Entry
    <2>2. ASSUME s \in Range(ROB[h].sq_index)
          PROVE  SQ[s] # NONE /\ SQ[s].instr = h
      <3>1. PICK j \in DOMAIN program[h].stores : ROB[h].sq_index[j] = s
        BY <2>1, <2>2 DEF Range
      <3> QED
        BY <1>7, <3>1
    <2>3. ASSUME SQ[s] # NONE, SQ[s].instr = h
          PROVE  s \in Range(ROB[h].sq_index)
      <3>1. SQ[s].slot \in DOMAIN program[h].stores /\ ROB[h].sq_index[SQ[s].slot] = s
        BY <1>1, <2>3 DEF StoreEntries
      <3> QED
        BY <2>1, <3>1 DEF Range
    <2> QED
      BY <2>2, <2>3
  <1> QED
    BY <1>3, <1>5, <1>6, <1>7, <1>8, <1>9

\* What changes.
LEMMA RetireEffect ==
    ASSUME CoreInv, retire_rob
    PROVE  /\ UNCHANGED <<program, tail, next_schedule, RTE0, RTE1>>
           /\ UNCHANGED <<STA, LQ, SQ_tail, data>>
           /\ UNCHANGED <<inflight_reg_executions, inflight_mem_executions>>
           /\ head \in InROB /\ head' = head + 1 /\ ROB[head].executed = COMPLETED
           /\ Instr' = Instr /\ \A k : is_memory(k)' = is_memory(k)
           /\ \A k : k \in InROB' <=> k \in InROB /\ k # head
           /\ \A k \in InROB : k \in Nat /\ head <= k /\ k < tail /\ k \in Instr
           /\ DOMAIN ROB' = Instr /\ ROB'[head] = NONE
           /\ \A k \in Instr : k # head => ROB'[k] = ROB[k]
           /\ SQ' \in [SQIndex -> Storing \cup {NONE}]
           /\ \A s \in SQIndex : SQ'[s] # NONE <=> SQ[s] # NONE /\ SQ[s].instr # head
           /\ \A s \in SQIndex : SQ'[s] # NONE => SQ'[s] = SQ[s]
  <1>1. TypeOK
    BY DEF CoreInv
  <1>2. /\ head \in Nat /\ tail \in Nat /\ DOMAIN ROB = Instr
        /\ SQ \in [SQIndex -> Storing \cup {NONE}]
        /\ \A k : k \in InROB <=> k \in Nat /\ head <= k /\ k < tail
        /\ InROB \in SUBSET Instr
    BY <1>1, BufferFacts DEF TypeOK
  <1>3. /\ UNCHANGED <<program, tail, next_schedule, RTE0, RTE1>>
        /\ UNCHANGED <<STA, LQ, SQ_tail, data>>
        /\ UNCHANGED <<inflight_reg_executions, inflight_mem_executions>>
        /\ head \in InROB /\ head' = head + 1 /\ ROB[head].executed = COMPLETED
        /\ ROB' = [ROB EXCEPT ![head] = NONE]
        /\ SQ' = [s \in SQIndex |-> IF s \in Range(ROB[head].sq_index) THEN NONE ELSE SQ[s]]
    BY DEF retire_rob, inflight
  <1>4. Instr' = Instr /\ \A k : is_memory(k)' = is_memory(k)
    BY <1>3 DEF Instr, is_memory
  <1>5. \A k : k \in InROB' <=> k \in InROB /\ k # head
    <2>1. InROB' = (head + 1)..(tail - 1)
      BY <1>3 DEF InROB
    <2> QED
      BY <1>2, <2>1
  <1>6. \A s \in SQIndex : s \in Range(ROB[head].sq_index) <=> SQ[s] # NONE /\ SQ[s].instr = head
    BY <1>3, CompletedFacts
  <1>7. /\ SQ' \in [SQIndex -> Storing \cup {NONE}]
        /\ \A s \in SQIndex : SQ'[s] # NONE <=> SQ[s] # NONE /\ SQ[s].instr # head
        /\ \A s \in SQIndex : SQ'[s] # NONE => SQ'[s] = SQ[s]
    BY <1>2, <1>3, <1>6
  <1> QED
    BY <1>2, <1>3, <1>4, <1>5, <1>7

\* The head of the buffer can leave: it is completed, so no younger
\* instruction waits for one of its registers.
LEMMA RetireKeepsRegisters ==
    ASSUME CoreInv, retire_rob
    PROVE  /\ TypeOK' /\ RegistersInv' /\ ReadyInv'
           /\ (inflight_reg_executions = Cardinality(RegInFlight))'
  <1>1. TypeOK /\ RegistersInv /\ ReadyInv /\ inflight_reg_executions = Cardinality(RegInFlight)
    BY DEF CoreInv
  <1>2. /\ UNCHANGED <<program, tail, next_schedule, RTE0, RTE1>>
        /\ UNCHANGED <<STA, LQ, SQ_tail, data>>
        /\ UNCHANGED <<inflight_reg_executions, inflight_mem_executions>>
        /\ head \in InROB /\ head' = head + 1 /\ ROB[head].executed = COMPLETED
        /\ Instr' = Instr /\ \A k : is_memory(k)' = is_memory(k)
        /\ \A k : k \in InROB' <=> k \in InROB /\ k # head
        /\ \A k \in InROB : k \in Nat /\ head <= k /\ k < tail /\ k \in Instr
        /\ DOMAIN ROB' = Instr /\ ROB'[head] = NONE
        /\ \A k \in Instr : k # head => ROB'[k] = ROB[k]
        /\ SQ' \in [SQIndex -> Storing \cup {NONE}]
    BY RetireEffect
  <1>3. \A k \in InROB : k # head => ROB'[k] = ROB[k]
    BY <1>2
  <1>4. head < next_schedule
    BY <1>2, CompletedFacts
  <1>5. head \notin Range(RTE0) /\ head \notin Range(RTE1)
    BY <1>1, <1>2 DEF ReadyInv, COMPLETED
  <1>6. RTE0 \in Seq(InROB') /\ RTE1 \in Seq(InROB')
    <2>1. ASSUME NEW q \in Seq(InROB), head \notin Range(q)
          PROVE  q \in Seq(InROB')
      <3>1. \A a \in 1..Len(q) : q[a] \in InROB'
        BY <1>2, <2>1 DEF Range
      <3> QED
        BY <3>1
    <2> QED
      BY <1>1, <1>5, <2>1 DEF TypeOK
  <1>7. TypeOK'
    <2>1. \A k : Entry(k)' = Entry(k)
      BY <1>2 DEF Entry, LQIndex, SQIndex
    <2>2. /\ DOMAIN ROB' = Instr'
          /\ \A k \in Instr' : IF k \in InROB' THEN ROB'[k] \in Entry(k)' ELSE ROB'[k] = NONE
      BY <1>1, <1>2, <2>1 DEF TypeOK
    <2>3. /\ head' \in 1..tail' /\ tail' \in 1..(Len(program') + 1) /\ tail' - head' <= ROB_SIZE
          /\ next_schedule' \in head'..tail'
      BY <1>1, <1>2, <1>4, BufferFacts, Sizes DEF TypeOK
    <2> QED
      BY <1>1, <1>2, <1>6, <2>2, <2>3 DEF TypeOK, LQIndex, SQIndex
  <1>8. \A k : Pending(k)' = Pending(k)
    <2> SUFFICES ASSUME NEW k
                 PROVE  Pending(k)' = Pending(k)
      OBVIOUS
    <2>1. ASSUME NEW j
          PROVE  (\E p \in InROB' : /\ ROB'[p].executed # COMPLETED
                                    /\ <<k, j>> \in ROB'[p].registers_index_depend_on_me)
             <=> \E p \in InROB : /\ ROB[p].executed # COMPLETED
                                  /\ <<k, j>> \in ROB[p].registers_index_depend_on_me
      BY <1>2, <1>3
    <2> QED
      BY <1>2, <2>1 DEF Pending, COMPLETED
  <1>9. UnscheduledIdle' /\ ReadyBeforeUse'
    BY <1>1, <1>2, <1>3 DEF RegistersInv, UnscheduledIdle, ReadyBeforeUse, NoIndex
  <1>10. NotesValid' /\ NotedOnce'
    BY <1>1, <1>2, <1>3 DEF RegistersInv, NotesValid, NotedOnce
  <1>11. PendingCounted'
    BY <1>1, <1>2, <1>3, <1>8 DEF RegistersInv, PendingCounted
  <1>12. LastWriterNoted'
    <2>1. \A w, i, j : LastWrites(w, i, j)' <=> LastWrites(w, i, j)
      BY <1>2 DEF LastWrites
    <2> QED
      BY <1>1, <1>2, <1>3, <2>1 DEF RegistersInv, LastWriterNoted, COMPLETED
  <1>13. ReadyInv'
    <2> SUFFICES ASSUME NEW i \in Range(RTE0) \cup Range(RTE1)
                 PROVE  ~is_memory(i)' /\ ROB'[i].reg_ready /\ ROB'[i].executed = 0
      BY <1>2 DEF ReadyInv
    <2>1. i \in InROB /\ i # head
      BY <1>1, <1>5, RangeOfSeq DEF TypeOK
    <2> QED
      BY <1>1, <1>2, <1>3, <2>1 DEF ReadyInv
  <1>14. RegInFlight' = RegInFlight
    BY <1>2, <1>3 DEF RegInFlight, INFLIGHT, COMPLETED
  <1> QED
    BY <1>1, <1>2, <1>7, <1>9, <1>10, <1>11, <1>12, <1>13, <1>14 DEF RegistersInv

\* The stores of the retiring head leave the queue and become the memory's
\* last ones, so a load that had the head as its last store finds its data in
\* memory.
LEMMA RetireKeepsQueues ==
    ASSUME CoreInv, retire_rob
    PROVE  QueuesInv(st0)'
  <1>1. /\ TypeOK
        /\ LoadEntries(st0) /\ LoadSlots(st0) /\ WaitsForLast(st0) /\ ReadsLast(st0)
        /\ NotedLoads(st0) /\ StoreEntries(st0) /\ StoreSlots(st0) /\ Ring(st0)
        /\ StoresInOrder(st0) /\ OpsCounted(st0)
        /\ DoneWhenCompleted(st0) /\ MemInFlightCounted(st0) /\ TypedState(st0)
    BY InitialState DEF CoreInv, QueuesInv, EntriesInv, Entering
  <1>2. /\ UNCHANGED <<program, tail>>
        /\ UNCHANGED <<STA, LQ, SQ_tail, data>>
        /\ UNCHANGED inflight_mem_executions
        /\ head \in InROB /\ head' = head + 1 /\ ROB[head].executed = COMPLETED
        /\ Instr' = Instr /\ \A k : is_memory(k)' = is_memory(k)
        /\ \A k : k \in InROB' <=> k \in InROB /\ k # head
        /\ \A k \in InROB : k \in Nat /\ head <= k /\ k < tail /\ k \in Instr
    BY RetireEffect
  <1>3. /\ \A k \in InROB : k # head => ROB'[k] = ROB[k]
        /\ \A s \in SQIndex : SQ'[s] # NONE <=> SQ[s] # NONE /\ SQ[s].instr # head
        /\ \A s \in SQIndex : SQ'[s] # NONE => SQ'[s] = SQ[s]
    BY RetireEffect
  <1>4. head \in Nat /\ head' \in Nat
    BY <1>2
  <1>5. /\ st0.SQ = SQ /\ st0.ROB = ROB /\ st0.LQ = LQ /\ st0.data = data
        /\ st0.SQ_tail = SQ_tail /\ st0.STA = STA /\ st0.inflight = inflight_mem_executions
    BY DEF st0
  <1>6. /\ st0'.SQ = SQ' /\ st0'.ROB = ROB' /\ st0'.LQ = LQ /\ st0'.data = data
        /\ st0'.SQ_tail = SQ_tail /\ st0'.STA = STA /\ st0'.inflight = inflight_mem_executions
    BY <1>2 DEF st0
  <1>7. /\ \A l \in LQIndex : LQ[l] # NONE => LQ[l].instr # head
        /\ \A addr \in Range(program[head].stores) : Forwards(st0, head, addr)
    BY <1>2, CompletedFacts
  <1>8. /\ \A p, i, addr : NotStored(p, i, addr)' = NotStored(p, i, addr)
        /\ \A p, i, addr : LastStore(p, i, addr)' = LastStore(p, i, addr)
    BY <1>2 DEF LastStore, NotStored
  <1>9. \A p, addr : Forwards(st0, p, addr)' <=> Forwards(st0, p, addr) /\ p # head
    <2> SUFFICES ASSUME NEW p, NEW addr
                 PROVE  Forwards(st0, p, addr)' <=> Forwards(st0, p, addr) /\ p # head
      OBVIOUS
    <2>1. Forwards(st0, p, addr)' <=>
            \E s \in SQIndex : /\ SQ'[s] # NONE
                               /\ SQ'[s].instr = p
                               /\ program[p].stores[SQ'[s].slot] = addr
                               /\ SQ'[s].state = "executed"
      BY <1>2, <1>6 DEF Forwards, SQIndex
    <2>2. Forwards(st0, p, addr) <=>
            \E s \in SQIndex : /\ SQ[s] # NONE
                               /\ SQ[s].instr = p
                               /\ program[p].stores[SQ[s].slot] = addr
                               /\ SQ[s].state = "executed"
      BY <1>5 DEF Forwards
    <2> QED
      BY <1>3, <2>1, <2>2
  <1>10. LoadEntries(st0)'
    <2> SUFFICES ASSUME NEW l \in LQIndex, LQ[l] # NONE
                 PROVE  /\ LQ[l].instr \in InROB'
                        /\ LQ[l].slot \in DOMAIN program[LQ[l].instr].loads
                        /\ ROB'[LQ[l].instr].lq_index[LQ[l].slot] = l
                        /\ data[LQ[l].instr][LQ[l].slot] = NONE
                        /\ (LQ[l].state = "waiting") <=> (LQ[l].producer # NONE)
      BY <1>2, <1>6 DEF LoadEntries, LQIndex
    <2>1. /\ LQ[l].instr \in InROB
          /\ LQ[l].slot \in DOMAIN program[LQ[l].instr].loads
          /\ ROB[LQ[l].instr].lq_index[LQ[l].slot] = l
          /\ data[LQ[l].instr][LQ[l].slot] = NONE
          /\ (LQ[l].state = "waiting") <=> (LQ[l].producer # NONE)
      BY <1>1, <1>5 DEF LoadEntries
    <2> QED
      BY <1>2, <1>3, <1>7, <2>1
  <1>11. LoadSlots(st0)'
    <2> SUFFICES ASSUME NEW k \in InROB', NEW b \in DOMAIN program[k].loads
                 PROVE  IF ROB'[k].lq_index[b] = NONE THEN data[k][b] = NONE
                        ELSE \/ data[k][b] # NONE
                             \/ LET q == LQ[ROB'[k].lq_index[b]]
                                IN  q # NONE /\ q.instr = k /\ q.slot = b
      BY <1>2, <1>6 DEF LoadSlots
    <2>1. k \in InROB /\ ROB'[k] = ROB[k]
      BY <1>2, <1>3
    <2> QED
      BY <1>1, <1>5, <2>1 DEF LoadSlots
  <1>12. WaitsForLast(st0)'
    <2> SUFFICES ASSUME NEW l \in LQIndex, LQ[l] # NONE
                 PROVE  LET i    == LQ[l].instr
                            addr == program[i].loads[LQ[l].slot]
                            p    == LQ[l].producer
                        IN  IF p = NONE THEN NotStored(head', i, addr)
                            ELSE /\ p \in InROB' /\ LastStore(p, i, addr)
                                 /\ i \in ROB'[p].memory_instrs_depend_on_me
                                 /\ ~Forwards(st0, p, addr)
      <3> SUFFICES ASSUME NEW l \in LQIndex', st0'.LQ[l] # NONE
                   PROVE  WaitsFor(st0, l)'
        BY DEF WaitsForLast
      <3>1. l \in LQIndex /\ LQ[l] # NONE
        BY <1>2, <1>6 DEF LQIndex
      <3> DEFINE i    == LQ[l].instr
                 addr == program[i].loads[LQ[l].slot]
                 p    == LQ[l].producer
      <3>2. IF p = NONE THEN NotStored(head', i, addr)
            ELSE /\ p \in InROB' /\ LastStore(p, i, addr)
                 /\ i \in ROB'[p].memory_instrs_depend_on_me
                 /\ ~Forwards(st0, p, addr)
        BY <3>1
      <3> QED
        BY <1>2, <1>6, <1>8, <1>9, <3>1, <3>2 DEF WaitsFor, ProducerOf
    <2> DEFINE i    == LQ[l].instr
               addr == program[i].loads[LQ[l].slot]
               p    == LQ[l].producer
    <2>1. IF p = NONE THEN NotStored(head, i, addr) ELSE ProducerOf(st0, p, i, addr)
      BY <1>1, <1>5 DEF WaitsForLast, WaitsFor
    <2>2. CASE p = NONE
      <3>1. NotStored(head, i, addr)
        BY <2>1, <2>2
      <3>2. i \in InROB
        BY <1>1, <1>5 DEF LoadEntries
      <3> HIDE DEF i, addr
      <3>3. NotStored(head', i, addr)
        BY <1>2, <1>4, <3>1, <3>2 DEF NotStored
      <3> QED
        BY <2>2, <3>3 DEF i, addr
    <2>3. CASE p # NONE
      <3>1. /\ p \in InROB /\ LastStore(p, i, addr)
            /\ i \in ROB[p].memory_instrs_depend_on_me
            /\ ~Forwards(st0, p, addr)
        BY <1>5, <2>1, <2>3 DEF ProducerOf
      <3>2. p # head
        <4>1. p # 0 => addr \in Range(program[p].stores)
          BY <3>1 DEF LastStore
        <4>2. head # 0
          BY <1>1, <1>4, BufferFacts
        <4> QED
          BY <1>7, <3>1, <4>1, <4>2
      <3>3. p \in InROB' /\ i \in ROB'[p].memory_instrs_depend_on_me
        BY <1>2, <1>3, <3>1, <3>2
      <3> QED
        BY <2>3, <3>1, <3>3
    <2> QED
      BY <2>2, <2>3
  <1>13. ReadsLast(st0)'
    <2> SUFFICES ASSUME NEW k \in Instr, NEW b \in DOMAIN program[k].loads, data[k][b] # NONE
                 PROVE  /\ k < tail
                        /\ \/ data[k][b] = ASTRAY /\ MayGoAstray(k, program[k].loads[b])
                           \/ /\ LastStore(data[k][b], k, program[k].loads[b])
                              /\ data[k][b] \in InROB' /\ k \in InROB'
                                   => Forwards(st0, data[k][b], program[k].loads[b])'
      BY <1>2, <1>6, <1>8, AstrayStays DEF ReadsLast, Instr
    <2> QED
      BY <1>1, <1>2, <1>5, <1>9 DEF ReadsLast
  <1>14. NotedLoads(st0)'
    <2> SUFFICES ASSUME NEW p \in InROB', NEW d \in ROB'[p].memory_instrs_depend_on_me
                 PROVE  /\ d \in InROB'
                        /\ \E j \in DOMAIN program[d].loads : LastStore(p, d, program[d].loads[j])
      BY <1>2, <1>6, <1>8 DEF NotedLoads
    <2>1. p \in InROB /\ p # head /\ d \in ROB[p].memory_instrs_depend_on_me
      BY <1>2, <1>3
    <2>2. /\ d \in InROB
          /\ \E j \in DOMAIN program[d].loads : LastStore(p, d, program[d].loads[j])
      BY <1>1, <1>5, <2>1 DEF NotedLoads
    <2>3. p < d
      BY <1>2, <2>1, <2>2 DEF LastStore
    <2>4. d # head
      BY <1>2, <2>1, <2>2, <2>3
    <2> QED
      BY <1>2, <2>2, <2>4
  <1>15. StoreEntries(st0)'
    <2> SUFFICES ASSUME NEW x \in SQIndex, SQ'[x] # NONE
                 PROVE  /\ SQ'[x].instr \in InROB'
                        /\ SQ'[x].slot \in DOMAIN program[SQ'[x].instr].stores
                        /\ ROB'[SQ'[x].instr].sq_index[SQ'[x].slot] = x
      BY <1>2, <1>6 DEF StoreEntries, SQIndex
    <2>1. SQ'[x] = SQ[x] /\ SQ[x] # NONE /\ SQ[x].instr # head
      BY <1>3
    <2>2. /\ SQ[x].instr \in InROB
          /\ SQ[x].slot \in DOMAIN program[SQ[x].instr].stores
          /\ ROB[SQ[x].instr].sq_index[SQ[x].slot] = x
      BY <1>1, <1>5, <2>1 DEF StoreEntries
    <2> QED
      BY <1>2, <1>3, <2>1, <2>2
  <1>16. \A k \in InROB' : \A b \in DOMAIN program[k].stores :
           /\ ROB'[k].sq_index[b] = ROB[k].sq_index[b]
           /\ ROB[k].sq_index[b] # NONE =>
                LET x == ROB[k].sq_index[b]
                IN  SQ'[x] = SQ[x] /\ SQ[x] # NONE /\ SQ[x].instr = k /\ SQ[x].slot = b
    <2> SUFFICES ASSUME NEW k \in InROB', NEW b \in DOMAIN program[k].stores,
                        NEW x, x = ROB[k].sq_index[b]
                 PROVE  /\ ROB'[k].sq_index[b] = x
                        /\ x # NONE => SQ'[x] = SQ[x] /\ SQ[x] # NONE /\ SQ[x].instr = k
                                       /\ SQ[x].slot = b
      OBVIOUS
    <2>1. k \in InROB /\ k # head /\ ROB'[k] = ROB[k]
      BY <1>2, <1>3
    <2>2. ASSUME x # NONE
          PROVE  SQ'[x] = SQ[x] /\ SQ[x] # NONE /\ SQ[x].instr = k /\ SQ[x].slot = b
      <3>1. ROB[k] \in Entry(k)
        BY <1>1, <1>5, <2>1 DEF TypedState
      <3>2. x \in SQIndex
        BY <2>2, <3>1 DEF Entry
      <3>3. SQ[x] # NONE /\ SQ[x].instr = k /\ SQ[x].slot = b
        BY <1>1, <1>5, <2>1, <2>2 DEF StoreSlots
      <3> QED
        BY <1>3, <2>1, <3>2, <3>3
    <2> QED
      BY <2>1, <2>2
  <1>17. StoreSlots(st0)'
    <2> SUFFICES ASSUME NEW k \in InROB', NEW b \in DOMAIN program[k].stores,
                        ROB'[k].sq_index[b] # NONE
                 PROVE  LET q == SQ'[ROB'[k].sq_index[b]]
                        IN  q # NONE /\ q.instr = k /\ q.slot = b
      BY <1>2, <1>6 DEF StoreSlots
    <2> DEFINE x == ROB[k].sq_index[b]
    <2>1. ROB'[k].sq_index[b] = x
      BY <1>16
    <2>2. SQ'[x] = SQ[x] /\ SQ[x] # NONE /\ SQ[x].instr = k /\ SQ[x].slot = b
      BY <1>16, <2>1
    <2> QED
      BY <2>1, <2>2
  <1>18. Ring(st0)'
    <2>1. \A k : Back(st0', k) = Back(st0, k)
      BY <1>5, <1>6 DEF Back
    <2> SUFFICES ASSUME NEW k \in 1..SQ_SIZE, NEW m \in 1..(k - 1), SQ'[Back(st0, k)] # NONE
                 PROVE  /\ SQ'[Back(st0, m)] # NONE
                        /\ SQ'[Back(st0, k)].instr <= SQ'[Back(st0, m)].instr
      BY <1>6, <2>1 DEF Ring
    <2>2. m \in 1..SQ_SIZE
      BY Sizes
    <2>3. Back(st0, k) \in SQIndex /\ Back(st0, m) \in SQIndex
      BY <1>1, <2>2, BackInRange DEF TypedState
    <2>4. SQ'[Back(st0, k)] = SQ[Back(st0, k)] /\ SQ[Back(st0, k)] # NONE
          /\ SQ[Back(st0, k)].instr # head
      BY <1>3, <2>3
    <2>5. SQ[Back(st0, m)] # NONE /\ SQ[Back(st0, k)].instr <= SQ[Back(st0, m)].instr
      BY <1>1, <1>5, <2>4 DEF Ring
    <2>6. SQ[Back(st0, k)].instr \in InROB /\ SQ[Back(st0, m)].instr \in InROB
      BY <1>1, <1>5, <2>3, <2>4, <2>5 DEF StoreEntries
    <2>7. SQ[Back(st0, m)].instr # head
      <3>1. \A a, b \in InROB : a # head /\ a <= b => b # head
        BY <1>2
      <3> QED
        BY <2>4, <2>5, <2>6, <3>1
    <2>8. SQ'[Back(st0, m)] = SQ[Back(st0, m)] /\ SQ'[Back(st0, m)] # NONE
      BY <1>3, <2>3, <2>5, <2>7
    <2> QED
      BY <2>4, <2>5, <2>8
  <1>19. StoresInOrder(st0)'
    <2>1. /\ \A a, b \in DOMAIN STA : a <= b => STA[a] <= STA[b]
          /\ \A a \in DOMAIN STA : STA[a] < tail
          /\ \A s \in SQIndex : \A a \in DOMAIN STA : SQ[s] # NONE => SQ[s].instr <= STA[a]
      BY <1>1, <1>5 DEF StoresInOrder
    <2>2. \A s \in SQIndex : \A a \in DOMAIN STA : SQ'[s] # NONE => SQ'[s].instr <= STA[a]
      BY <1>3, <2>1
    <2> QED
      BY <1>2, <1>6, <2>1, <2>2 DEF StoresInOrder, SQIndex
  <1>20. OpsCounted(st0)'
    <2> SUFFICES ASSUME NEW k \in InROB'
                 PROVE  ROB'[k].num_mem_ops
                          = Cardinality(OpenLoads(st0', k)) + Cardinality(OpenStores(st0', k))
      <3>1. \A k : OpenLoads(st0, k)' = OpenLoads(st0', k) /\ OpenStores(st0, k)' = OpenStores(st0', k)
        BY <1>2, <1>6 DEF OpenLoads, OpenStores
      <3> QED
        BY <1>6, <3>1 DEF OpsCounted
    <2>1. k \in InROB /\ ROB'[k] = ROB[k]
      BY <1>2, <1>3
    <2>2. OpenLoads(st0', k) = OpenLoads(st0, k)
      BY <1>5, <1>6 DEF OpenLoads
    <2>3. OpenStores(st0', k) = OpenStores(st0, k)
      <3>1. \A b \in DOMAIN program[k].stores :
              (\/ ROB'[k].sq_index[b] = NONE \/ SQ'[ROB'[k].sq_index[b]].state # "executed")
          <=> (\/ ROB[k].sq_index[b] = NONE \/ SQ[ROB[k].sq_index[b]].state # "executed")
        BY <1>16
      <3> QED
        BY <1>5, <1>6, <3>1 DEF OpenStores
    <2> QED
      BY <1>1, <1>5, <2>1, <2>2, <2>3 DEF OpsCounted
  <1>21. DoneWhenCompleted(st0)' /\ MemInFlightCounted(st0)'
    <2>1. MemInFlight(st0)' = MemInFlight(st0)
      BY <1>2, <1>3, <1>5, <1>6 DEF MemInFlight, COMPLETED
    <2>2. MemInFlightCounted(st0)'
      BY <1>1, <1>5, <1>6, <2>1 DEF MemInFlightCounted
    <2>3. DoneWhenCompleted(st0)'
      <3> SUFFICES ASSUME NEW k \in InROB', ROB'[k].executed = COMPLETED
                   PROVE  ROB'[k].num_mem_ops = 0
        BY <1>6 DEF DoneWhenCompleted, COMPLETED
      <3>1. k \in InROB /\ ROB'[k] = ROB[k]
        BY <1>2, <1>3
      <3> QED
        BY <1>1, <1>5, <3>1 DEF DoneWhenCompleted
    <2> QED
      BY <2>2, <2>3
  <1> QED
    BY <1>10, <1>11, <1>12, <1>13, <1>14, <1>15, <1>17, <1>18, <1>19, <1>20, <1>21
    DEF QueuesInv, EntriesInv

\* retire_rob, whole, keeps the inductive invariant.
LEMMA RetirePreserves ==
    ASSUME CoreInv, retire_rob
    PROVE  CoreInv'
  BY RetireKeepsRegisters, RetireKeepsQueues DEF CoreInv

-----------------------------------------------------------------------------
(* The invariant of the whole core.                                        *)

\* It holds of the empty buffer,
LEMMA InitInv == Init => CoreInv
  <1> SUFFICES ASSUME Init PROVE CoreInv
    OBVIOUS
  <1>1. /\ program \in Programs /\ program \in Seq(Instruction)
        /\ Len(program) \in Nat /\ Instr = 1..Len(program)
        /\ head = 1 /\ tail = 1 /\ next_schedule = 1 /\ InROB = {}
        /\ RTE0 = <<>> /\ RTE1 = <<>> /\ STA = <<>>
        /\ SQ_tail = 0 /\ inflight_reg_executions = 0 /\ inflight_mem_executions = 0
    BY CoreAssumption, LenProperties DEF Init, Instr, InROB
  <1>2. /\ DOMAIN ROB = Instr /\ \A k \in Instr : ROB[k] = NONE
        /\ DOMAIN LQ = LQIndex /\ \A l \in LQIndex : LQ[l] = NONE
        /\ DOMAIN SQ = SQIndex /\ \A s \in SQIndex : SQ[s] = NONE
        /\ DOMAIN data = Instr
        /\ \A i \in Instr : data[i] \in [DOMAIN program[i].loads -> {NONE}]
    BY DEF Init
  <1>3. TypeOK
    <2>1. /\ RTE0 \in Seq(InROB) /\ IsInjective(RTE0) /\ Range(RTE0) = {}
          /\ RTE1 \in Seq(InROB) /\ IsInjective(RTE1) /\ Range(RTE1) = {}
          /\ STA \in Seq(Instr)
      BY <1>1, EmptySeq DEF IsInjective, Range
    <2>2. /\ LQ \in [LQIndex -> Loading \cup {NONE}] /\ SQ \in [SQIndex -> Storing \cup {NONE}]
      BY DEF Init
    <2>3. /\ head \in 1..tail /\ tail \in 1..(Len(program) + 1) /\ tail - head <= ROB_SIZE
          /\ next_schedule \in head..tail /\ SQ_tail \in SQIndex
      BY <1>1, Sizes DEF SQIndex
    <2>4. \A i \in Instr : data[i] \in [DOMAIN program[i].loads -> {NONE, ASTRAY, 0} \cup Instr]
      BY <1>2
    <2> QED
      BY <1>1, <1>2, <2>1, <2>2, <2>3, <2>4 DEF TypeOK
  <1>4. RegistersInv
    BY <1>1 DEF RegistersInv, UnscheduledIdle, ReadyBeforeUse, NotesValid, NotedOnce,
                PendingCounted, LastWriterNoted
  <1>5. ReadyInv
    BY <1>1 DEF ReadyInv, Range
  <1>6. QueuesInv(st0)
    <2>1. /\ st0.SQ = SQ /\ st0.ROB = ROB /\ st0.LQ = LQ /\ st0.data = data
          /\ st0.SQ_tail = SQ_tail /\ st0.STA = STA /\ st0.inflight = inflight_mem_executions
      BY DEF st0
    <2>2. LoadEntries(st0) /\ WaitsForLast(st0) /\ StoreEntries(st0)
      BY <1>2, <2>1 DEF LoadEntries, WaitsForLast, StoreEntries
    <2>3. LoadSlots(st0) /\ NotedLoads(st0) /\ StoreSlots(st0) /\ OpsCounted(st0)
          /\ DoneWhenCompleted(st0)
      BY <1>1 DEF LoadSlots, NotedLoads, StoreSlots, OpsCounted, DoneWhenCompleted
    <2>4. ReadsLast(st0)
      BY <1>2, <2>1 DEF ReadsLast
    <2>5. Ring(st0)
      <3>1. st0.SQ_tail \in SQIndex
        BY <1>1, <2>1, Sizes DEF SQIndex
      <3>2. \A k \in 1..SQ_SIZE : Back(st0, k) \in SQIndex
        BY <3>1, BackInRange
      <3> QED
        BY <1>2, <2>1, <3>2 DEF Ring
    <2>6. StoresInOrder(st0)
      BY <1>1, <2>1 DEF StoresInOrder
    <2>7. MemInFlightCounted(st0)
      <3>1. MemInFlight(st0) = {}
        BY <1>1 DEF MemInFlight
      <3> QED
        BY <1>1, <2>1, <3>1, FS_EmptySet DEF MemInFlightCounted
    <2> QED
      BY <2>2, <2>3, <2>4, <2>5, <2>6, <2>7 DEF QueuesInv, EntriesInv
  <1>7. inflight_reg_executions = Cardinality(RegInFlight)
    <2>1. RegInFlight = {}
      BY <1>1 DEF RegInFlight
    <2> QED
      BY <1>1, <2>1, FS_EmptySet
  <1> QED
    BY <1>3, <1>4, <1>5, <1>6, <1>7 DEF CoreInv

\* of a step that changes nothing,
LEMMA StutterPreserves == CoreInv /\ UNCHANGED vars => CoreInv'
  <1> SUFFICES ASSUME CoreInv, UNCHANGED vars PROVE CoreInv'
    OBVIOUS
  <1>1. /\ UNCHANGED <<program, head, tail, next_schedule, RTE0, RTE1>>
        /\ UNCHANGED <<ROB, STA, LQ, SQ, SQ_tail, data>>
        /\ UNCHANGED <<inflight_reg_executions, inflight_mem_executions>>
    BY DEF vars, scheduling, memory, inflight
  <1>2. st0' = st0 /\ Instr' = Instr /\ InROB' = InROB /\ \A k : is_memory(k)' = is_memory(k)
    BY <1>1 DEF st0, Instr, InROB, is_memory
  <1>3. TypeOK'
    BY <1>1 DEF CoreInv, TypeOK, Instr, InROB, Entry, LQIndex, SQIndex
  <1>4. RegistersInv' /\ ReadyInv' /\ (inflight_reg_executions = Cardinality(RegInFlight))'
    BY <1>1 DEF CoreInv, RegistersInv, ReadyInv, RegInFlight, UnscheduledIdle, ReadyBeforeUse,
                NotesValid, NotedOnce, PendingCounted, LastWriterNoted, Pending, LastWrites,
                NoIndex, InROB, is_memory
  <1>5. QueuesInv(st0)'
    <2>1. (LoadEntries(st0) /\ LoadSlots(st0))' = (LoadEntries(st0) /\ LoadSlots(st0))
      BY <1>1, <1>2 DEF LoadEntries, LoadSlots, InROB, LQIndex
    <2>2. WaitsForLast(st0)' = WaitsForLast(st0)
      BY <1>1, <1>2 DEF WaitsForLast, WaitsFor, ProducerOf, NotStored, LastStore, Forwards,
                        InROB, LQIndex, SQIndex
    <2>3. (ReadsLast(st0) /\ NotedLoads(st0))' = (ReadsLast(st0) /\ NotedLoads(st0))
      BY <1>1, <1>2, AstrayStays DEF ReadsLast, NotedLoads, NotStored, LastStore, Forwards, Instr, InROB, SQIndex
    <2>4. (StoreEntries(st0) /\ StoreSlots(st0))' = (StoreEntries(st0) /\ StoreSlots(st0))
      BY <1>1, <1>2 DEF StoreEntries, StoreSlots, InROB, SQIndex
    <2>5. (Ring(st0) /\ StoresInOrder(st0))' = (Ring(st0) /\ StoresInOrder(st0))
      BY <1>1, <1>2 DEF Ring, Back, StoresInOrder, SQIndex
    <2>6. (OpsCounted(st0) /\ DoneWhenCompleted(st0) /\ MemInFlightCounted(st0))'
            = (OpsCounted(st0) /\ DoneWhenCompleted(st0) /\ MemInFlightCounted(st0))
      BY <1>1, <1>2 DEF OpsCounted, OpenLoads, OpenStores, DoneWhenCompleted, MemInFlightCounted,
                        MemInFlight, InROB, is_memory
    <2> QED
      BY <2>1, <2>2, <2>3, <2>4, <2>5, <2>6 DEF CoreInv, QueuesInv, EntriesInv
  <1> QED
    BY <1>3, <1>4, <1>5 DEF CoreInv

\* and of every step.
LEMMA NextPreserves == CoreInv /\ [Next]_vars => CoreInv'
  <1> SUFFICES ASSUME CoreInv, [Next]_vars PROVE CoreInv'
    OBVIOUS
  <1>1. CASE add_to_rob
    BY <1>1, AddPreserves
  <1>2. CASE do_scheduling
    BY <1>2, SchedulingPreserves
  <1>3. CASE execute_instruction
    BY <1>3, ExecutionPreserves
  <1>4. CASE \E i \in Instr : complete_execution(i) \/ do_memory_scheduling(i)
    BY <1>4, CompletionPreserves, MemorySchedulingPreserves
  <1>5. CASE operate_lsq
    <2>1. ASSUME NEW s \in SQIndex, StoreMoves(s, "RTS0", "DTLB") PROVE CoreInv'
      BY <2>1, StoreMovesPreserves
    <2>2. ASSUME NEW s \in SQIndex, StoreMoves(s, "DTLB", "RTS1") PROVE CoreInv'
      BY <2>2, StoreMovesPreserves
    <2>3. ASSUME NEW s \in SQIndex, execute_store(s) PROVE CoreInv'
      BY <2>3, ExecuteStorePreserves
    <2>4. ASSUME NEW l \in LQIndex, LoadMoves(l, "RTL0", "DTLB") PROVE CoreInv'
      BY <2>4, LoadMovesPreserves
    <2>5. ASSUME NEW l \in LQIndex, LoadMoves(l, "DTLB", "RTL1") PROVE CoreInv'
      BY <2>5, LoadMovesPreserves
    <2>6. ASSUME NEW l \in LQIndex, LoadMoves(l, "RTL1", "L1D") PROVE CoreInv'
      BY <2>6, LoadMovesPreserves
    <2>7. ASSUME NEW l \in LQIndex, LoadAnswered(l) PROVE CoreInv'
      BY <2>7, LoadAnsweredPreserves
    <2> QED
      BY <1>5, <2>1, <2>2, <2>3, <2>4, <2>5, <2>6, <2>7 DEF operate_lsq
  <1>6. CASE retire_rob
    BY <1>6, RetirePreserves
  <1>7. CASE Ended \/ assert_fails \/ UNCHANGED vars
    BY <1>7, StutterPreserves DEF Ended, assert_fails
  <1> QED
    BY <1>1, <1>2, <1>3, <1>4, <1>5, <1>6, <1>7 DEF Next

\* The invariant holds of every state of the core.
THEOREM CoreInvariant == Spec => []CoreInv
  <1>1. Init => CoreInv
    BY InitInv
  <1>2. CoreInv /\ [Next]_vars => CoreInv'
    BY NextPreserves
  <1> QED
    BY <1>1, <1>2, PTL DEF Spec

\* The state is well formed: the buffer, the queues and the sets of what is
\* ready stay within their bounds, whatever the order of the steps.
THEOREM TypeCorrect == Spec => []TypeOK
  <1>1. CoreInv => TypeOK
    BY DEF CoreInv
  <1> QED
    BY <1>1, CoreInvariant, PTL

-----------------------------------------------------------------------------
(* What the invariant is for.                                              *)

\* Whoever last wrote a register before i is the youngest older writer.
LEMMA LastWriter ==
    ASSUME TypeOK, NEW i \in Instr, NEW j \in DOMAIN program[i].reads, NEW w,
           w = LastBefore(i, LAMBDA p : program[i].reads[j] \in program[p].writes), w # NONE
    PROVE  w \in Nat /\ w < i /\ LastWrites(w, i, j)
  <1> DEFINE S == {p \in 1..(i - 1) : program[i].reads[j] \in program[p].writes}
  <1>1. w = Youngest(S)
    BY DEF LastBefore
  <1>2. i \in Nat
    BY BufferFacts
  <1>3. S \in SUBSET (0..i)
    BY <1>2
  <1>4. w \in S /\ \A k \in S : k <= w
    <2> HIDE DEF S
    <2>1. S # {}
      BY <1>1 DEF Youngest
    <2> QED
      BY <1>1, <1>2, <1>3, <2>1, YoungestIsMax
  <1>5. w \in 1..(i - 1) /\ program[i].reads[j] \in program[w].writes
    BY <1>4
  <1>6. ASSUME NEW k \in (w + 1)..(i - 1)
        PROVE  program[i].reads[j] \notin program[k].writes
    <2>1. k \in 1..(i - 1) /\ ~(k <= w)
      BY <1>2, <1>5, <1>6
    <2> QED
      BY <1>4, <2>1
  <1>7. w \in Nat /\ w < i
    BY <1>2, <1>5
  <1>8. LastWrites(w, i, j)
    <2> HIDE DEF S
    <2> QED
      BY <1>5, <1>6 DEF LastWrites
  <1> QED
    BY <1>7, <1>8

\* Nothing is done with an operand that is not there.
LEMMA InvOperands == CoreInv => OperandsReady
  <1> SUFFICES ASSUME CoreInv PROVE OperandsReady
    OBVIOUS
  <1>1. TypeOK /\ UnscheduledIdle /\ ReadyBeforeUse /\ PendingCounted /\ LastWriterNoted
    BY DEF CoreInv, RegistersInv
  <1> SUFFICES ASSUME NEW i \in InROB
               PROVE  \/ /\ ROB[i].executed = 0
                         /\ Range(ROB[i].lq_index) \cup Range(ROB[i].sq_index) \subseteq {NONE}
                      \/ \A j \in DOMAIN program[i].reads :
                           LET w == LastBefore(i, LAMBDA p : program[i].reads[j] \in program[p].writes)
                           IN  w = NONE \/ w < head \/ ROB[w].executed = COMPLETED
    BY DEF OperandsReady
  <1>2. i \in Instr /\ i \in Nat /\ i < tail /\ head \in Nat /\ tail \in Nat /\ next_schedule \in Nat
        /\ \A k : k \in InROB <=> k \in Nat /\ head <= k /\ k < tail
    BY <1>1, BufferFacts
  <1>3. ROB[i] \in Entry(i)
    BY <1>1, <1>2 DEF TypeOK
  <1>4. CASE ROB[i].executed = 0 /\ NoIndex(i)
    <2>1. DOMAIN ROB[i].lq_index = DOMAIN program[i].loads
          /\ DOMAIN ROB[i].sq_index = DOMAIN program[i].stores
      BY <1>3 DEF Entry
    <2> QED
      BY <1>4, <2>1 DEF NoIndex, Range
  <1>5. CASE ROB[i].reg_ready
    <2>1. i < next_schedule
      BY <1>1, <1>2, <1>5 DEF UnscheduledIdle
    <2>2. Pending(i) = {}
      <3>1. Cardinality(Pending(i)) = 0
        BY <1>1, <1>5, <2>1 DEF PendingCounted
      <3>2. Pending(i) \in SUBSET (1..4)
        BY <1>1, <1>2, ProgramFacts DEF Pending, TypeOK
      <3> QED
        BY <3>1, <3>2, CardUpTo, FS_Subset, FS_EmptySet
    <2> SUFFICES ASSUME NEW j \in DOMAIN program[i].reads, NEW w, w # NONE, ~(w < head),
                        w = LastBefore(i, LAMBDA p : program[i].reads[j] \in program[p].writes)
                 PROVE  ROB[w].executed = COMPLETED
      OBVIOUS
    <2>3. w \in Nat /\ w < i /\ LastWrites(w, i, j)
      BY <1>1, <1>2, LastWriter
    <2>4. w \in InROB
      BY <1>2, <2>3
    <2> QED
      BY <1>1, <2>1, <2>2, <2>3, <2>4 DEF LastWriterNoted, Pending
  <1> QED
    BY <1>1, <1>4, <1>5 DEF ReadyBeforeUse

\* Every instruction executes, and enters the queues, with the values of the
\* last writers of its registers: OperandsReady, whatever the order of
\* execution, retirement and release.
THEOREM OperandsAreReady == Spec => []OperandsReady
  BY InvOperands, CoreInvariant, PTL

\* A store finds only its own loads where nothing is partly overwritten.
LEMMA InvFinds == CoreInv => FindsItsLoads
  <1> SUFFICES ASSUME CoreInv, NEW s \in SQIndex, SQ[s] # NONE, SQ[s].state = "RTS1",
                      ~PartlyOverwritten(SQ[s].instr)
               PROVE  OwnLoads(s)
    BY DEF FindsItsLoads
  <1>1. Executing(s)
    BY DEF Executing
  <1>2. \A d \in Dependents(s) :
          /\ d = <<d[1], d[2]>>
          /\ LQ[EntryOf(d)] # NONE /\ LQ[EntryOf(d)].producer = SQ[s].instr
          /\ LQ[EntryOf(d)].instr = d[1] /\ LQ[EntryOf(d)].slot = d[2]
    BY <1>1, DependentFacts
  <1>3. \A d, e \in Dependents(s) : EntryOf(d) = EntryOf(e) => d = e
    BY <1>2
  <1> QED
    BY <1>2, <1>3 DEF OwnLoads, DependsOn

\* The assertion of execute_store never fails for the stores of an instruction
\* that is not partly overwritten, in any program and any order of execution.
\* (For the stores of one that is, it does fail.)
THEOREM StoresFindTheirLoads == Spec => []FindsItsLoads
  BY InvFinds, CoreInvariant, PTL

\* Room in the queue is at the tail of the ring.
LEMMA InvNextFree == CoreInv => NextEntryFree
  <1> SUFFICES ASSUME CoreInv, Room(SQ) PROVE SQ[SQ_tail] = NONE
    BY DEF NextEntryFree
  <1>1. TypedState(st0) /\ Ring(st0) /\ st0.SQ = SQ /\ st0.SQ_tail = SQ_tail
    BY InitialState DEF Entering, QueuesInv, EntriesInv, st0
  <1> QED
    BY <1>1, FreeTail

\* The assertion of add_store_queue never fails: stores find the next entry of
\* the ring free, whatever instructions take and retirement gives back.
THEOREM NextEntryIsFree == Spec => []NextEntryFree
  BY InvNextFree, CoreInvariant, PTL

\* If slots get their entries one to one, the slots that are open are those
\* without an entry and those whose entry is still there.
LEMMA SlotsAndEntries ==
    ASSUME NEW D, IsFiniteSet(D), NEW f, NEW O \in SUBSET D, NEW E, NONE \notin E,
           \A j \in D : f[j] = NONE => j \in O,
           \A j \in O : f[j] # NONE => f[j] \in E,
           \A e \in E : \E j \in O : f[j] = e,
           \A a, b \in O : f[a] = f[b] /\ f[a] # NONE => a = b
    PROVE  Cardinality(O) = Cardinality({j \in D : f[j] = NONE}) + Cardinality(E)
  <1> DEFINE A == {j \in D : f[j] = NONE}
             B == {j \in O : f[j] # NONE}
             g == [j \in B |-> f[j]]
  <1>1. IsFiniteSet(A) /\ IsFiniteSet(B) /\ A \cap B = {} /\ O = A \cup B
    <2>1. A \in SUBSET D /\ B \in SUBSET D
      OBVIOUS
    <2> QED
      BY <2>1, FS_Subset
  <1>2. g \in Bijection(B, E)
    BY DEF Bijection, Injection, Surjection, IsInjective
  <1>3. Cardinality(E) = Cardinality(B)
    BY <1>1, <1>2, FS_Bijection DEF ExistsBijection
  <1>4. Cardinality(A \cup B) = Cardinality(A) + Cardinality(B)
    BY <1>1, DisjointUnion
  <1> QED
    BY <1>1, <1>3, <1>4

\* The counters agree with the queues.
LEMMA InvCounts == CoreInv => CountsAgree
  <1> SUFFICES ASSUME CoreInv PROVE CountsAgree
    OBVIOUS
  <1>1. /\ TypeOK /\ EntriesInv(st0) /\ MemInFlightCounted(st0)
        /\ inflight_reg_executions = Cardinality(RegInFlight)
        /\ st0.SQ = SQ /\ st0.ROB = ROB /\ st0.LQ = LQ /\ st0.data = data
        /\ st0.inflight = inflight_mem_executions
    BY DEF CoreInv, QueuesInv, st0
  <1>2. inflight_mem_executions =
          Cardinality({i \in InROB : is_memory(i) /\ ROB[i].num_mem_ops = 0
                                     /\ ROB[i].executed # COMPLETED})
    BY <1>1 DEF MemInFlightCounted, MemInFlight
  <1>3. inflight_reg_executions =
          Cardinality({i \in InROB : ~is_memory(i) /\ ROB[i].executed = INFLIGHT})
    BY <1>1 DEF RegInFlight
  <1>4. ASSUME NEW i \in InROB
        PROVE  ROB[i].num_mem_ops =
             Cardinality({j \in DOMAIN ROB[i].lq_index : ROB[i].lq_index[j] = NONE})
           + Cardinality({j \in DOMAIN ROB[i].sq_index : ROB[i].sq_index[j] = NONE})
           + Cardinality({l \in LQIndex : LQ[l] # NONE /\ LQ[l].instr = i})
           + Cardinality({s \in SQIndex : SQ[s] # NONE /\ SQ[s].instr = i
                                          /\ SQ[s].state # "executed"})
    <2> DEFINE lq == ROB[i].lq_index
               sq == ROB[i].sq_index
               L == {l \in LQIndex : LQ[l] # NONE /\ LQ[l].instr = i}
               S == {s \in SQIndex : SQ[s] # NONE /\ SQ[s].instr = i /\ SQ[s].state # "executed"}
               OL == OpenLoads(st0, i)
               OS == OpenStores(st0, i)
               A == {j \in DOMAIN lq : lq[j] = NONE}
               B == {j \in DOMAIN sq : sq[j] = NONE}
    <2>1. i \in Instr /\ program \in Programs
      BY <1>1, BufferFacts DEF TypeOK
    <2>2. /\ DOMAIN lq = DOMAIN program[i].loads /\ DOMAIN sq = DOMAIN program[i].stores
          /\ \A j \in DOMAIN lq : lq[j] = NONE \/ lq[j] \in LQIndex
          /\ \A j \in DOMAIN sq : sq[j] = NONE \/ sq[j] \in SQIndex
      <3>1. ROB[i] \in Entry(i)
        BY <1>1, <2>1 DEF TypeOK
      <3> QED
        BY <3>1 DEF Entry
    <2>3. IsFiniteSet(DOMAIN lq) /\ IsFiniteSet(DOMAIN sq)
      <3>1. DOMAIN lq \in SUBSET (1..4) /\ DOMAIN sq \in SUBSET (1..4)
        BY <2>1, <2>2, ProgramFacts
      <3> QED
        BY <3>1, CardUpTo, FS_Subset
    <2>4. NONE \notin L /\ NONE \notin S
      BY Sizes DEF LQIndex, SQIndex
    <2>5. Cardinality(OL) = Cardinality(A) + Cardinality(L)
      <3>1. OL \in SUBSET DOMAIN lq /\ \A j \in DOMAIN lq : j \in OL <=> data[i][j] = NONE
        BY <1>1, <2>2 DEF OpenLoads
      <3>2. \A j \in DOMAIN lq : lq[j] = NONE => j \in OL
        BY <1>1, <2>2, <3>1 DEF EntriesInv, LoadSlots
      <3>3. \A j \in OL : lq[j] # NONE =>
              LQ[lq[j]] # NONE /\ LQ[lq[j]].instr = i /\ LQ[lq[j]].slot = j
        BY <1>1, <2>2, <3>1 DEF EntriesInv, LoadSlots
      <3>4. \A j \in OL : lq[j] # NONE => lq[j] \in L
        BY <2>2, <3>1, <3>3
      <3>5. \A l \in L : \E j \in OL : lq[j] = l
        BY <1>1, <2>2, <3>1 DEF EntriesInv, LoadEntries
      <3>6. \A a, b \in OL : lq[a] = lq[b] /\ lq[a] # NONE => a = b
        BY <3>3
      <3> HIDE DEF lq, L, OL
      <3> QED
        BY <2>3, <2>4, <3>1, <3>2, <3>4, <3>5, <3>6, SlotsAndEntries
    <2>6. Cardinality(OS) = Cardinality(B) + Cardinality(S)
      <3>1. OS \in SUBSET DOMAIN sq
            /\ \A j \in DOMAIN sq : j \in OS <=> sq[j] = NONE \/ SQ[sq[j]].state # "executed"
        BY <1>1, <2>2 DEF OpenStores
      <3>2. \A j \in DOMAIN sq : sq[j] # NONE =>
              SQ[sq[j]] # NONE /\ SQ[sq[j]].instr = i /\ SQ[sq[j]].slot = j
        BY <1>1, <2>2 DEF EntriesInv, StoreSlots
      <3>3. \A j \in OS : sq[j] # NONE => sq[j] \in S
        BY <2>2, <3>1, <3>2
      <3>4. \A s \in S : \E j \in OS : sq[j] = s
        BY <1>1, <2>2, <3>1 DEF EntriesInv, StoreEntries
      <3>5. \A a, b \in OS : sq[a] = sq[b] /\ sq[a] # NONE => a = b
        BY <3>1, <3>2
      <3>6. \A j \in DOMAIN sq : sq[j] = NONE => j \in OS
        BY <3>1
      <3> HIDE DEF sq, S, OS
      <3> QED
        BY <2>3, <2>4, <3>1, <3>3, <3>4, <3>5, <3>6, SlotsAndEntries
    <2>7. /\ Cardinality(A) \in Nat /\ Cardinality(B) \in Nat
          /\ Cardinality(OL) \in Nat /\ Cardinality(OS) \in Nat
      <3>1. IsFiniteSet(A) /\ IsFiniteSet(B)
        BY <2>3, FS_Subset
      <3> QED
        BY <1>1, <3>1, OpenFacts, FS_CardinalityType
    <2>8. ROB[i].num_mem_ops = Cardinality(OL) + Cardinality(OS)
      BY <1>1 DEF EntriesInv, OpsCounted
    <2>9. Cardinality(L) \in Nat /\ Cardinality(S) \in Nat
      <3>1. L \in SUBSET LQIndex /\ S \in SUBSET SQIndex /\ IsFiniteSet(LQIndex) /\ IsFiniteSet(SQIndex)
        BY Sizes, FS_Interval DEF LQIndex, SQIndex
      <3> QED
        BY <3>1, FS_Subset, FS_CardinalityType
    <2> HIDE DEF L, S, OL, OS, A, B
    <2>10. ROB[i].num_mem_ops
             = Cardinality(A) + Cardinality(B) + Cardinality(L) + Cardinality(S)
      BY <2>5, <2>6, <2>7, <2>8, <2>9
    <2> QED
      BY <2>10 DEF A, B, L, S
  <1> QED
    BY <1>2, <1>3, <1>4 DEF CountsAgree

\* num_mem_ops and the two counters of what is in flight never drift from
\* what they count, whoever finishes the operations.
THEOREM CountersAgree == Spec => []CountsAgree
  BY InvCounts, CoreInvariant, PTL

-----------------------------------------------------------------------------
(* The core implements ProgramOrder.                                       *)

\* The program stays, and only retire_rob moves the head.
LEMMA HeadMoves ==
    ASSUME [Next]_vars
    PROVE  program' = program /\ (retire_rob \/ head' = head)
  <1>1. CASE add_to_rob \/ do_scheduling \/ execute_instruction \/ Ended \/ assert_fails
             \/ UNCHANGED vars
    BY <1>1 DEF add_to_rob, do_scheduling, execute_instruction, Ended, assert_fails, vars,
                scheduling
  <1>2. CASE \E i \in Instr : complete_execution(i) \/ do_memory_scheduling(i)
    BY SMTT(30), <1>2 DEF complete_execution, do_memory_scheduling, Becomes, scheduling
  <1>3. CASE operate_lsq
    BY <1>3 DEF operate_lsq, StoreMoves, LoadMoves, LoadAnswered, execute_store, Becomes,
                scheduling
  <1>4. CASE retire_rob
    BY <1>4 DEF retire_rob
  <1> QED
    BY <1>1, <1>2, <1>3, <1>4 DEF Next

\* What an instruction has read stays once it has retired.
LEMMA RetiredKept ==
    ASSUME CoreInv, [Next]_vars, NEW k \in 1..(head - 1)
    PROVE  data'[k] = data[k]
  <1>1. /\ TypeOK /\ k \in Instr /\ k \notin InROB /\ InROB \in SUBSET Instr
        /\ st0.data = data /\ st0.LQ = LQ /\ st0.ROB = ROB
    <2>1. TypeOK
      BY DEF CoreInv
    <2>2. /\ head \in Nat /\ tail \in Nat /\ head <= tail /\ tail <= Len(program) + 1
          /\ Len(program) \in Nat /\ Instr = 1..Len(program)
      BY <2>1, BufferFacts, ProgramFacts DEF TypeOK
    <2> DEFINE n == Len(program)
    <2> HIDE DEF n
    <2>3. n \in Nat /\ head <= n + 1 /\ Instr = 1..n
      BY <2>2 DEF n
    <2> QED
      BY <2>1, <2>2, <2>3, BufferFacts DEF st0, InROB
  <1>2. CASE add_to_rob \/ do_scheduling \/ execute_instruction \/ retire_rob \/ Ended
             \/ assert_fails \/ UNCHANGED vars
    BY <1>2 DEF add_to_rob, do_scheduling, execute_instruction, retire_rob, Ended, assert_fails,
                vars, memory
  <1>3. ASSUME NEW i \in Instr, complete_execution(i) PROVE data'[k] = data[k]
    BY <1>3 DEF complete_execution, memory
  <1>4. ASSUME NEW i \in Instr, do_memory_scheduling(i) PROVE data'[k] = data[k]
    <2> DEFINE st == check_and_add_lsq(st0, i)
               all == NONE \notin Range(st.ROB[i].lq_index) \cup Range(st.ROB[i].sq_index)
               n == IF all THEN Entered(st, i) ELSE st
    <2>1. i \in InROB /\ Becomes(n)
      BY <1>4 DEF do_memory_scheduling, Entered
    <2>2. Entering(st, i)
      BY <1>1, <2>1, InitialState, EnteringKeeps
    <2> HIDE DEF st
    <2>3. n.data = st.data
      BY <2>2 DEF Entering, TypedState, Entered
    <2> HIDE DEF n
    <2>4. st.data[k] = data[k]
      BY <1>1, <2>2 DEF Entering, SameData
    <2> QED
      BY <2>1, <2>3, <2>4 DEF Becomes
  <1>5. ASSUME NEW s, NEW from, NEW to, StoreMoves(s, from, to) PROVE data'[k] = data[k]
    BY <1>5 DEF StoreMoves, Becomes, st0
  <1>6. ASSUME NEW l, NEW from, NEW to, LoadMoves(l, from, to) PROVE data'[k] = data[k]
    BY <1>6 DEF LoadMoves, Becomes, st0
  <1>7. ASSUME NEW s \in SQIndex, execute_store(s) PROVE data'[k] = data[k]
    <2>1. PICK n : Becomes(n) /\ Executes(s, n) /\ Executing(s) /\ OwnLoads(s)
      BY <1>7, ExecuteEffect
    <2>2. \A j : <<k, j>> \notin Resolved(s)
      BY <1>1, <2>1, ResolvedFacts
    <2>3. \A j \in DOMAIN program[k].loads : n.data[k][j] = data[k][j]
      BY <1>1, <2>1, <2>2 DEF Executes
    <2>4. n.data[k] = data[k]
      <3> DEFINE V == {NONE, ASTRAY, 0} \cup Instr
                 D == DOMAIN program[k].loads
      <3>1. n.data[k] \in [D -> V]
        BY <1>1, <2>1 DEF Executes, TypedState
      <3>2. data[k] \in [D -> V]
        BY <1>1 DEF TypeOK
      <3> HIDE DEF V, D
      <3>3. \A j \in D : n.data[k][j] = data[k][j]
        BY <2>3 DEF D
      <3> QED
        BY <3>1, <3>2, <3>3
    <2> QED
      BY <2>1, <2>4 DEF Becomes
  <1>8. ASSUME NEW l \in LQIndex, LoadAnswered(l) PROVE data'[k] = data[k]
    <2> DEFINE i == LQ[l].instr
               j == LQ[l].slot
               p == Stored(program[i].loads[j])
               n == LoadDone(st0, i, j, p)
    <2>1. LQ[l] # NONE /\ Becomes(n)
      BY <1>8 DEF LoadAnswered
    <2>2. i \in InROB
      BY <1>1, <2>1 DEF CoreInv, QueuesInv, EntriesInv, LoadEntries
    <2> HIDE DEF p, i, j
    <2>3. n.data = [data EXCEPT ![i] = [data[i] EXCEPT ![j] = p]]
      BY DEF LoadDone, MemOpDone, st0
    <2>4. n.data[k] = data[k]
      <3>1. DOMAIN data = Instr
        BY <1>1 DEF TypeOK
      <3>2. k # i /\ k \in Instr
        BY <1>1, <2>2
      <3> HIDE DEF n
      <3> QED
        BY <2>3, <3>1, <3>2
    <2> QED
      BY <2>1, <2>4 DEF Becomes
  <1>9. CASE operate_lsq
    BY <1>5, <1>6, <1>7, <1>8, <1>9 DEF operate_lsq
  <1> QED
    BY <1>2, <1>3, <1>4, <1>9 DEF Next

\* The memory of the instructions before head, and after head has retired.
LEMMA StoredNext ==
    ASSUME TypeOK, head \in InROB, program' = program, head' = head + 1, NEW addr
    PROVE  Stored(addr)' = IF addr \in Range(program[head].stores) THEN head ELSE Stored(addr)
  <1> DEFINE S == {p \in 1..(head - 1) : addr \in Range(program[p].stores)}
             T == {p \in 1..head : addr \in Range(program[p].stores)}
  <1>1. head \in Nat /\ 1 <= head
    BY BufferFacts
  <1>2. Stored(addr)' = IF T = {} THEN 0 ELSE Youngest(T)
    <2>1. head' - 1 = head
      BY <1>1
    <2>2. {p \in 1..(head' - 1) : addr \in Range(program'[p].stores)} = T
      BY <2>1
    <2> HIDE DEF T
    <2> QED
      BY <2>2 DEF Stored
  <1>3. Stored(addr) = IF S = {} THEN 0 ELSE Youngest(S)
    BY DEF Stored
  <1>4. CASE addr \in Range(program[head].stores)
    <2>1. head \in T /\ T \in SUBSET (0..head) /\ \A k \in T : k <= head
      BY <1>1, <1>4
    <2> HIDE DEF T
    <2>2. Youngest(T) = head
      BY <1>1, <2>1, YoungestIs
    <2> QED
      BY <1>2, <1>4, <2>1, <2>2
  <1>5. CASE addr \notin Range(program[head].stores)
    <2>1. T = S
      BY <1>1, <1>5
    <2> QED
      BY <1>2, <1>3, <1>5, <2>1
  <1> QED
    BY <1>4, <1>5

\* head has read what the memory holds as it retires, if no instruction is
\* partly overwritten.
LEMMA ReadsStored ==
    ASSUME CoreInv, NothingPartlyOverwritten, head \in InROB, ROB[head].executed = COMPLETED,
           NEW j \in DOMAIN program[head].loads
    PROVE  data[head][j] = Stored(program[head].loads[j])
  <1> DEFINE addr == program[head].loads[j]
             d == data[head][j]
             p == Stored(addr)
  <1>1. TypeOK /\ ReadsLast(st0) /\ st0.data = data
    BY DEF CoreInv, QueuesInv, EntriesInv, st0
  <1>2. head \in Nat /\ head \in Instr /\ d # NONE
    BY <1>1, CompletedFacts, BufferFacts
  <1>3. LastStore(d, head, addr)
    BY <1>1, <1>2 DEF ReadsLast, MayGoAstray, NothingPartlyOverwritten
  <1>4. LastStore(p, head, addr)
    BY <1>1, StoredIsLast DEF LastStore
  <1> HIDE DEF addr, d, p
  <1>5. d = p
    BY <1>2, <1>3, <1>4, LastStoreUnique
  <1> QED
    BY <1>5 DEF d, p, addr

\* A sequence of what is defined up to n is extended to n + 1.
LEMMA AppendNext ==
    ASSUME NEW n \in Nat, NEW f, NEW x
    PROVE  Append([i \in 1..n |-> f[i]], x) = [i \in 1..(n + 1) |-> IF i = n + 1 THEN x ELSE f[i]]
  <1> DEFINE s == [i \in 1..n |-> f[i]]
             S == {f[i] : i \in 1..n} \cup {x}
  <1>1. s \in Seq(S) /\ Len(s) = n /\ x \in S
    <2>1. s \in [1..n -> S]
      OBVIOUS
    <2> QED
      BY <2>1, SeqDef
  <1> HIDE DEF S
  <1>2. /\ Append(s, x) \in Seq(S) /\ Len(Append(s, x)) = n + 1
        /\ \A i \in 1..n : Append(s, x)[i] = s[i]
        /\ Append(s, x)[n + 1] = x
    BY <1>1, AppendProperties
  <1> QED
    BY <1>2

\* The initial state is one of ProgramOrder,
LEMMA OrderInit == Init => Order!Init
  <1> SUFFICES ASSUME Init PROVE Order!Init
    OBVIOUS
  <1>1. head = 1 /\ program \in Programs
    BY DEF Init
  <1>2. \A a : Stored(a) = 0
    BY <1>1 DEF Stored
  <1>3. [i \in 1..(head - 1) |-> data[i]] = <<>>
    BY <1>1
  <1> QED
    BY <1>1, <1>2, <1>3 DEF Order!Init

\* retire_rob is its step, and every other step changes nothing of it.
LEMMA OrderNext ==
    CoreInv /\ NothingPartlyOverwritten /\ [Next]_vars => [Order!Retire]_(Order!vars)
  <1> SUFFICES ASSUME CoreInv, NothingPartlyOverwritten, [Next]_vars
               PROVE  [Order!Retire]_(Order!vars)
    OBVIOUS
  <1> DEFINE mem == [a \in Address |-> Stored(a)]
             rd == [i \in 1..(head - 1) |-> data[i]]
  <1>1. TypeOK /\ program' = program /\ head \in Nat /\ 1 <= head
        /\ \A k \in 1..(head - 1) : data'[k] = data[k]
    BY HeadMoves, RetiredKept, BufferFacts DEF CoreInv
  <1>2. CASE head' = head
    <2>1. mem' = mem
      BY <1>1, <1>2 DEF Stored, Youngest
    <2>2. rd' = rd
      BY <1>1, <1>2
    <2> QED
      BY <1>1, <1>2, <2>1, <2>2 DEF Order!vars
  <1>3. CASE retire_rob
    <2>1. head \in InROB /\ ROB[head].executed = COMPLETED /\ head' = head + 1 /\ data' = data
          /\ head \in Instr
      BY <1>1, <1>3, RetireEffect, BufferFacts
    <2>2. \A j \in DOMAIN program[head].loads :
            data[head][j] = Stored(program[head].loads[j]) /\ program[head].loads[j] \in Address
      <3>1. program[head].loads \in Seq(Address)
        BY <1>1, <2>1, ProgramFacts DEF TypeOK
      <3> QED
        BY <2>1, <3>1, ReadsStored, ElementOfSeq
    <2> DEFINE v == [j \in DOMAIN program[head].loads |-> mem[program[head].loads[j]]]
    <2>3. data[head] = v
      BY <1>1, <2>1, <2>2 DEF TypeOK
    <2>4. rd' = Append(rd, v)
      <3> HIDE DEF v
      <3>1. Append(rd, v) = [i \in 1..((head - 1) + 1) |-> IF i = (head - 1) + 1 THEN v ELSE data[i]]
        BY <1>1, AppendNext
      <3>2. (head - 1) + 1 = head /\ head' - 1 = head
        BY <1>1, <2>1
      <3>3. rd' = [i \in 1..head |-> data[i]]
        BY <2>1, <3>2
      <3>4. Append(rd, v) = [i \in 1..head |-> IF i = head THEN v ELSE data[i]]
        BY <3>1, <3>2
      <3>5. [i \in 1..head |-> IF i = head THEN v ELSE data[i]] = [i \in 1..head |-> data[i]]
        BY <2>3
      <3> HIDE DEF rd
      <3> QED
        BY <3>3, <3>4, <3>5
    <2>5. mem' = [a \in Address |-> IF \E j \in DOMAIN program[head].stores :
                                         program[head].stores[j] = a
                                    THEN head ELSE mem[a]]
      <3>1. \A a : Stored(a)' = IF a \in Range(program[head].stores) THEN head ELSE Stored(a)
        BY <1>1, <2>1, StoredNext
      <3>2. \A a : a \in Range(program[head].stores)
                     <=> \E j \in DOMAIN program[head].stores : program[head].stores[j] = a
        BY DEF Range
      <3> QED
        BY <3>1, <3>2
    <2>6. head <= Len(program)
      BY <1>1, <2>1, BufferFacts
    <2>7. (head - 1) + 1 = head /\ head' - 1 = head
      BY <1>1, <2>1
    <2> HIDE DEF mem, rd
    <2>8. Order!Retire
      BY <1>1, <2>4, <2>5, <2>6, <2>7 DEF Order!Retire, mem, rd
    <2> QED
      BY <2>8
  <1> QED
    BY <1>2, <1>3, HeadMoves

\* Every load reads what the last store before it in the program wrote,
\* though the core executes out of order: the core implements ProgramOrder for
\* every program in which no instruction is partly overwritten.  (With one
\* that is, the program may stop, or a load be answered for another address.)
THEOREM OrderImplemented == Spec /\ NothingPartlyOverwritten => ImplementsProgramOrder
  <1>1. Init => Order!Init
    BY OrderInit
  <1>2. CoreInv /\ NothingPartlyOverwritten /\ [Next]_vars => [Order!Retire]_(Order!vars)
    BY OrderNext
  <1>3. CoreInv /\ NothingPartlyOverwritten /\ [Next]_vars => NothingPartlyOverwritten'
    BY HeadMoves DEF NothingPartlyOverwritten, PartlyOverwritten, Overwritten, Instr
  <1> QED
    BY <1>1, <1>2, <1>3, CoreInvariant, PTL DEF Spec, ImplementsProgramOrder, Order!Spec
=============================================================================
