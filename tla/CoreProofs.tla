------------------------------ MODULE CoreProofs ------------------------------
(***************************************************************************)
(* What holds of the out-of-order core for every program, every size of    *)
(* the buffer and every size of the queues: the invariant of Core.tla.     *)
(***************************************************************************)
EXTENDS Core, FiniteSetTheorems, SequenceTheorems, WellFoundedInduction, TLAPS

-----------------------------------------------------------------------------
(* The invariant.  The registers:                                          *)

\* The operands of i that have not been produced yet.
Pending(i) == {j \in DOMAIN program[i].reads :
                 \E p \in InROB : /\ ROB[p].executed # COMPLETED
                                  /\ <<i, j>> \in ROB[p].registers_index_depend_on_me}

\* p is the last before i to write what i reads in slot j.
LastWrites(p, i, j) ==
    /\ program[i].reads[j] \in program[p].writes
    /\ \A k \in (p + 1)..(i - 1) : program[i].reads[j] \notin program[k].writes

NoIndex(i) ==
    /\ \A j \in DOMAIN program[i].loads : ROB[i].lq_index[j] = NONE
    /\ \A j \in DOMAIN program[i].stores : ROB[i].sq_index[j] = NONE

\* An instruction that is not scheduled has done nothing,
UnscheduledIdle ==
    \A i \in InROB : i >= next_schedule => ROB[i].scheduled = 0 /\ ~ROB[i].reg_ready

\* and nothing is done before the registers are ready.
ReadyBeforeUse ==
    \A i \in InROB : (ROB[i].executed = 0 /\ NoIndex(i)) \/ ROB[i].reg_ready

\* Whoever waits for a register is noted at one producer,
NotesValid ==
    \A p \in InROB : \A d \in ROB[p].registers_index_depend_on_me :
      p < d[1] /\ d[1] < next_schedule /\ d[2] \in DOMAIN program[d[1]].reads
NotedOnce ==
    \A p, q \in InROB : \A d \in ROB[p].registers_index_depend_on_me :
      d \in ROB[q].registers_index_depend_on_me => p = q

\* counts as many as it waits for,
PendingCounted ==
    \A i \in InROB : i < next_schedule =>
      /\ ROB[i].num_reg_dependent = Cardinality(Pending(i))
      /\ ROB[i].reg_ready <=> (ROB[i].num_reg_dependent = 0)

\* and waits for the last writer until that has executed.
LastWriterNoted ==
    \A w \in InROB, i \in InROB : \A j \in DOMAIN program[i].reads :
      w < i /\ i < next_schedule /\ LastWrites(w, i, j) /\ ROB[w].executed # COMPLETED
        => <<i, j>> \in ROB[w].registers_index_depend_on_me

RegistersInv == /\ UnscheduledIdle /\ ReadyBeforeUse
                /\ NotesValid /\ NotedOnce /\ PendingCounted /\ LastWriterNoted

\* What waits to execute.
ReadyInv ==
    \A i \in Range(RTE0) \cup Range(RTE1) :
      ~is_memory(i) /\ ROB[i].reg_ready /\ ROB[i].executed = 0

-----------------------------------------------------------------------------
(* The queues, for any value st of their state: the operations of one      *)
(* instruction preserve them one by one.                                   *)

\* No instruction from p on and before i stores to addr.
NotStored(p, i, addr) == \A k \in p..(i - 1) : addr \notin Range(program[k].stores)

\* p is the last before i to store to addr, or is 0 and nobody stores there.
LastStore(p, i, addr) ==
    /\ p \in 0..(i - 1)
    /\ p # 0 => addr \in Range(program[p].stores)
    /\ NotStored(p + 1, i, addr)

\* An entry of the load queue belongs to a load that has not read,
LoadEntries(st) ==
    \A l \in LQIndex : st.LQ[l] # NONE =>
      /\ st.LQ[l].instr \in InROB
      /\ st.LQ[l].slot \in DOMAIN program[st.LQ[l].instr].loads
      /\ st.ROB[st.LQ[l].instr].lq_index[st.LQ[l].slot] = l
      /\ st.data[st.LQ[l].instr][st.LQ[l].slot] = NONE
      /\ (st.LQ[l].state = "waiting") <=> (st.LQ[l].producer # NONE)

\* and a load that has entered the queue has read or is still there.
LoadSlots(st) ==
    \A i \in InROB : \A j \in DOMAIN program[i].loads :
      IF st.ROB[i].lq_index[j] = NONE THEN st.data[i][j] = NONE
      ELSE \/ st.data[i][j] # NONE
           \/ LET q == st.LQ[st.ROB[i].lq_index[j]]
              IN  q # NONE /\ q.instr = i /\ q.slot = j

\* p is the producer of a load from addr in i: it is noted there.
ProducerOf(st, p, i, addr) ==
    /\ p \in InROB
    /\ LastStore(p, i, addr)
    /\ i \in st.ROB[p].memory_instrs_depend_on_me
    /\ ~Forwards(st, p, addr)

\* A load waits for the last store, and without one for no other.
WaitsFor(st, l) ==
    LET i    == st.LQ[l].instr
        addr == program[i].loads[st.LQ[l].slot]
    IN  IF st.LQ[l].producer = NONE THEN NotStored(head, i, addr)
        ELSE ProducerOf(st, st.LQ[l].producer, i, addr)
WaitsForLast(st) == \A l \in LQIndex : st.LQ[l] # NONE => WaitsFor(st, l)

\* What it has read is from the last store, which has executed, or it has been
\* answered for another address, for which the last store is an instruction
\* that is partly overwritten.
MayGoAstray(i, addr) == \E p \in Instr : LastStore(p, i, addr) /\ PartlyOverwritten(p)
ReadsLast(st) ==
    \A i \in Instr : \A j \in DOMAIN program[i].loads :
      st.data[i][j] # NONE =>
        /\ i < tail
        /\ \/ st.data[i][j] = ASTRAY /\ MayGoAstray(i, program[i].loads[j])
           \/ /\ LastStore(st.data[i][j], i, program[i].loads[j])
              /\ st.data[i][j] \in InROB /\ i \in InROB
                   => Forwards(st, st.data[i][j], program[i].loads[j])

\* The program stays, and with it who may be answered for another address.
LEMMA AstrayStays ==
    ASSUME program' = program
    PROVE  \A i, addr : MayGoAstray(i, addr)' = MayGoAstray(i, addr)
  <1>1. Instr' = Instr
    BY DEF Instr
  <1>2. \A p, i, addr : LastStore(p, i, addr)' = LastStore(p, i, addr)
    BY DEF LastStore, NotStored
  <1>3. \A p : PartlyOverwritten(p)' = PartlyOverwritten(p)
    BY DEF PartlyOverwritten, Overwritten
  <1> QED
    BY <1>1, <1>2, <1>3 DEF MayGoAstray

\* Whoever is noted at a store has a load that reads it.
NotedLoads(st) ==
    \A p \in InROB : \A d \in st.ROB[p].memory_instrs_depend_on_me :
      d \in InROB /\ \E j \in DOMAIN program[d].loads : LastStore(p, d, program[d].loads[j])

\* The entry that lies k before the tail of the ring.
Back(st, k) == IF k <= st.SQ_tail THEN st.SQ_tail - k ELSE st.SQ_tail - k + SQ_SIZE

\* Entries of the store queue and the slots that have one belong together.
StoreEntries(st) ==
    \A s \in SQIndex : st.SQ[s] # NONE =>
      /\ st.SQ[s].instr \in InROB
      /\ st.SQ[s].slot \in DOMAIN program[st.SQ[s].instr].stores
      /\ st.ROB[st.SQ[s].instr].sq_index[st.SQ[s].slot] = s
StoreSlots(st) ==
    \A i \in InROB : \A j \in DOMAIN program[i].stores :
      st.ROB[i].sq_index[j] # NONE =>
        LET q == st.SQ[st.ROB[i].sq_index[j]]
        IN  q # NONE /\ q.instr = i /\ q.slot = j

\* The entries that are taken lie before the tail, the younger the closer,
Ring(st) ==
    \A k \in 1..SQ_SIZE : \A m \in 1..(k - 1) :
      st.SQ[Back(st, k)] # NONE =>
        /\ st.SQ[Back(st, m)] # NONE
        /\ st.SQ[Back(st, k)].instr <= st.SQ[Back(st, m)].instr

\* and what is not in the queue yet is younger still.
StoresInOrder(st) ==
    /\ \A a, b \in DOMAIN st.STA : a <= b => st.STA[a] <= st.STA[b]
    /\ \A a \in DOMAIN st.STA : st.STA[a] < tail
    /\ \A s \in SQIndex : \A a \in DOMAIN st.STA :
         st.SQ[s] # NONE => st.SQ[s].instr <= st.STA[a]

OpenLoads(st, i) == {j \in DOMAIN program[i].loads : st.data[i][j] = NONE}
OpenStores(st, i) ==
    {j \in DOMAIN program[i].stores :
       \/ st.ROB[i].sq_index[j] = NONE
       \/ st.SQ[st.ROB[i].sq_index[j]].state # "executed"}

\* Those that have done all their operations.
MemInFlight(st) == {i \in InROB : /\ is_memory(i) /\ st.ROB[i].num_mem_ops = 0
                                  /\ st.ROB[i].executed # COMPLETED}

\* The counters count what is open and what is in flight.
OpsCounted(st) ==
    \A i \in InROB :
      st.ROB[i].num_mem_ops = Cardinality(OpenLoads(st, i)) + Cardinality(OpenStores(st, i))
DoneWhenCompleted(st) ==
    \A i \in InROB : st.ROB[i].executed = COMPLETED => st.ROB[i].num_mem_ops = 0
MemInFlightCounted(st) == st.inflight = Cardinality(MemInFlight(st))

EntriesInv(st) ==
    /\ LoadEntries(st) /\ LoadSlots(st)
    /\ WaitsForLast(st) /\ ReadsLast(st) /\ NotedLoads(st)
    /\ StoreEntries(st) /\ StoreSlots(st) /\ Ring(st) /\ StoresInOrder(st)
    /\ OpsCounted(st)

QueuesInv(st) == EntriesInv(st) /\ DoneWhenCompleted(st) /\ MemInFlightCounted(st)

RegInFlight == {i \in InROB : ~is_memory(i) /\ ROB[i].executed = INFLIGHT}

\* The invariant of the core.
CoreInv ==
    /\ TypeOK
    /\ RegistersInv
    /\ ReadyInv
    /\ QueuesInv(st0)
    /\ inflight_reg_executions = Cardinality(RegInFlight)

-----------------------------------------------------------------------------
(* The operators of the model.                                             *)

\* The sizes are positive, and NONE is none of what it is compared with.
LEMMA Sizes ==
    /\ ROB_SIZE \in Nat /\ ROB_SIZE > 0 /\ LQ_SIZE \in Nat /\ LQ_SIZE > 0
    /\ SQ_SIZE \in Nat /\ SQ_SIZE > 0
    /\ NONE \notin Int /\ NONE \notin Loading /\ NONE \notin Storing
  BY CoreAssumption

\* A nonempty set of natural numbers has a minimum.
LEMMA MinExists ==
    ASSUME NEW S \in SUBSET Nat, S # {}
    PROVE  \E x \in S : \A y \in S : x <= y
  <1>1. PICK x \in S : \A y \in S : ~ (<<y, x>> \in OpToRel(<, Nat))
    BY NatLessThanWellFounded, WFMin
  <1>2. \A y \in S : x <= y
    <2> TAKE y \in S
    <2>1. x \in Nat /\ y \in Nat /\ ~ (y < x)
      BY <1>1 DEF OpToRel
    <2> QED
      BY <2>1
  <1> QED
    BY <1>2

\* Youngest returns the maximum of a set of numbers that has a bound,
LEMMA YoungestIsMax ==
    ASSUME NEW n \in Nat, NEW S \in SUBSET (0..n), S # {}
    PROVE  Youngest(S) \in S /\ \A k \in S : k <= Youngest(S)
  <1> DEFINE T == {m \in 0..n : n - m \in S}
  <1>1. T \in SUBSET Nat /\ T # {}
    <2>1. PICK k \in S : TRUE
      OBVIOUS
    <2>2. n - k \in T
      BY <2>1
    <2>3. \A m \in T : m \in Nat
      OBVIOUS
    <2> HIDE DEF T
    <2> QED
      BY <2>2, <2>3
  <1>2. PICK x \in T : \A y \in T : x <= y
    <2> HIDE DEF T
    <2> QED
      BY <1>1, MinExists
  <1>3. n - x \in S
    BY <1>2
  <1>4. ASSUME NEW k \in S PROVE k <= n - x
    <2>1. n - k \in T
      OBVIOUS
    <2> QED
      BY <1>2, <2>1
  <1> QED
    BY <1>3, <1>4 DEF Youngest

\* and whoever is the maximum is what it returns.
LEMMA YoungestIs ==
    ASSUME NEW n \in Nat, NEW S \in SUBSET (0..n), NEW x \in S, \A k \in S : k <= x
    PROVE  Youngest(S) = x
  <1>1. Youngest(S) \in S /\ \A k \in S : k <= Youngest(S)
    BY YoungestIsMax
  <1>2. \A k \in S : k \in Int
    OBVIOUS
  <1>3. Youngest(S) \in Int /\ x \in Int /\ Youngest(S) <= x /\ x <= Youngest(S)
    BY <1>1, <1>2
  <1> QED
    BY <1>3

\* The cardinality of an initial segment.
LEMMA CardUpTo ==
    ASSUME NEW n \in Nat
    PROVE  IsFiniteSet(1..n) /\ Cardinality(1..n) = n
  BY FS_Interval

\* Appending copies of a number no smaller keeps a sequence of numbers sorted.
LEMMA SortedAppend ==
    ASSUME NEW s \in Seq(Nat), NEW n \in Nat, NEW t \in Seq(Nat),
           \A a \in DOMAIN t : t[a] = n,
           \A a \in DOMAIN s : s[a] < n,
           \A a, b \in DOMAIN s : a <= b => s[a] <= s[b]
    PROVE  /\ \A a \in DOMAIN (s \o t) : (s \o t)[a] < n + 1
           /\ \A a \in DOMAIN (s \o t) : (s \o t)[a] = n \/ (a \in DOMAIN s /\ (s \o t)[a] = s[a])
           /\ \A a, b \in DOMAIN (s \o t) : a <= b => (s \o t)[a] <= (s \o t)[b]
  <1> DEFINE r == s \o t
             l == Len(s)
             m == Len(t)
  <1>1. /\ l \in Nat /\ DOMAIN s = 1..l /\ m \in Nat /\ DOMAIN t = 1..m
        /\ r \in Seq(Nat) /\ DOMAIN r = 1..(l + m)
        /\ \A a \in DOMAIN s : s[a] \in Nat
    BY LenProperties, ConcatProperties, ElementOfSeq
  <1>2. \A a \in DOMAIN r : r[a] = IF a <= l THEN s[a] ELSE t[a - l]
    BY <1>1, ConcatProperties
  <1>3. \A a \in DOMAIN r : r[a] = IF a <= l THEN s[a] ELSE n
    BY <1>1, <1>2
  <1> HIDE DEF r, l, m
  <1>4. \A a \in DOMAIN r : a \in Int /\ (r[a] = n \/ (a \in DOMAIN s /\ r[a] = s[a]))
    BY <1>1, <1>3
  <1>5. \A a \in DOMAIN r : r[a] < n + 1
    <2> TAKE a \in DOMAIN r
    <2>1. CASE r[a] = n
      BY <2>1
    <2>2. CASE a \in DOMAIN s /\ r[a] = s[a]
      <3>1. s[a] \in Nat /\ s[a] < n
        BY <2>2, <1>1
      <3> QED
        BY <3>1, <2>2
    <2> QED
      BY <2>1, <2>2, <1>4
  <1>6. \A a, b \in DOMAIN r : a <= b => r[a] <= r[b]
    <2> TAKE a, b \in DOMAIN r
    <2>1. a \in Nat /\ b \in Nat /\ a >= 1 /\ b >= 1
      BY <1>1
    <2>2. CASE b <= l
      BY SMTT(30), <2>1, <2>2, <1>1, <1>3
    <2>3. CASE ~(b <= l)
      BY SMTT(30), <2>1, <2>3, <1>1, <1>3
    <2> QED
      BY <2>2, <2>3
  <1> QED
    BY <1>4, <1>5, <1>6 DEF r

\* Queues without duplicates stay so as they grow and shrink.
LEMMA InjectiveAppend ==
    ASSUME NEW S, NEW s \in Seq(S), NEW x \in S, IsInjective(s), x \notin Range(s)
    PROVE  /\ Append(s, x) \in Seq(S) /\ IsInjective(Append(s, x))
           /\ Range(Append(s, x)) = Range(s) \cup {x}
  <1> DEFINE n == Len(s)
             t == Append(s, x)
  <1>1. n \in Nat /\ DOMAIN s = 1..n
    BY LenProperties
  <1>2. /\ t \in Seq(S) /\ DOMAIN t = 1..(n + 1) /\ t[n + 1] = x
        /\ \A a \in 1..n : t[a] = s[a]
    BY AppendProperties
  <1> HIDE DEF n, t
  <1>3. IsInjective(t)
    BY <1>1, <1>2 DEF IsInjective, Range
  <1>4. Range(t) = Range(s) \cup {x}
    <2>1. 1..(n + 1) = 1..n \cup {n + 1}
      BY <1>1
    <2> QED
      BY <1>1, <1>2, <2>1 DEF Range
  <1> QED
    BY <1>2, <1>3, <1>4 DEF t

\* A queue without repetition has none in its tail, which holds everything
\* but the head.
LEMMA InjectiveTail ==
    ASSUME NEW S, NEW s \in Seq(S), IsInjective(s), s # <<>>
    PROVE  /\ Tail(s) \in Seq(S) /\ IsInjective(Tail(s)) /\ Head(s) \in S
           /\ Head(s) \in Range(s) /\ Range(Tail(s)) = Range(s) \ {Head(s)}
  <1> DEFINE n == Len(s)
             t == Tail(s)
             h == Head(s)
  <1>1. n \in Nat /\ n > 0 /\ DOMAIN s = 1..n /\ h = s[1] /\ h \in S
    BY LenProperties, HeadTailProperties
  <1>2. /\ t \in Seq(S) /\ DOMAIN t = 1..(n - 1)
        /\ \A a \in 1..(n - 1) : t[a] = s[a + 1]
    BY HeadTailProperties, LenProperties
  <1> HIDE DEF n, t, h
  <1>3. IsInjective(t)
    <2> SUFFICES ASSUME NEW a \in 1..(n - 1), NEW b \in 1..(n - 1), t[a] = t[b]
                 PROVE  a = b
      BY <1>2 DEF IsInjective
    <2>1. a + 1 \in 1..n /\ b + 1 \in 1..n /\ s[a + 1] = s[b + 1]
      BY <1>1, <1>2
    <2>2. a + 1 = b + 1
      BY <2>1, <1>1 DEF IsInjective
    <2> QED
      BY <2>2
  <1>4. h \in Range(s)
    BY <1>1 DEF Range
  <1>5. Range(t) = Range(s) \ {h}
    <2>1. ASSUME NEW y \in Range(t) PROVE y \in Range(s) \ {h}
      <3>1. PICK a \in 1..(n - 1) : y = s[a + 1]
        BY <1>2 DEF Range
      <3>2. a + 1 \in 1..n /\ a + 1 # 1 /\ 1 \in 1..n
        BY <1>1
      <3> QED
        BY <3>1, <3>2, <1>1 DEF Range, IsInjective
    <2>2. ASSUME NEW y \in Range(s) \ {h} PROVE y \in Range(t)
      <3>1. PICK a \in 1..n : y = s[a]
        BY <1>1 DEF Range
      <3>2. a - 1 \in 1..(n - 1) /\ t[a - 1] = y
        BY <3>1, <1>1, <1>2
      <3> QED
        BY <3>2, <1>2 DEF Range
    <2> QED
      BY <2>1, <2>2
  <1> QED
    BY <1>1, <1>2, <1>3, <1>4, <1>5 DEF t, h

\* Two queues without repetition that share nothing have none put together.
LEMMA InjectiveConcat ==
    ASSUME NEW S, NEW s \in Seq(S), NEW t \in Seq(S), IsInjective(s), IsInjective(t),
           Range(s) \cap Range(t) = {}
    PROVE  /\ s \o t \in Seq(S) /\ IsInjective(s \o t)
           /\ Range(s \o t) = Range(s) \cup Range(t)
  <1> DEFINE n == Len(s)
             m == Len(t)
             r == s \o t
  <1>1. /\ n \in Nat /\ DOMAIN s = 1..n /\ m \in Nat /\ DOMAIN t = 1..m
        /\ r \in Seq(S) /\ DOMAIN r = 1..(n + m)
    BY LenProperties, ConcatProperties
  <1>2. \A a \in 1..(n + m) : r[a] = IF a <= n THEN s[a] ELSE t[a - n]
    BY <1>1, ConcatProperties
  <1>3. Range(r) = Range(s) \cup Range(t)
    BY RangeConcatenation
  <1> HIDE DEF n, m, r
  <1>4. ASSUME NEW a \in 1..(n + m), NEW b \in 1..(n + m), r[a] = r[b] PROVE a = b
    <2>1. CASE a <= n /\ b <= n
      BY SMTT(30), <1>1, <1>2, <1>4, <2>1 DEF IsInjective
    <2>2. CASE ~(a <= n) /\ ~(b <= n)
      <3>1. a - n \in 1..m /\ b - n \in 1..m
        BY <1>1, <2>2
      <3>2. t[a - n] = t[b - n]
        BY <1>2, <1>4, <2>2
      <3>3. a - n = b - n
        BY <1>1, <3>1, <3>2 DEF IsInjective
      <3> QED
        BY <1>1, <3>3
    <2>3. CASE a <= n /\ ~(b <= n)
      <3>1. a \in 1..n /\ b - n \in 1..m
        BY <1>1, <2>3
      <3> QED
        BY <1>1, <1>2, <1>4, <2>3, <3>1 DEF Range
    <2>4. CASE ~(a <= n) /\ b <= n
      <3>1. b \in 1..n /\ a - n \in 1..m
        BY <1>1, <2>4
      <3> QED
        BY <1>1, <1>2, <1>4, <2>4, <3>1 DEF Range
    <2> QED
      BY <2>1, <2>2, <2>3, <2>4
  <1> QED
    BY <1>1, <1>3, <1>4 DEF r, IsInjective

-----------------------------------------------------------------------------
(* Programs and positions in them.                                         *)

\* The instructions of a program have up to four slots of each kind.
LEMMA ProgramFacts ==
    ASSUME program \in Programs
    PROVE  /\ Len(program) \in Nat /\ Instr = 1..Len(program)
           /\ \A i \in Instr :
                /\ DOMAIN program[i].reads = 1..Len(program[i].reads)
                /\ DOMAIN program[i].loads = 1..Len(program[i].loads)
                /\ DOMAIN program[i].stores = 1..Len(program[i].stores)
                /\ Len(program[i].reads) \in 0..4
                /\ Len(program[i].loads) \in 0..4
                /\ Len(program[i].stores) \in 0..4
                /\ DOMAIN program[i].reads \subseteq 1..4
                /\ DOMAIN program[i].loads \subseteq 1..4
                /\ DOMAIN program[i].stores \subseteq 1..4
                /\ program[i].loads \in Seq(Address) /\ IsInjective(program[i].loads)
                /\ program[i].stores \in Seq(Address) /\ IsInjective(program[i].stores)
  <1>1. program \in Seq(Instruction)
    BY CoreAssumption
  <1>2. Len(program) \in Nat /\ Instr = 1..Len(program)
    BY <1>1 DEF Instr
  <1>3. ASSUME NEW i \in Instr
        PROVE  /\ program[i].reads \in Seq(Register) /\ Len(program[i].reads) <= 4
               /\ program[i].loads \in Seq(Address) /\ Len(program[i].loads) <= 4
               /\ program[i].stores \in Seq(Address) /\ Len(program[i].stores) <= 4
               /\ IsInjective(program[i].loads) /\ IsInjective(program[i].stores)
    <2>1. program[i] \in Instruction
      BY <1>1, <1>2, ElementOfSeq
    <2>2. /\ Len(program[i].reads) <= 4 /\ Len(program[i].loads) <= 4
          /\ Len(program[i].stores) <= 4
          /\ IsInjective(program[i].loads) /\ IsInjective(program[i].stores)
      BY CoreAssumption DEF Instr
    <2> QED
      BY <2>1, <2>2 DEF Instruction
  <1>4. ASSUME NEW S, NEW s \in Seq(S), Len(s) <= 4
        PROVE  DOMAIN s = 1..Len(s) /\ Len(s) \in 0..4 /\ DOMAIN s \subseteq 1..4
    <2>1. Len(s) \in Nat /\ DOMAIN s = 1..Len(s)
      BY LenProperties
    <2> QED
      BY <1>4, <2>1
  <1> QED
    BY <1>2, <1>3, <1>4

\* The buffer holds a stretch of the program.
LEMMA BufferFacts ==
    ASSUME TypeOK
    PROVE  /\ head \in Nat /\ tail \in Nat /\ next_schedule \in Nat
           /\ 1 <= head /\ head <= next_schedule /\ next_schedule <= tail
           /\ tail <= Len(program) + 1
           /\ InROB \in SUBSET Instr /\ IsFiniteSet(InROB) /\ IsFiniteSet(Instr)
           /\ \A i : i \in InROB <=> i \in Nat /\ head <= i /\ i < tail
           /\ \A i : i \in Instr <=> i \in Nat /\ 1 <= i /\ i <= Len(program)
  <1>1. program \in Programs /\ head \in 1..tail /\ tail \in 1..(Len(program) + 1)
        /\ next_schedule \in head..tail
    BY DEF TypeOK
  <1>2. Len(program) \in Nat /\ Instr = 1..Len(program)
    BY <1>1, ProgramFacts
  <1>3. /\ head \in Nat /\ tail \in Nat /\ next_schedule \in Nat
        /\ 1 <= head /\ head <= next_schedule /\ next_schedule <= tail
        /\ tail <= Len(program) + 1
    BY <1>1, <1>2
  <1>4. IsFiniteSet(InROB) /\ IsFiniteSet(Instr)
    <2>1. IsFiniteSet(head..(tail - 1)) /\ IsFiniteSet(1..Len(program))
      BY <1>3, <1>2, FS_Interval
    <2> QED
      BY <2>1, <1>2 DEF InROB
  <1> QED
    BY <1>2, <1>3, <1>4 DEF InROB

-----------------------------------------------------------------------------
(* An instruction enters the buffer.                                       *)

\* add_to_rob keeps the types of every field.
LEMMA AddKeepsTypes ==
    ASSUME CoreInv, add_to_rob
    PROVE  TypeOK'
  <1>0. TypeOK
    BY DEF CoreInv
  <1>1. program' = program /\ Instr' = Instr /\ head' = head /\ next_schedule' = next_schedule
        /\ tail' = tail + 1 /\ tail \in Instr /\ tail - head < ROB_SIZE /\ program \in Programs
    BY <1>0 DEF add_to_rob, TypeOK, Instr
  <1>2. /\ head \in Nat /\ tail \in Nat /\ next_schedule \in Nat
        /\ 1 <= head /\ head <= next_schedule /\ next_schedule <= tail
        /\ \A i : i \in InROB <=> i \in Nat /\ head <= i /\ i < tail
        /\ \A i : i \in Instr <=> i \in Nat /\ 1 <= i /\ i <= Len(program)
    BY <1>0, BufferFacts
  <1>3. Len(program) \in Nat
    BY <1>1, ProgramFacts
  <1>4. \A i : i \in InROB' <=> i \in InROB \/ i = tail
    BY <1>1, <1>2 DEF InROB
  <1>5. /\ head' \in 1..tail' /\ tail' \in 1..(Len(program') + 1)
        /\ tail' - head' <= ROB_SIZE /\ next_schedule' \in head'..tail'
    BY <1>1, <1>2, <1>3, Sizes
  <1>6. new_entry(tail) \in Entry(tail)
    <2>1. DOMAIN program[tail].loads = 1..Len(program[tail].loads)
          /\ DOMAIN program[tail].stores = 1..Len(program[tail].stores)
          /\ Len(program[tail].loads) \in Nat /\ Len(program[tail].stores) \in Nat
      BY <1>1, ProgramFacts
    <2>2. Len(program[tail].loads) + Len(program[tail].stores) \in Nat
      <3>1. \A a, b \in Nat : a + b \in Nat
        OBVIOUS
      <3> QED
        BY <2>1, <3>1
    <2>3. /\ [j \in DOMAIN program[tail].loads |-> NONE]
               \in [DOMAIN program[tail].loads -> LQIndex \cup {NONE}]
          /\ [j \in DOMAIN program[tail].stores |-> NONE]
               \in [DOMAIN program[tail].stores -> SQIndex \cup {NONE}]
      OBVIOUS
    <2>4. ASSUME NEW n \in Nat, NEW L, NEW l \in L, NEW S, NEW t \in S, NEW X, NEW Y
          PROVE  [scheduled |-> 0, executed |-> 0, reg_ready |-> FALSE,
                  num_reg_dependent |-> 0, num_mem_ops |-> n,
                  registers_index_depend_on_me |-> {}, memory_instrs_depend_on_me |-> {},
                  lq_index |-> l, sq_index |-> t]
                   \in [scheduled : 0..2, executed : 0..2, reg_ready : BOOLEAN,
                        num_reg_dependent : Nat, num_mem_ops : Nat,
                        registers_index_depend_on_me : SUBSET X,
                        memory_instrs_depend_on_me : SUBSET Y,
                        lq_index : L, sq_index : S]
      OBVIOUS
    <2> QED
      BY <2>2, <2>3, <2>4 DEF new_entry, Entry
  <1>7. /\ DOMAIN ROB' = Instr'
        /\ \A i \in Instr' : IF i \in InROB' THEN ROB'[i] \in Entry(i)' ELSE ROB'[i] = NONE
    <2>1. ROB' = [ROB EXCEPT ![tail] = new_entry(tail)] /\ DOMAIN ROB = Instr
          /\ \A i \in Instr : IF i \in InROB THEN ROB[i] \in Entry(i) ELSE ROB[i] = NONE
      BY <1>0 DEF add_to_rob, TypeOK
    <2>2. \A i : Entry(i)' = Entry(i)
      BY <1>1 DEF Entry, LQIndex, SQIndex
    <2> QED
      BY <2>1, <2>2, <1>1, <1>4, <1>6
  <1>8. /\ RTE0' \in Seq(InROB') /\ RTE1' \in Seq(InROB')
        /\ IsInjective(RTE0') /\ IsInjective(RTE1') /\ Range(RTE0') \cap Range(RTE1') = {}
    <2>1. RTE0 \in Seq(InROB) /\ RTE1 \in Seq(InROB) /\ RTE0' = RTE0 /\ RTE1' = RTE1
      BY <1>0 DEF add_to_rob, TypeOK
    <2>2. RTE0 \in Seq(InROB') /\ RTE1 \in Seq(InROB')
      BY <2>1, <1>4, SeqMonotonic
    <2> QED
      BY <1>0, <2>1, <2>2 DEF TypeOK
  <1>9. STA' \in Seq(Instr')
    <2>1. StoresOf(tail) \in Seq(Instr)
      BY <1>1, ProgramFacts DEF StoresOf
    <2> QED
      BY <1>0, <2>1, <1>1, ConcatProperties DEF add_to_rob, TypeOK
  <1> QED
    BY <1>0, <1>1, <1>5, <1>7, <1>8, <1>9
    DEF TypeOK, add_to_rob, inflight, LQIndex, SQIndex

\* What changes when an instruction enters.
LEMMA AddEffect ==
    ASSUME CoreInv, add_to_rob
    PROVE  /\ program' = program /\ Instr' = Instr /\ head' = head /\ tail' = tail + 1
           /\ next_schedule' = next_schedule /\ tail \in Instr /\ tail \notin InROB
           /\ \A i : i \in InROB' <=> i \in InROB \/ i = tail
           /\ \A i \in InROB : i \in Nat /\ head <= i /\ i < tail /\ i \in Instr
           /\ \A i \in InROB : ROB'[i] = ROB[i]
           /\ ROB'[tail].scheduled = 0 /\ ROB'[tail].executed = 0 /\ ~ROB'[tail].reg_ready
           /\ ROB'[tail].registers_index_depend_on_me = {}
           /\ ROB'[tail].memory_instrs_depend_on_me = {}
           /\ ROB'[tail].num_mem_ops = Len(program[tail].loads) + Len(program[tail].stores)
           /\ ROB'[tail].lq_index = [j \in DOMAIN program[tail].loads |-> NONE]
           /\ ROB'[tail].sq_index = [j \in DOMAIN program[tail].stores |-> NONE]
           /\ STA' = STA \o StoresOf(tail)
           /\ UNCHANGED <<RTE0, RTE1, LQ, SQ, SQ_tail, data>>
           /\ UNCHANGED <<inflight_reg_executions, inflight_mem_executions>>
  <1>1. TypeOK
    BY DEF CoreInv
  <1>2. /\ head \in Nat /\ tail \in Nat /\ next_schedule \in Nat
        /\ 1 <= head /\ head <= next_schedule /\ next_schedule <= tail
        /\ \A i : i \in InROB <=> i \in Nat /\ head <= i /\ i < tail
        /\ InROB \in SUBSET Instr
    BY <1>1, BufferFacts
  <1>3. /\ program' = program /\ Instr' = Instr /\ head' = head /\ tail' = tail + 1
        /\ next_schedule' = next_schedule /\ tail \in Instr
        /\ ROB' = [ROB EXCEPT ![tail] = new_entry(tail)] /\ DOMAIN ROB = Instr
        /\ STA' = STA \o StoresOf(tail)
        /\ UNCHANGED <<RTE0, RTE1, LQ, SQ, SQ_tail, data>>
        /\ UNCHANGED <<inflight_reg_executions, inflight_mem_executions>>
    BY <1>1 DEF add_to_rob, TypeOK, Instr, inflight
  <1>4. \A i : i \in InROB' <=> i \in InROB \/ i = tail
    BY <1>2, <1>3 DEF InROB
  <1>5. ROB'[tail] = new_entry(tail) /\ \A i \in InROB : ROB'[i] = ROB[i]
    BY <1>2, <1>3
  <1> QED
    BY <1>2, <1>3, <1>4, <1>5 DEF new_entry

\* A new instruction depends on nothing and nothing depends on it yet: the
\* register books, the ready queues and the count of register operations in
\* flight are as before.
LEMMA AddKeepsRegisters ==
    ASSUME CoreInv, add_to_rob
    PROVE  RegistersInv' /\ ReadyInv' /\ (inflight_reg_executions = Cardinality(RegInFlight))'
  <1>1. TypeOK /\ RegistersInv /\ ReadyInv
        /\ inflight_reg_executions = Cardinality(RegInFlight)
    BY DEF CoreInv
  <1>2. /\ head \in Nat /\ tail \in Nat /\ next_schedule \in Nat
        /\ 1 <= head /\ head <= next_schedule /\ next_schedule <= tail
    BY <1>1, BufferFacts
  <1>3. \A i \in InROB : Pending(i)' = Pending(i)
    BY AddEffect DEF Pending
  <1>4. /\ \A i : i = tail => NoIndex(i)'
        /\ \A i \in InROB : NoIndex(i)' = NoIndex(i)
    BY AddEffect DEF NoIndex
  <1>5. \A p, i, j : LastWrites(p, i, j)' = LastWrites(p, i, j)
    BY AddEffect DEF LastWrites
  <1>6. RegistersInv'
    <2> USE AddEffect, <1>1, <1>2 DEF RegistersInv
    <2>1. UnscheduledIdle'
      BY DEF UnscheduledIdle
    <2>2. ReadyBeforeUse'
      BY <1>4 DEF ReadyBeforeUse
    <2>3. NotesValid'
      BY DEF NotesValid
    <2>4. NotedOnce'
      BY DEF NotedOnce
    <2>5. PendingCounted'
      BY SMTT(30), <1>3 DEF PendingCounted
    <2>6. LastWriterNoted'
      <3>1. ASSUME NEW w \in InROB', NEW i \in InROB', NEW j \in DOMAIN program'[i].reads,
                   w < i, i < next_schedule', LastWrites(w, i, j)', ROB'[w].executed # COMPLETED
            PROVE  <<i, j>> \in ROB'[w].registers_index_depend_on_me
        <4>1. i \in InROB /\ w \in InROB /\ i < next_schedule /\ j \in DOMAIN program[i].reads
          BY <3>1
        <4>2. ROB'[w] = ROB[w]
          BY <4>1
        <4>3. LastWrites(w, i, j)
          BY <1>5, <3>1
        <4>4. LastWriterNoted
          BY DEF RegistersInv
        <4> HIDE AddEffect, <1>1, <1>2
        <4> QED
          BY <3>1, <4>1, <4>2, <4>3, <4>4 DEF LastWriterNoted
      <3> HIDE AddEffect, <1>1, <1>2
      <3> QED
        BY <3>1 DEF LastWriterNoted, COMPLETED
    <2> QED
      BY <2>1, <2>2, <2>3, <2>4, <2>5, <2>6
  <1>7. ReadyInv'
    <2>1. Range(RTE0) \cup Range(RTE1) \subseteq InROB
      BY <1>1, RangeOfSeq DEF TypeOK
    <2> QED
      BY <2>1, <1>1, AddEffect DEF ReadyInv, is_memory
  <1>8. RegInFlight' = RegInFlight
    BY AddEffect DEF RegInFlight, is_memory, INFLIGHT
  <1> QED
    BY <1>1, <1>6, <1>7, <1>8, AddEffect

\* add_to_rob touches neither queue, and its new entry owns no place in
\* either.
LEMMA AddKeepsQueues ==
    ASSUME CoreInv, add_to_rob
    PROVE  QueuesInv(st0)'
  <1>1. TypeOK /\ QueuesInv(st0)
    BY DEF CoreInv
  <1>2. /\ head \in Nat /\ tail \in Nat /\ 1 <= head /\ head <= tail
        /\ program \in Programs /\ \A i : i \in Instr => i \in Nat
    BY <1>1, BufferFacts DEF TypeOK
  <1>3. /\ \A p, i, addr : NotStored(p, i, addr)' = NotStored(p, i, addr)
        /\ \A p, i, addr : LastStore(p, i, addr)' = LastStore(p, i, addr)
    BY AddEffect DEF LastStore, NotStored
  <1>4. \A p, addr : Forwards(st0, p, addr)' = Forwards(st0, p, addr)
    BY AddEffect DEF Forwards, st0, SQIndex
  <1>5. \A i : is_memory(i)' = is_memory(i)
    BY AddEffect DEF is_memory
  <1>6. /\ DOMAIN program[tail].loads = 1..Len(program[tail].loads)
        /\ DOMAIN program[tail].stores = 1..Len(program[tail].stores)
        /\ Len(program[tail].loads) \in Nat /\ Len(program[tail].stores) \in Nat
        /\ program[tail].loads \in Seq(Address) /\ program[tail].stores \in Seq(Address)
    BY AddEffect, <1>2, ProgramFacts
  <1>7. \A j \in DOMAIN program[tail].loads : data[tail][j] = NONE
    BY <1>1, <1>2, AddEffect DEF QueuesInv, EntriesInv, ReadsLast, st0
  <1> USE AddEffect, <1>1, <1>2
  <1>a. LoadEntries(st0)' /\ LoadSlots(st0)'
    <2>0. LQ' = LQ /\ data' = data /\ program' = program /\ LQIndex' = LQIndex
      BY DEF LQIndex
    <2>1. LoadEntries(st0)'
      <3> SUFFICES ASSUME NEW l \in LQIndex, LQ[l] # NONE
                   PROVE  /\ LQ[l].instr \in InROB'
                          /\ LQ[l].slot \in DOMAIN program[LQ[l].instr].loads
                          /\ ROB'[LQ[l].instr].lq_index[LQ[l].slot] = l
                          /\ data[LQ[l].instr][LQ[l].slot] = NONE
                          /\ (LQ[l].state = "waiting") <=> (LQ[l].producer # NONE)
        BY <2>0 DEF LoadEntries, st0
      <3>1. /\ LQ[l].instr \in InROB
            /\ LQ[l].slot \in DOMAIN program[LQ[l].instr].loads
            /\ ROB[LQ[l].instr].lq_index[LQ[l].slot] = l
            /\ data[LQ[l].instr][LQ[l].slot] = NONE
            /\ (LQ[l].state = "waiting") <=> (LQ[l].producer # NONE)
        BY DEF QueuesInv, EntriesInv, LoadEntries, st0
      <3>2. ROB'[LQ[l].instr] = ROB[LQ[l].instr] /\ LQ[l].instr \in InROB'
        BY <3>1
      <3> QED
        BY <3>1, <3>2
    <2>2. LoadSlots(st0)'
      <3> SUFFICES ASSUME NEW i \in InROB', NEW j \in DOMAIN program[i].loads
                   PROVE  IF ROB'[i].lq_index[j] = NONE THEN data[i][j] = NONE
                          ELSE \/ data[i][j] # NONE
                               \/ LET q == LQ[ROB'[i].lq_index[j]]
                                  IN  q # NONE /\ q.instr = i /\ q.slot = j
        BY <2>0 DEF LoadSlots, st0
      <3>1. CASE i \in InROB
        <4>1. ROB'[i] = ROB[i]
          BY <3>1
        <4>2. IF ROB[i].lq_index[j] = NONE THEN data[i][j] = NONE
              ELSE \/ data[i][j] # NONE
                   \/ LET q == LQ[ROB[i].lq_index[j]]
                      IN  q # NONE /\ q.instr = i /\ q.slot = j
          BY <3>1 DEF QueuesInv, EntriesInv, LoadSlots, st0
        <4> QED
          BY <4>1, <4>2
      <3>2. CASE i = tail
        <4>1. ROB'[tail].lq_index[j] = NONE /\ data[tail][j] = NONE
          BY <3>2, <1>7
        <4> QED
          BY <3>2, <4>1
      <3> QED
        BY <3>1, <3>2
    <2> QED
      BY <2>1, <2>2
  <1>b. WaitsForLast(st0)'
    BY SMTT(30), <1>3, <1>4 DEF QueuesInv, EntriesInv, LoadEntries, WaitsForLast, WaitsFor, ProducerOf, st0, LQIndex
  <1>c. ReadsLast(st0)' /\ NotedLoads(st0)'
    <2>1. ReadsLast(st0)'
      <3> SUFFICES ASSUME NEW i \in Instr, NEW j \in DOMAIN program[i].loads,
                          data[i][j] # NONE
                   PROVE  /\ i < tail'
                          /\ \/ data[i][j] = ASTRAY /\ MayGoAstray(i, program[i].loads[j])
                             \/ /\ LastStore(data[i][j], i, program[i].loads[j])
                                /\ data[i][j] \in InROB' /\ i \in InROB'
                                     => Forwards(st0, data[i][j], program[i].loads[j])
        BY <1>3, <1>4, AstrayStays DEF ReadsLast, Instr, st0
      <3>1. /\ i < tail
            /\ \/ data[i][j] = ASTRAY /\ MayGoAstray(i, program[i].loads[j])
               \/ /\ LastStore(data[i][j], i, program[i].loads[j])
                  /\ data[i][j] \in InROB /\ i \in InROB
                       => Forwards(st0, data[i][j], program[i].loads[j])
        BY DEF QueuesInv, EntriesInv, ReadsLast, st0
      <3>2. LastStore(data[i][j], i, program[i].loads[j]) => data[i][j] \in 0..(i - 1)
        BY DEF LastStore
      <3> QED
        BY <3>1, <3>2
    <2>2. NotedLoads(st0)'
      BY <1>3 DEF QueuesInv, EntriesInv, NotedLoads, st0
    <2> QED
      BY <2>1, <2>2
  <1>d. StoreEntries(st0)' /\ StoreSlots(st0)'
    <2>1. StoreEntries(st0)'
      BY DEF QueuesInv, EntriesInv, StoreEntries, st0, SQIndex
    <2>2. \A i \in InROB : \A j \in DOMAIN program[i].stores :
            ROB[i].sq_index[j] # NONE =>
              LET q == SQ[ROB[i].sq_index[j]] IN q # NONE /\ q.instr = i /\ q.slot = j
      BY DEF QueuesInv, EntriesInv, StoreSlots, st0
    <2>3. StoreSlots(st0)'
      BY SMTT(30), <2>2 DEF StoreSlots, st0
    <2> QED
      BY <2>1, <2>3
  <1>e. Ring(st0)'
    BY DEF QueuesInv, EntriesInv, Ring, Back, st0
  <1>f. StoresInOrder(st0)'
    <2>1. STA \in Seq(Instr) /\ StoresOf(tail) \in Seq(Instr)
          /\ Len(StoresOf(tail)) = Len(program[tail].stores)
          /\ \A j \in 1..Len(StoresOf(tail)) : StoresOf(tail)[j] = tail
      BY <1>6 DEF TypeOK, StoresOf
    <2>2. /\ STA \in Seq(Nat) /\ StoresOf(tail) \in Seq(Nat)
          /\ \A a \in DOMAIN StoresOf(tail) : StoresOf(tail)[a] = tail
          /\ \A a, b \in DOMAIN STA : a <= b => STA[a] <= STA[b]
          /\ \A a \in DOMAIN STA : STA[a] < tail
      BY ZenonT(30), <2>1, SeqMonotonic, LenProperties DEF QueuesInv, EntriesInv, StoresInOrder, st0
    <2>2a. STA' = STA \o StoresOf(tail)
      BY AddEffect
    <2>3. /\ \A a \in DOMAIN STA' : STA'[a] < tail + 1
          /\ \A a \in DOMAIN STA' : STA'[a] = tail \/ (a \in DOMAIN STA /\ STA'[a] = STA[a])
          /\ \A a, b \in DOMAIN STA' : a <= b => STA'[a] <= STA'[b]
      <3> DEFINE t == StoresOf(tail)
      <3>1. t \in Seq(Nat) /\ \A a \in DOMAIN t : t[a] = tail
        BY <2>2
      <3>2. STA' = STA \o t
        BY <2>2a
      <3> HIDE DEF t
      <3> HIDE AddEffect, <1>1
      <3>3. /\ \A a \in DOMAIN (STA \o t) : (STA \o t)[a] < tail + 1
            /\ \A a \in DOMAIN (STA \o t) :
                 (STA \o t)[a] = tail \/ (a \in DOMAIN STA /\ (STA \o t)[a] = STA[a])
            /\ \A a, b \in DOMAIN (STA \o t) : a <= b => (STA \o t)[a] <= (STA \o t)[b]
        BY <2>2, <3>1, SortedAppend
      <3> QED
        BY <3>2, <3>3
    <2>4. \A s \in SQIndex : \A a \in DOMAIN STA : SQ[s] # NONE => SQ[s].instr <= STA[a]
      BY DEF QueuesInv, EntriesInv, StoresInOrder, st0
    <2>5. \A s \in SQIndex : SQ[s] # NONE => SQ[s].instr <= tail
      BY DEF QueuesInv, EntriesInv, StoreEntries, st0
    <2> QED
      BY SMTT(30), <2>3, <2>4, <2>5 DEF StoresInOrder, st0, SQIndex
  <1>g. OpsCounted(st0)'
    <2>1. ASSUME NEW i \in InROB
          PROVE  OpenLoads(st0, i)' = OpenLoads(st0, i) /\ OpenStores(st0, i)' = OpenStores(st0, i)
      BY DEF OpenLoads, OpenStores, st0
    <2>2. ASSUME NEW i, i = tail
          PROVE  /\ OpenLoads(st0, i)' = 1..Len(program[i].loads)
                 /\ OpenStores(st0, i)' = 1..Len(program[i].stores)
      BY SMTT(30), <2>2, <1>6, <1>7 DEF OpenLoads, OpenStores, st0
    <2>3. /\ Cardinality(1..Len(program[tail].loads)) = Len(program[tail].loads)
          /\ Cardinality(1..Len(program[tail].stores)) = Len(program[tail].stores)
      BY <1>6, CardUpTo
    <2>4. ASSUME NEW i \in InROB'
          PROVE  ROB'[i].num_mem_ops = Cardinality(OpenLoads(st0, i)')
                                       + Cardinality(OpenStores(st0, i)')
      <3>1. CASE i \in InROB
        <4>1. ROB[i].num_mem_ops = Cardinality(OpenLoads(st0, i)) + Cardinality(OpenStores(st0, i))
          BY <3>1 DEF QueuesInv, EntriesInv, OpsCounted, st0
        <4> HIDE <1>1
        <4> QED
          BY <4>1, <3>1, <2>1
      <3>2. CASE i = tail
        <4>1. ROB'[i].num_mem_ops = Len(program[i].loads) + Len(program[i].stores)
          BY <3>2
        <4> HIDE AddEffect, <1>1
        <4> QED
          BY <4>1, <3>2, <2>2, <2>3
      <3> QED
        BY <3>1, <3>2
    <2> QED
      BY <2>4 DEF OpsCounted, st0
  <1>h. DoneWhenCompleted(st0)'
    BY DEF QueuesInv, EntriesInv, DoneWhenCompleted, st0, COMPLETED
  <1>i. MemInFlightCounted(st0)'
    <2>1. is_memory(tail) => ROB'[tail].num_mem_ops # 0
      <3>1. ASSUME NEW S, NEW s \in Seq(S), NEW t \in Seq(S), s # <<>> \/ t # <<>>
            PROVE  Len(s) + Len(t) # 0
        BY <3>1
      <3>2. ROB'[tail].num_mem_ops = Len(program[tail].loads) + Len(program[tail].stores)
        OBVIOUS
      <3> HIDE AddEffect, <1>1, <1>2
      <3>3. is_memory(tail) => Len(program[tail].loads) + Len(program[tail].stores) # 0
        BY <3>1, <1>6 DEF is_memory
      <3> QED
        BY <3>2, <3>3
    <2>2. MemInFlight(st0)' = MemInFlight(st0)
      BY <2>1, <1>5 DEF MemInFlight, st0, COMPLETED
    <2> QED
      BY <2>2 DEF QueuesInv, EntriesInv, MemInFlightCounted, st0
  <1> QED
    BY <1>a, <1>b, <1>c, <1>d, <1>e, <1>f, <1>g, <1>h, <1>i DEF QueuesInv, EntriesInv

-----------------------------------------------------------------------------
(* What a step leaves alone.                                               *)

\* Steps that change nothing of the queues, in the entries or elsewhere.
LEMMA EntriesFrame ==
    ASSUME EntriesInv(st0),
           UNCHANGED <<program, head, tail, LQ, SQ, SQ_tail, STA, data>>,
           \A k \in InROB : /\ ROB'[k].lq_index = ROB[k].lq_index
                            /\ ROB'[k].sq_index = ROB[k].sq_index
                            /\ ROB'[k].num_mem_ops = ROB[k].num_mem_ops
                            /\ ROB'[k].memory_instrs_depend_on_me = ROB[k].memory_instrs_depend_on_me
    PROVE  EntriesInv(st0)'
  <1>1. InROB' = InROB /\ Instr' = Instr
    BY DEF InROB, Instr
  <1>2. /\ \A p, i, addr : NotStored(p, i, addr)' = NotStored(p, i, addr)
        /\ \A p, i, addr : LastStore(p, i, addr)' = LastStore(p, i, addr)
    BY DEF LastStore, NotStored
  <1>3. \A p, addr : Forwards(st0, p, addr)' = Forwards(st0, p, addr)
    BY DEF Forwards, st0, SQIndex
  <1>a. LoadEntries(st0)' /\ LoadSlots(st0)'
    BY <1>1 DEF EntriesInv, LoadEntries, LoadSlots, st0, LQIndex
  <1>b. WaitsForLast(st0)'
    BY <1>1, <1>2, <1>3 DEF EntriesInv, WaitsForLast, WaitsFor, ProducerOf, st0, LQIndex
  <1>c. ReadsLast(st0)' /\ NotedLoads(st0)'
    <2>1. ReadsLast(st0)'
      BY <1>1, <1>2, <1>3, AstrayStays DEF EntriesInv, ReadsLast, st0
    <2>2. NotedLoads(st0)'
      BY <1>1, <1>2 DEF EntriesInv, NotedLoads, st0
    <2> QED
      BY <2>1, <2>2
  <1>d. StoreEntries(st0)' /\ StoreSlots(st0)'
    BY <1>1 DEF EntriesInv, StoreEntries, StoreSlots, st0, SQIndex
  <1>e. Ring(st0)' /\ StoresInOrder(st0)'
    BY DEF EntriesInv, Ring, Back, StoresInOrder, st0, SQIndex
  <1>f. OpsCounted(st0)'
    <2>1. \A i \in InROB : OpenLoads(st0, i)' = OpenLoads(st0, i)
                           /\ OpenStores(st0, i)' = OpenStores(st0, i)
      BY DEF OpenLoads, OpenStores, st0
    <2> QED
      BY <1>1, <2>1 DEF EntriesInv, OpsCounted, st0
  <1> QED
    BY <1>a, <1>b, <1>c, <1>d, <1>e, <1>f DEF EntriesInv

\* Steps that change nothing of the registers.
LEMMA RegistersFrame ==
    ASSUME TypeOK, RegistersInv, UNCHANGED <<program, head, tail, next_schedule>>,
           \A k \in InROB :
             /\ ROB'[k].reg_ready = ROB[k].reg_ready
             /\ ROB'[k].num_reg_dependent = ROB[k].num_reg_dependent
             /\ ROB'[k].registers_index_depend_on_me = ROB[k].registers_index_depend_on_me
             /\ ROB'[k].executed = COMPLETED <=> ROB[k].executed = COMPLETED
             /\ k >= next_schedule => ROB'[k].scheduled = ROB[k].scheduled,
           ReadyBeforeUse'
    PROVE  RegistersInv'
  <1>1. InROB' = InROB /\ Instr' = Instr
    BY DEF InROB, Instr
  <1>2. \A i \in InROB : Pending(i)' = Pending(i)
    BY <1>1 DEF Pending, COMPLETED
  <1>3. \A p, i, j : LastWrites(p, i, j)' = LastWrites(p, i, j)
    BY DEF LastWrites
  <1>4. UnscheduledIdle' /\ NotesValid' /\ NotedOnce'
    BY <1>1 DEF RegistersInv, UnscheduledIdle, NotesValid, NotedOnce
  <1>5. PendingCounted'
    BY <1>1, <1>2 DEF RegistersInv, PendingCounted
  <1>6. LastWriterNoted'
    BY <1>1, <1>3 DEF RegistersInv, LastWriterNoted, COMPLETED
  <1> QED
    BY <1>4, <1>5, <1>6 DEF RegistersInv

-----------------------------------------------------------------------------
(* The next instruction is scheduled.                                      *)

\* The producer of an operand of i is in the buffer, has not executed, and
\* writes the register; the last writer is the producer unless it has executed.
LEMMA ProducerFacts ==
    ASSUME TypeOK, NEW i \in InROB, NEW j \in DOMAIN program[i].reads
    PROVE  /\ reg_RAW_dependency(i, j) # NONE =>
                /\ reg_RAW_dependency(i, j) \in InROB
                /\ reg_RAW_dependency(i, j) < i
                /\ ROB[reg_RAW_dependency(i, j)].executed # COMPLETED
           /\ \A w \in InROB :
                w < i /\ LastWrites(w, i, j) /\ ROB[w].executed # COMPLETED
                  => reg_RAW_dependency(i, j) = w /\ w # NONE
  <1> DEFINE S == {p \in head..(i - 1) : /\ ROB[p].executed # COMPLETED
                                         /\ program[i].reads[j] \in program[p].writes}
  <1>1. /\ head \in Nat /\ tail \in Nat /\ i \in Nat /\ head <= i /\ i < tail
        /\ \A k : k \in InROB <=> k \in Nat /\ head <= k /\ k < tail
    BY BufferFacts
  <1>2. S \in SUBSET (0..(i - 1)) /\ (i - 1) \in Int
    BY <1>1
  <1>3. reg_RAW_dependency(i, j) = Youngest(S)
    BY DEF reg_RAW_dependency
  <1>4. ASSUME S # {}
        PROVE  Youngest(S) \in S
    <2>1. i - 1 \in Nat
      BY <1>1, <1>4
    <2> HIDE DEF S
    <2> QED
      BY <1>2, <1>4, <2>1, YoungestIsMax
  <1>5. S = {} => Youngest(S) = NONE
    BY DEF Youngest
  <1>6. ASSUME NEW w \in InROB, w < i, LastWrites(w, i, j), ROB[w].executed # COMPLETED
        PROVE  Youngest(S) = w /\ w # NONE
    <2>1. w \in S
      BY <1>1, <1>6 DEF LastWrites
    <2>2. \A k \in S : k <= w
      <3> SUFFICES ASSUME NEW k \in S, ~(k <= w) PROVE FALSE
        OBVIOUS
      <3>1. k \in (w + 1)..(i - 1) /\ program[i].reads[j] \in program[k].writes
        BY <1>1
      <3> QED
        BY <3>1, <1>6 DEF LastWrites
    <2>3. i - 1 \in Nat /\ w # NONE
      BY <1>1, <1>6, Sizes
    <2> HIDE DEF S
    <2> QED
      BY <2>1, <2>2, <2>3, <1>2, YoungestIs
  <1>7. ASSUME Youngest(S) # NONE
        PROVE  /\ Youngest(S) \in InROB /\ Youngest(S) < i
               /\ ROB[Youngest(S)].executed # COMPLETED
    <2>1. Youngest(S) \in S
      BY <1>4, <1>5, <1>7
    <2>2. \A k \in S : k \in InROB /\ k < i /\ ROB[k].executed # COMPLETED
      BY <1>1
    <2> HIDE DEF S
    <2> QED
      BY <2>1, <2>2
  <1> QED
    BY <1>3, <1>6, <1>7

\* The operands of i that somebody in the buffer still has to produce.
Dependent(i) == {j \in DOMAIN program[i].reads : reg_RAW_dependency(i, j) # NONE}

\* What changes when an instruction is scheduled.
LEMMA SchedulingEffect ==
    ASSUME CoreInv, do_scheduling, NEW i, i = next_schedule
    PROVE  /\ UNCHANGED <<program, head, tail>> /\ next_schedule' = i + 1
           /\ InROB' = InROB /\ Instr' = Instr /\ i \in InROB /\ i \in Nat /\ DOMAIN ROB' = Instr
           /\ UNCHANGED <<STA, LQ, SQ, SQ_tail, data>>
           /\ UNCHANGED <<inflight_reg_executions, inflight_mem_executions>>
           /\ \A k \in InROB :
                /\ ROB'[k].lq_index = ROB[k].lq_index /\ ROB'[k].sq_index = ROB[k].sq_index
                /\ ROB'[k].num_mem_ops = ROB[k].num_mem_ops
                /\ ROB'[k].memory_instrs_depend_on_me = ROB[k].memory_instrs_depend_on_me
                /\ ROB'[k].executed = ROB[k].executed
                /\ k # i => /\ ROB'[k].scheduled = ROB[k].scheduled
                            /\ ROB'[k].reg_ready = ROB[k].reg_ready
                            /\ ROB'[k].num_reg_dependent = ROB[k].num_reg_dependent
                            /\ ROB'[k].registers_index_depend_on_me =
                                 ROB[k].registers_index_depend_on_me
                                   \cup {<<i, j>> : j \in {d \in Dependent(i) :
                                                             reg_RAW_dependency(i, d) = k}}
                /\ ROB'[k] \in Entry(k)
           /\ ROB'[i].reg_ready = (Dependent(i) = {})
           /\ ROB'[i].num_reg_dependent = Cardinality(Dependent(i))
           /\ ROB'[i].registers_index_depend_on_me = ROB[i].registers_index_depend_on_me
           /\ \A k \in Instr \ InROB : ROB'[k] = ROB[k]
           /\ RTE0' = RTE0
           /\ RTE1' = IF Dependent(i) = {} /\ ~is_memory(i) THEN Append(RTE1, i) ELSE RTE1
  <1>1. TypeOK
    BY DEF CoreInv
  <1>2. /\ UNCHANGED <<program, head, tail>> /\ next_schedule' = i + 1
        /\ InROB' = InROB /\ Instr' = Instr /\ i \in InROB
        /\ UNCHANGED <<STA, LQ, SQ, SQ_tail, data>>
        /\ UNCHANGED <<inflight_reg_executions, inflight_mem_executions>>
        /\ RTE0' = RTE0
        /\ RTE1' = IF Dependent(i) = {} /\ ~is_memory(i) THEN Append(RTE1, i) ELSE RTE1
    BY DEF do_scheduling, Dependent, memory, inflight, InROB, Instr
  <1>3. /\ InROB \subseteq Instr /\ i \in Nat
        /\ \A k \in Instr : IF k \in InROB THEN ROB[k] \in Entry(k) ELSE ROB[k] = NONE
        /\ i \in Instr
    BY <1>1, <1>2, BufferFacts DEF TypeOK
  <1>4. ROB' = [k \in Instr |->
             IF k = i THEN [ROB[i] EXCEPT
                        !.reg_ready = Dependent(i) = {},
                        !.num_reg_dependent = Cardinality(Dependent(i)),
                        !.scheduled = IF is_memory(i) THEN INFLIGHT ELSE COMPLETED]
             ELSE IF k \notin InROB THEN ROB[k]
             ELSE [ROB[k] EXCEPT !.registers_index_depend_on_me =
                     @ \cup {<<i, j>> : j \in {d \in Dependent(i) : reg_RAW_dependency(i, d) = k}}]]
    BY DEF do_scheduling, Dependent
  <1>5. Cardinality(Dependent(i)) \in Nat /\ \A j \in Dependent(i) : <<i, j>> \in Instr \X (1..4)
    <2>1. DOMAIN program[i].reads \subseteq 1..4
      BY <1>1, <1>3, ProgramFacts DEF TypeOK
    <2>2. Dependent(i) \in SUBSET (1..4)
      BY <2>1 DEF Dependent
    <2>3. Cardinality(Dependent(i)) \in Nat
      BY <2>2, CardUpTo, FS_Subset, FS_CardinalityType
    <2> QED
      BY <2>2, <2>3, <1>3
  <1>6. ROB'[i] \in Entry(i)
    <2>1. ASSUME NEW e \in Entry(i), NEW b \in BOOLEAN, NEW n \in Nat, NEW s \in 0..2
          PROVE  [e EXCEPT !.reg_ready = b, !.num_reg_dependent = n, !.scheduled = s] \in Entry(i)
      BY DEF Entry
    <2>2. (IF is_memory(i) THEN INFLIGHT ELSE COMPLETED) \in 0..2 /\ (Dependent(i) = {}) \in BOOLEAN
      BY DEF INFLIGHT, COMPLETED
    <2> QED
      BY <1>2, <1>3, <1>4, <1>5, <2>1, <2>2
  <1>7. ASSUME NEW k \in InROB, k # i PROVE ROB'[k] \in Entry(k)
    <2>1. ASSUME NEW e \in Entry(k), NEW S \in SUBSET (Instr \X (1..4))
          PROVE  [e EXCEPT !.registers_index_depend_on_me = @ \cup S] \in Entry(k)
      BY DEF Entry
    <2>2. {<<i, j>> : j \in {d \in Dependent(i) : reg_RAW_dependency(i, d) = k}}
            \in SUBSET (Instr \X (1..4))
      BY <1>5
    <2> QED
      BY <1>3, <1>4, <1>7, <2>1, <2>2
  <1>8. \A k \in InROB : ROB[k] \in Entry(k)
    BY <1>3
  <1>9. ASSUME NEW k \in InROB
        PROVE  /\ ROB'[k].lq_index = ROB[k].lq_index /\ ROB'[k].sq_index = ROB[k].sq_index
               /\ ROB'[k].num_mem_ops = ROB[k].num_mem_ops
               /\ ROB'[k].memory_instrs_depend_on_me = ROB[k].memory_instrs_depend_on_me
               /\ ROB'[k].executed = ROB[k].executed
               /\ k # i => /\ ROB'[k].scheduled = ROB[k].scheduled
                           /\ ROB'[k].reg_ready = ROB[k].reg_ready
                           /\ ROB'[k].num_reg_dependent = ROB[k].num_reg_dependent
                           /\ ROB'[k].registers_index_depend_on_me =
                                ROB[k].registers_index_depend_on_me
                                  \cup {<<i, j>> : j \in {d \in Dependent(i) :
                                                            reg_RAW_dependency(i, d) = k}}
    BY <1>3, <1>4, <1>8 DEF Entry
  <1>10. /\ ROB'[i].reg_ready = (Dependent(i) = {})
         /\ ROB'[i].num_reg_dependent = Cardinality(Dependent(i))
         /\ ROB'[i].registers_index_depend_on_me = ROB[i].registers_index_depend_on_me
    BY <1>2, <1>3, <1>4, <1>8 DEF Entry
  <1>11. DOMAIN ROB' = Instr /\ \A k \in Instr \ InROB : ROB'[k] = ROB[k]
    BY <1>2, <1>4
  <1> QED
    BY <1>2, <1>3, <1>6, <1>7, <1>9, <1>10, <1>11

\* do_scheduling keeps the types, puts the instruction in a ready queue
\* exactly when all its registers are known, and counts it in flight then.
LEMMA SchedulingKeepsTypes ==
    ASSUME CoreInv, do_scheduling
    PROVE  TypeOK' /\ ReadyInv' /\ (inflight_reg_executions = Cardinality(RegInFlight))'
  <1>1. TypeOK /\ ReadyInv /\ RegistersInv /\ inflight_reg_executions = Cardinality(RegInFlight)
    BY DEF CoreInv
  <1> DEFINE i == next_schedule
  <1>2. /\ UNCHANGED <<program, head, tail>> /\ next_schedule' = i + 1
        /\ InROB' = InROB /\ Instr' = Instr /\ i \in InROB /\ i \in Nat /\ DOMAIN ROB' = Instr
        /\ UNCHANGED <<STA, LQ, SQ, SQ_tail, data>>
        /\ UNCHANGED <<inflight_reg_executions, inflight_mem_executions>>
        /\ \A k \in InROB : ROB'[k] \in Entry(k) /\ ROB'[k].executed = ROB[k].executed
                            /\ (k # i => ROB'[k].reg_ready = ROB[k].reg_ready)
        /\ ROB'[i].reg_ready = (Dependent(i) = {})
        /\ \A k \in Instr \ InROB : ROB'[k] = ROB[k]
        /\ RTE0' = RTE0
        /\ RTE1' = IF Dependent(i) = {} /\ ~is_memory(i) THEN Append(RTE1, i) ELSE RTE1
    BY SchedulingEffect
  <1>3. /\ head \in Nat /\ tail \in Nat /\ 1 <= head /\ head <= i /\ i <= tail
        /\ \A k : k \in InROB <=> k \in Nat /\ head <= k /\ k < tail
    BY <1>1, BufferFacts
  <1>4. i \notin Range(RTE0) /\ i \notin Range(RTE1) /\ ROB[i].executed = 0
    <2>1. ~ROB[i].reg_ready
      BY <1>1, <1>2 DEF RegistersInv, UnscheduledIdle
    <2>2. ROB[i].executed = 0
      BY <1>1, <1>2, <2>1 DEF RegistersInv, ReadyBeforeUse
    <2> QED
      BY <1>1, <2>1, <2>2 DEF ReadyInv
  <1>5. /\ RTE0 \in Seq(InROB) /\ RTE1 \in Seq(InROB) /\ IsInjective(RTE0) /\ IsInjective(RTE1)
        /\ Range(RTE0) \cap Range(RTE1) = {}
    BY <1>1 DEF TypeOK
  <1>6. /\ RTE1' \in Seq(InROB) /\ IsInjective(RTE1') /\ Range(RTE0) \cap Range(RTE1') = {}
        /\ \A k \in Range(RTE1') :
             k \in Range(RTE1) \/ (k = i /\ Dependent(i) = {} /\ ~is_memory(i))
    <2>1. CASE Dependent(i) = {} /\ ~is_memory(i)
      <3>1. RTE1' = Append(RTE1, i)
        BY <1>2, <2>1
      <3>2. /\ Append(RTE1, i) \in Seq(InROB) /\ IsInjective(Append(RTE1, i))
            /\ Range(Append(RTE1, i)) = Range(RTE1) \cup {i}
        BY <1>2, <1>4, <1>5, InjectiveAppend
      <3> QED
        BY <3>1, <3>2, <1>4, <1>5, <2>1
    <2>2. CASE ~(Dependent(i) = {} /\ ~is_memory(i))
      BY <1>2, <1>5, <2>2
    <2> QED
      BY <2>1, <2>2
  <1>7. TypeOK'
    <2>1. \A k : Entry(k)' = Entry(k)
      BY <1>2 DEF Entry, LQIndex, SQIndex
    <2>2. /\ DOMAIN ROB' = Instr'
          /\ \A k \in Instr' : IF k \in InROB' THEN ROB'[k] \in Entry(k)' ELSE ROB'[k] = NONE
      BY <1>1, <1>2, <2>1 DEF TypeOK
    <2>3. next_schedule' \in head'..tail'
      BY <1>2, <1>3
    <2>4. /\ RTE0' \in Seq(InROB') /\ RTE1' \in Seq(InROB')
          /\ IsInjective(RTE0') /\ IsInjective(RTE1') /\ Range(RTE0') \cap Range(RTE1') = {}
      BY <1>2, <1>5, <1>6
    <2> QED
      BY <1>1, <1>2, <2>2, <2>3, <2>4 DEF TypeOK, LQIndex, SQIndex
  <1>8. ReadyInv'
    <2>1. \A k : is_memory(k)' = is_memory(k)
      BY <1>2 DEF is_memory
    <2>2. Range(RTE0) \subseteq InROB /\ Range(RTE1) \subseteq InROB
      BY <1>5, RangeOfSeq
    <2>3. \A k \in Range(RTE0) \cup Range(RTE1) : k # i
      BY <1>4
    <2>4. \A k \in Range(RTE0) \cup Range(RTE1') :
            ~is_memory(k) /\ ROB'[k].reg_ready /\ ROB'[k].executed = 0
      <3> TAKE k \in Range(RTE0) \cup Range(RTE1')
      <3>1. CASE k \in Range(RTE0) \cup Range(RTE1)
        <4>1. k # i /\ k \in InROB
          BY <3>1, <2>2, <2>3
        <4>2. ROB'[k].reg_ready = ROB[k].reg_ready /\ ROB'[k].executed = ROB[k].executed
          BY <4>1, <1>2
        <4>3. ~is_memory(k) /\ ROB[k].reg_ready /\ ROB[k].executed = 0
          BY <3>1, <1>1 DEF ReadyInv
        <4> QED
          BY <4>2, <4>3
      <3>2. CASE k \notin Range(RTE0) \cup Range(RTE1)
        BY <3>2, <1>1, <1>2, <1>4, <1>6
      <3> QED
        BY <3>1, <3>2
    <2> QED
      BY <1>2, <2>1, <2>4 DEF ReadyInv
  <1>9. RegInFlight' = RegInFlight
    BY <1>2 DEF RegInFlight, is_memory
  <1> QED
    BY <1>1, <1>2, <1>7, <1>8, <1>9

\* A note of who waits for an instruction names an instruction of the program
\* and one of its source registers.
LEMMA NotesFacts ==
    ASSUME TypeOK, NEW k \in InROB, NEW d \in ROB[k].registers_index_depend_on_me
    PROVE  d[1] \in Instr /\ d[1] \in Nat /\ d[2] \in 1..4 /\ d = <<d[1], d[2]>>
  <1>1. InROB \in SUBSET Instr /\ \A i \in Instr : i \in Nat
    BY BufferFacts
  <1>2. ROB[k] \in Entry(k)
    BY <1>1 DEF TypeOK
  <1>3. d \in Instr \X (1..4)
    BY <1>2 DEF Entry
  <1> QED
    BY <1>1, <1>3

\* do_scheduling leaves, for each source register that has a producer in
\* flight, one note at that producer and one unit in num_reg_dependent.
LEMMA SchedulingKeepsRegisters ==
    ASSUME CoreInv, do_scheduling
    PROVE  RegistersInv'
  <1>1. TypeOK /\ RegistersInv
    BY DEF CoreInv
  <1> DEFINE i == next_schedule
  <1>2. /\ UNCHANGED <<program, head, tail>> /\ next_schedule' = i + 1
        /\ InROB' = InROB /\ Instr' = Instr /\ i \in InROB /\ i \in Nat
        /\ \A k \in InROB :
             /\ ROB'[k].lq_index = ROB[k].lq_index /\ ROB'[k].sq_index = ROB[k].sq_index
             /\ ROB'[k].executed = ROB[k].executed
             /\ k # i => /\ ROB'[k].scheduled = ROB[k].scheduled
                         /\ ROB'[k].reg_ready = ROB[k].reg_ready
                         /\ ROB'[k].num_reg_dependent = ROB[k].num_reg_dependent
                         /\ ROB'[k].registers_index_depend_on_me =
                              ROB[k].registers_index_depend_on_me
                                \cup {<<i, j>> : j \in {d \in Dependent(i) :
                                                          reg_RAW_dependency(i, d) = k}}
        /\ ROB'[i].reg_ready = (Dependent(i) = {})
        /\ ROB'[i].num_reg_dependent = Cardinality(Dependent(i))
        /\ ROB'[i].registers_index_depend_on_me = ROB[i].registers_index_depend_on_me
    BY SchedulingEffect
  <1>3. /\ head \in Nat /\ tail \in Nat
        /\ \A k : k \in InROB <=> k \in Nat /\ head <= k /\ k < tail
    BY <1>1, BufferFacts
  <1>4. \A j \in Dependent(i) : /\ j \in DOMAIN program[i].reads
                                /\ reg_RAW_dependency(i, j) \in InROB
                                /\ reg_RAW_dependency(i, j) < i
                                /\ ROB[reg_RAW_dependency(i, j)].executed # COMPLETED
    BY <1>1, <1>2, ProducerFacts DEF Dependent
  <1>5. \A k \in InROB : \A d : d \in ROB'[k].registers_index_depend_on_me <=>
          \/ d \in ROB[k].registers_index_depend_on_me
          \/ k # i /\ \E j \in Dependent(i) : d = <<i, j>> /\ reg_RAW_dependency(i, j) = k
    BY <1>2
  <1>6. \A k \in InROB : \A d \in ROB[k].registers_index_depend_on_me :
          /\ k < d[1] /\ d[1] < i /\ d[2] \in DOMAIN program[d[1]].reads
          /\ d[1] \in Nat /\ d = <<d[1], d[2]>>
    BY <1>1, NotesFacts DEF RegistersInv, NotesValid
  <1>7. UnscheduledIdle'
    BY <1>1, <1>2, <1>3 DEF RegistersInv, UnscheduledIdle
  <1>8. ReadyBeforeUse'
    <2>1. \A k \in InROB : NoIndex(k)' = NoIndex(k)
      BY <1>2 DEF NoIndex
    <2>2. ~ROB[i].reg_ready
      BY <1>1, <1>2, <1>3 DEF RegistersInv, UnscheduledIdle
    <2> QED
      BY <1>1, <1>2, <2>1, <2>2 DEF RegistersInv, ReadyBeforeUse
  <1>9. NotesValid'
    <2> SUFFICES ASSUME NEW k \in InROB, NEW d \in ROB'[k].registers_index_depend_on_me
                 PROVE  k < d[1] /\ d[1] < i + 1 /\ d[2] \in DOMAIN program[d[1]].reads
      BY <1>2 DEF NotesValid
    <2>1. CASE d \in ROB[k].registers_index_depend_on_me
      <3>1. k < d[1] /\ d[1] < i /\ d[2] \in DOMAIN program[d[1]].reads /\ d[1] \in Nat
        BY <2>1, <1>6
      <3>2. k \in Nat
        BY <1>3
      <3> QED
        BY <3>1, <3>2, <1>2
    <2>2. CASE \E j \in Dependent(i) : d = <<i, j>> /\ reg_RAW_dependency(i, j) = k
      <3>1. PICK j \in Dependent(i) : d = <<i, j>> /\ reg_RAW_dependency(i, j) = k
        BY <2>2
      <3>2. d[1] = i /\ d[2] = j
        BY <3>1
      <3> QED
        BY <3>1, <3>2, <1>4, <1>2
    <2> QED
      BY <2>1, <2>2, <1>5
  <1>10. NotedOnce'
    <2> SUFFICES ASSUME NEW p \in InROB, NEW q \in InROB,
                        NEW d \in ROB'[p].registers_index_depend_on_me,
                        d \in ROB'[q].registers_index_depend_on_me
                 PROVE  p = q
      BY <1>2 DEF NotedOnce
    <2>1. CASE d \in ROB[p].registers_index_depend_on_me
      <3>1. ~(d[1] = i)
        BY <2>1, <1>6, <1>2
      <3>2. d \in ROB[q].registers_index_depend_on_me
        BY <3>1, <1>5
      <3> QED
        BY <2>1, <3>2, <1>1 DEF RegistersInv, NotedOnce
    <2>2. CASE \E j \in Dependent(i) : d = <<i, j>> /\ reg_RAW_dependency(i, j) = p
      <3>1. PICK j \in Dependent(i) : d = <<i, j>> /\ reg_RAW_dependency(i, j) = p
        BY <2>2
      <3>2. d \notin ROB[q].registers_index_depend_on_me
        BY <3>1, <1>6, <1>2
      <3>3. PICK jj \in Dependent(i) : d = <<i, jj>> /\ reg_RAW_dependency(i, jj) = q
        BY <3>2, <1>5
      <3> QED
        BY <3>1, <3>3
    <2> QED
      BY <2>1, <2>2, <1>5
  <1>11. PendingCounted'
    <2>1. ASSUME NEW k \in InROB, k < i PROVE Pending(k)' = Pending(k)
      <3>1. \A p \in InROB : \A j : <<k, j>> \in ROB'[p].registers_index_depend_on_me
                                     <=> <<k, j>> \in ROB[p].registers_index_depend_on_me
        BY <1>2, <1>3, <1>5, <2>1
      <3> QED
        BY <3>1, <1>2 DEF Pending, COMPLETED
    <2>2. ASSUME NEW k \in InROB, k = i PROVE Pending(k)' = Dependent(i)
      <3>1. \A p \in InROB : \A j : <<i, j>> \in ROB'[p].registers_index_depend_on_me
               <=> j \in Dependent(i) /\ reg_RAW_dependency(i, j) = p
        <4> TAKE p \in InROB
        <4> TAKE j
        <4>1. <<i, j>> \notin ROB[p].registers_index_depend_on_me
          BY <1>2, <1>6
        <4>2. j \in Dependent(i) /\ reg_RAW_dependency(i, j) = p => p # i
          BY <1>2, <1>4
        <4> QED
          BY <4>1, <4>2, <1>5
      <3>2. \A j : j \in Pending(k)' <=> j \in Dependent(i)
        <4> TAKE j
        <4>1. j \in Pending(k)' <=>
                /\ j \in DOMAIN program[i].reads
                /\ \E p \in InROB : /\ ROB[p].executed # COMPLETED
                                    /\ <<i, j>> \in ROB'[p].registers_index_depend_on_me
          BY <2>2, <1>2 DEF Pending, COMPLETED
        <4>2. ASSUME j \in Dependent(i)
              PROVE  /\ j \in DOMAIN program[i].reads
                     /\ \E p \in InROB : /\ ROB[p].executed # COMPLETED
                                         /\ <<i, j>> \in ROB'[p].registers_index_depend_on_me
          BY <4>2, <3>1, <1>4
        <4> QED
          BY <4>1, <4>2, <3>1
      <3> QED
        BY <3>2
    <2> SUFFICES ASSUME NEW k \in InROB, k < i + 1
                 PROVE  /\ ROB'[k].num_reg_dependent = Cardinality(Pending(k)')
                        /\ ROB'[k].reg_ready <=> (ROB'[k].num_reg_dependent = 0)
      BY <1>2 DEF PendingCounted
    <2>3. CASE k = i
      <3>1. Dependent(i) = {} <=> Cardinality(Dependent(i)) = 0
        <4>1. Dependent(i) \in SUBSET (1..4)
          <5>1. DOMAIN program[i].reads \subseteq 1..4
            BY <1>1, <1>2, BufferFacts, ProgramFacts DEF TypeOK
          <5> QED
            BY <5>1, <1>4
        <4>2. IsFiniteSet(Dependent(i))
          BY <4>1, CardUpTo, FS_Subset
        <4> QED
          BY <4>2, FS_EmptySet
      <3>2. Pending(k)' = Dependent(i)
        BY <2>2, <2>3
      <3> QED
        BY <3>1, <3>2, <2>3, <1>2
    <2>4. CASE k # i
      <3>1. k < i
        BY <1>2, <1>3, <2>4
      <3>2. Pending(k)' = Pending(k)
        BY <2>1, <3>1
      <3>3. /\ ROB[k].num_reg_dependent = Cardinality(Pending(k))
            /\ ROB[k].reg_ready <=> (ROB[k].num_reg_dependent = 0)
        BY <1>1, <3>1 DEF RegistersInv, PendingCounted
      <3> QED
        BY <3>2, <3>3, <2>4, <1>2
    <2> QED
      BY <2>3, <2>4
  <1>12. LastWriterNoted'
    <2>1. \A w, k, j : LastWrites(w, k, j)' = LastWrites(w, k, j)
      BY <1>2 DEF LastWrites
    <2> SUFFICES ASSUME NEW w \in InROB, NEW k \in InROB, NEW j \in DOMAIN program[k].reads,
                        w < k, k < i + 1, LastWrites(w, k, j), ROB[w].executed # COMPLETED
                 PROVE  <<k, j>> \in ROB'[w].registers_index_depend_on_me
      BY <1>2, <2>1 DEF LastWriterNoted, COMPLETED
    <2>2. CASE k = i
      <3>1. reg_RAW_dependency(i, j) = w /\ w # NONE
        BY <1>1, <2>2, ProducerFacts
      <3>2. j \in Dependent(i) /\ w # i
        BY <3>1, <2>2, <1>3 DEF Dependent
      <3> QED
        BY <3>1, <3>2, <2>2, <1>5
    <2>3. CASE k # i
      <3>1. k < i
        BY <1>2, <1>3, <2>3
      <3>2. <<k, j>> \in ROB[w].registers_index_depend_on_me
        BY <1>1, <3>1 DEF RegistersInv, LastWriterNoted
      <3> QED
        BY <3>2, <1>5
    <2> QED
      BY <2>2, <2>3
  <1> QED
    BY <1>7, <1>8, <1>9, <1>10, <1>11, <1>12 DEF RegistersInv

\* Steps that do not touch the queues.
LEMMA QueuesFrame ==
    ASSUME QueuesInv(st0),
           UNCHANGED <<program, head, tail, LQ, SQ, SQ_tail, STA, data, inflight_mem_executions>>,
           \A k \in InROB : /\ ROB'[k].lq_index = ROB[k].lq_index
                            /\ ROB'[k].sq_index = ROB[k].sq_index
                            /\ ROB'[k].num_mem_ops = ROB[k].num_mem_ops
                            /\ ROB'[k].memory_instrs_depend_on_me = ROB[k].memory_instrs_depend_on_me
                            /\ ROB'[k].executed = COMPLETED <=> ROB[k].executed = COMPLETED
    PROVE  QueuesInv(st0)'
  <1>1. EntriesInv(st0)'
    BY EntriesFrame DEF QueuesInv
  <1>2. InROB' = InROB /\ \A k : is_memory(k)' = is_memory(k)
    BY DEF InROB, is_memory
  <1>3. DoneWhenCompleted(st0)'
    BY <1>2 DEF QueuesInv, DoneWhenCompleted, st0, COMPLETED
  <1>4. MemInFlight(st0)' = MemInFlight(st0)
    BY <1>2 DEF MemInFlight, st0, COMPLETED
  <1>5. MemInFlightCounted(st0)'
    BY <1>4 DEF QueuesInv, MemInFlightCounted, st0
  <1> QED
    BY <1>1, <1>3, <1>5 DEF QueuesInv

\* do_scheduling, whole, keeps the inductive invariant.
LEMMA SchedulingPreserves ==
    ASSUME CoreInv, do_scheduling
    PROVE  CoreInv'
  <1>1. QueuesInv(st0)'
    <2>1. QueuesInv(st0)
      BY DEF CoreInv
    <2> DEFINE i == next_schedule
    <2>2. /\ UNCHANGED <<program, head, tail, LQ, SQ, SQ_tail, STA, data, inflight_mem_executions>>
          /\ \A k \in InROB :
               /\ ROB'[k].lq_index = ROB[k].lq_index
               /\ ROB'[k].sq_index = ROB[k].sq_index
               /\ ROB'[k].num_mem_ops = ROB[k].num_mem_ops
               /\ ROB'[k].memory_instrs_depend_on_me = ROB[k].memory_instrs_depend_on_me
               /\ ROB'[k].executed = ROB[k].executed
      BY SchedulingEffect
    <2> QED
      BY <2>1, <2>2, QueuesFrame
  <1> QED
    BY <1>1, SchedulingKeepsTypes, SchedulingKeepsRegisters DEF CoreInv

\* add_to_rob, whole, keeps the inductive invariant.
LEMMA AddPreserves ==
    ASSUME CoreInv, add_to_rob
    PROVE  CoreInv'
  BY AddKeepsTypes, AddKeepsRegisters, AddKeepsQueues DEF CoreInv

-----------------------------------------------------------------------------
(* An instruction executes.                                                *)

\* execute_instruction takes one instruction from a ready queue, executes it,
\* and leaves both queues free of repetition.
LEMMA ExecutionEffect ==
    ASSUME CoreInv, execute_instruction
    PROVE  /\ UNCHANGED <<program, head, tail, next_schedule>>
           /\ UNCHANGED <<LQ, SQ, SQ_tail, STA, data, inflight_mem_executions>>
           /\ \E i \in Range(RTE0) \cup Range(RTE1) :
                /\ do_execution(i)
                /\ Range(RTE0') \cup Range(RTE1') = (Range(RTE0) \cup Range(RTE1)) \ {i}
           /\ RTE0' \in Seq(InROB) /\ RTE1' \in Seq(InROB)
           /\ IsInjective(RTE0') /\ IsInjective(RTE1') /\ Range(RTE0') \cap Range(RTE1') = {}
  <1>1. /\ RTE0 \in Seq(InROB) /\ RTE1 \in Seq(InROB) /\ IsInjective(RTE0) /\ IsInjective(RTE1)
        /\ Range(RTE0) \cap Range(RTE1) = {}
    BY DEF CoreInv, TypeOK
  <1>2. CASE RTE0 # <<>> /\ do_execution(Head(RTE0)) /\ RTE0' = Tail(RTE0) /\ UNCHANGED RTE1
    <2>1. /\ Tail(RTE0) \in Seq(InROB) /\ IsInjective(Tail(RTE0)) /\ Head(RTE0) \in Range(RTE0)
          /\ Range(Tail(RTE0)) = Range(RTE0) \ {Head(RTE0)}
      BY <1>1, <1>2, InjectiveTail
    <2>2. Range(RTE0') \cup Range(RTE1') = (Range(RTE0) \cup Range(RTE1)) \ {Head(RTE0)}
      BY <1>1, <1>2, <2>1
    <2>3. Range(RTE0') \cap Range(RTE1') = {}
      BY <1>1, <1>2, <2>1
    <2> QED
      BY <1>1, <1>2, <2>1, <2>2, <2>3 DEF execute_instruction, memory
  <1>3. CASE RTE1 # <<>> /\ do_execution(Head(RTE1)) /\ RTE1' = Tail(RTE1) /\ UNCHANGED RTE0
    <2>1. /\ Tail(RTE1) \in Seq(InROB) /\ IsInjective(Tail(RTE1)) /\ Head(RTE1) \in Range(RTE1)
          /\ Range(Tail(RTE1)) = Range(RTE1) \ {Head(RTE1)}
      BY <1>1, <1>3, InjectiveTail
    <2>2. Range(RTE0') \cup Range(RTE1') = (Range(RTE0) \cup Range(RTE1)) \ {Head(RTE1)}
      BY <1>1, <1>3, <2>1
    <2>3. Range(RTE0') \cap Range(RTE1') = {}
      BY <1>1, <1>3, <2>1
    <2> QED
      BY <1>1, <1>3, <2>1, <2>2, <2>3 DEF execute_instruction, memory
  <1> QED
    BY <1>2, <1>3 DEF execute_instruction

\* execute_instruction keeps the inductive invariant.
LEMMA ExecutionPreserves ==
    ASSUME CoreInv, execute_instruction
    PROVE  CoreInv'
  <1>1. /\ TypeOK /\ RegistersInv /\ ReadyInv /\ QueuesInv(st0)
        /\ inflight_reg_executions = Cardinality(RegInFlight)
    BY DEF CoreInv
  <1>2. /\ UNCHANGED <<program, head, tail, next_schedule>>
        /\ UNCHANGED <<LQ, SQ, SQ_tail, STA, data, inflight_mem_executions>>
        /\ RTE0' \in Seq(InROB) /\ RTE1' \in Seq(InROB)
        /\ IsInjective(RTE0') /\ IsInjective(RTE1') /\ Range(RTE0') \cap Range(RTE1') = {}
    BY ExecutionEffect
  <1>3. PICK i \in Range(RTE0) \cup Range(RTE1) :
          /\ do_execution(i)
          /\ Range(RTE0') \cup Range(RTE1') = (Range(RTE0) \cup Range(RTE1)) \ {i}
    BY ExecutionEffect
  <1>4. /\ InROB \in SUBSET Instr /\ IsFiniteSet(InROB)
        /\ InROB' = InROB /\ Instr' = Instr /\ \A k : is_memory(k)' = is_memory(k)
    BY <1>1, <1>2, BufferFacts DEF InROB, Instr, is_memory
  <1>5. Range(RTE0) \cup Range(RTE1) \subseteq InROB
    BY <1>1, RangeOfSeq DEF TypeOK
  <1>6. i \in InROB /\ ~is_memory(i) /\ ROB[i].reg_ready /\ ROB[i].executed = 0
    BY <1>1, <1>5 DEF ReadyInv
  <1>7. \A k \in InROB : ROB[k] \in Entry(k)
    BY <1>1, <1>4 DEF TypeOK
  <1>8. /\ DOMAIN ROB' = Instr /\ ROB'[i].executed = INFLIGHT
        /\ \A k \in Instr : k # i => ROB'[k] = ROB[k]
        /\ \A k \in InROB :
             /\ ROB'[k].lq_index = ROB[k].lq_index
             /\ ROB'[k].sq_index = ROB[k].sq_index
             /\ ROB'[k].num_mem_ops = ROB[k].num_mem_ops
             /\ ROB'[k].memory_instrs_depend_on_me = ROB[k].memory_instrs_depend_on_me
             /\ ROB'[k].reg_ready = ROB[k].reg_ready
             /\ ROB'[k].num_reg_dependent = ROB[k].num_reg_dependent
             /\ ROB'[k].registers_index_depend_on_me = ROB[k].registers_index_depend_on_me
             /\ ROB'[k].scheduled = ROB[k].scheduled
             /\ ROB'[k] \in Entry(k)
        /\ inflight_reg_executions' = inflight_reg_executions + 1
    <2>1. ROB' = [ROB EXCEPT ![i].executed = INFLIGHT]
          /\ inflight_reg_executions' = inflight_reg_executions + 1 /\ DOMAIN ROB = Instr
      BY <1>1, <1>3 DEF do_execution, TypeOK
    <2>2. ASSUME NEW e \in Entry(i)
          PROVE  [e EXCEPT !.executed = INFLIGHT] \in Entry(i)
      BY DEF Entry, INFLIGHT
    <2>3. ROB'[i] = [ROB[i] EXCEPT !.executed = INFLIGHT] /\ \A k \in Instr : k # i => ROB'[k] = ROB[k]
      BY <2>1, <1>6, <1>4
    <2>4. \A k \in InROB : ROB'[k] \in Entry(k)
      BY <2>2, <2>3, <1>4, <1>6, <1>7
    <2> QED
      BY <2>1, <2>3, <2>4, <1>4, <1>6, <1>7 DEF Entry
  <1>9. \A k \in InROB : ROB'[k].executed = COMPLETED <=> ROB[k].executed = COMPLETED
    BY <1>4, <1>6, <1>8 DEF INFLIGHT, COMPLETED
  <1>10. TypeOK'
    <2>1. \A k : Entry(k)' = Entry(k)
      BY <1>2, <1>4 DEF Entry, LQIndex, SQIndex
    <2>2. /\ DOMAIN ROB' = Instr'
          /\ \A k \in Instr' : IF k \in InROB' THEN ROB'[k] \in Entry(k)' ELSE ROB'[k] = NONE
      BY <1>1, <1>4, <1>6, <1>8, <2>1 DEF TypeOK
    <2>3. inflight_reg_executions' \in Nat
      BY <1>1, <1>8 DEF TypeOK
    <2> QED
      BY <1>1, <1>2, <1>4, <2>2, <2>3 DEF TypeOK, LQIndex, SQIndex
  <1>11. ReadyBeforeUse'
    <2>1. \A k \in InROB : NoIndex(k)' = NoIndex(k)
      BY <1>2, <1>8 DEF NoIndex
    <2> QED
      BY <1>1, <1>4, <1>6, <1>8, <2>1 DEF RegistersInv, ReadyBeforeUse
  <1>12. RegistersInv'
    BY <1>1, <1>2, <1>8, <1>9, <1>11, RegistersFrame
  <1>13. ReadyInv'
    <2>1. \A k \in (Range(RTE0) \cup Range(RTE1)) \ {i} :
            ~is_memory(k) /\ ROB'[k].reg_ready /\ ROB'[k].executed = 0
      BY <1>1, <1>4, <1>5, <1>8 DEF ReadyInv
    <2> QED
      BY <2>1, <1>3, <1>4 DEF ReadyInv
  <1>14. QueuesInv(st0)'
    BY <1>1, <1>2, <1>8, <1>9, QueuesFrame
  <1>15. (inflight_reg_executions = Cardinality(RegInFlight))'
    <2>1. RegInFlight' = RegInFlight \cup {i}
      BY <1>4, <1>6, <1>8 DEF RegInFlight
    <2>2. i \notin RegInFlight /\ IsFiniteSet(RegInFlight)
      <3>1. RegInFlight \subseteq InROB
        BY DEF RegInFlight
      <3> QED
        BY <3>1, <1>4, <1>6, FS_Subset DEF RegInFlight, INFLIGHT
    <2>3. Cardinality(RegInFlight \cup {i}) = Cardinality(RegInFlight) + 1
      BY <2>2, FS_AddElement
    <2> QED
      BY <2>1, <2>3, <1>1, <1>8
  <1> QED
    BY <1>10, <1>12, <1>13, <1>14, <1>15 DEF CoreInv

-----------------------------------------------------------------------------
(* An instruction has executed.                                            *)

\* The operands of k that i produces.
Produced(i, k) == {j \in DOMAIN program[k].reads :
                     <<k, j>> \in ROB[i].registers_index_depend_on_me}

\* They are operands that k still waits for, and nobody else produces.
LEMMA ProducedFacts ==
    ASSUME TypeOK, RegistersInv, NEW i \in InROB, ROB[i].executed # COMPLETED, NEW k \in Instr
    PROVE  /\ Produced(i, k) \subseteq Pending(k)
           /\ Produced(i, k) # {} => k \in InROB /\ k > i /\ k < next_schedule
           /\ IsFiniteSet(Pending(k)) /\ IsFiniteSet(Produced(i, k))
           /\ \A j \in Produced(i, k) : \A p \in InROB :
                <<k, j>> \in ROB[p].registers_index_depend_on_me => p = i
  <1>1. /\ head \in Nat /\ tail \in Nat /\ next_schedule \in Nat /\ next_schedule <= tail
        /\ \A m : m \in InROB <=> m \in Nat /\ head <= m /\ m < tail
        /\ k \in Nat
    BY BufferFacts
  <1>2. Produced(i, k) \subseteq Pending(k)
    BY DEF Produced, Pending
  <1>3. Produced(i, k) # {} => k \in InROB /\ k > i /\ k < next_schedule
    <2> SUFFICES ASSUME NEW j \in Produced(i, k)
                 PROVE  k \in InROB /\ k > i /\ k < next_schedule
      OBVIOUS
    <2>1. <<k, j>> \in ROB[i].registers_index_depend_on_me
      BY DEF Produced
    <2>2. i < <<k, j>>[1] /\ <<k, j>>[1] < next_schedule
      BY <2>1 DEF RegistersInv, NotesValid
    <2>3. i < k /\ k < next_schedule
      BY <2>2
    <2> QED
      BY <1>1, <2>3
  <1>4. IsFiniteSet(Pending(k)) /\ IsFiniteSet(Produced(i, k))
    <2>1. Pending(k) \in SUBSET (1..4)
      <3>1. DOMAIN program[k].reads \subseteq 1..4
        BY ProgramFacts DEF TypeOK
      <3> QED
        BY <3>1 DEF Pending
    <2> QED
      BY <2>1, <1>2, CardUpTo, FS_Subset
  <1>5. \A j \in Produced(i, k) : \A p \in InROB :
          <<k, j>> \in ROB[p].registers_index_depend_on_me => p = i
    BY DEF Produced, RegistersInv, NotedOnce
  <1> QED
    BY <1>2, <1>3, <1>4, <1>5

\* complete_execution changes one instruction to COMPLETED and tells those
\* that noted it; nothing else moves.
LEMMA CompletionEffect ==
    ASSUME CoreInv, NEW i \in Instr, complete_execution(i)
    PROVE  /\ UNCHANGED <<program, head, tail, next_schedule, RTE1>>
           /\ UNCHANGED <<LQ, SQ, SQ_tail, STA, data>>
           /\ i \in InROB /\ ROB[i].executed = INFLIGHT /\ ROB[i].num_mem_ops = 0
           /\ DOMAIN ROB' = Instr /\ \A k \in Instr \ InROB : ROB'[k] = ROB[k]
           /\ \A k \in InROB :
                /\ ROB'[k].lq_index = ROB[k].lq_index
                /\ ROB'[k].sq_index = ROB[k].sq_index
                /\ ROB'[k].num_mem_ops = ROB[k].num_mem_ops
                /\ ROB'[k].memory_instrs_depend_on_me = ROB[k].memory_instrs_depend_on_me
                /\ ROB'[k].registers_index_depend_on_me = ROB[k].registers_index_depend_on_me
                /\ ROB'[k].scheduled = ROB[k].scheduled
                /\ ROB'[k].executed = IF k = i THEN COMPLETED ELSE ROB[k].executed
                /\ Produced(i, k) = {} => /\ ROB'[k].num_reg_dependent = ROB[k].num_reg_dependent
                                          /\ ROB'[k].reg_ready = ROB[k].reg_ready
                /\ Produced(i, k) # {} =>
                     /\ ROB'[k].num_reg_dependent = Cardinality(Pending(k) \ Produced(i, k))
                     /\ ROB'[k].reg_ready = (ROB'[k].num_reg_dependent = 0)
                /\ ROB'[k] \in Entry(k)
  <1>1. TypeOK /\ RegistersInv
    BY DEF CoreInv
  <1>2. /\ UNCHANGED <<program, head, tail, next_schedule, RTE1>>
        /\ UNCHANGED <<LQ, SQ, SQ_tail, STA, data>>
        /\ i \in InROB /\ ROB[i].executed = INFLIGHT /\ ROB[i].num_mem_ops = 0
    BY DEF complete_execution, memory
  <1>3. ROB[i].executed # COMPLETED /\ InROB \in SUBSET Instr
    BY <1>1, <1>2, BufferFacts DEF INFLIGHT, COMPLETED
  <1> DEFINE R == [ROB EXCEPT ![i].executed = COMPLETED]
             left(k) == R[k].num_reg_dependent - Cardinality(Produced(i, k))
  <1>4. /\ DOMAIN R = Instr
        /\ R[i] = [ROB[i] EXCEPT !.executed = COMPLETED]
        /\ \A k \in Instr : k # i => R[k] = ROB[k]
    BY <1>1 DEF TypeOK
  <1>5. \A k \in InROB : ROB[k] \in Entry(k)
    BY <1>1, <1>3 DEF TypeOK
  <1>6. \A k \in InROB :
          /\ R[k] \in Entry(k)
          /\ R[k].lq_index = ROB[k].lq_index
          /\ R[k].sq_index = ROB[k].sq_index
          /\ R[k].num_mem_ops = ROB[k].num_mem_ops
          /\ R[k].memory_instrs_depend_on_me = ROB[k].memory_instrs_depend_on_me
          /\ R[k].registers_index_depend_on_me = ROB[k].registers_index_depend_on_me
          /\ R[k].scheduled = ROB[k].scheduled
          /\ R[k].executed = IF k = i THEN COMPLETED ELSE ROB[k].executed
          /\ R[k].num_reg_dependent = ROB[k].num_reg_dependent
          /\ R[k].reg_ready = ROB[k].reg_ready
    <2> SUFFICES ASSUME NEW k \in InROB
                 PROVE  /\ R[k] \in Entry(k)
                        /\ R[k].lq_index = ROB[k].lq_index
                        /\ R[k].sq_index = ROB[k].sq_index
                        /\ R[k].num_mem_ops = ROB[k].num_mem_ops
                        /\ R[k].memory_instrs_depend_on_me = ROB[k].memory_instrs_depend_on_me
                        /\ R[k].registers_index_depend_on_me = ROB[k].registers_index_depend_on_me
                        /\ R[k].scheduled = ROB[k].scheduled
                        /\ R[k].executed = IF k = i THEN COMPLETED ELSE ROB[k].executed
                        /\ R[k].num_reg_dependent = ROB[k].num_reg_dependent
                        /\ R[k].reg_ready = ROB[k].reg_ready
      OBVIOUS
    <2>1. ROB[k] \in Entry(k)
      BY <1>5
    <2> HIDE DEF R
    <2>2. CASE k = i
      BY <1>4, <2>1, <2>2 DEF Entry, COMPLETED
    <2>3. CASE k # i
      BY <1>3, <1>4, <2>1, <2>3
    <2> QED
      BY <2>2, <2>3
  <1>7. ROB' = [k \in Instr |->
                  IF Produced(i, k) = {} THEN R[k]
                  ELSE [R[k] EXCEPT !.num_reg_dependent = left(k), !.reg_ready = left(k) = 0]]
    <2>1. R[i].registers_index_depend_on_me = ROB[i].registers_index_depend_on_me
      BY <1>2, <1>6
    <2> HIDE DEF R
    <2>2. \A k : {j \in DOMAIN program[k].reads : <<k, j>> \in R[i].registers_index_depend_on_me}
                   = Produced(i, k)
      BY <2>1 DEF Produced
    <2>3. ROB' = reg_RAW_release(R, i)
      BY DEF complete_execution, R
    <2> QED
      BY <2>2, <2>3 DEF reg_RAW_release
  <1>8. DOMAIN ROB' = Instr /\ \A k \in Instr \ InROB : ROB'[k] = ROB[k]
    <2>1. \A k \in Instr \ InROB : Produced(i, k) = {} /\ k # i
      BY <1>1, <1>2, <1>3, ProducedFacts
    <2> HIDE DEF R, left
    <2> QED
      BY <1>4, <1>7, <2>1
  <1>9. ASSUME NEW k \in InROB, Produced(i, k) # {}
        PROVE  left(k) = Cardinality(Pending(k) \ Produced(i, k)) /\ left(k) \in Nat
    <2>1. /\ Produced(i, k) \subseteq Pending(k) /\ k < next_schedule
          /\ IsFiniteSet(Pending(k)) /\ IsFiniteSet(Produced(i, k))
      BY <1>1, <1>2, <1>3, <1>9, ProducedFacts
    <2>2. R[k].num_reg_dependent = Cardinality(Pending(k))
      BY <1>1, <1>6, <2>1 DEF RegistersInv, PendingCounted
    <2>3. /\ Cardinality(Pending(k)) \in Nat /\ Cardinality(Produced(i, k)) \in Nat
          /\ IsFiniteSet(Pending(k) \ Produced(i, k))
          /\ Cardinality(Pending(k) \ Produced(i, k)) \in Nat
      BY <2>1, FS_CardinalityType, FS_Difference
    <2>4. Pending(k) \cap Produced(i, k) = Produced(i, k)
      BY <2>1
    <2>5. Cardinality(Pending(k) \ Produced(i, k))
            = Cardinality(Pending(k)) - Cardinality(Pending(k) \cap Produced(i, k))
      BY <2>1, FS_Difference
    <2> HIDE DEF R
    <2> QED
      BY <2>2, <2>3, <2>4, <2>5
  <1>10. ASSUME NEW k \in InROB
         PROVE  /\ ROB'[k].lq_index = ROB[k].lq_index
                /\ ROB'[k].sq_index = ROB[k].sq_index
                /\ ROB'[k].num_mem_ops = ROB[k].num_mem_ops
                /\ ROB'[k].memory_instrs_depend_on_me = ROB[k].memory_instrs_depend_on_me
                /\ ROB'[k].registers_index_depend_on_me = ROB[k].registers_index_depend_on_me
                /\ ROB'[k].scheduled = ROB[k].scheduled
                /\ ROB'[k].executed = IF k = i THEN COMPLETED ELSE ROB[k].executed
                /\ Produced(i, k) = {} => /\ ROB'[k].num_reg_dependent = ROB[k].num_reg_dependent
                                          /\ ROB'[k].reg_ready = ROB[k].reg_ready
                /\ Produced(i, k) # {} =>
                     /\ ROB'[k].num_reg_dependent = Cardinality(Pending(k) \ Produced(i, k))
                     /\ ROB'[k].reg_ready = (ROB'[k].num_reg_dependent = 0)
                /\ ROB'[k] \in Entry(k)
    <2> HIDE DEF R
    <2>1. CASE Produced(i, k) = {}
      <3>1. ROB'[k] = R[k]
        BY <1>3, <1>7, <2>1
      <3> QED
        BY <3>1, <1>6, <2>1
    <2>2. CASE Produced(i, k) # {}
      <3>2. ROB'[k] = [R[k] EXCEPT !.num_reg_dependent = left(k), !.reg_ready = left(k) = 0]
        BY <1>3, <1>7, <2>2
      <3>3. left(k) \in Nat /\ left(k) = Cardinality(Pending(k) \ Produced(i, k)) /\ R[k] \in Entry(k)
        BY <1>6, <1>9, <2>2
      <3> DEFINE b == left(k) = 0
      <3>5. b \in BOOLEAN
        OBVIOUS
      <3>6. ROB'[k] = [R[k] EXCEPT !.num_reg_dependent = left(k), !.reg_ready = b]
        BY <3>2
      <3> HIDE DEF left, b
      <3>4. /\ ROB'[k] \in Entry(k) /\ ROB'[k].num_reg_dependent = left(k)
            /\ ROB'[k].reg_ready = b
            /\ ROB'[k].lq_index = R[k].lq_index /\ ROB'[k].sq_index = R[k].sq_index
            /\ ROB'[k].num_mem_ops = R[k].num_mem_ops
            /\ ROB'[k].scheduled = R[k].scheduled /\ ROB'[k].executed = R[k].executed
            /\ ROB'[k].memory_instrs_depend_on_me = R[k].memory_instrs_depend_on_me
            /\ ROB'[k].registers_index_depend_on_me = R[k].registers_index_depend_on_me
        BY <3>3, <3>5, <3>6 DEF Entry
      <3>7. ROB'[k].reg_ready = (left(k) = 0)
        BY <3>4 DEF b
      <3> QED
        BY <3>3, <3>4, <3>7, <1>6, <2>2
    <2> QED
      BY <2>1, <2>2
  <1> QED
    BY <1>2, <1>8, <1>10

\* Those that noted a completed instruction lose exactly the dependency they
\* had on it, so the register books still agree.
LEMMA CompletionKeepsRegisters ==
    ASSUME CoreInv, NEW i \in Instr, complete_execution(i)
    PROVE  RegistersInv'
  <1>1. TypeOK /\ RegistersInv
    BY DEF CoreInv
  <1>2. /\ UNCHANGED <<program, head, tail, next_schedule>>
        /\ i \in InROB /\ ROB[i].executed = INFLIGHT
        /\ \A k \in InROB :
             /\ ROB'[k].lq_index = ROB[k].lq_index
             /\ ROB'[k].sq_index = ROB[k].sq_index
             /\ ROB'[k].registers_index_depend_on_me = ROB[k].registers_index_depend_on_me
             /\ ROB'[k].scheduled = ROB[k].scheduled
             /\ ROB'[k].executed = IF k = i THEN COMPLETED ELSE ROB[k].executed
             /\ Produced(i, k) = {} => /\ ROB'[k].num_reg_dependent = ROB[k].num_reg_dependent
                                       /\ ROB'[k].reg_ready = ROB[k].reg_ready
             /\ Produced(i, k) # {} =>
                  /\ ROB'[k].num_reg_dependent = Cardinality(Pending(k) \ Produced(i, k))
                  /\ ROB'[k].reg_ready = (ROB'[k].num_reg_dependent = 0)
    BY CompletionEffect
  <1>3. /\ InROB' = InROB /\ Instr' = Instr /\ ROB[i].executed # COMPLETED /\ InROB \in SUBSET Instr
        /\ next_schedule \in Nat /\ \A k \in InROB : k \in Nat
    BY <1>1, <1>2, BufferFacts DEF InROB, Instr, INFLIGHT, COMPLETED
  <1>4. ASSUME NEW k \in InROB
        PROVE  /\ Produced(i, k) \subseteq Pending(k)
               /\ Produced(i, k) # {} => k < next_schedule /\ ~ROB[k].reg_ready
               /\ Pending(k)' = Pending(k) \ Produced(i, k)
    <2>1. /\ Produced(i, k) \subseteq Pending(k) /\ IsFiniteSet(Pending(k))
          /\ Produced(i, k) # {} => k < next_schedule
          /\ \A j \in Produced(i, k) : \A p \in InROB :
               <<k, j>> \in ROB[p].registers_index_depend_on_me => p = i
      BY <1>1, <1>2, <1>3, ProducedFacts
    <2>2. ASSUME Produced(i, k) # {} PROVE ~ROB[k].reg_ready
      <3>1. Cardinality(Pending(k)) # 0
        BY <2>1, <2>2, FS_EmptySet
      <3> QED
        BY <1>1, <2>1, <2>2, <3>1 DEF RegistersInv, PendingCounted
    <2>3. ASSUME NEW j PROVE j \in Pending(k)' <=> j \in Pending(k) \ Produced(i, k)
      <3>1. j \in Pending(k)' <=>
              /\ j \in DOMAIN program[k].reads
              /\ \E p \in InROB : /\ ROB'[p].executed # COMPLETED
                                  /\ <<k, j>> \in ROB[p].registers_index_depend_on_me
        BY <1>2, <1>3 DEF Pending, COMPLETED
      <3>2. j \in Pending(k) <=>
              /\ j \in DOMAIN program[k].reads
              /\ \E p \in InROB : /\ ROB[p].executed # COMPLETED
                                  /\ <<k, j>> \in ROB[p].registers_index_depend_on_me
        BY DEF Pending
      <3>3. j \in Produced(i, k) <=> /\ j \in DOMAIN program[k].reads
                                     /\ <<k, j>> \in ROB[i].registers_index_depend_on_me
        BY DEF Produced
      <3>4. \A p \in InROB : ROB'[p].executed # COMPLETED <=> p # i /\ ROB[p].executed # COMPLETED
        BY <1>2
      <3> QED
        BY <3>1, <3>2, <3>3, <3>4, <2>1
    <2> QED
      BY <2>1, <2>2, <2>3
  <1>5. \A k \in InROB : ROB[k].reg_ready => ROB'[k].reg_ready
    BY <1>2, <1>4
  <1>6. UnscheduledIdle'
    <2> SUFFICES ASSUME NEW k \in InROB, k >= next_schedule
                 PROVE  ROB'[k].scheduled = 0 /\ ~ROB'[k].reg_ready
      BY <1>2, <1>3 DEF UnscheduledIdle
    <2>1. Produced(i, k) = {}
      BY <1>3, <1>4
    <2> QED
      BY <2>1, <1>1, <1>2 DEF RegistersInv, UnscheduledIdle
  <1>7. ReadyBeforeUse'
    <2>1. \A k \in InROB : NoIndex(k)' = NoIndex(k)
      BY <1>2 DEF NoIndex
    <2>2. ROB[i].reg_ready
      BY <1>1, <1>2 DEF RegistersInv, ReadyBeforeUse, INFLIGHT
    <2>3. \A k \in InROB : (ROB'[k].executed = 0 /\ NoIndex(k)) \/ ROB'[k].reg_ready
      BY <1>1, <1>2, <1>5, <2>2 DEF RegistersInv, ReadyBeforeUse
    <2> QED
      BY <1>3, <2>1, <2>3 DEF ReadyBeforeUse
  <1>8. NotesValid' /\ NotedOnce'
    BY <1>1, <1>2, <1>3 DEF RegistersInv, NotesValid, NotedOnce
  <1>9. PendingCounted'
    <2> SUFFICES ASSUME NEW k \in InROB, k < next_schedule
                 PROVE  /\ ROB'[k].num_reg_dependent = Cardinality(Pending(k)')
                        /\ ROB'[k].reg_ready <=> (ROB'[k].num_reg_dependent = 0)
      BY <1>2, <1>3 DEF PendingCounted
    <2>1. CASE Produced(i, k) = {}
      <3>1. Pending(k)' = Pending(k)
        BY <1>4, <2>1
      <3> QED
        BY <3>1, <2>1, <1>1, <1>2 DEF RegistersInv, PendingCounted
    <2>2. CASE Produced(i, k) # {}
      BY <2>2, <1>2, <1>4
    <2> QED
      BY <2>1, <2>2
  <1>10. LastWriterNoted'
    <2>1. \A w, k, j : LastWrites(w, k, j)' = LastWrites(w, k, j)
      BY <1>2 DEF LastWrites
    <2> SUFFICES ASSUME NEW w \in InROB, NEW k \in InROB, NEW j \in DOMAIN program[k].reads,
                        w < k, k < next_schedule, LastWrites(w, k, j), ROB'[w].executed # COMPLETED
                 PROVE  <<k, j>> \in ROB'[w].registers_index_depend_on_me
      BY <1>2, <1>3, <2>1 DEF LastWriterNoted, COMPLETED
    <2>2. ROB[w].executed # COMPLETED
      BY <1>2
    <2>3. <<k, j>> \in ROB[w].registers_index_depend_on_me
      BY <1>1, <2>2 DEF RegistersInv, LastWriterNoted
    <2> QED
      BY <2>3, <1>2
  <1> QED
    BY <1>6, <1>7, <1>8, <1>9, <1>10 DEF RegistersInv

\* complete_execution keeps the inductive invariant.
LEMMA CompletionPreserves ==
    ASSUME CoreInv, NEW i \in Instr, complete_execution(i)
    PROVE  CoreInv'
  <1>1. /\ TypeOK /\ RegistersInv /\ ReadyInv /\ QueuesInv(st0)
        /\ inflight_reg_executions = Cardinality(RegInFlight)
    BY DEF CoreInv
  <1>2. /\ UNCHANGED <<program, head, tail, next_schedule, RTE1>>
        /\ UNCHANGED <<LQ, SQ, SQ_tail, STA, data>>
        /\ i \in InROB /\ ROB[i].executed = INFLIGHT /\ ROB[i].num_mem_ops = 0
        /\ DOMAIN ROB' = Instr /\ \A k \in Instr \ InROB : ROB'[k] = ROB[k]
        /\ \A k \in InROB :
             /\ ROB'[k].lq_index = ROB[k].lq_index
             /\ ROB'[k].sq_index = ROB[k].sq_index
             /\ ROB'[k].num_mem_ops = ROB[k].num_mem_ops
             /\ ROB'[k].memory_instrs_depend_on_me = ROB[k].memory_instrs_depend_on_me
             /\ ROB'[k].executed = IF k = i THEN COMPLETED ELSE ROB[k].executed
             /\ Produced(i, k) = {} => ROB'[k].reg_ready = ROB[k].reg_ready
             /\ ROB'[k] \in Entry(k)
    BY CompletionEffect
  <1>3. /\ InROB \in SUBSET Instr /\ IsFiniteSet(InROB)
        /\ InROB' = InROB /\ Instr' = Instr /\ \A k : is_memory(k)' = is_memory(k)
    BY <1>1, <1>2, BufferFacts DEF InROB, Instr, is_memory
  <1>4. RegistersInv'
    BY CompletionKeepsRegisters
  <1> DEFINE woken == {k \in InROB : ROB'[k].reg_ready /\ ~ROB[k].reg_ready /\ ~is_memory(k)}
  <1>5. PICK s \in SetToSeqs(woken) : RTE0' = RTE0 \o s
    BY DEF complete_execution
  <1>6. s \in Seq(InROB) /\ IsInjective(s) /\ Range(s) \subseteq woken
    <2>1. IsFiniteSet(woken)
      BY <1>3, FS_Subset
    <2>2. Cardinality(woken) \in Nat
      BY <2>1, FS_CardinalityType
    <2> DEFINE n == Cardinality(woken)
    <2>3. s \in [1..n -> woken] /\ \A a, b \in 1..n : a # b => s[a] # s[b]
      BY <1>5 DEF SetToSeqs
    <2>4. woken \subseteq InROB /\ n \in Nat
      BY <2>2
    <2> HIDE DEF woken, n
    <2> QED
      BY <2>3, <2>4 DEF IsInjective, Range
  <1>7. /\ RTE0 \in Seq(InROB) /\ RTE1 \in Seq(InROB) /\ IsInjective(RTE0) /\ IsInjective(RTE1)
        /\ Range(RTE0) \cap Range(RTE1) = {}
        /\ Range(RTE0) \cup Range(RTE1) \subseteq InROB
    BY <1>1, RangeOfSeq DEF TypeOK
  <1>8. \A k \in Range(RTE0) \cup Range(RTE1) : k \notin woken
    BY <1>1 DEF ReadyInv
  <1>9. /\ RTE0' \in Seq(InROB) /\ IsInjective(RTE0')
        /\ Range(RTE0') = Range(RTE0) \cup Range(s)
    <2>1. Range(RTE0) \cap Range(s) = {}
      BY <1>6, <1>8
    <2> QED
      BY <1>5, <1>6, <1>7, <2>1, InjectiveConcat
  <1>10. \A k \in InROB : ROB[k].reg_ready => ROB'[k].reg_ready
    <2>1. \A k \in InROB : Produced(i, k) # {} => ~ROB[k].reg_ready
      <3> SUFFICES ASSUME NEW k \in InROB, Produced(i, k) # {} PROVE ~ROB[k].reg_ready
        OBVIOUS
      <3>1. ROB[i].executed # COMPLETED
        BY <1>2 DEF INFLIGHT, COMPLETED
      <3>2. /\ Produced(i, k) \subseteq Pending(k) /\ k < next_schedule /\ IsFiniteSet(Pending(k))
        BY <1>1, <1>2, <1>3, <3>1, ProducedFacts
      <3>3. Cardinality(Pending(k)) # 0
        BY <3>2, FS_EmptySet
      <3> QED
        BY <1>1, <3>2, <3>3 DEF RegistersInv, PendingCounted
    <2> QED
      BY <1>2, <2>1
  <1>11. ReadyInv'
    <2>1. ASSUME NEW k \in Range(RTE0) \cup Range(RTE1)
          PROVE  ~is_memory(k) /\ ROB'[k].reg_ready /\ ROB'[k].executed = 0
      <3>1. k \in InROB /\ ~is_memory(k) /\ ROB[k].reg_ready /\ ROB[k].executed = 0
        BY <1>1, <1>7 DEF ReadyInv
      <3> QED
        BY <3>1, <1>2, <1>10 DEF INFLIGHT
    <2>2. ASSUME NEW k \in woken
          PROVE  ~is_memory(k) /\ ROB'[k].reg_ready /\ ROB'[k].executed = 0
      <3>1. ROB[k].executed = 0
        BY <1>1 DEF RegistersInv, ReadyBeforeUse
      <3> QED
        BY <3>1, <1>2 DEF INFLIGHT
    <2>3. \A k \in Range(RTE0') \cup Range(RTE1') :
            ~is_memory(k) /\ ROB'[k].reg_ready /\ ROB'[k].executed = 0
      <3> HIDE DEF woken
      <3> QED
        BY <2>1, <2>2, <1>2, <1>6, <1>9
    <2> QED
      BY <2>3, <1>3 DEF ReadyInv
  <1>12. EntriesInv(st0)'
    BY <1>1, <1>2, EntriesFrame DEF QueuesInv
  <1>13. DoneWhenCompleted(st0)'
    BY <1>1, <1>2, <1>3 DEF QueuesInv, DoneWhenCompleted, st0, COMPLETED
  <1>14. /\ (inflight_reg_executions = Cardinality(RegInFlight))'
         /\ MemInFlightCounted(st0)'
         /\ inflight_reg_executions' \in Nat /\ inflight_mem_executions' \in Nat
    <2>1. IsFiniteSet(RegInFlight) /\ IsFiniteSet(MemInFlight(st0))
      <3>1. RegInFlight \subseteq InROB /\ MemInFlight(st0) \subseteq InROB
        BY DEF RegInFlight, MemInFlight
      <3> QED
        BY <3>1, <1>3, FS_Subset
    <2>2. inflight_mem_executions = Cardinality(MemInFlight(st0))
      BY <1>1 DEF QueuesInv, MemInFlightCounted, st0
    <2>3. inflight_reg_executions \in Nat /\ inflight_mem_executions \in Nat
      BY <1>1 DEF TypeOK
    <2>4. CASE is_memory(i)
      <3>1. RegInFlight' = RegInFlight
        BY <1>2, <1>3, <2>4 DEF RegInFlight
      <3>2. MemInFlight(st0)' = MemInFlight(st0) \ {i} /\ i \in MemInFlight(st0)
        BY <1>2, <1>3, <2>4 DEF MemInFlight, st0, INFLIGHT, COMPLETED
      <3>3. Cardinality(MemInFlight(st0) \ {i}) = Cardinality(MemInFlight(st0)) - 1
            /\ IsFiniteSet(MemInFlight(st0) \ {i})
        BY <2>1, <3>2, FS_RemoveElement
      <3>4. Cardinality(MemInFlight(st0) \ {i}) \in Nat
        BY <3>3, FS_CardinalityType
      <3>5. inflight_reg_executions' = inflight_reg_executions
            /\ inflight_mem_executions' = inflight_mem_executions - 1
        BY <2>4 DEF complete_execution
      <3> QED
        BY <1>1, <2>2, <2>3, <3>1, <3>2, <3>3, <3>4, <3>5 DEF MemInFlightCounted, st0
    <2>5. CASE ~is_memory(i)
      <3>1. MemInFlight(st0)' = MemInFlight(st0)
        BY <1>2, <1>3, <2>5 DEF MemInFlight, st0, COMPLETED
      <3>2. RegInFlight' = RegInFlight \ {i} /\ i \in RegInFlight
        BY <1>2, <1>3, <2>5 DEF RegInFlight, INFLIGHT, COMPLETED
      <3>3. Cardinality(RegInFlight \ {i}) = Cardinality(RegInFlight) - 1
            /\ IsFiniteSet(RegInFlight \ {i})
        BY <2>1, <3>2, FS_RemoveElement
      <3>4. Cardinality(RegInFlight \ {i}) \in Nat
        BY <3>3, FS_CardinalityType
      <3>5. inflight_mem_executions' = inflight_mem_executions
            /\ inflight_reg_executions' = inflight_reg_executions - 1
        BY <2>5 DEF complete_execution
      <3> QED
        BY <1>1, <2>2, <2>3, <3>1, <3>2, <3>3, <3>4, <3>5 DEF MemInFlightCounted, st0
    <2> QED
      BY <2>4, <2>5
  <1>15. TypeOK'
    <2>1. \A k : Entry(k)' = Entry(k)
      BY <1>2, <1>3 DEF Entry, LQIndex, SQIndex
    <2>2. /\ DOMAIN ROB' = Instr'
          /\ \A k \in Instr' : IF k \in InROB' THEN ROB'[k] \in Entry(k)' ELSE ROB'[k] = NONE
      BY <1>1, <1>2, <1>3, <2>1 DEF TypeOK
    <2>3. Range(RTE0') \cap Range(RTE1') = {}
      <3> HIDE DEF woken
      <3> QED
        BY <1>2, <1>6, <1>7, <1>8, <1>9
    <2> QED
      BY <1>1, <1>2, <1>3, <1>7, <1>9, <1>14, <2>2, <2>3 DEF TypeOK, LQIndex, SQIndex
  <1> QED
    BY <1>4, <1>11, <1>12, <1>13, <1>14, <1>15 DEF CoreInv, QueuesInv
=============================================================================
