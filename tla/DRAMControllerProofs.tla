------------------------- MODULE DRAMControllerProofs -------------------------
(***************************************************************************)
(* What holds of the memory controller for any banks, rows, queue sizes,   *)
(* watermarks and latencies: the invariant of DRAMController.tla.          *)
(***************************************************************************)
EXTENDS DRAMController, FunctionTheorems, FiniteSetTheorems, WellFoundedInduction, TLAPS

-----------------------------------------------------------------------------
(* The invariant.                                                          *)

\* There is one of each for either queue.
PerQueue ==
    /\ queue = [q \in Queue |-> queue[q]]
    /\ occupancy = [q \in Queue |-> occupancy[q]]
    /\ next_schedule = [q \in Queue |-> next_schedule[q]]
    /\ next_process = [q \in Queue |-> next_process[q]]
    /\ scheduled = [q \in Queue |-> scheduled[q]]

\* The bus is not free before the last transfer has ended, and if that was
\* one of the other queue, not before the bus has turned around as well;
\* unless all that is long past.
BusFree ==
    LET past == transfer.ends <= -DRAM_DBUS_TURN_AROUND_TIME
    IN  /\ past \/ transfer.ends <= dbus_cycle_available
        /\ transfer.queue \notin {Turn, NONE} =>
             past \/ transfer.ends + DRAM_DBUS_TURN_AROUND_TIME <= dbus_cycle_available

DRAMInv ==
    /\ TypeOK
    /\ PerQueue
    /\ BanksAgree
    /\ NextUpToDate
    /\ BusFree

-----------------------------------------------------------------------------
(* The operators of the model.                                             *)

\* The sizes, latencies and bounds are numbers; NONE is something else.
LEMMA Sizes ==
    /\ \A q \in Queue : Size[q] \in Nat /\ Size[q] > 0
    /\ ACTIVATE \in Nat /\ tCAS \in Nat /\ ACTIVATE + tCAS \in Nat
    /\ DRAM_DBUS_RETURN_TIME \in Nat /\ DRAM_DBUS_TURN_AROUND_TIME \in Nat
    /\ MaxRequests \in Nat
    /\ \A c \in RequestCycles : c \in Int
    /\ BankOf \in [Address -> Bank] /\ RowOf \in [Address -> Row]
    /\ NONE \notin Address /\ NONE \notin Row /\ NONE \notin Int /\ NONE \notin Queue
  BY DRAMAssumption DEF Size, Queue

\* One condition picks the request that comes first.
First(entries, slots, s) ==
    /\ s \in slots
    /\ \A t \in slots :
        \/ entries[s].event_cycle < entries[t].event_cycle
        \/ entries[s].event_cycle = entries[t].event_cycle /\ s <= t

\* There is at most one such request,
LEMMA FirstIsOne ==
    ASSUME NEW n \in Nat, NEW slots \in SUBSET (0..n), NEW entries,
           \A s \in slots : entries[s].event_cycle \in Int,
           NEW a, NEW b, First(entries, slots, a), First(entries, slots, b)
    PROVE  a = b
  <1> DEFINE x == entries[a].event_cycle
             y == entries[b].event_cycle
  <1>0. \A s \in slots : s \in 0..n
    OBVIOUS
  <1>1. a \in slots /\ b \in slots /\ a \in Int /\ b \in Int /\ x \in Int /\ y \in Int
    BY <1>0 DEF First
  <1>2. /\ x < y \/ (x = y /\ a <= b)
        /\ y < x \/ (y = x /\ b <= a)
    BY <1>1 DEF First
  <1> HIDE DEF x, y
  <1> QED
    BY <1>1, <1>2

\* and at least one, of finitely many slots.
LEMMA FirstExists ==
    ASSUME NEW n \in Nat, NEW slots \in SUBSET (0..n), slots # {}, NEW entries,
           \A s \in slots : entries[s].event_cycle \in Int
    PROVE  \E s : First(entries, slots, s)
  <1> DEFINE Below(m) == {s \in slots : s < m}
             T == {m \in Nat : Below(m) # {} /\ ~ \E s : First(entries, Below(m), s)}
  <1> SUFFICES ASSUME ~ \E s : First(entries, slots, s) PROVE FALSE
    OBVIOUS
  <1>0. \A s \in slots : s \in 0..n /\ s \in Nat /\ s <= n /\ s < n + 1
    <2>1. \A s \in 0..n : s \in Nat /\ s <= n /\ s < n + 1
      OBVIOUS
    <2> QED
      BY <2>1
  <1>1. Below(n + 1) = slots /\ n + 1 \in Nat
    <2>1. ASSUME NEW k, \A s \in slots : s < k PROVE Below(k) = slots
      BY <2>1
    <2>2. \A s \in slots : s < n + 1
      BY <1>0
    <2> HIDE DEF Below
    <2> QED
      BY <2>1, <2>2
  <1>2. T \in SUBSET Nat /\ T # {}
    <2>1. n + 1 \in T
      BY <1>1
    <2>2. \A m \in T : m \in Nat
      OBVIOUS
    <2> HIDE DEF T
    <2> QED
      BY <2>1, <2>2
  <1>3. PICK m \in T : \A k \in T : ~ (<<k, m>> \in OpToRel(<, Nat))
    <2> HIDE DEF T
    <2> QED
      BY <1>2, NatLessThanWellFounded, WFMin
  <1>4. m \in Nat /\ Below(m) # {} /\ ~ \E s : First(entries, Below(m), s)
    OBVIOUS
  <1>5. m > 0 /\ m - 1 \in Nat
    <2>1. PICK s \in slots : s < m
      BY <1>4
    <2>2. s \in Nat
      BY <1>0
    <2> QED
      BY <1>4, <2>1, <2>2
  <1>6. m - 1 \notin T
    <2>1. (m - 1) \in T => <<m - 1, m>> \in OpToRel(<, Nat)
      BY <1>4, <1>5 DEF OpToRel
    <2> HIDE DEF T
    <2> QED
      BY <1>3, <2>1
  <1>7. Below(m) = Below(m - 1) \/ (m - 1 \in slots /\ Below(m) = Below(m - 1) \cup {m - 1})
    <2>1. \A s \in Nat : s < m <=> s < m - 1 \/ s = m - 1
      BY <1>4
    <2>2. \A s \in slots : s < m <=> s < m - 1 \/ s = m - 1
      BY <1>0, <2>1
    <2> HIDE DEF T
    <2> QED
      BY <2>2
  <1>8. \A s \in Below(m) : s \in Int /\ s <= m - 1 /\ entries[s].event_cycle \in Int
    BY <1>0, <1>4
  <1>9. Below(m - 1) = {} \/ \E s : First(entries, Below(m - 1), s)
    BY <1>5, <1>6
  <1> HIDE DEF T, Below
  <1>10. CASE Below(m) = Below(m - 1)
    BY <1>4, <1>9, <1>10
  <1>11. CASE m - 1 \in slots /\ Below(m) = Below(m - 1) \cup {m - 1}
    <2> DEFINE l == m - 1
    <2>1. l \in Below(m) /\ \A t \in Below(m) : t \in Below(l) \/ t = l
      BY <1>11
    <2>2. Below(l) \subseteq Below(m)
      BY <1>11
    <2>3. \A t \in Below(m) : t \in Int /\ t <= l /\ entries[t].event_cycle \in Int
      BY <1>8
    <2>4. Below(l) = {} \/ \E s : First(entries, Below(l), s)
      BY <1>9
    <2> HIDE DEF l
    <2>5. CASE Below(l) = {}
      <3>1. First(entries, Below(m), l)
        BY <2>1, <2>3, <2>5 DEF First
      <3> QED
        BY <1>4, <3>1
    <2>6. ASSUME NEW s, First(entries, Below(l), s) PROVE FALSE
      <3>1. s \in Below(m)
        BY <2>2, <2>6 DEF First
      <3>2. CASE entries[l].event_cycle < entries[s].event_cycle
        <4>1. First(entries, Below(m), l)
          BY <2>1, <2>3, <2>6, <3>1, <3>2 DEF First
        <4> QED
          BY <1>4, <4>1
      <3>3. CASE ~(entries[l].event_cycle < entries[s].event_cycle)
        <4>1. First(entries, Below(m), s)
          BY <2>1, <2>3, <2>6, <3>1, <3>3 DEF First
        <4> QED
          BY <1>4, <4>1
      <3> QED
        BY <3>2, <3>3
    <2> QED
      BY <2>4, <2>5, <2>6
  <1> QED
    BY <1>7, <1>10, <1>11

\* So Earliest returns it.
LEMMA EarliestFirst ==
    ASSUME NEW n \in Nat, NEW slots \in SUBSET (0..n), slots # {}, NEW entries,
           \A s \in slots : entries[s].event_cycle \in Int
    PROVE  First(entries, slots, Earliest(entries, slots))
  <1>1. \E s : First(entries, slots, s)
    BY FirstExists
  <1> QED
    BY <1>1 DEF First, Earliest

\* Of some slots one is the least.
LEMMA LeastSlot ==
    ASSUME NEW n \in Nat, NEW slots \in SUBSET (0..n), slots # {}
    PROVE  Min(slots) \in slots
  <1> DEFINE entries == [s \in slots |-> [event_cycle |-> 0]]
  <1>1. \A s \in slots : entries[s].event_cycle = 0
    OBVIOUS
  <1>2. \A s \in slots : entries[s].event_cycle \in Int
    BY <1>1
  <1> HIDE DEF entries
  <1>3. PICK s : First(entries, slots, s)
    BY <1>2, FirstExists
  <1>4. s \in slots /\ \A t \in slots : s <= t
    BY <1>1, <1>3 DEF First
  <1> QED
    BY <1>4 DEF Min

\* The later of a cycle and this one.
LEMMA NotPast ==
    ASSUME NEW e \in Int
    PROVE  Max({0, e}) = IF e > 0 THEN e ELSE 0
  BY DEF Max

\* A cycle passes.
LEMMA UntilIs ==
    ASSUME NEW wait \in Int
    PROVE  Until(wait) = IF wait > 0 THEN wait - 1 ELSE 0
  BY NotPast DEF Until

\* What the first of the waiting requests is,
LEMMA NextIs ==
    ASSUME NEW n \in Nat, NEW slots \in SUBSET (0..n), NEW entries,
           \A s \in slots : entries[s].event_cycle \in Int,
           NEW s, First(entries, slots, s)
    PROVE  NextAmong(entries, slots) =
             [index |-> s, cycle |-> Max({0, entries[s].event_cycle})]
  <1>1. slots # {} /\ s \in slots
    BY DEF First
  <1>2. Earliest(entries, slots) = s
    <2>1. First(entries, slots, Earliest(entries, slots))
      BY <1>1, EarliestFirst
    <2> QED
      BY <2>1, FirstIsOne
  <1> QED
    BY <1>1, <1>2 DEF NextAmong

\* of which shape it is,
LEMMA NextType ==
    ASSUME NEW n \in Nat, NEW slots \in SUBSET (0..n), NEW entries,
           \A s \in slots : entries[s].event_cycle \in Int
    PROVE  NextAmong(entries, slots) \in [index : slots, cycle : Nat] \cup {NEVER}
  <1>1. CASE slots = {}
    BY <1>1 DEF NextAmong
  <1>2. CASE slots # {}
    <2>1. PICK s : First(entries, slots, s)
      BY <1>2, FirstExists
    <2>2. s \in slots /\ entries[s].event_cycle \in Int
      BY <2>1 DEF First
    <2>3. Max({0, entries[s].event_cycle}) \in Nat
      BY <2>2, NotPast
    <2>4. NextAmong(entries, slots) = [index |-> s, cycle |-> Max({0, entries[s].event_cycle})]
      BY <2>1, NextIs
    <2> QED
      BY <2>2, <2>3, <2>4
  <1> QED
    BY <1>1, <1>2

\* and what it depends on.
LEMMA NextSame ==
    ASSUME NEW n \in Nat, NEW slots \in SUBSET (0..n), NEW entries, NEW other,
           \A s \in slots : entries[s].event_cycle \in Int,
           \A s \in slots : other[s].event_cycle = entries[s].event_cycle
    PROVE  NextAmong(other, slots) = NextAmong(entries, slots)
  <1>1. CASE slots = {}
    BY <1>1 DEF NextAmong
  <1>2. CASE slots # {}
    <2>1. PICK s : First(entries, slots, s)
      BY <1>2, FirstExists
    <2>2. s \in slots /\ First(other, slots, s)
      BY <2>1 DEF First
    <2>3. \A t \in slots : other[t].event_cycle \in Int
      OBVIOUS
    <2>4. /\ NextAmong(entries, slots) = [index |-> s, cycle |-> Max({0, entries[s].event_cycle})]
          /\ NextAmong(other, slots) = [index |-> s, cycle |-> Max({0, other[s].event_cycle})]
      BY SMTT(30), <2>1, <2>2, <2>3, NextIs
    <2> QED
      BY <2>2, <2>4
  <1> QED
    BY <1>1, <1>2

\* The slots of a queue are the numbers up to the last.
LEMMA Slots ==
    ASSUME NEW q \in Queue
    PROVE  /\ Size[q] - 1 \in Nat /\ Slot(q) = 0..(Size[q] - 1)
           /\ IsFiniteSet(Slot(q)) /\ Cardinality(Slot(q)) = Size[q]
           /\ \A s \in Slot(q) : s \in Nat
  <1> DEFINE size == Size[q]
  <1>1. size \in Nat /\ size > 0
    BY Sizes
  <1>2. Slot(q) = 0..(size - 1)
    BY DEF Slot
  <1> HIDE DEF size
  <1>3. size - 1 \in Nat /\ size - 1 \in Int /\ 0 \in Int /\ ~(0 > size - 1) /\ (size - 1) - 0 + 1 = size
    BY <1>1
  <1>4. IsFiniteSet(0..(size - 1)) /\ Cardinality(0..(size - 1)) = size
    BY <1>3, FS_Interval
  <1> QED
    BY <1>2, <1>3, <1>4 DEF size

\* What the entries of a queue hold.
LEMMA EntryFacts ==
    ASSUME NEW q \in Queue, NEW entries \in [Slot(q) -> Entry]
    PROVE  /\ \A s \in Slot(q) : entries[s].event_cycle \in Int /\ entries[s].scheduled \in BOOLEAN
           /\ Scheduled(entries) \subseteq Used(entries) /\ Used(entries) \subseteq Slot(q)
           /\ \A s \in Used(entries) : entries[s].address \in Address
           /\ \A s \in Slot(q) : s \notin Used(entries) => entries[s] = EMPTY
  <1>1. \A s \in Slot(q) : entries[s] \in Entry
    OBVIOUS
  <1>2. NONE \notin Address
    BY Sizes
  <1>3. \A e \in Entry : /\ e.event_cycle \in Int /\ e.scheduled \in BOOLEAN
                         /\ e.scheduled => e.address # NONE
                         /\ e.address # NONE => e.address \in Address
                         /\ e.address = NONE => e = EMPTY
    <2> TAKE e \in Entry
    <2>1. CASE e = EMPTY
      BY <2>1 DEF EMPTY
    <2>2. CASE e \in [address : Address, scheduled : BOOLEAN, event_cycle : Int]
      <3>1. e.event_cycle \in Int /\ e.address \in Address
        BY <2>2
      <3>2. e.scheduled \in BOOLEAN
        BY <2>2
      <3> QED
        BY <1>2, <3>1, <3>2
    <2> QED
      BY <2>1, <2>2 DEF Entry
  <1> QED
    BY <1>1, <1>3 DEF Scheduled, Used

\* Their numbers.
LEMMA CountFacts ==
    ASSUME NEW q \in Queue, NEW entries \in [Slot(q) -> Entry]
    PROVE  /\ IsFiniteSet(Used(entries)) /\ IsFiniteSet(Scheduled(entries))
           /\ Cardinality(Used(entries)) \in 0..Size[q]
           /\ Cardinality(Scheduled(entries)) \in 0..Size[q]
  <1>1. /\ IsFiniteSet(Slot(q)) /\ Cardinality(Slot(q)) = Size[q] /\ Size[q] \in Nat
        /\ Used(entries) \in SUBSET Slot(q) /\ Scheduled(entries) \in SUBSET Slot(q)
    BY Slots, EntryFacts, Sizes
  <1>2. /\ IsFiniteSet(Used(entries)) /\ Cardinality(Used(entries)) <= Size[q]
        /\ IsFiniteSet(Scheduled(entries)) /\ Cardinality(Scheduled(entries)) <= Size[q]
    BY <1>1, FS_Subset
  <1>3. Cardinality(Used(entries)) \in Nat /\ Cardinality(Scheduled(entries)) \in Nat
    BY <1>2, FS_CardinalityType
  <1> QED
    BY <1>1, <1>2, <1>3

\* What is to be scheduled and processed next has the shape it should have.
LEMMA UpdateType ==
    ASSUME NEW q \in Queue, NEW entries \in [Slot(q) -> Entry]
    PROVE  /\ update_schedule_cycle(entries) \in [index : Slot(q), cycle : Nat] \cup {NEVER}
           /\ update_process_cycle(entries) \in [index : Slot(q), cycle : Nat] \cup {NEVER}
  <1>1. /\ Used(entries) \ Scheduled(entries) \in SUBSET Slot(q)
        /\ Scheduled(entries) \in SUBSET Slot(q)
        /\ \A s \in Slot(q) : entries[s].event_cycle \in Int
    BY EntryFacts
  <1>2. ASSUME NEW slots \in SUBSET Slot(q)
        PROVE  NextAmong(entries, slots) \in [index : Slot(q), cycle : Nat] \cup {NEVER}
    <2>1. NextAmong(entries, slots) \in [index : slots, cycle : Nat] \cup {NEVER}
      BY <1>1, Slots, NextType
    <2> QED
      BY <2>1
  <1> QED
    BY <1>1, <1>2 DEF update_schedule_cycle, update_process_cycle

-----------------------------------------------------------------------------
(* A cycle ages the requests and keeps their order.                        *)

\* The later of two past cycles keeps the higher rank.
LEMMA Ranked ==
    ASSUME NEW past \in SUBSET Int, IsFiniteSet(past), NEW c \in past, NEW d \in past, c < d
    PROVE  /\ -Cardinality({e \in past : e >= c}) \in Int
           /\ -Cardinality({e \in past : e >= c}) < -Cardinality({e \in past : e >= d})
           /\ -Cardinality({e \in past : e >= d}) < 0
  <1> DEFINE C == {e \in past : e >= c}
             D == {e \in past : e >= d}
  <1>1. C \in SUBSET past /\ D \in SUBSET C /\ D # C /\ D # {}
    <2>1. c \in Int /\ d \in Int
      OBVIOUS
    <2>2. c \in C /\ c \notin D /\ d \in D
      BY <2>1
    <2>3. \A e \in D : e \in C
      <3>1. \A e \in past : e \in Int
        OBVIOUS
      <3> QED
        BY <2>1, <3>1
    <2> HIDE DEF D
    <2> QED
      BY <2>2, <2>3
  <1> HIDE DEF C, D
  <1>2. IsFiniteSet(C) /\ IsFiniteSet(D)
    BY <1>1, FS_Subset
  <1>3. Cardinality(C) \in Nat /\ Cardinality(D) \in Nat /\ Cardinality(D) # 0
    BY <1>1, <1>2, FS_CardinalityType, FS_EmptySet
  <1>4. Cardinality(D) <= Cardinality(C) /\ Cardinality(D) # Cardinality(C)
    BY <1>1, <1>2, FS_Subset
  <1>5. ASSUME NEW x \in Nat, NEW y \in Nat, x <= y, x # y, x # 0
        PROVE  -y \in Int /\ -y < -x /\ -x < 0
    BY <1>5
  <1>6. -Cardinality(C) \in Int /\ -Cardinality(C) < -Cardinality(D) /\ -Cardinality(D) < 0
    BY <1>3, <1>4, <1>5
  <1> QED
    BY <1>6 DEF C, D

\* The rank of a past cycle is negative.
LEMMA RankNegative ==
    ASSUME NEW past \in SUBSET Int, IsFiniteSet(past), NEW c \in past
    PROVE  /\ -Cardinality({e \in past : e >= c}) \in Int
           /\ -Cardinality({e \in past : e >= c}) < 0
  <1> DEFINE C == {e \in past : e >= c}
  <1>1. C \in SUBSET past /\ C # {}
    <2>1. c \in C
      OBVIOUS
    <2> QED
      BY <2>1
  <1> HIDE DEF C
  <1>2. IsFiniteSet(C)
    BY <1>1, FS_Subset
  <1>3. Cardinality(C) \in Nat /\ Cardinality(C) # 0
    BY <1>1, <1>2, FS_CardinalityType, FS_EmptySet
  <1>4. ASSUME NEW x \in Nat, x # 0 PROVE -x \in Int /\ -x < 0
    BY <1>4
  <1> QED
    BY <1>3, <1>4 DEF C

\* The cycles of the requests are finitely many.
LEMMA FiniteCycles ==
    ASSUME NEW S, IsFiniteSet(S), NEW e
    PROVE  IsFiniteSet({e[s].event_cycle : s \in S})
  <1> DEFINE T == {e[s].event_cycle : s \in S}
             f == [s \in S |-> e[s].event_cycle]
  <1>1. f \in Surjection(S, T)
    BY DEF Surjection
  <1> QED
    BY <1>1, FS_Surjection

\* Aged leaves the requests in place, their cycles in order, and those that
\* are past past.
LEMMA AgedFacts ==
    ASSUME NEW q \in Queue, NEW entries \in [Slot(q) -> Entry]
    PROVE  /\ Aged(entries) \in [Slot(q) -> Entry]
           /\ \A s \in Slot(q) : Aged(entries)[s].address = entries[s].address
           /\ Used(Aged(entries)) = Used(entries)
           /\ Scheduled(Aged(entries)) = Scheduled(entries)
           /\ \A s, t \in Used(entries) :
                /\ entries[s].event_cycle < entries[t].event_cycle =>
                     Aged(entries)[s].event_cycle < Aged(entries)[t].event_cycle
                /\ entries[s].event_cycle = entries[t].event_cycle =>
                     Aged(entries)[s].event_cycle = Aged(entries)[t].event_cycle
           /\ \A s \in Used(entries) :
                Max({0, Aged(entries)[s].event_cycle}) = Until(Max({0, entries[s].event_cycle}))
  <1> DEFINE past == {c \in {entries[s].event_cycle : s \in Used(entries)} : c <= 0}
             Rank(c) == -Cardinality({e \in past : e >= c})
             aged == Aged(entries)
  <1>1. /\ \A s \in Slot(q) : entries[s].event_cycle \in Int
        /\ Used(entries) \subseteq Slot(q)
        /\ \A s \in Slot(q) : s \notin Used(entries) => entries[s] = EMPTY
        /\ \A s \in Used(entries) : entries[s] # EMPTY /\ entries[s] \in Entry
    <2>1. \A s \in Used(entries) : entries[s] # EMPTY
      BY DEF Used, EMPTY
    <2> QED
      BY <2>1, EntryFacts
  <1>2. past \in SUBSET Int /\ IsFiniteSet(past)
    <2>1. IsFiniteSet({entries[s].event_cycle : s \in Used(entries)})
      BY CountFacts, FiniteCycles
    <2> QED
      BY <1>1, <2>1, FS_Subset
  <1>3. \A s \in Slot(q) : aged[s] =
          IF s \notin Used(entries) THEN EMPTY
          ELSE [entries[s] EXCEPT !.event_cycle = IF @ > 0 THEN @ - 1 ELSE Rank(@)]
    BY DEF Aged, Used
  <1>4. DOMAIN aged = Slot(q) /\ aged = [s \in Slot(q) |-> aged[s]]
    BY DEF Aged
  <1>5. \A s \in Used(entries) : entries[s].event_cycle <= 0 => entries[s].event_cycle \in past
    OBVIOUS
  <1>6. \A c \in past : Rank(c) \in Int /\ Rank(c) < 0
    BY <1>2, RankNegative
  <1>7. \A c, d \in past : c < d => Rank(c) < Rank(d)
    BY <1>2, Ranked
  <1> HIDE DEF past, Rank, aged
  <1>8. \A s \in Used(entries) :
          /\ entries[s] \in [address : Address, scheduled : BOOLEAN, event_cycle : Int]
          /\ aged[s] \in [address : Address, scheduled : BOOLEAN, event_cycle : Int]
          /\ aged[s].address = entries[s].address /\ aged[s].scheduled = entries[s].scheduled
          /\ aged[s].event_cycle = IF entries[s].event_cycle > 0 THEN entries[s].event_cycle - 1
                                   ELSE Rank(entries[s].event_cycle)
    <2> TAKE s \in Used(entries)
    <2> DEFINE c == entries[s].event_cycle
               d == IF c > 0 THEN c - 1 ELSE Rank(c)
    <2>1. entries[s] \in [address : Address, scheduled : BOOLEAN, event_cycle : Int]
      BY <1>1 DEF Entry
    <2>2. c \in Int
      BY <2>1
    <2>3. d \in Int
      BY <1>5, <1>6, <2>2
    <2>4. aged[s] = [entries[s] EXCEPT !.event_cycle = d]
      BY <1>1, <1>3
    <2> HIDE DEF d
    <2>5. /\ aged[s] \in [address : Address, scheduled : BOOLEAN, event_cycle : Int]
          /\ aged[s].address = entries[s].address /\ aged[s].scheduled = entries[s].scheduled
          /\ aged[s].event_cycle = d
      BY <2>1, <2>3, <2>4
    <2> QED
      BY <2>1, <2>5 DEF d
  <1>9. \A s \in Slot(q) :
          /\ aged[s] \in Entry /\ aged[s].address = entries[s].address
          /\ aged[s].scheduled = entries[s].scheduled
    BY <1>1, <1>3, <1>8 DEF Entry
  <1>10. aged \in [Slot(q) -> Entry]
    BY <1>4, <1>9
  <1>11. Used(aged) = Used(entries) /\ Scheduled(aged) = Scheduled(entries)
    BY <1>4, <1>9 DEF Used, Scheduled
  <1>12. ASSUME NEW s \in Used(entries), NEW t \in Used(entries)
         PROVE  /\ entries[s].event_cycle < entries[t].event_cycle =>
                     aged[s].event_cycle < aged[t].event_cycle
                /\ entries[s].event_cycle = entries[t].event_cycle =>
                     aged[s].event_cycle = aged[t].event_cycle
    <2> DEFINE c == entries[s].event_cycle
               d == entries[t].event_cycle
    <2>1. c \in Int /\ d \in Int
      BY <1>1
    <2>2. /\ aged[s].event_cycle = IF c > 0 THEN c - 1 ELSE Rank(c)
          /\ aged[t].event_cycle = IF d > 0 THEN d - 1 ELSE Rank(d)
      BY <1>8
    <2>3. /\ c <= 0 => Rank(c) \in Int /\ Rank(c) < 0
          /\ c <= 0 /\ d <= 0 /\ c < d => Rank(c) < Rank(d)
      BY <1>5, <1>6, <1>7
    <2> HIDE DEF c, d
    <2>4. c < d => aged[s].event_cycle < aged[t].event_cycle
      BY <2>1, <2>2, <2>3
    <2>5. c = d => aged[s].event_cycle = aged[t].event_cycle
      BY <2>2
    <2> QED
      BY <2>4, <2>5 DEF c, d
  <1>13. ASSUME NEW s \in Used(entries)
         PROVE  Max({0, aged[s].event_cycle}) = Until(Max({0, entries[s].event_cycle}))
    <2> DEFINE c == entries[s].event_cycle
               d == aged[s].event_cycle
    <2>1. c \in Int /\ d \in Int
      BY <1>1, <1>8
    <2>2. d = IF c > 0 THEN c - 1 ELSE Rank(c)
      BY <1>8
    <2>3. c <= 0 => Rank(c) < 0 /\ Rank(c) \in Int
      BY <1>5, <1>6
    <2> HIDE DEF c, d
    <2>4. Max({0, c}) = IF c > 0 THEN c ELSE 0
      BY <2>1, NotPast
    <2>5. Max({0, d}) = IF d > 0 THEN d ELSE 0
      BY <2>1, NotPast
    <2>6. Until(Max({0, c})) = IF Max({0, c}) > 0 THEN Max({0, c}) - 1 ELSE 0
      BY <2>1, <2>4, UntilIs
    <2>7. Max({0, d}) = Until(Max({0, c}))
      BY <2>1, <2>2, <2>3, <2>4, <2>5, <2>6
    <2> QED
      BY <2>7 DEF c, d
  <1> QED
    BY <1>9, <1>10, <1>11, <1>12, <1>13 DEF aged

\* So what is to be done next is the same, a cycle sooner.
LEMMA NextAged ==
    ASSUME NEW q \in Queue, NEW entries \in [Slot(q) -> Entry]
    PROVE  /\ update_schedule_cycle(Aged(entries)) =
                [update_schedule_cycle(entries) EXCEPT !.cycle = Until(@)]
           /\ update_process_cycle(Aged(entries)) =
                [update_process_cycle(entries) EXCEPT !.cycle = Until(@)]
  <1> DEFINE n == Size[q] - 1
             aged == Aged(entries)
  <1>1. n \in Nat /\ Slot(q) = 0..n
    BY Slots
  <1>2. /\ aged \in [Slot(q) -> Entry]
        /\ Used(aged) = Used(entries) /\ Scheduled(aged) = Scheduled(entries)
        /\ Scheduled(entries) \subseteq Used(entries) /\ Used(entries) \subseteq Slot(q)
        /\ \A s \in Slot(q) : aged[s].event_cycle \in Int /\ entries[s].event_cycle \in Int
        /\ \A s, t \in Used(entries) :
             /\ entries[s].event_cycle < entries[t].event_cycle =>
                  aged[s].event_cycle < aged[t].event_cycle
             /\ entries[s].event_cycle = entries[t].event_cycle =>
                  aged[s].event_cycle = aged[t].event_cycle
        /\ \A s \in Used(entries) :
             Max({0, aged[s].event_cycle}) = Until(Max({0, entries[s].event_cycle}))
    BY AgedFacts, EntryFacts
  <1> HIDE DEF n, aged
  <1>3. ASSUME NEW slots \in SUBSET Used(entries)
        PROVE  NextAmong(aged, slots) = [NextAmong(entries, slots) EXCEPT !.cycle = Until(@)]
    <2>0. slots \in SUBSET (0..n) /\ slots \in SUBSET Slot(q)
      BY <1>1, <1>2
    <2>1. CASE slots = {}
      <3>1. Until(0) = 0
        BY UntilIs
      <3>2. NextAmong(aged, slots) = NEVER /\ NextAmong(entries, slots) = NEVER
        BY <2>1 DEF NextAmong
      <3> QED
        BY <3>1, <3>2 DEF NEVER
    <2>2. CASE slots # {}
      <3>1. PICK s : First(entries, slots, s)
        BY <1>1, <1>2, <2>0, <2>2, FirstExists
      <3>2. s \in slots /\ First(aged, slots, s)
        BY <1>2, <3>1 DEF First
      <3>3. /\ NextAmong(entries, slots) = [index |-> s, cycle |-> Max({0, entries[s].event_cycle})]
            /\ NextAmong(aged, slots) = [index |-> s, cycle |-> Max({0, aged[s].event_cycle})]
        <4>1. /\ \A t \in slots : entries[t].event_cycle \in Int
              /\ \A t \in slots : aged[t].event_cycle \in Int
          BY <1>2, <2>0
        <4>2. NextAmong(entries, slots) =
                [index |-> s, cycle |-> Max({0, entries[s].event_cycle})]
          BY <1>1, <2>0, <3>1, <4>1, NextIs
        <4>3. NextAmong(aged, slots) = [index |-> s, cycle |-> Max({0, aged[s].event_cycle})]
          BY <1>1, <2>0, <3>2, <4>1, NextIs
        <4> QED
          BY <4>2, <4>3
      <3>4. Max({0, aged[s].event_cycle}) = Until(Max({0, entries[s].event_cycle}))
        BY <1>2, <3>2
      <3> QED
        BY <3>3, <3>4
    <2> QED
      BY <2>1, <2>2
  <1>4. /\ Used(entries) \ Scheduled(entries) \in SUBSET Used(entries)
        /\ Scheduled(entries) \in SUBSET Used(entries)
    BY <1>2
  <1> QED
    BY <1>2, <1>3, <1>4 DEF update_schedule_cycle, update_process_cycle, aged

-----------------------------------------------------------------------------
(* The steps of the controller.                                            *)

\* What the invariant says of a queue and of the banks.
LEMMA StateFacts ==
    ASSUME DRAMInv
    PROVE  /\ \A q \in Queue :
                /\ queue[q] \in [Slot(q) -> Entry]
                /\ occupancy[q] \in 0..Size[q] /\ occupancy[q] = Cardinality(Used(queue[q]))
                /\ scheduled[q] \in 0..Size[q] /\ scheduled[q] = Cardinality(Scheduled(queue[q]))
                /\ next_schedule[q] \in [index : Slot(q), cycle : Nat] \cup {NEVER}
                /\ next_process[q] \in [index : Slot(q), cycle : Nat] \cup {NEVER}
                /\ next_schedule[q] = update_schedule_cycle(queue[q])
                /\ next_process[q] = update_process_cycle(queue[q])
                /\ q # Turn => Scheduled(queue[q]) = {}
                /\ \A s \in Used(queue[q]) : s \in Slot(q) /\ s \in Nat /\ BankOfSlot(q, s) \in Bank
                /\ \A s \in Scheduled(queue[q]) :
                     bank[BankOfSlot(q, s)].request_index = s /\ bank[BankOfSlot(q, s)].kind = q
                /\ Scheduled(queue[q]) \subseteq Used(queue[q])
           /\ Turn \in Queue /\ Queue = {"RQ", "WQ"}
  <1>1. Turn \in Queue /\ Queue = {"RQ", "WQ"}
    BY DEF Turn, Queue
  <1> SUFFICES ASSUME NEW q \in Queue
               PROVE  /\ queue[q] \in [Slot(q) -> Entry]
                      /\ occupancy[q] \in 0..Size[q] /\ occupancy[q] = Cardinality(Used(queue[q]))
                      /\ scheduled[q] \in 0..Size[q] /\ scheduled[q] = Cardinality(Scheduled(queue[q]))
                      /\ next_schedule[q] \in [index : Slot(q), cycle : Nat] \cup {NEVER}
                      /\ next_process[q] \in [index : Slot(q), cycle : Nat] \cup {NEVER}
                      /\ next_schedule[q] = update_schedule_cycle(queue[q])
                      /\ next_process[q] = update_process_cycle(queue[q])
                      /\ q # Turn => Scheduled(queue[q]) = {}
                      /\ \A s \in Used(queue[q]) :
                           s \in Slot(q) /\ s \in Nat /\ BankOfSlot(q, s) \in Bank
                      /\ \A s \in Scheduled(queue[q]) :
                           bank[BankOfSlot(q, s)].request_index = s /\ bank[BankOfSlot(q, s)].kind = q
                      /\ Scheduled(queue[q]) \subseteq Used(queue[q])
    BY <1>1
  <1>2. /\ queue[q] \in [Slot(q) -> Entry]
        /\ occupancy[q] \in 0..Size[q] /\ scheduled[q] \in 0..Size[q]
        /\ next_schedule[q] \in [index : Slot(q), cycle : Nat] \cup {NEVER}
        /\ next_process[q] \in [index : Slot(q), cycle : Nat] \cup {NEVER}
    BY DEF DRAMInv, TypeOK
  <1>3. /\ occupancy[q] = Cardinality(Used(queue[q]))
        /\ scheduled[q] = Cardinality(Scheduled(queue[q]))
        /\ \A s \in Scheduled(queue[q]) :
             /\ bank[BankOfSlot(q, s)].request_index = s /\ bank[BankOfSlot(q, s)].kind = q
             /\ q = Turn
    BY DEF DRAMInv, BanksAgree
  <1>4. /\ next_schedule[q] = update_schedule_cycle(queue[q])
        /\ next_process[q] = update_process_cycle(queue[q])
    BY DEF DRAMInv, NextUpToDate
  <1>5. /\ Scheduled(queue[q]) \subseteq Used(queue[q]) /\ Used(queue[q]) \subseteq Slot(q)
        /\ \A s \in Used(queue[q]) : queue[q][s].address \in Address
    BY <1>2, EntryFacts
  <1>6. \A s \in Used(queue[q]) : s \in Slot(q) /\ s \in Nat /\ BankOfSlot(q, s) \in Bank
    BY <1>5, Slots, Sizes DEF BankOfSlot
  <1> QED
    BY <1>2, <1>3, <1>4, <1>5, <1>6

\* At first nothing waits.
LEMMA InitInv == Init => DRAMInv
  <1> SUFFICES ASSUME Init PROVE DRAMInv
    OBVIOUS
  <1>1. ASSUME NEW q \in Queue
        PROVE  /\ queue[q] = [s \in Slot(q) |-> EMPTY] /\ queue[q] \in [Slot(q) -> Entry]
               /\ occupancy[q] = 0 /\ scheduled[q] = 0
               /\ next_schedule[q] = NEVER /\ next_process[q] = NEVER
               /\ Used(queue[q]) = {} /\ Scheduled(queue[q]) = {}
    <2>1. /\ queue[q] = [s \in Slot(q) |-> EMPTY]
          /\ occupancy[q] = 0 /\ scheduled[q] = 0
          /\ next_schedule[q] = NEVER /\ next_process[q] = NEVER
      BY DEF Init
    <2>2. queue[q] \in [Slot(q) -> Entry]
      BY <2>1 DEF Entry
    <2>3. Used(queue[q]) = {}
      BY <2>1 DEF Used, EMPTY
    <2> QED
      BY <2>1, <2>2, <2>3, EntryFacts
  <1>2. PerQueue
    BY DEF Init, PerQueue
  <1>3. \A b \in Bank : bank[b] = [request_index |-> NONE, kind |-> NONE,
                                   cycle_available |-> 0, open_row |-> NONE]
    BY DEF Init
  <1>4. TypeOK
    <2>1. \A q \in Queue :
            /\ queue[q] \in [Slot(q) -> Entry]
            /\ occupancy[q] \in 0..Size[q]
            /\ next_schedule[q] \in [index : Slot(q), cycle : Nat] \cup {NEVER}
            /\ next_process[q] \in [index : Slot(q), cycle : Nat] \cup {NEVER}
            /\ scheduled[q] \in 0..Size[q]
      <3>1. \A n \in Nat : 0 \in 0..n
        OBVIOUS
      <3>2. \A q \in Queue : 0 \in 0..Size[q]
        BY <3>1, Sizes
      <3> QED
        BY <1>1, <3>2
    <2>2. bank \in [Bank -> [request_index : Nat \cup {NONE}, kind : Queue \cup {NONE},
                             cycle_available : Nat, open_row : Row \cup {NONE}]]
      BY DEF Init
    <2>3. all_warmup_complete \in BOOLEAN /\ write_mode \in BOOLEAN
      BY Zenon DEF Init
    <2>4. /\ stage \in {"switch", "schedule", "process", "requests"} /\ DOMAIN queue = Queue
          /\ dbus_cycle_available \in Int /\ requests \in 0..MaxRequests
      BY Sizes DEF Init
    <2>5. transfer \in [queue : Queue \cup {NONE}, ends : Int]
      BY Sizes DEF Init
    <2> QED
      BY <2>1, <2>2, <2>3, <2>4, <2>5 DEF TypeOK
  <1>5. BanksAgree
    <2>1. \A q \in Queue : /\ scheduled[q] = Cardinality(Scheduled(queue[q]))
                           /\ occupancy[q] = Cardinality(Used(queue[q]))
      BY <1>1, FS_EmptySet
    <2>2. \A q \in Queue : \A s \in Scheduled(queue[q]) : FALSE
      BY <1>1
    <2>3. \A b \in Bank : bank[b].request_index = NONE
      BY <1>3
    <2> QED
      BY <2>1, <2>2, <2>3 DEF BanksAgree
  <1>6. NextUpToDate
    BY <1>1 DEF NextUpToDate, update_schedule_cycle, update_process_cycle, NextAmong
  <1>7. BusFree
    BY Sizes DEF Init, BusFree
  <1> QED
    BY <1>2, <1>4, <1>5, <1>6, <1>7 DEF DRAMInv

\* Whatever leaves the queues and the bus alone, and the requests the banks
\* work for, keeps the invariant.
LEMMA IdlePreserves ==
    ASSUME DRAMInv,
           UNCHANGED <<write_mode, queue, occupancy, next_schedule, next_process, scheduled>>,
           UNCHANGED <<dbus_cycle_available, transfer>>,
           stage' \in {"switch", "schedule", "process", "requests"},
           all_warmup_complete' \in BOOLEAN, requests' \in 0..MaxRequests,
           bank' \in [Bank -> [request_index : Nat \cup {NONE}, kind : Queue \cup {NONE},
                               cycle_available : Nat, open_row : Row \cup {NONE}]],
           \A b \in Bank : /\ bank'[b].request_index = bank[b].request_index
                           /\ bank'[b].kind = bank[b].kind
    PROVE  DRAMInv'
  <1>1. TypeOK'
    BY DEF DRAMInv, TypeOK
  <1>2. PerQueue'
    BY DEF DRAMInv, PerQueue
  <1>3. BanksAgree'
    <2>1. Turn' = Turn
      BY DEF Turn
    <2>2. \A q \in Queue : \A s \in Scheduled(queue[q]) : BankOfSlot(q, s) \in Bank
      BY StateFacts
    <2> QED
      BY <2>1, <2>2 DEF DRAMInv, BanksAgree, BankOfSlot
  <1>4. NextUpToDate'
    BY DEF DRAMInv, NextUpToDate
  <1>5. BusFree'
    BY DEF DRAMInv, BusFree, Turn
  <1> QED
    BY <1>1, <1>2, <1>3, <1>4, <1>5 DEF DRAMInv

\* What is kept for either queue changes for one of them.
LEMMA Excepted ==
    ASSUME NEW f, f = [k \in Queue |-> f[k]], NEW q \in Queue, NEW x,
           NEW g, g = [f EXCEPT ![q] = x]
    PROVE  g = [k \in Queue |-> g[k]] /\ g[q] = x /\ \A k \in Queue \ {q} : g[k] = f[k]
  OBVIOUS

\* What reset_remain_requests leaves of a queue.
LEMMA ResetEffect ==
    ASSUME DRAMInv, NEW q \in Queue, q = Turn, reset_remain_requests(q)
    PROVE  /\ \A k \in Queue : queue'[k] \in [Slot(k) -> Entry]
           /\ \A k \in Queue : Used(queue'[k]) = Used(queue[k]) /\ Scheduled(queue'[k]) = {}
           /\ \A k \in Queue : scheduled'[k] = 0
           /\ \A b \in Bank : bank'[b].request_index = NONE
           /\ bank' \in [Bank -> [request_index : Nat \cup {NONE}, kind : Queue \cup {NONE},
                                  cycle_available : Nat, open_row : Row \cup {NONE}]]
  <1> DEFINE e == queue[q]
             f == queue'[q]
             busy == Scheduled(e)
             banks == {BankOfSlot(q, s) : s \in busy}
  <1>1. /\ e \in [Slot(q) -> Entry]
        /\ \A s \in busy : /\ bank[BankOfSlot(q, s)].request_index = s
                           /\ bank[BankOfSlot(q, s)].kind = q
                           /\ BankOfSlot(q, s) \in Bank
        /\ busy \subseteq Used(e)
    BY StateFacts
  <1>2. /\ f = [s \in Slot(q) |->
                  IF e[s].scheduled THEN [e[s] EXCEPT !.scheduled = FALSE, !.event_cycle = 0]
                  ELSE e[s]]
        /\ \A k \in Queue \ {q} : queue'[k] = queue[k]
    BY DEF reset_remain_requests, DRAMInv, PerQueue
  <1>3. \A s \in Slot(q) : /\ f[s] \in Entry /\ f[s].address = e[s].address
                           /\ f[s].scheduled = FALSE
    <2> TAKE s \in Slot(q)
    <2>1. e[s] \in Entry /\ (e[s].scheduled => s \in Used(e)) /\ e[s].scheduled \in BOOLEAN
      BY <1>1, EntryFacts DEF Scheduled
    <2>2. CASE e[s].scheduled
      <3>1. e[s] \in [address : Address, scheduled : BOOLEAN, event_cycle : Int]
        BY <2>1, <2>2 DEF Entry, EMPTY
      <3>2. f[s] = [e[s] EXCEPT !.scheduled = FALSE, !.event_cycle = 0]
        BY <1>2, <2>2
      <3>3. f[s] = [address |-> e[s].address, scheduled |-> FALSE, event_cycle |-> 0]
        BY <3>1, <3>2
      <3>4. e[s].address \in Address
        BY <3>1
      <3> HIDE DEF e, f
      <3>5. f[s] \in [address : Address, scheduled : BOOLEAN, event_cycle : Int]
        BY <3>3, <3>4
      <3> QED
        BY <3>3, <3>5 DEF Entry
    <2>3. CASE ~e[s].scheduled
      <3>1. f[s] = e[s]
        BY <1>2, <2>3
      <3>2. e[s].scheduled = FALSE
        BY <2>1, <2>3
      <3> QED
        BY <2>1, <3>1, <3>2
    <2> QED
      BY <2>2, <2>3
  <1>4. f \in [Slot(q) -> Entry] /\ DOMAIN f = Slot(q) /\ DOMAIN e = Slot(q)
    BY <1>1, <1>2, <1>3
  <1>5. Used(f) = Used(e) /\ Scheduled(f) = {}
    BY <1>3, <1>4 DEF Used, Scheduled
  <1>6. \A k \in Queue \ {q} : queue[k] \in [Slot(k) -> Entry] /\ Scheduled(queue[k]) = {}
    BY StateFacts
  <1>7. \A k \in Queue : /\ queue'[k] \in [Slot(k) -> Entry]
                         /\ Used(queue'[k]) = Used(queue[k]) /\ Scheduled(queue'[k]) = {}
    <2> TAKE k \in Queue
    <2>1. CASE k = q
      <3>1. queue'[k] = f /\ queue[k] = e
        BY <2>1
      <3> HIDE DEF e, f
      <3> QED
        BY <1>4, <1>5, <2>1, <3>1
    <2>2. CASE k # q
      <3>1. queue'[k] = queue[k]
        BY <1>2, <2>2
      <3> QED
        BY <1>6, <2>2, <3>1
    <2> QED
      BY <2>1, <2>2
  <1>8. Cardinality(banks) = scheduled[q] /\ scheduled[q] \in Nat
    <2> DEFINE g == [s \in busy |-> BankOfSlot(q, s)]
    <2>1. g \in Bijection(busy, banks)
      <3>1. g \in [busy -> banks]
        OBVIOUS
      <3>2. \A s, t \in busy : g[s] = g[t] => s = t
        BY <1>1
      <3>3. \A b \in banks : \E s \in busy : g[s] = b
        OBVIOUS
      <3> QED
        BY <3>1, <3>2, <3>3 DEF Bijection, Injection, Surjection, IsInjective
    <2>2. IsFiniteSet(busy) /\ scheduled[q] = Cardinality(busy)
      BY <1>1, CountFacts, StateFacts
    <2>3. ExistsBijection(busy, banks)
      BY <2>1 DEF ExistsBijection
    <2> HIDE DEF busy, banks
    <2>4. Cardinality(banks) = Cardinality(busy)
      BY <2>2, <2>3, FS_Bijection
    <2>5. Cardinality(busy) \in Nat
      BY <2>2, FS_CardinalityType
    <2> QED
      BY <2>2, <2>4, <2>5
  <1>9. \A k \in Queue : scheduled'[k] = 0
    <2> TAKE k \in Queue
    <2>1. scheduled'[k] = scheduled[k] - Cardinality({b \in banks : bank[b].kind = k})
      BY DEF reset_remain_requests
    <2>2. \A b \in banks : bank[b].kind = q
      BY <1>1
    <2>3. CASE k = q
      <3>1. {b \in banks : bank[b].kind = k} = banks
        BY <2>2, <2>3
      <3> HIDE DEF banks
      <3>2. scheduled'[q] = scheduled[q] - Cardinality(banks)
        BY <2>1, <2>3, <3>1
      <3> QED
        BY <1>8, <2>3, <3>2
    <2>4. CASE k # q
      <3>1. {b \in banks : bank[b].kind = k} = {}
        BY <2>2, <2>4
      <3>2. scheduled[k] = Cardinality(Scheduled(queue[k])) /\ Scheduled(queue[k]) = {}
        BY <1>6, <2>4, StateFacts
      <3> HIDE DEF banks
      <3> QED
        BY <2>1, <3>1, <3>2, FS_EmptySet
    <2> QED
      BY <2>3, <2>4
  <1>10. bank' = [b \in Bank |->
             IF b \in banks
             THEN [request_index |-> NONE, kind |-> NONE, cycle_available |-> 0,
                   open_row |-> IF bank[b].cycle_available <= tCAS
                                THEN bank[b].open_row ELSE NONE]
             ELSE bank[b]]
    BY DEF reset_remain_requests
  <1>11. bank \in [Bank -> [request_index : Nat \cup {NONE}, kind : Queue \cup {NONE},
                            cycle_available : Nat, open_row : Row \cup {NONE}]]
    BY DEF DRAMInv, TypeOK
  <1>12. \A b \in Bank : b \notin banks => bank[b].request_index = NONE
    BY DEF DRAMInv, BanksAgree
  <1> HIDE DEF banks
  <1> QED
    BY <1>7, <1>9, <1>10, <1>11, <1>12

\* A change of mode keeps the invariant.
LEMMA SwitchPreserves ==
    ASSUME DRAMInv, SwitchMode
    PROVE  DRAMInv'
  <1>1. /\ reset_remain_requests(Turn) /\ Turn \in Queue /\ write_mode' = ~write_mode
        /\ dbus_cycle_available' = dbus_cycle_available + DRAM_DBUS_TURN_AROUND_TIME
        /\ stage' = "schedule"
        /\ UNCHANGED <<all_warmup_complete, occupancy, transfer, requests>>
    BY StateFacts DEF SwitchMode
  <1>2. /\ \A k \in Queue : queue'[k] \in [Slot(k) -> Entry]
        /\ \A k \in Queue : Used(queue'[k]) = Used(queue[k]) /\ Scheduled(queue'[k]) = {}
        /\ \A k \in Queue : scheduled'[k] = 0
        /\ \A b \in Bank : bank'[b].request_index = NONE
        /\ bank' \in [Bank -> [request_index : Nat \cup {NONE}, kind : Queue \cup {NONE},
                               cycle_available : Nat, open_row : Row \cup {NONE}]]
    BY <1>1, ResetEffect
  <1>3. PerQueue' /\ DOMAIN queue' = Queue
    BY <1>1 DEF reset_remain_requests, DRAMInv, PerQueue
  <1>4. \A k \in Queue : /\ next_schedule'[k] = update_schedule_cycle(queue'[k])
                         /\ next_process'[k] = update_process_cycle(queue'[k])
    BY <1>1 DEF reset_remain_requests
  <1>5. TypeOK'
    <2>1. \A k \in Queue :
            /\ next_schedule'[k] \in [index : Slot(k), cycle : Nat] \cup {NEVER}
            /\ next_process'[k] \in [index : Slot(k), cycle : Nat] \cup {NEVER}
      BY <1>2, <1>4, UpdateType
    <2>2. \A n \in Nat : 0 \in 0..n
      OBVIOUS
    <2>3. \A k \in Queue : scheduled'[k] \in 0..Size[k]
      BY <1>2, <2>2, Sizes
    <2>4. write_mode' \in BOOLEAN
      BY <1>1, Zenon
    <2>5. dbus_cycle_available' \in Int
      BY <1>1, Sizes DEF DRAMInv, TypeOK
    <2> QED
      BY <1>1, <1>2, <1>3, <2>1, <2>3, <2>4, <2>5 DEF DRAMInv, TypeOK
  <1>6. BanksAgree'
    <2>1. \A k \in Queue : /\ scheduled'[k] = Cardinality(Scheduled(queue'[k]))
                           /\ occupancy'[k] = Cardinality(Used(queue'[k]))
      BY <1>1, <1>2, StateFacts, FS_EmptySet
    <2>2. \A k \in Queue : \A s \in Scheduled(queue'[k]) : FALSE
      BY <1>2
    <2> QED
      BY <1>2, <2>1, <2>2 DEF BanksAgree
  <1>7. NextUpToDate'
    BY <1>4 DEF NextUpToDate
  <1>8. BusFree'
    <2>1. /\ transfer.queue \in Queue \cup {NONE} /\ transfer.ends \in Int
          /\ dbus_cycle_available \in Int /\ DRAM_DBUS_TURN_AROUND_TIME \in Nat
          /\ Queue = {"RQ", "WQ"}
      BY Sizes DEF DRAMInv, TypeOK, Queue
    <2> QED
      BY <1>1, <2>1 DEF DRAMInv, BusFree
  <1> QED
    BY <1>3, <1>5, <1>6, <1>7, <1>8 DEF DRAMInv

\* The request that schedule takes is one of those whose bank is free.
LEMMA SchedulesReady ==
    ASSUME DRAMInv, NEW q \in Queue, Ready(q) # {},
           NEW s, s = Earliest(queue[q], IF RowHits(q) # {} THEN RowHits(q) ELSE Ready(q))
    PROVE  s \in Ready(q)
  <1> DEFINE slots == IF RowHits(q) # {} THEN RowHits(q) ELSE Ready(q)
  <1>1. slots # {} /\ slots \subseteq Ready(q)
    BY DEF RowHits
  <1> HIDE DEF slots
  <1>2. queue[q] \in [Slot(q) -> Entry] /\ Size[q] - 1 \in Nat /\ Slot(q) = 0..(Size[q] - 1)
    BY StateFacts, Slots
  <1>3. Ready(q) \subseteq Slot(q) /\ \A t \in Slot(q) : queue[q][t].event_cycle \in Int
    BY <1>2, EntryFacts DEF Ready
  <1>4. slots \in SUBSET (0..(Size[q] - 1)) /\ \A t \in slots : queue[q][t].event_cycle \in Int
    BY <1>1, <1>2, <1>3
  <1>5. First(queue[q], slots, Earliest(queue[q], slots))
    BY <1>1, <1>2, <1>4, EarliestFirst
  <1>6. s = Earliest(queue[q], slots)
    BY DEF slots
  <1> QED
    BY <1>1, <1>5, <1>6 DEF First

\* A request that is handed to a bank has the bank for itself.
LEMMA SchedulePreserves ==
    ASSUME DRAMInv, NEW q \in Queue, schedule(q)
    PROVE  DRAMInv'
  <1> DEFINE hit == RowHits(q) # {}
             s == Earliest(queue[q], IF hit THEN RowHits(q) ELSE Ready(q))
             LATENCY == IF hit THEN tCAS ELSE ACTIVATE + tCAS
             e == queue[q]
             b == BankOfSlot(q, s)
             row == RowOf[e[s].address]
  <1>1. /\ q = Turn /\ Ready(q) # {} /\ stage' = "process"
        /\ UNCHANGED <<all_warmup_complete, write_mode, occupancy>>
        /\ UNCHANGED <<dbus_cycle_available, transfer, requests>>
        /\ bank' = [bank EXCEPT ![b] =
             [request_index |-> s, kind |-> q, cycle_available |-> LATENCY, open_row |-> row]]
        /\ scheduled' = [scheduled EXCEPT ![q] = @ + 1]
        /\ queue' = [queue EXCEPT ![q][s].scheduled = TRUE, ![q][s].event_cycle = LATENCY]
        /\ next_schedule' = [next_schedule EXCEPT ![q] = update_schedule_cycle(queue'[q])]
        /\ next_process' = [next_process EXCEPT ![q] = update_process_cycle(queue'[q])]
    BY DEF schedule, busVars
  <1>2. s \in Ready(q)
    BY <1>1, SchedulesReady
  <1>3. LATENCY \in Nat /\ LATENCY \in Int
    BY Sizes
  <1> HIDE DEF s, LATENCY
  <1>4. /\ e \in [Slot(q) -> Entry] /\ s \in Slot(q) /\ s \in Nat /\ b \in Bank
        /\ s \in Used(e) /\ s \notin Scheduled(e)
        /\ bank[b].request_index = NONE
        /\ Scheduled(e) \subseteq Used(e) /\ Used(e) \subseteq Slot(q)
        /\ e[s] \in Entry /\ e[s].address \in Address /\ e[s] # EMPTY /\ row \in Row
    <2>1. e \in [Slot(q) -> Entry] /\ s \in Used(e) /\ s \notin Scheduled(e)
          /\ bank[b].request_index = NONE /\ b \in Bank /\ s \in Nat
      BY <1>2, StateFacts DEF Ready
    <2>2. Scheduled(e) \subseteq Used(e) /\ Used(e) \subseteq Slot(q) /\ e[s].address \in Address
      BY <2>1, EntryFacts
    <2>3. e[s] # EMPTY
      BY <2>2, Sizes DEF EMPTY
    <2> QED
      BY <2>1, <2>2, <2>3, Sizes
  <1> HIDE DEF row, b
  <1>5. /\ queue' = [queue EXCEPT ![q] = queue'[q]] /\ DOMAIN queue = Queue
        /\ queue'[q] = [e EXCEPT ![s] =
                          [e[s] EXCEPT !.scheduled = TRUE, !.event_cycle = LATENCY]]
    <2>1. e[s] \in [address : Address, scheduled : BOOLEAN, event_cycle : Int]
      BY <1>4 DEF Entry
    <2>2. DOMAIN queue = Queue
      BY DEF DRAMInv, TypeOK
    <2> QED
      BY <1>1, <1>4, <2>1, <2>2 DEF DRAMInv, PerQueue
  <1>6. \A k \in Queue \ {q} : queue'[k] = queue[k]
    BY <1>5
  <1> DEFINE f == queue'[q]
             new == [e[s] EXCEPT !.scheduled = TRUE, !.event_cycle = LATENCY]
  <1>7. new \in Entry /\ new.scheduled = TRUE /\ new.address = e[s].address /\ new.address # NONE
    <2>1. e[s] \in [address : Address, scheduled : BOOLEAN, event_cycle : Int]
      BY <1>4 DEF Entry
    <2>2. new \in [address : Address, scheduled : BOOLEAN, event_cycle : Int]
      BY <1>3, <2>1
    <2>3. new.address = e[s].address
      BY <2>1
    <2>4. new.scheduled = TRUE
      BY <2>1
    <2>5. new \in Entry
      BY <2>2 DEF Entry
    <2> HIDE DEF new
    <2> QED
      BY <1>4, <2>3, <2>4, <2>5, Sizes
  <1>8. f = [e EXCEPT ![s] = new]
    BY <1>5
  <1> HIDE DEF e, f, new
  <1>9. /\ f \in [Slot(q) -> Entry] /\ f[s] = new
        /\ \A t \in Slot(q) \ {s} : f[t] = e[t]
        /\ DOMAIN e = Slot(q) /\ DOMAIN f = Slot(q)
    BY <1>4, <1>7, <1>8
  <1>10. Used(f) = Used(e) /\ Scheduled(f) = Scheduled(e) \cup {s}
    <2>1. \A t \in Slot(q) : f[t].address = e[t].address
      BY <1>7, <1>9
    <2>2. \A t \in Slot(q) : f[t].scheduled <=> e[t].scheduled \/ t = s
      BY <1>7, <1>9
    <2> QED
      BY <1>4, <1>9, <2>1, <2>2 DEF Used, Scheduled
  <1>11. Cardinality(Scheduled(f)) = Cardinality(Scheduled(e)) + 1
    BY <1>4, <1>10, CountFacts, FS_AddElement
  <1>12. \A k \in Queue : queue'[k] \in [Slot(k) -> Entry]
    BY <1>6, <1>9, StateFacts DEF f
  <1>13. \A k \in Queue : scheduled'[k] = Cardinality(Scheduled(queue'[k]))
    <2>1. scheduled'[q] = scheduled[q] + 1 /\ \A k \in Queue \ {q} : scheduled'[k] = scheduled[k]
      BY <1>1 DEF DRAMInv, PerQueue
    <2>2. \A k \in Queue : scheduled[k] = Cardinality(Scheduled(queue[k]))
      BY StateFacts
    <2> QED
      BY <1>6, <1>11, <2>1, <2>2 DEF e, f
  <1>14. \A k \in Queue : occupancy'[k] = Cardinality(Used(queue'[k]))
    BY <1>1, <1>6, <1>10, StateFacts DEF e, f
  <1>15. /\ next_schedule'[q] = update_schedule_cycle(f) /\ next_process'[q] = update_process_cycle(f)
         /\ \A k \in Queue \ {q} : /\ next_schedule'[k] = next_schedule[k]
                                   /\ next_process'[k] = next_process[k]
    BY <1>1 DEF DRAMInv, PerQueue, f
  <1>16. PerQueue' /\ DOMAIN queue' = Queue
    <2>1. queue' = [k \in Queue |-> queue'[k]] /\ DOMAIN queue' = Queue
      <3>1. DOMAIN queue' = Queue
        BY <1>5
      <3> QED
        BY <1>5, <3>1, Excepted DEF DRAMInv, PerQueue
    <2>2. /\ occupancy' = [k \in Queue |-> occupancy'[k]]
          /\ next_schedule' = [k \in Queue |-> next_schedule'[k]]
          /\ next_process' = [k \in Queue |-> next_process'[k]]
          /\ scheduled' = [k \in Queue |-> scheduled'[k]]
      <3>1. /\ next_schedule = [k \in Queue |-> next_schedule[k]]
            /\ next_process = [k \in Queue |-> next_process[k]]
            /\ scheduled = [k \in Queue |-> scheduled[k]]
            /\ occupancy' = [k \in Queue |-> occupancy'[k]]
        BY <1>1 DEF DRAMInv, PerQueue
      <3>2. next_schedule' = [k \in Queue |-> next_schedule'[k]]
        <4>1. ASSUME NEW x, next_schedule' = [next_schedule EXCEPT ![q] = x]
              PROVE  next_schedule' = [k \in Queue |-> next_schedule'[k]]
          BY <3>1, <4>1, Excepted
        <4> QED
          BY <1>1, <4>1
      <3>3. next_process' = [k \in Queue |-> next_process'[k]]
        <4>1. ASSUME NEW x, next_process' = [next_process EXCEPT ![q] = x]
              PROVE  next_process' = [k \in Queue |-> next_process'[k]]
          BY <3>1, <4>1, Excepted
        <4> QED
          BY <1>1, <4>1
      <3>4. scheduled' = [k \in Queue |-> scheduled'[k]]
        BY <1>1, <3>1, Excepted
      <3> QED
        BY <3>1, <3>2, <3>3, <3>4
    <2> QED
      BY <2>1, <2>2 DEF PerQueue
  <1>17. TypeOK'
    <2>1. \A k \in Queue :
            /\ next_schedule'[k] \in [index : Slot(k), cycle : Nat] \cup {NEVER}
            /\ next_process'[k] \in [index : Slot(k), cycle : Nat] \cup {NEVER}
      BY <1>9, <1>15, UpdateType, StateFacts
    <2>2. \A k \in Queue : scheduled'[k] \in 0..Size[k]
      BY <1>12, <1>13, CountFacts
    <2>3. bank' \in [Bank -> [request_index : Nat \cup {NONE}, kind : Queue \cup {NONE},
                              cycle_available : Nat, open_row : Row \cup {NONE}]]
      <3>1. bank \in [Bank -> [request_index : Nat \cup {NONE}, kind : Queue \cup {NONE},
                               cycle_available : Nat, open_row : Row \cup {NONE}]]
        BY DEF DRAMInv, TypeOK
      <3> QED
        BY <1>1, <1>3, <1>4, <3>1
    <2> QED
      BY <1>1, <1>12, <1>16, <2>1, <2>2, <2>3 DEF DRAMInv, TypeOK
  <1>18. BanksAgree'
    <2>0. Turn' = Turn /\ DOMAIN bank = Bank
      BY <1>1 DEF Turn, DRAMInv, TypeOK
    <2>1. /\ bank'[b].request_index = s /\ bank'[b].kind = q
          /\ \A c \in Bank \ {b} : bank'[c] = bank[c]
      BY <1>1, <1>4, <2>0
    <2>2. ASSUME NEW t \in Slot(q) PROVE BankOf[f[t].address] = BankOf[e[t].address]
      BY <1>7, <1>9
    <2>3. ASSUME NEW k \in Queue, NEW t \in Scheduled(queue'[k])
          PROVE  /\ k = Turn' /\ bank'[BankOf[queue'[k][t].address]].request_index = t
                 /\ bank'[BankOf[queue'[k][t].address]].kind = k
      <3>1. k = q
        <4>1. k # q => Scheduled(queue'[k]) = {}
          BY <1>1, <1>6, StateFacts
        <4> QED
          BY <4>1
      <3>2. CASE t = s
        BY ZenonT(30), <1>1, <1>4, <2>0, <2>1, <2>2, <3>1, <3>2 DEF b, e, f, BankOfSlot
      <3>3. CASE t # s
        <4>1. t \in Scheduled(e) /\ t \in Slot(q)
          BY <1>4, <1>10, <3>1, <3>3 DEF f
        <4>2. /\ bank[BankOfSlot(q, t)].request_index = t /\ bank[BankOfSlot(q, t)].kind = q
              /\ BankOfSlot(q, t) \in Bank /\ t \in Nat
          BY <1>4, <4>1, StateFacts DEF e
        <4>3. BankOfSlot(q, t) # b
          BY <1>4, <4>2, Sizes
        <4>4. BankOf[queue'[k][t].address] = BankOfSlot(q, t)
          BY <2>2, <3>1, <4>1 DEF BankOfSlot, e, f
        <4> QED
          BY <1>1, <2>0, <2>1, <3>1, <4>2, <4>3, <4>4
      <3> QED
        BY <3>2, <3>3
    <2>4. ASSUME NEW c \in Bank, bank'[c].request_index # NONE
          PROVE  /\ bank'[c].request_index \in Scheduled(queue'[Turn'])
                 /\ BankOf[queue'[Turn'][bank'[c].request_index].address] = c
      <3>1. CASE c = b
        BY <1>1, <1>4, <1>10, <2>0, <2>1, <2>2, <3>1 DEF b, e, f, BankOfSlot
      <3>2. CASE c # b
        <4> DEFINE t == bank[c].request_index
        <4>1. bank'[c] = bank[c] /\ t # NONE
          BY <2>1, <2>4, <3>2
        <4>2. t \in Scheduled(e) /\ BankOfSlot(q, t) = c
          BY <1>1, <4>1 DEF DRAMInv, BanksAgree, e
        <4>3. t \in Scheduled(f) /\ t \in Slot(q)
          BY <1>4, <1>10, <4>2
        <4>4. BankOf[f[t].address] = c
          BY <2>2, <4>2, <4>3 DEF BankOfSlot, e
        <4> QED
          BY <1>1, <2>0, <4>1, <4>3, <4>4 DEF f
      <3> QED
        BY SMTT(30), <3>1, <3>2
    <2> QED
      BY <1>13, <1>14, <2>3, <2>4 DEF BanksAgree, BankOfSlot
  <1>19. NextUpToDate'
    BY <1>6, <1>15, StateFacts DEF NextUpToDate, f
  <1>20. BusFree'
    BY <1>1 DEF DRAMInv, BusFree, Turn
  <1> QED
    BY <1>16, <1>17, <1>18, <1>19, <1>20 DEF DRAMInv

\* A request that has been served leaves its bank and its slot.
LEMMA TransferPreserves ==
    ASSUME DRAMInv, NEW q \in Queue, Transfer(q)
    PROVE  DRAMInv'
  <1> DEFINE s == next_process[q].index
             e == queue[q]
             b == BankOfSlot(q, s)
             f == queue'[q]
  <1>1. /\ q = Turn /\ Due(next_process[q]) /\ stage' = "requests"
        /\ dbus_cycle_available' = DRAM_DBUS_RETURN_TIME
        /\ transfer' = [queue |-> q, ends |-> DRAM_DBUS_RETURN_TIME]
        /\ UNCHANGED <<all_warmup_complete, write_mode, next_schedule, requests>>
        /\ bank' = [bank EXCEPT ![b].request_index = NONE, ![b].kind = NONE]
        /\ scheduled' = [scheduled EXCEPT ![q] = @ - 1]
        /\ queue' = [queue EXCEPT ![q][s] = EMPTY]
        /\ occupancy' = [occupancy EXCEPT ![q] = @ - 1]
        /\ next_process' = [next_process EXCEPT ![q] = update_process_cycle(queue'[q])]
    BY DEF Transfer, Accessed
  <1>2. s \in Scheduled(e)
    <2>1. /\ e \in [Slot(q) -> Entry] /\ next_process[q] = NextAmong(e, Scheduled(e))
          /\ Size[q] - 1 \in Nat /\ Slot(q) = 0..(Size[q] - 1)
      BY StateFacts, Slots DEF update_process_cycle
    <2>2. /\ Scheduled(e) \in SUBSET (0..(Size[q] - 1))
          /\ \A t \in Scheduled(e) : e[t].event_cycle \in Int
      <3>1. Scheduled(e) \subseteq Slot(q) /\ \A t \in Slot(q) : e[t].event_cycle \in Int
        BY <2>1, EntryFacts
      <3> QED
        BY <2>1, <3>1
    <2>3. next_process[q] \in [index : Scheduled(e), cycle : Nat] \cup {NEVER}
      BY <2>1, <2>2, NextType
    <2>4. next_process[q] # NEVER
      BY <1>1 DEF Due, NEVER
    <2> QED
      BY <2>3, <2>4
  <1> HIDE DEF s
  <1>3. /\ e \in [Slot(q) -> Entry] /\ s \in Slot(q) /\ s \in Nat /\ b \in Bank
        /\ s \in Used(e)
        /\ Scheduled(e) \subseteq Used(e) /\ Used(e) \subseteq Slot(q)
    <2>1. e \in [Slot(q) -> Entry] /\ s \in Used(e) /\ b \in Bank /\ s \in Nat
      BY <1>2, StateFacts
    <2>2. Scheduled(e) \subseteq Used(e) /\ Used(e) \subseteq Slot(q)
      BY <2>1, EntryFacts
    <2> QED
      BY <2>1, <2>2
  <1> HIDE DEF b
  <1>4. /\ queue' = [queue EXCEPT ![q] = f] /\ DOMAIN queue = Queue /\ DOMAIN queue' = Queue
        /\ f = [e EXCEPT ![s] = EMPTY]
    BY <1>1, <1>3 DEF DRAMInv, TypeOK
  <1>5. \A k \in Queue \ {q} : queue'[k] = queue[k]
    BY <1>4
  <1> HIDE DEF e, f
  <1>6. /\ f \in [Slot(q) -> Entry] /\ f[s] = EMPTY
        /\ \A t \in Slot(q) \ {s} : f[t] = e[t]
        /\ DOMAIN e = Slot(q) /\ DOMAIN f = Slot(q)
    BY <1>3, <1>4 DEF Entry
  <1>7. Used(f) = Used(e) \ {s} /\ Scheduled(f) = Scheduled(e) \ {s}
    <2>1. f[s].address = NONE /\ f[s].scheduled = FALSE
      BY <1>6 DEF EMPTY
    <2> QED
      BY <1>3, <1>6, <2>1 DEF Used, Scheduled
  <1>8. /\ Cardinality(Scheduled(f)) = Cardinality(Scheduled(e)) - 1
        /\ Cardinality(Used(f)) = Cardinality(Used(e)) - 1
    BY ZenonT(30), <1>2, <1>3, <1>7, CountFacts, FS_RemoveElement
  <1>9. \A k \in Queue : queue'[k] \in [Slot(k) -> Entry]
    BY <1>5, <1>6, StateFacts DEF f
  <1>10. \A k \in Queue : /\ scheduled'[k] = Cardinality(Scheduled(queue'[k]))
                          /\ occupancy'[k] = Cardinality(Used(queue'[k]))
    <2>1. /\ scheduled'[q] = scheduled[q] - 1 /\ occupancy'[q] = occupancy[q] - 1
          /\ \A k \in Queue \ {q} : scheduled'[k] = scheduled[k] /\ occupancy'[k] = occupancy[k]
      BY <1>1 DEF DRAMInv, PerQueue
    <2>2. \A k \in Queue : /\ scheduled[k] = Cardinality(Scheduled(queue[k]))
                           /\ occupancy[k] = Cardinality(Used(queue[k]))
      BY StateFacts
    <2> QED
      BY <1>5, <1>8, <2>1, <2>2 DEF e, f
  <1>11. /\ next_process'[q] = update_process_cycle(f)
         /\ \A k \in Queue \ {q} : next_process'[k] = next_process[k]
    BY <1>1 DEF DRAMInv, PerQueue, f
  <1>12. next_schedule[q] = update_schedule_cycle(f)
    <2> DEFINE slots == Used(e) \ Scheduled(e)
    <2>1. next_schedule[q] = NextAmong(e, slots)
      BY StateFacts DEF e, update_schedule_cycle
    <2>2. Used(f) \ Scheduled(f) = slots /\ \A t \in slots : f[t] = e[t]
      BY <1>2, <1>3, <1>6, <1>7
    <2>3. \A t \in slots : e[t].event_cycle \in Int /\ f[t].event_cycle = e[t].event_cycle
      BY <1>3, <2>2, EntryFacts
    <2>4. Size[q] - 1 \in Nat /\ slots \in SUBSET (0..(Size[q] - 1))
      BY <1>3, Slots
    <2> HIDE DEF slots
    <2>5. NextAmong(f, slots) = NextAmong(e, slots)
      BY <2>3, <2>4, NextSame
    <2> QED
      BY <2>1, <2>2, <2>5 DEF update_schedule_cycle
  <1>13. PerQueue'
    <2>1. queue' = [k \in Queue |-> queue'[k]]
      BY <1>4, Excepted DEF DRAMInv, PerQueue
    <2>2. /\ next_process = [k \in Queue |-> next_process[k]]
          /\ scheduled = [k \in Queue |-> scheduled[k]]
          /\ occupancy = [k \in Queue |-> occupancy[k]]
          /\ next_schedule' = [k \in Queue |-> next_schedule'[k]]
      BY <1>1 DEF DRAMInv, PerQueue
    <2>3. next_process' = [k \in Queue |-> next_process'[k]]
      <3>1. ASSUME NEW x, next_process' = [next_process EXCEPT ![q] = x]
            PROVE  next_process' = [k \in Queue |-> next_process'[k]]
        BY <2>2, <3>1, Excepted
      <3> QED
        BY <1>1, <3>1
    <2>4. scheduled' = [k \in Queue |-> scheduled'[k]]
      BY <1>1, <2>2, Excepted
    <2>5. occupancy' = [k \in Queue |-> occupancy'[k]]
      BY <1>1, <2>2, Excepted
    <2> QED
      BY <2>1, <2>2, <2>3, <2>4, <2>5 DEF PerQueue
  <1>14. /\ DOMAIN bank = Bank /\ bank'[b].request_index = NONE
         /\ \A c \in Bank \ {b} : bank'[c] = bank[c]
         /\ bank' \in [Bank -> [request_index : Nat \cup {NONE}, kind : Queue \cup {NONE},
                                cycle_available : Nat, open_row : Row \cup {NONE}]]
    <2>1. bank \in [Bank -> [request_index : Nat \cup {NONE}, kind : Queue \cup {NONE},
                             cycle_available : Nat, open_row : Row \cup {NONE}]]
      BY DEF DRAMInv, TypeOK
    <2> QED
      BY <1>1, <1>3, <2>1
  <1>15. TypeOK'
    <2>1. \A k \in Queue : next_process'[k] \in [index : Slot(k), cycle : Nat] \cup {NEVER}
      BY <1>6, <1>11, UpdateType, StateFacts
    <2>2. \A k \in Queue : scheduled'[k] \in 0..Size[k] /\ occupancy'[k] \in 0..Size[k]
      BY <1>9, <1>10, CountFacts
    <2>3. transfer' \in [queue : Queue \cup {NONE}, ends : Int] /\ dbus_cycle_available' \in Int
      BY <1>1, Sizes
    <2> QED
      BY <1>1, <1>4, <1>9, <1>14, <2>1, <2>2, <2>3 DEF DRAMInv, TypeOK
  <1>16. BanksAgree'
    <2>0. Turn' = Turn
      BY <1>1 DEF Turn
    <2>1. ASSUME NEW k \in Queue, NEW t \in Scheduled(queue'[k])
          PROVE  /\ k = Turn' /\ bank'[BankOf[queue'[k][t].address]].request_index = t
                 /\ bank'[BankOf[queue'[k][t].address]].kind = k
      <3>1. k = q
        <4>1. k # q => Scheduled(queue'[k]) = {}
          BY <1>1, <1>5, StateFacts
        <4> QED
          BY <4>1
      <3>2. t \in Scheduled(e) /\ t \in Slot(q) /\ t # s
        BY <1>3, <1>7, <3>1 DEF f
      <3>3. /\ bank[BankOfSlot(q, t)].request_index = t /\ bank[BankOfSlot(q, t)].kind = q
            /\ BankOfSlot(q, t) \in Bank
        BY <1>3, <3>2, StateFacts DEF e
      <3>4. bank[b].request_index = s
        BY <1>2, StateFacts DEF b, e
      <3>5. BankOf[queue'[k][t].address] = BankOfSlot(q, t)
        BY <1>6, <3>1, <3>2 DEF BankOfSlot, e, f
      <3> QED
        BY <1>1, <1>14, <2>0, <3>1, <3>2, <3>3, <3>4, <3>5
    <2>2. ASSUME NEW c \in Bank, bank'[c].request_index # NONE
          PROVE  /\ bank'[c].request_index \in Scheduled(queue'[Turn'])
                 /\ BankOf[queue'[Turn'][bank'[c].request_index].address] = c
      <3> DEFINE t == bank[c].request_index
      <3>1. c # b /\ bank'[c] = bank[c] /\ t # NONE
        BY <1>14, <2>2
      <3>2. t \in Scheduled(e) /\ BankOfSlot(q, t) = c
        BY <1>1, <3>1 DEF DRAMInv, BanksAgree, e
      <3>3. t # s
        BY <3>1, <3>2 DEF b
      <3>4. t \in Scheduled(f) /\ t \in Slot(q)
        BY <1>3, <1>7, <3>2, <3>3
      <3>5. BankOf[f[t].address] = c
        BY <1>6, <3>2, <3>3, <3>4 DEF BankOfSlot, e
      <3> QED
        BY <1>1, <2>0, <3>1, <3>4, <3>5 DEF f
    <2> QED
      BY <1>10, <2>1, <2>2 DEF BanksAgree, BankOfSlot
  <1>17. NextUpToDate'
    <2>1. ASSUME NEW k \in Queue PROVE /\ next_schedule'[k] = update_schedule_cycle(queue'[k])
                                       /\ next_process'[k] = update_process_cycle(queue'[k])
      <3>1. CASE k = q
        BY <1>1, <1>11, <1>12, <3>1 DEF f
      <3>2. CASE k # q
        BY <1>1, <1>5, <1>11, <3>2, StateFacts
      <3> QED
        BY <3>1, <3>2
    <2> QED
      BY <2>1 DEF NextUpToDate
  <1>18. BusFree'
    <2>1. Turn' = q /\ DRAM_DBUS_RETURN_TIME \in Nat
      BY <1>1, Sizes DEF Turn
    <2>2. transfer'.queue = q /\ transfer'.ends = DRAM_DBUS_RETURN_TIME
      BY <1>1
    <2> QED
      BY <1>1, <2>1, <2>2 DEF BusFree
  <1> QED
    BY <1>13, <1>15, <1>16, <1>17, <1>18 DEF DRAMInv

\* A request that is added waits in a slot that was free.
LEMMA EnqueuePreserves ==
    ASSUME DRAMInv, NEW q \in Queue, NEW address \in Address, NEW event_cycle \in Int,
           occupancy[q] < Size[q], Enqueue(q, address, event_cycle), requests' \in 0..MaxRequests,
           UNCHANGED <<stage, all_warmup_complete, write_mode, next_process, bank, scheduled>>,
           UNCHANGED <<dbus_cycle_available, transfer>>
    PROVE  DRAMInv'
  <1> DEFINE s == Min(Slot(q) \ Used(queue[q]))
             e == queue[q]
             new == [address |-> address, scheduled |-> FALSE, event_cycle |-> event_cycle]
             f == queue'[q]
  <1>1. /\ queue' = [queue EXCEPT ![q][s] = new]
        /\ occupancy' = [occupancy EXCEPT ![q] = @ + 1]
        /\ next_schedule' = [next_schedule EXCEPT ![q] = update_schedule_cycle(queue'[q])]
    BY DEF Enqueue
  <1>2. /\ e \in [Slot(q) -> Entry] /\ occupancy[q] = Cardinality(Used(e))
        /\ Used(e) \subseteq Slot(q) /\ Scheduled(e) \subseteq Used(e)
        /\ \A t \in Slot(q) : e[t].event_cycle \in Int
    BY StateFacts, EntryFacts
  <1>3. s \in Slot(q) \ Used(e)
    <2> DEFINE free == Slot(q) \ Used(e)
    <2>1. free # {}
      <3>1. free = {} => Used(e) = Slot(q)
        BY <1>2
      <3> QED
        BY <1>2, <3>1, Slots, Sizes
    <2>2. Size[q] - 1 \in Nat /\ free \in SUBSET (0..(Size[q] - 1)) /\ free \in SUBSET Nat
      BY Slots
    <2>3. s = Min(free)
      OBVIOUS
    <2> HIDE DEF free
    <2> QED
      BY <2>1, <2>2, <2>3, LeastSlot DEF free
  <1> HIDE DEF s
  <1>4. /\ queue' = [queue EXCEPT ![q] = f] /\ DOMAIN queue = Queue /\ DOMAIN queue' = Queue
        /\ f = [e EXCEPT ![s] = new]
    BY <1>1, <1>3 DEF DRAMInv, TypeOK
  <1>5. \A k \in Queue \ {q} : queue'[k] = queue[k]
    BY <1>4
  <1>6. new \in Entry /\ new.address # NONE /\ new.scheduled = FALSE
    <2>1. new \in [address : Address, scheduled : BOOLEAN, event_cycle : Int]
      OBVIOUS
    <2> QED
      BY <2>1, Sizes DEF Entry
  <1> HIDE DEF e, f, new
  <1>7. /\ f \in [Slot(q) -> Entry] /\ f[s] = new
        /\ \A t \in Slot(q) \ {s} : f[t] = e[t]
        /\ DOMAIN e = Slot(q) /\ DOMAIN f = Slot(q)
    BY <1>2, <1>3, <1>4, <1>6
  <1>8. Used(f) = Used(e) \cup {s} /\ Scheduled(f) = Scheduled(e)
    BY <1>2, <1>3, <1>6, <1>7 DEF Used, Scheduled
  <1>9. Cardinality(Used(f)) = Cardinality(Used(e)) + 1
    <2>1. IsFiniteSet(Used(e)) /\ s \notin Used(e)
      BY <1>2, <1>3, CountFacts
    <2> QED
      BY <1>8, <2>1, FS_AddElement
  <1>10. \A k \in Queue : queue'[k] \in [Slot(k) -> Entry]
    BY <1>5, <1>7, StateFacts DEF f
  <1>11. \A k \in Queue : /\ scheduled[k] = Cardinality(Scheduled(queue'[k]))
                          /\ occupancy'[k] = Cardinality(Used(queue'[k]))
    <2>1. /\ occupancy'[q] = occupancy[q] + 1
          /\ \A k \in Queue \ {q} : occupancy'[k] = occupancy[k]
      BY <1>1 DEF DRAMInv, PerQueue
    <2>2. \A k \in Queue : /\ scheduled[k] = Cardinality(Scheduled(queue[k]))
                           /\ occupancy[k] = Cardinality(Used(queue[k]))
      BY StateFacts
    <2> QED
      BY <1>5, <1>8, <1>9, <2>1, <2>2 DEF e, f
  <1>12. /\ next_schedule'[q] = update_schedule_cycle(f)
         /\ \A k \in Queue \ {q} : next_schedule'[k] = next_schedule[k]
    BY <1>1 DEF DRAMInv, PerQueue, f
  <1>13. next_process[q] = update_process_cycle(f)
    <2> DEFINE slots == Scheduled(e)
    <2>1. next_process[q] = NextAmong(e, slots)
      BY StateFacts DEF e, update_process_cycle
    <2>2. \A t \in slots : e[t].event_cycle \in Int /\ f[t].event_cycle = e[t].event_cycle
      BY <1>2, <1>3, <1>7
    <2>3. Size[q] - 1 \in Nat /\ slots \in SUBSET (0..(Size[q] - 1))
      BY <1>2, Slots
    <2> HIDE DEF slots
    <2>4. NextAmong(f, slots) = NextAmong(e, slots)
      BY <2>2, <2>3, NextSame
    <2> QED
      BY <1>8, <2>1, <2>4 DEF update_process_cycle, slots
  <1>14. PerQueue'
    <2>1. queue' = [k \in Queue |-> queue'[k]]
      BY <1>4, Excepted DEF DRAMInv, PerQueue
    <2>2. /\ next_process' = [k \in Queue |-> next_process'[k]]
          /\ scheduled' = [k \in Queue |-> scheduled'[k]]
          /\ occupancy = [k \in Queue |-> occupancy[k]]
          /\ next_schedule = [k \in Queue |-> next_schedule[k]]
      BY DEF DRAMInv, PerQueue
    <2>3. next_schedule' = [k \in Queue |-> next_schedule'[k]]
      <3>1. ASSUME NEW x, next_schedule' = [next_schedule EXCEPT ![q] = x]
            PROVE  next_schedule' = [k \in Queue |-> next_schedule'[k]]
        BY <2>2, <3>1, Excepted
      <3> QED
        BY <1>1, <3>1
    <2>4. occupancy' = [k \in Queue |-> occupancy'[k]]
      BY <1>1, <2>2, Excepted
    <2> QED
      BY <2>1, <2>2, <2>3, <2>4 DEF PerQueue
  <1>15. TypeOK'
    <2>1. \A k \in Queue : next_schedule'[k] \in [index : Slot(k), cycle : Nat] \cup {NEVER}
      BY <1>7, <1>12, UpdateType, StateFacts
    <2>2. \A k \in Queue : occupancy'[k] \in 0..Size[k]
      BY <1>10, <1>11, CountFacts
    <2> QED
      BY <1>4, <1>10, <2>1, <2>2 DEF DRAMInv, TypeOK
  <1>16. BanksAgree'
    <2>0. Turn' = Turn
      BY DEF Turn
    <2>1. \A k \in Queue : \A t \in Scheduled(queue'[k]) :
            t \in Scheduled(queue[k]) /\ queue'[k][t] = queue[k][t]
      BY <1>2, <1>3, <1>5, <1>7, <1>8 DEF e, f
    <2>2. \A k \in Queue : Scheduled(queue'[k]) = Scheduled(queue[k])
      BY <1>5, <1>8 DEF e, f
    <2>3. Turn \in Queue
      BY StateFacts
    <2> QED
      BY SMTT(30), <1>11, <2>0, <2>1, <2>2, <2>3 DEF DRAMInv, BanksAgree, BankOfSlot
  <1>17. NextUpToDate'
    <2>1. ASSUME NEW k \in Queue PROVE /\ next_schedule'[k] = update_schedule_cycle(queue'[k])
                                       /\ next_process[k] = update_process_cycle(queue'[k])
      <3>1. CASE k = q
        BY <1>12, <1>13, <3>1 DEF f
      <3>2. CASE k # q
        BY <1>5, <1>12, <3>2, StateFacts
      <3> QED
        BY <3>1, <3>2
    <2> QED
      BY <2>1 DEF NextUpToDate
  <1>18. BusFree'
    BY DEF DRAMInv, BusFree, Turn
  <1> QED
    BY <1>14, <1>15, <1>16, <1>17, <1>18 DEF DRAMInv

\* The next cycle: the requests wait on in the same order.
LEMMA CyclePreserves ==
    ASSUME DRAMInv, NextCycle
    PROVE  DRAMInv'
  <1>1. /\ stage' = "switch" /\ all_warmup_complete' \in {all_warmup_complete, TRUE}
        /\ queue' = [q \in Queue |-> Aged(queue[q])]
        /\ next_schedule' = [q \in Queue |-> [next_schedule[q] EXCEPT !.cycle = Until(@)]]
        /\ next_process' = [q \in Queue |-> [next_process[q] EXCEPT !.cycle = Until(@)]]
        /\ bank' = [b \in Bank |-> [bank[b] EXCEPT !.cycle_available = Until(@)]]
        /\ dbus_cycle_available' = Max({dbus_cycle_available - 1, BusFloor})
        /\ transfer' = [transfer EXCEPT !.ends = Max({@ - 1, -DRAM_DBUS_TURN_AROUND_TIME})]
        /\ UNCHANGED <<write_mode, occupancy, scheduled, requests>>
    BY DEF NextCycle
  <1>2. \A q \in Queue :
          /\ queue[q] \in [Slot(q) -> Entry] /\ queue'[q] = Aged(queue[q])
          /\ queue'[q] \in [Slot(q) -> Entry]
          /\ Used(queue'[q]) = Used(queue[q]) /\ Scheduled(queue'[q]) = Scheduled(queue[q])
          /\ \A s \in Slot(q) : queue'[q][s].address = queue[q][s].address
    BY <1>1, StateFacts, AgedFacts
  <1>3. \A q \in Queue : /\ next_schedule'[q] = update_schedule_cycle(queue'[q])
                         /\ next_process'[q] = update_process_cycle(queue'[q])
    <2> TAKE q \in Queue
    <2>1. /\ next_schedule[q] = update_schedule_cycle(queue[q])
          /\ next_process[q] = update_process_cycle(queue[q])
      BY StateFacts
    <2>2. /\ next_schedule'[q] = [next_schedule[q] EXCEPT !.cycle = Until(@)]
          /\ next_process'[q] = [next_process[q] EXCEPT !.cycle = Until(@)]
      BY <1>1
    <2>3. /\ update_schedule_cycle(Aged(queue[q])) =
                [update_schedule_cycle(queue[q]) EXCEPT !.cycle = Until(@)]
          /\ update_process_cycle(Aged(queue[q])) =
                [update_process_cycle(queue[q]) EXCEPT !.cycle = Until(@)]
      BY <1>2, NextAged
    <2> QED
      BY <1>2, <2>1, <2>2, <2>3
  <1>4. PerQueue' /\ DOMAIN queue' = Queue
    BY <1>1 DEF DRAMInv, PerQueue
  <1>5. \A w \in Nat : Until(w) \in Nat
    BY UntilIs
  <1>6. /\ bank \in [Bank -> [request_index : Nat \cup {NONE}, kind : Queue \cup {NONE},
                              cycle_available : Nat, open_row : Row \cup {NONE}]]
        /\ dbus_cycle_available \in Int /\ transfer \in [queue : Queue \cup {NONE}, ends : Int]
        /\ DRAM_DBUS_TURN_AROUND_TIME \in Nat
    BY Sizes DEF DRAMInv, TypeOK
  <1>7. \A x, y \in Int : Max({x, y}) \in {x, y} /\ Max({x, y}) >= x /\ Max({x, y}) >= y
    BY DEF Max
  <1>8. BusFloor \in Int /\ dbus_cycle_available - 1 \in Int
        /\ transfer.ends - 1 \in Int /\ -DRAM_DBUS_TURN_AROUND_TIME \in Int
    BY <1>6 DEF BusFloor
  <1>9. /\ dbus_cycle_available' \in Int /\ dbus_cycle_available' >= dbus_cycle_available - 1
        /\ transfer'.queue = transfer.queue /\ transfer'.ends \in Int
        /\ transfer' \in [queue : Queue \cup {NONE}, ends : Int]
        /\ transfer'.ends \in {transfer.ends - 1, -DRAM_DBUS_TURN_AROUND_TIME}
    <2>1. /\ dbus_cycle_available' \in {dbus_cycle_available - 1, BusFloor}
          /\ dbus_cycle_available' >= dbus_cycle_available - 1
      BY <1>1, <1>7, <1>8
    <2>2. Max({transfer.ends - 1, -DRAM_DBUS_TURN_AROUND_TIME})
            \in {transfer.ends - 1, -DRAM_DBUS_TURN_AROUND_TIME}
      BY <1>7, <1>8
    <2>3. ASSUME NEW m \in Int, transfer' = [transfer EXCEPT !.ends = m]
          PROVE  /\ transfer'.queue = transfer.queue /\ transfer'.ends = m
                 /\ transfer' \in [queue : Queue \cup {NONE}, ends : Int]
      BY <1>6, <2>3
    <2>4. Max({transfer.ends - 1, -DRAM_DBUS_TURN_AROUND_TIME}) \in Int
      BY <1>8, <2>2
    <2> QED
      BY <1>1, <1>8, <2>1, <2>2, <2>3, <2>4
  <1>10. \A b \in Bank : /\ bank'[b].request_index = bank[b].request_index
                         /\ bank'[b].kind = bank[b].kind
    BY <1>1, <1>6
  <1>11. TypeOK'
    <2>1. \A q \in Queue :
            /\ next_schedule'[q] \in [index : Slot(q), cycle : Nat] \cup {NEVER}
            /\ next_process'[q] \in [index : Slot(q), cycle : Nat] \cup {NEVER}
      BY <1>2, <1>3, UpdateType
    <2>2. bank' \in [Bank -> [request_index : Nat \cup {NONE}, kind : Queue \cup {NONE},
                              cycle_available : Nat, open_row : Row \cup {NONE}]]
      BY <1>1, <1>5, <1>6
    <2>3. all_warmup_complete' \in BOOLEAN
      BY <1>1, Zenon DEF DRAMInv, TypeOK
    <2> QED
      BY <1>1, <1>2, <1>4, <1>9, <2>1, <2>2, <2>3 DEF DRAMInv, TypeOK
  <1>12. BanksAgree'
    <2>0. Turn' = Turn /\ Turn \in Queue
      BY <1>1, StateFacts DEF Turn
    <2>1. \A q \in Queue : \A s \in Scheduled(queue[q]) :
            /\ BankOf[queue'[q][s].address] = BankOfSlot(q, s)
            /\ BankOfSlot(q, s) \in Bank
      BY ZenonT(30), <1>2, StateFacts DEF BankOfSlot
    <2>2. ASSUME NEW q \in Queue, NEW s \in Scheduled(queue'[q])
          PROVE  /\ q = Turn' /\ bank'[BankOf[queue'[q][s].address]].request_index = s
                 /\ bank'[BankOf[queue'[q][s].address]].kind = q
      <3>1. s \in Scheduled(queue[q])
        BY <1>2
      <3>2. /\ q = Turn /\ bank[BankOfSlot(q, s)].request_index = s
            /\ bank[BankOfSlot(q, s)].kind = q
        BY <3>1 DEF DRAMInv, BanksAgree
      <3> QED
        BY <1>10, <2>0, <2>1, <3>1, <3>2
    <2>3. ASSUME NEW b \in Bank, bank'[b].request_index # NONE
          PROVE  /\ bank'[b].request_index \in Scheduled(queue'[Turn'])
                 /\ BankOf[queue'[Turn'][bank'[b].request_index].address] = b
      <3> DEFINE s == bank[b].request_index
      <3>1. s \in Scheduled(queue[Turn]) /\ BankOfSlot(Turn, s) = b
        BY <1>10, <2>3 DEF DRAMInv, BanksAgree
      <3>2. s \in Scheduled(queue'[Turn])
        BY <1>2, <2>0, <3>1
      <3>3. BankOf[queue'[Turn][s].address] = b
        BY <2>0, <2>1, <3>1
      <3>4. bank'[b].request_index = s
        BY <1>10
      <3> QED
        BY <2>0, <3>2, <3>3, <3>4
    <2>4. \A q \in Queue : /\ scheduled'[q] = Cardinality(Scheduled(queue'[q]))
                           /\ occupancy'[q] = Cardinality(Used(queue'[q]))
      BY <1>1, <1>2, StateFacts
    <2> QED
      BY <2>2, <2>3, <2>4 DEF BanksAgree, BankOfSlot
  <1>13. NextUpToDate'
    BY <1>3 DEF NextUpToDate
  <1>14. BusFree'
    BY <1>1, <1>6, <1>9 DEF DRAMInv, BusFree, Turn
  <1> QED
    BY <1>4, <1>11, <1>12, <1>13, <1>14 DEF DRAMInv

\* The other steps of operate leave the queues alone,
LEMMA OperatePreserves ==
    ASSUME DRAMInv,
           \/ KeepMode \/ NothingToSchedule \/ NothingToProcess \/ UNCHANGED vars
           \/ \E q \in Queue : WaitForBus(q)
    PROVE  DRAMInv'
  <1>1. /\ all_warmup_complete \in BOOLEAN /\ requests \in 0..MaxRequests
        /\ stage \in {"switch", "schedule", "process", "requests"}
        /\ bank \in [Bank -> [request_index : Nat \cup {NONE}, kind : Queue \cup {NONE},
                              cycle_available : Nat, open_row : Row \cup {NONE}]]
        /\ dbus_cycle_available \in Int
    BY DEF DRAMInv, TypeOK
  <1>2. CASE KeepMode \/ NothingToSchedule \/ NothingToProcess \/ UNCHANGED vars
    <2>1. /\ UNCHANGED <<write_mode, queue, occupancy, next_schedule, next_process, scheduled>>
          /\ UNCHANGED <<dbus_cycle_available, transfer>>
          /\ UNCHANGED <<all_warmup_complete, requests, bank>>
          /\ stage' \in {"switch", "schedule", "process", "requests"}
      BY <1>1, <1>2 DEF KeepMode, NothingToSchedule, NothingToProcess, vars, bankVars, busVars
    <2> QED
      BY <1>1, <2>1, IdlePreserves
  <1>3. ASSUME NEW q \in Queue, WaitForBus(q) PROVE DRAMInv'
    <2> DEFINE b == BankOfSlot(q, next_process[q].index)
    <2>1. /\ UNCHANGED <<write_mode, queue, occupancy, next_schedule, next_process, scheduled>>
          /\ UNCHANGED <<dbus_cycle_available, transfer>>
          /\ UNCHANGED <<all_warmup_complete, requests>>
          /\ stage' = "requests" /\ dbus_cycle_available > 0
          /\ bank' = [bank EXCEPT ![b].cycle_available = dbus_cycle_available]
      BY <1>3 DEF WaitForBus, busVars
    <2> HIDE DEF b
    <2>2. dbus_cycle_available \in Nat
      BY <1>1, <2>1
    <2>3. /\ bank' \in [Bank -> [request_index : Nat \cup {NONE}, kind : Queue \cup {NONE},
                                 cycle_available : Nat, open_row : Row \cup {NONE}]]
          /\ \A c \in Bank : /\ bank'[c].request_index = bank[c].request_index
                             /\ bank'[c].kind = bank[c].kind
      BY <1>1, <2>1, <2>2
    <2> QED
      BY <1>1, <2>1, <2>3, IdlePreserves
  <1> QED
    BY <1>2, <1>3

\* and so does a request that is answered at once.
LEMMA RequestPreserves ==
    ASSUME DRAMInv, NEW address \in Address,
           \/ add_wq(address)
           \/ \E event_cycle \in RequestCycles : add_rq(address, event_cycle)
    PROVE  DRAMInv'
  <1>1. /\ all_warmup_complete \in BOOLEAN /\ requests \in 0..MaxRequests
        /\ stage \in {"switch", "schedule", "process", "requests"}
        /\ bank \in [Bank -> [request_index : Nat \cup {NONE}, kind : Queue \cup {NONE},
                              cycle_available : Nat, open_row : Row \cup {NONE}]]
        /\ MaxRequests \in Nat
    BY Sizes DEF DRAMInv, TypeOK
  <1>2. /\ UNCHANGED <<stage, all_warmup_complete, write_mode, next_process, bank, scheduled>>
        /\ UNCHANGED <<dbus_cycle_available, transfer>>
        /\ requests < MaxRequests /\ requests' = requests + 1
    BY DEF add_wq, add_rq, bankVars, busVars
  <1>3. requests' \in 0..MaxRequests
    BY <1>1, <1>2
  <1>4. CASE Answered
    BY <1>1, <1>2, <1>3, <1>4, IdlePreserves DEF Answered
  <1>5. ASSUME NEW q \in Queue, NEW event_cycle \in Int, occupancy[q] < Size[q],
               Enqueue(q, address, event_cycle)
        PROVE  DRAMInv'
    BY <1>2, <1>3, <1>5, EnqueuePreserves
  <1>6. /\ "RQ" \in Queue /\ "WQ" \in Queue /\ 0 \in Int
        /\ Size["RQ"] = DRAM_RQ_SIZE /\ Size["WQ"] = DRAM_WQ_SIZE
    BY DEF Queue, Size
  <1>7. CASE add_wq(address)
    <2>1. occupancy["WQ"] < Size["WQ"] /\ (Answered \/ Enqueue("WQ", address, 0))
      BY <1>6, <1>7 DEF add_wq
    <2> QED
      BY <1>4, <1>5, <1>6, <2>1
  <1>8. ASSUME NEW event_cycle \in RequestCycles, add_rq(address, event_cycle)
        PROVE  DRAMInv'
    <2>1. occupancy["RQ"] < Size["RQ"] /\ (Answered \/ Enqueue("RQ", address, event_cycle))
      BY <1>6, <1>8 DEF add_rq
    <2>2. event_cycle \in Int
      BY Sizes
    <2> QED
      BY <1>4, <1>5, <1>6, <2>1, <2>2
  <1> QED
    BY <1>7, <1>8

\* Every step keeps the invariant.
LEMMA NextPreserves ==
    ASSUME DRAMInv, [Next]_vars
    PROVE  DRAMInv'
  <1>1. CASE SwitchMode
    BY <1>1, SwitchPreserves
  <1>2. CASE KeepMode \/ NothingToSchedule \/ NothingToProcess \/ UNCHANGED vars
    BY <1>2, OperatePreserves
  <1>3. ASSUME NEW q \in Queue, schedule(q) PROVE DRAMInv'
    BY <1>3, SchedulePreserves
  <1>4. ASSUME NEW q \in Queue, Transfer(q) PROVE DRAMInv'
    BY <1>4, TransferPreserves
  <1>5. ASSUME NEW q \in Queue, WaitForBus(q) PROVE DRAMInv'
    BY <1>5, OperatePreserves
  <1>6. ASSUME NEW address \in Address, add_wq(address) PROVE DRAMInv'
    BY <1>6, RequestPreserves
  <1>7. ASSUME NEW address \in Address, NEW event_cycle \in RequestCycles,
               add_rq(address, event_cycle)
        PROVE  DRAMInv'
    BY <1>7, RequestPreserves
  <1>8. CASE NextCycle
    BY <1>8, CyclePreserves
  <1> QED
    BY <1>1, <1>2, <1>3, <1>4, <1>5, <1>6, <1>7, <1>8 DEF Next

-----------------------------------------------------------------------------
(* What holds in every state, and of every step.                           *)

\* DRAMInv holds in every state of the controller.
THEOREM ControllerInvariant == Spec => []DRAMInv
  <1>1. Init => DRAMInv
    BY InitInv
  <1>2. DRAMInv /\ [Next]_vars => DRAMInv'
    BY NextPreserves
  <1> QED
    BY <1>1, <1>2, PTL DEF Spec

\* Counters, indices and cycles stay within the queues, the banks and the
\* numbers they are meant for.
THEOREM ControllerTypeCorrect == Spec => []TypeOK
  <1>1. DRAMInv => TypeOK
    BY DEF DRAMInv
  <1> QED
    BY <1>1, ControllerInvariant, PTL

\* The assertions of process and reset_remain_requests about bank_request
\* hold: banks, scheduled requests and counters agree.
THEOREM BanksAlwaysAgree == Spec => []BanksAgree
  <1>1. DRAMInv => BanksAgree
    BY DEF DRAMInv
  <1> QED
    BY <1>1, ControllerInvariant, PTL

\* next_schedule_ and next_process_ are what a fresh look at the queue would
\* find.
THEOREM NextNeverStale == Spec => []NextUpToDate
  <1>1. DRAMInv => NextUpToDate
    BY DEF DRAMInv
  <1> QED
    BY <1>1, ControllerInvariant, PTL

\* A request leaves its queue only by a transfer.
LEMMA OnlyTransfersServe ==
    ASSUME DRAMInv, [Next]_vars, NEW q \in Queue, occupancy'[q] < occupancy[q]
    PROVE  Transfer(q)
  <1>0. \A k \in Queue : occupancy[k] \in Int
    BY Sizes DEF DRAMInv, TypeOK
  <1>1. /\ ~UNCHANGED vars /\ ~SwitchMode /\ ~KeepMode /\ ~NothingToSchedule
        /\ ~NothingToProcess /\ ~NextCycle
        /\ \A k \in Queue : ~schedule(k) /\ ~WaitForBus(k)
    <2>1. occupancy' # occupancy
      BY <1>0
    <2>2. UNCHANGED vars => occupancy' = occupancy
      BY DEF vars
    <2>3. SwitchMode \/ KeepMode => occupancy' = occupancy
      BY DEF SwitchMode, KeepMode
    <2>4. NothingToSchedule \/ NothingToProcess \/ NextCycle => occupancy' = occupancy
      BY DEF NothingToSchedule, NothingToProcess, NextCycle
    <2>5. ASSUME NEW k \in Queue PROVE schedule(k) \/ WaitForBus(k) => occupancy' = occupancy
      BY DEF schedule, WaitForBus
    <2> QED
      BY <2>1, <2>2, <2>3, <2>4, <2>5
  <1>2. ASSUME NEW k \in Queue, NEW address, NEW event_cycle, Enqueue(k, address, event_cycle)
        PROVE  FALSE
    <2>1. occupancy' = [occupancy EXCEPT ![k] = @ + 1]
      BY <1>2 DEF Enqueue
    <2>2. occupancy'[q] = IF q = k THEN occupancy[q] + 1 ELSE occupancy[q]
      BY <2>1 DEF DRAMInv, PerQueue
    <2> QED
      BY <1>0, <2>2
  <1>3. ~Answered
    BY <1>0 DEF Answered
  <1>4. \A address \in Address : ~add_wq(address)
    BY <1>2, <1>3 DEF add_wq, Queue
  <1>5. \A address \in Address, event_cycle \in RequestCycles : ~add_rq(address, event_cycle)
    BY <1>2, <1>3 DEF add_rq, Queue
  <1>6. PICK k \in Queue : Transfer(k)
    BY <1>1, <1>4, <1>5 DEF Next
  <1>7. k = q
    <2>1. occupancy' = [occupancy EXCEPT ![k] = @ - 1]
      BY <1>6 DEF Transfer
    <2>2. k # q => occupancy'[q] = occupancy[q]
      BY <2>1 DEF DRAMInv, PerQueue
    <2> QED
      BY <1>0, <2>2
  <1> QED
    BY <1>6, <1>7

\* Two transfers never overlap on the data bus, and one that goes the other
\* way starts DRAM_DBUS_TURN_AROUND_TIME after the last has ended.
THEOREM BusAlwaysTurnsAround == Spec => BusTurnsAround
  <1>1. ASSUME DRAMInv, [Next]_vars, NEW q \in Queue, occupancy'[q] < occupancy[q]
        PROVE  /\ transfer.ends <= 0
               /\ \/ transfer.queue \in {q, NONE}
                  \/ transfer.ends <= -DRAM_DBUS_TURN_AROUND_TIME
    <2>1. Transfer(q)
      BY <1>1, OnlyTransfersServe
    <2>2. q = Turn /\ dbus_cycle_available <= 0
      BY <2>1 DEF Transfer
    <2>3. dbus_cycle_available \in Int /\ transfer.ends \in Int /\ DRAM_DBUS_TURN_AROUND_TIME \in Nat
      BY <1>1, Sizes DEF DRAMInv, TypeOK
    <2> QED
      BY <1>1, <2>2, <2>3 DEF DRAMInv, BusFree
  <1>2. DRAMInv /\ [Next]_vars =>
          [\A q \in Queue : occupancy'[q] < occupancy[q] =>
             /\ transfer.ends <= 0
             /\ transfer.queue \in {q, NONE} \/ transfer.ends <= -DRAM_DBUS_TURN_AROUND_TIME]_vars
    BY <1>1
  <1> QED
    BY <1>2, ControllerInvariant, PTL DEF Spec, BusTurnsAround
=============================================================================
