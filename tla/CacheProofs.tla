----------------------------- MODULE CacheProofs -----------------------------
(***************************************************************************)
(* What holds of the caches of one core for every number of addresses,     *)
(* lines, sets and ways, every size of the queues and of the MSHR, and all *)
(* prefetchers: the invariant of Cache.tla.                                *)
(***************************************************************************)
EXTENDS Cache, FiniteSetTheorems, SequenceTheorems, WellFoundedInduction, TLAPS

-----------------------------------------------------------------------------
(* The invariant.                                                          *)

\* The lines of code and of data, and those of any address.
CodeLines == {LineOf[a] : a \in FetchAddr \cup {pf[1] : pf \in PrefetchOf[L1I]}}
DataLines == {LineOf[a] : a \in LoadAddr \cup StoreAddr \cup {pf[1] : pf \in PrefetchOf[L1D]}}
LinesOfAddr == {LineOf[a] : a \in Addr}
PrefetchLines(c) == {LineOf[pf[1]] : pf \in PrefetchOf[c]}

\* The sets of every cache, in some order of use.
Sets(c) == {set \in [Way(c) -> Block] : {set[w].lru : w \in Way(c)} = Way(c)}
BlocksTyped == DOMAIN block = CacheName /\ \A c \in CacheName : block[c] \in [SetIndex -> Sets(c)]

\* What is valid or dirty is the line of some address.
BlocksInv ==
    /\ BlocksTyped
    /\ \A c \in CacheName, s \in SetIndex : \A w \in Way(c) :
         block[c][s][w].valid \/ block[c][s][w].dirty => block[c][s][w].line \in LinesOfAddr

\* A queue in which requests for one line merge holds a line once.
NoRepeats(q) == \A i, j \in DOMAIN q : LineIn(q[i]) = LineIn(q[j]) => i = j

\* The flags of a packet that starts in c, and who may wait there.
OwnFlags(c, p) == /\ p.fill_l1i <=> c = L1I
                  /\ p.fill_l1d <=> c = L1D
Own(c) == {r \in Requester : CacheOf(r) = c}

\* The flags of what goes below name the lines each cache may ask for.
FlagLines(p) ==
    /\ p.fill_l1i => LineIn(p) \in CodeLines
    /\ p.fill_l1d => LineIn(p) \in DataLines
    /\ p.type = "PREFETCH" /\ p.fill_l1i => LineIn(p) \in PrefetchLines(L1I)
    /\ p.type = "PREFETCH" /\ p.fill_l1d => LineIn(p) \in PrefetchLines(L1D)
    /\ p.fill_l1i \/ p.fill_l1d \/ LineIn(p) \in AskedForAside
Answerable(p) == p.fill_level = FILL_L1 <=> p.fill_l1i \/ p.fill_l1d

\* What a read, a write and a prefetch queue hold.
ReadIn(c, p) ==
    /\ p.type \in {"LOAD", "RFO"} /\ p.fill_level = FILL_L1
    /\ FlagLines(p) /\ Answerable(p)
    /\ p.who \subseteq Own(c)
    /\ c \in L1 => p.type = "LOAD" /\ OwnFlags(c, p)
StoreIn(p) ==
    /\ p.type = "RFO" /\ p.fill_level = FILL_L1 /\ FlagLines(p) /\ OwnFlags(L1D, p)
    /\ p.who = {} /\ LineIn(p) \in StoreLines
PrefetchIn(c, p) ==
    /\ p.type = "PREFETCH" /\ FlagLines(p) /\ Answerable(p) /\ p.who = {}
    /\ c = L1I => OwnFlags(L1I, p)
    /\ c = L1D => ~p.fill_l1i
ReadQ(c, q) ==
    /\ q \in Seq(Packet) /\ Len(q) <= RQ_SIZE[c] /\ NoRepeats(q)
    /\ \A p \in Range(q) : ReadIn(c, p)
PrefetchQ(c, q) ==
    /\ q \in Seq(Packet) /\ Len(q) <= PQ_SIZE[c] /\ NoRepeats(q)
    /\ \A p \in Range(q) : PrefetchIn(c, p)
WriteQ(c, q) ==
    /\ q \in Seq(Packet) /\ Len(q) <= WQ_SIZE[c]
    /\ c = L1I => q = <<>>
    /\ c = L1D => \A p \in Range(q) : StoreIn(p)
ReadsInv == DOMAIN RQ = CacheName /\ \A c \in CacheName : ReadQ(c, RQ[c])
WritesInv == DOMAIN WQ = CacheName /\ \A c \in CacheName : WriteQ(c, WQ[c])
PrefetchesInv == DOMAIN PQ = CacheName /\ \A c \in CacheName : PrefetchQ(c, PQ[c])

\* What the MSHR of c holds under a line.
MissIn(c, l, m) ==
    /\ m \in Miss
    /\ LineIn(m) = l
    /\ m.type \in {"LOAD", "RFO", "PREFETCH"}
    /\ FlagLines(m) /\ Answerable(m)
    /\ m.who \subseteq Own(c)
    /\ m.type = "PREFETCH" => m.who = {}
    /\ c \in L1 => OwnFlags(c, m)
    /\ c = L1D /\ m.type = "RFO" => l \in StoreLines
Table == [CacheName -> [Line -> Miss \cup {NONE}]]
Lines(t) == {l \in Line : t[l] # NONE}
MissT(c, t) ==
    /\ Cardinality(Lines(t)) <= MSHR_SIZE[c]
    /\ \A l \in Line : t[l] # NONE => MissIn(c, l, t[l])
Misses(m) == m \in Table /\ \A c \in CacheName : MissT(c, m[c])

BaseInv ==
    /\ BlocksInv /\ ReadsInv /\ WritesInv /\ PrefetchesInv /\ Misses(MSHR)
    /\ asked \in [Requester -> Addr \cup {NONE}]
    /\ unwritten \in SUBSET StoreTaken

-----------------------------------------------------------------------------
(* The constants.                                                          *)

\* The caches are three, and the first level is two of them.
LEMMA Names ==
    /\ L1I # L1D /\ L1I # L2C /\ L1D # L2C
    /\ L1 \in SUBSET CacheName /\ L1I \in L1 /\ L1D \in L1 /\ L2C \in CacheName /\ L2C \notin L1
    /\ \A c \in CacheName : c \in L1 <=> c # L2C
    /\ \A c \in L1 : c = L1I \/ c = L1D
    /\ \A c \in CacheName : c \in L1 \/ c = L2C
    /\ fill_level[L1I] = 1 /\ fill_level[L1D] = 1 /\ fill_level[L2C] = 2
  BY DEF L1I, L1D, L2C, L1, CacheName, fill_level, FILL_L1, FILL_L2

\* Sizes and addresses are what the code has.
LEMMA Sizes ==
    /\ \A a \in Addr : LineOf[a] \in Line
    /\ \A c \in CacheName, l \in Line : SetOf[c][l] \in SetIndex
    /\ \A c \in CacheName : /\ NUM_WAY[c] \in Nat /\ NUM_WAY[c] > 0
                            /\ MSHR_SIZE[c] \in Nat /\ MSHR_SIZE[c] > 0
                            /\ RQ_SIZE[c] \in Nat /\ WQ_SIZE[c] \in Nat /\ PQ_SIZE[c] \in Nat
                            /\ Way(c) = 0..(NUM_WAY[c] - 1) /\ NUM_WAY[c] - 1 \in Way(c)
    /\ RQ_SIZE[L2C] >= MSHR_SIZE[L1I] + MSHR_SIZE[L1D]
    /\ IsFiniteSet(Line) /\ NONE \notin Addr /\ NONE \notin Line /\ NONE \notin Miss
    /\ CodeLines \in SUBSET Line /\ DataLines \in SUBSET Line /\ LinesOfAddr \in SUBSET Line
  <1>1. /\ LineOf \in [Addr -> Line]
        /\ \A c \in CacheName : SetOf[c] \in [Line -> SetIndex]
        /\ \A c \in CacheName : PrefetchOf[c] \in SUBSET (Addr \X {FILL_L1, FILL_L2, FILL_LLC})
    BY CacheAssumption
  <1>2. \A c \in CacheName : \A pf \in PrefetchOf[c] : pf[1] \in Addr
    BY <1>1
  <1>3. \A c \in CacheName : /\ NUM_WAY[c] \in Nat /\ NUM_WAY[c] > 0
                             /\ Way(c) = 0..(NUM_WAY[c] - 1) /\ NUM_WAY[c] - 1 \in Way(c)
    BY CacheAssumption DEF Way
  <1>4. CodeLines \in SUBSET Line
    BY <1>1, <1>2, Names DEF CodeLines, Addr
  <1>5. DataLines \in SUBSET Line
    BY <1>1, <1>2, Names DEF DataLines, Addr
  <1>6. LinesOfAddr \in SUBSET Line
    BY <1>1 DEF LinesOfAddr
  <1>7. /\ \A a \in Addr : LineOf[a] \in Line
        /\ \A c \in CacheName, l \in Line : SetOf[c][l] \in SetIndex
    BY <1>1
  <1> QED
    BY <1>3, <1>4, <1>5, <1>6, <1>7, CacheAssumption, NoMiss

\* A packet and a miss are of a line.
LEMMA PacketLine ==
    /\ \A p \in Packet : LineIn(p) \in LinesOfAddr /\ LineIn(p) \in Line
    /\ \A m \in Miss : LineIn(m) \in LinesOfAddr /\ LineIn(m) \in Line
  BY Sizes DEF LineIn, LinesOfAddr, Packet, Miss

-----------------------------------------------------------------------------
(* Blocks.                                                                 *)

\* There is a first of any ways.
LEMMA FirstOfIn == ASSUME NEW S \in SUBSET Nat, S # {} PROVE FirstOf(S) \in S
  <1>1. PICK m \in S : \A k \in S : ~ (<<k, m>> \in OpToRel(<, Nat))
    BY NatLessThanWellFounded, WFMin
  <1>2. ASSUME NEW v \in S PROVE m <= v
    <2>1. m \in Nat /\ v \in Nat
      OBVIOUS
    <2>2. ~ (v < m)
      BY <1>1, <2>1 DEF OpToRel
    <2> QED
      BY <2>1, <2>2
  <1>3. \E w \in S : \A v \in S : w <= v
    BY <1>2
  <1> QED
    BY <1>3 DEF FirstOf

\* check_hit finds the line where it is.
LEMMA CheckHit ==
    ASSUME NEW c \in CacheName, NEW l, Hit(c, l)
    PROVE  /\ check_hit(c, l) \in Way(c)
           /\ block[c][SetOf[c][l]][check_hit(c, l)].valid
           /\ block[c][SetOf[c][l]][check_hit(c, l)].line = l
  <1>1. Way(c) \in SUBSET Nat
    BY DEF Way
  <1>2. Ways(c, l) \in SUBSET Nat /\ Ways(c, l) # {}
    BY <1>1 DEF Ways, Hit
  <1>3. check_hit(c, l) \in Ways(c, l)
    BY <1>2, FirstOfIn DEF check_hit
  <1> QED
    BY <1>3 DEF Ways, ThisSet

\* lru_victim is a way of the set.
LEMMA VictimIn ==
    ASSUME BlocksTyped, NEW c \in CacheName, NEW l \in Line
    PROVE  lru_victim(c, l) \in Way(c)
  <1> DEFINE set == ThisSet(c, l)
             invalid == {w \in Way(c) : ~set[w].valid}
  <1>1. set \in Sets(c)
    BY Sizes DEF BlocksTyped, ThisSet
  <1>2. CASE invalid # {}
    <2>1. invalid \in SUBSET Nat
      BY DEF Way
    <2>2. FirstOf(invalid) \in invalid
      BY <1>2, <2>1, FirstOfIn
    <2> QED
      BY <1>2, <2>2 DEF lru_victim
  <1>3. CASE invalid = {}
    <2>1. NUM_WAY[c] - 1 \in {set[w].lru : w \in Way(c)}
      BY <1>1, Sizes DEF Sets
    <2>2. \E w \in Way(c) : set[w].lru = NUM_WAY[c] - 1
      BY <2>1
    <2> QED
      BY <1>3, <2>2 DEF lru_victim
  <1> QED
    BY <1>2, <1>3

\* Two sets hold the same lines in the same ways, as clean or as dirty.
SameLines(c, old, new) ==
    \A w \in Way(c) : /\ new[w].valid = old[w].valid /\ new[w].line = old[w].line
                      /\ new[w].dirty = old[w].dirty

\* To promote a way reorders the set and changes nothing else in it.
LEMMA PromoteKeeps ==
    ASSUME NEW c \in CacheName, NEW set \in Sets(c), NEW way \in Way(c)
    PROVE  Promote(set, way) \in Sets(c) /\ SameLines(c, set, Promote(set, way))
  <1> DEFINE new == Promote(set, way)
             n == NUM_WAY[c]
             rank == [w \in Way(c) |-> set[w].lru]
             r == rank[way]
  <1>1. n \in Nat /\ n > 0 /\ Way(c) = 0..(n - 1)
    BY Sizes
  <1>2. /\ set \in [Way(c) -> Block]
        /\ {set[w].lru : w \in Way(c)} = Way(c)
    BY DEF Sets
  <1>3. \A w \in Way(c) : rank[w] \in 0..(n - 1) /\ set[w].lru = rank[w] /\ set[w] \in Block
    BY <1>1, <1>2
  <1>4. \A v \in 0..(n - 1) : \E w \in Way(c) : rank[w] = v
    BY <1>1, <1>2
  <1>5. /\ DOMAIN new = Way(c)
        /\ \A w \in Way(c) :
             /\ new[w] = [set[w] EXCEPT !.lru = IF w = way THEN 0
                            ELSE IF rank[w] < r THEN rank[w] + 1 ELSE rank[w]]
    BY <1>2, <1>3 DEF Promote
  <1> HIDE DEF rank
  <1>6. \A w \in Way(c) :
          /\ new[w] \in Block /\ new[w].valid = set[w].valid
          /\ new[w].line = set[w].line /\ new[w].dirty = set[w].dirty
          /\ new[w].lru = IF w = way THEN 0 ELSE IF rank[w] < r THEN rank[w] + 1 ELSE rank[w]
    <2> TAKE w \in Way(c)
    <2> DEFINE x == IF w = way THEN 0 ELSE IF rank[w] < r THEN rank[w] + 1 ELSE rank[w]
    <2>1. x \in Nat
      BY <1>3
    <2>2. new[w] = [set[w] EXCEPT !.lru = x] /\ set[w] \in Block
      BY <1>3, <1>5
    <2> HIDE DEF x, new
    <2>3. /\ new[w] \in Block /\ new[w].valid = set[w].valid
          /\ new[w].line = set[w].line /\ new[w].dirty = set[w].dirty /\ new[w].lru = x
      BY <2>1, <2>2 DEF Block
    <2> QED
      BY <2>3 DEF x
  <1> DEFINE f == [w \in Way(c) |-> new[w].lru]
  <1>7. r \in 0..(n - 1)
    BY <1>3
  <1>8. \A w \in Way(c) : f[w] = IF w = way THEN 0 ELSE IF rank[w] < r THEN rank[w] + 1 ELSE rank[w]
    BY <1>6
  <1>9. new \in [Way(c) -> Block]
    <2>1. new = [w \in Way(c) |-> new[w]]
      BY <1>5 DEF Promote
    <2> QED
      BY <2>1, <1>6
  <1> HIDE DEF f, new, r
  <1>10. \A w \in Way(c) : f[w] \in Way(c)
    BY <1>1, <1>3, <1>7, <1>8
  <1>11. ASSUME NEW v \in Way(c) PROVE \E w \in Way(c) : f[w] = v
    <2>1. CASE v = 0
      BY <2>1, <1>8
    <2>2. CASE v > 0 /\ v <= r
      <3>1. v - 1 \in 0..(n - 1) /\ v - 1 < r /\ v \in Nat
        BY <1>1, <1>7, <2>2
      <3>2. PICK w \in Way(c) : rank[w] = v - 1
        BY <3>1, <1>4
      <3>3. w # way /\ rank[w] < r
        BY <3>1, <3>2 DEF r
      <3>4. f[w] = rank[w] + 1
        BY <3>3, <1>8
      <3> QED
        BY <3>1, <3>2, <3>4
    <2>3. CASE v > r
      <3>1. PICK w \in Way(c) : rank[w] = v
        BY <1>1, <1>4
      <3>2. v \in Nat /\ r \in Nat
        BY <1>1, <1>7
      <3>3. w # way /\ ~(rank[w] < r)
        BY <2>3, <3>1, <3>2 DEF r
      <3>4. f[w] = rank[w]
        BY <3>3, <1>8
      <3> QED
        BY <3>1, <3>4
    <2> QED
      BY <2>1, <2>2, <2>3, <1>1, <1>7
  <1>12. {f[w] : w \in Way(c)} = Way(c)
    BY <1>10, <1>11
  <1>13. {new[w].lru : w \in Way(c)} = Way(c)
    BY <1>12 DEF f
  <1>14. SameLines(c, set, new)
    BY <1>6 DEF SameLines
  <1> QED
    BY <1>9, <1>13, <1>14 DEF Sets, new

\* What a fill makes of the blocks: the line takes the way of the victim, and
\* the rest stays.
Filled(c, l, dirty) ==
    /\ BlocksTyped'
    /\ \A d \in CacheName, s \in SetIndex : \A w \in Way(d) :
         IF d = c /\ s = SetOf[c][l] /\ w = lru_victim(c, l)
         THEN /\ block'[d][s][w].valid /\ block'[d][s][w].line = l
              /\ block'[d][s][w].dirty = dirty
         ELSE /\ block'[d][s][w].valid = block[d][s][w].valid
              /\ block'[d][s][w].line = block[d][s][w].line
              /\ block'[d][s][w].dirty = block[d][s][w].dirty

\* fill_cache does that.
LEMMA FillEffect ==
    ASSUME BlocksTyped, NEW c \in CacheName, NEW l \in Line, NEW dirty \in BOOLEAN,
           block' = [block EXCEPT ![c][SetOf[c][l]] = fill_cache(c, l, dirty)]
    PROVE  Filled(c, l, dirty)
  <1> DEFINE i == SetOf[c][l]
             way == lru_victim(c, l)
             set == block[c][i]
             new == fill_cache(c, l, dirty)
             mid == Promote(set, way)
  <1>1. i \in SetIndex /\ way \in Way(c) /\ set \in Sets(c)
    BY Sizes, VictimIn DEF BlocksTyped
  <1>2. mid \in Sets(c) /\ SameLines(c, set, mid)
    <2> HIDE DEF set, way
    <2> QED
      BY <1>1, PromoteKeeps
  <1>3. new = [mid EXCEPT ![way].valid = TRUE, ![way].line = l, ![way].dirty = dirty]
    BY DEF fill_cache, lru_update, ThisSet
  <1> HIDE DEF way, mid, new, i
  <1>4. /\ new \in [Way(c) -> Block]
        /\ \A w \in Way(c) : new[w].lru = mid[w].lru
        /\ \A w \in Way(c) : w # way => new[w] = mid[w]
        /\ new[way].valid /\ new[way].line = l /\ new[way].dirty = dirty
    <2>1. mid \in [Way(c) -> Block]
      BY <1>2 DEF Sets
    <2> QED
      BY <1>1, <1>3, <2>1 DEF Block
  <1>5. new \in Sets(c)
    <2>1. {new[w].lru : w \in Way(c)} = {mid[w].lru : w \in Way(c)}
      BY <1>4
    <2> QED
      BY <1>2, <1>4, <2>1 DEF Sets
  <1>6. /\ DOMAIN block = CacheName
        /\ \A d \in CacheName : block[d] \in [SetIndex -> Sets(d)]
    BY DEF BlocksTyped
  <1>7. block' = [block EXCEPT ![c][i] = new]
    BY DEF new, i
  <1>8. /\ DOMAIN block' = CacheName
        /\ \A d \in CacheName : block'[d] = IF d = c THEN [block[c] EXCEPT ![i] = new] ELSE block[d]
    BY <1>6, <1>7
  <1>9. \A d \in CacheName : block'[d] \in [SetIndex -> Sets(d)]
    <2> TAKE d \in CacheName
    <2>1. CASE d = c
      <3>1. block[c] \in [SetIndex -> Sets(c)]
        BY <1>6
      <3> QED
        BY <1>1, <1>5, <1>8, <2>1, <3>1
    <2>2. CASE d # c
      BY <1>6, <1>8, <2>2
    <2> QED
      BY <2>1, <2>2
  <1>10. \A d \in CacheName, s \in SetIndex :
           block'[d][s] = IF d = c /\ s = i THEN new ELSE block[d][s]
    BY <1>6, <1>8
  <1>11. ASSUME NEW d \in CacheName, NEW s \in SetIndex, NEW w \in Way(d)
         PROVE  IF d = c /\ s = i /\ w = way
                THEN /\ block'[d][s][w].valid /\ block'[d][s][w].line = l
                     /\ block'[d][s][w].dirty = dirty
                ELSE /\ block'[d][s][w].valid = block[d][s][w].valid
                     /\ block'[d][s][w].line = block[d][s][w].line
                     /\ block'[d][s][w].dirty = block[d][s][w].dirty
    <2>1. CASE d = c /\ s = i
      BY <1>2, <1>4, <1>10, <2>1 DEF SameLines
    <2>2. CASE ~(d = c /\ s = i)
      BY <1>10, <2>2
    <2> QED
      BY <2>1, <2>2
  <1> QED
    BY <1>8, <1>9, <1>11 DEF Filled, BlocksTyped, way, i

\* A hit reorders one set, and a write-back that hits makes the line dirty.
Touched(c, l, dirty) ==
    /\ BlocksTyped'
    /\ \A d \in CacheName, s \in SetIndex : \A w \in Way(d) :
         /\ block'[d][s][w].valid = block[d][s][w].valid
         /\ block'[d][s][w].line = block[d][s][w].line
         /\ IF dirty /\ d = c /\ s = SetOf[c][l] /\ w = check_hit(c, l)
            THEN block'[d][s][w].dirty
            ELSE block'[d][s][w].dirty = block[d][s][w].dirty

\* No update of the replacement state moves a line or cleans it.
LEMMA UpdateKeeps ==
    ASSUME NEW c \in CacheName, NEW set \in Sets(c), NEW way \in Way(c), NEW type
    PROVE  /\ update_replacement_state(set, way, type) \in Sets(c)
           /\ SameLines(c, set, update_replacement_state(set, way, type))
  BY PromoteKeeps DEF update_replacement_state, lru_update, SameLines

\* A read or a prefetch that hits reorders its set,
LEMMA ReadTouches ==
    ASSUME BlocksTyped, NEW c \in CacheName, NEW l \in Line, Hit(c, l), NEW type,
           block' = [block EXCEPT ![c][SetOf[c][l]] =
                       update_replacement_state(@, check_hit(c, l), type)]
    PROVE  Touched(c, l, FALSE)
  <1> DEFINE i == SetOf[c][l]
             way == check_hit(c, l)
             set == block[c][i]
             new == update_replacement_state(set, way, type)
  <1>1. i \in SetIndex /\ way \in Way(c) /\ set \in Sets(c)
    BY Sizes, CheckHit DEF BlocksTyped
  <1>2. new \in Sets(c) /\ SameLines(c, set, new)
    BY <1>1, UpdateKeeps
  <1>3. /\ DOMAIN block = CacheName
        /\ \A d \in CacheName : block[d] \in [SetIndex -> Sets(d)]
    BY DEF BlocksTyped
  <1>4. block' = [block EXCEPT ![c][i] = new]
    OBVIOUS
  <1> HIDE DEF new, i, way
  <1>5. /\ DOMAIN block' = CacheName
        /\ \A d \in CacheName : block'[d] = IF d = c THEN [block[c] EXCEPT ![i] = new] ELSE block[d]
    BY <1>3, <1>4
  <1>6. \A d \in CacheName : block'[d] \in [SetIndex -> Sets(d)]
    <2> TAKE d \in CacheName
    <2>1. block[c] \in [SetIndex -> Sets(c)]
      BY <1>3
    <2> QED
      BY <1>1, <1>2, <1>3, <1>5, <2>1
  <1>7. \A d \in CacheName, s \in SetIndex :
           block'[d][s] = IF d = c /\ s = i THEN new ELSE block[d][s]
    <2> TAKE d \in CacheName, s \in SetIndex
    <2>1. DOMAIN block[c] = SetIndex
      BY <1>3
    <2>2. CASE d = c
      <3>1. block'[d] = [block[c] EXCEPT ![i] = new]
        BY <1>5, <2>2
      <3> QED
        BY <2>1, <2>2, <3>1
    <2>3. CASE d # c
      <3>1. block'[d] = block[d]
        BY <1>5, <2>3
      <3> QED
        BY <2>3, <3>1
    <2> QED
      BY <2>2, <2>3
  <1> QED
    BY <1>2, <1>5, <1>6, <1>7 DEF Touched, BlocksTyped, SameLines

\* and a write-back that hits makes its line dirty as well.
LEMMA WritebackTouches ==
    ASSUME BlocksTyped, NEW c \in CacheName, NEW l \in Line, Hit(c, l), NEW type,
           block' = [block EXCEPT ![c][SetOf[c][l]] =
                       [update_replacement_state(@, check_hit(c, l), type)
                          EXCEPT ![check_hit(c, l)].dirty = TRUE]]
    PROVE  Touched(c, l, TRUE)
  <1> DEFINE i == SetOf[c][l]
             way == check_hit(c, l)
             set == block[c][i]
             mid == update_replacement_state(set, way, type)
             new == [mid EXCEPT ![way].dirty = TRUE]
  <1>1. i \in SetIndex /\ way \in Way(c) /\ set \in Sets(c)
    BY Sizes, CheckHit DEF BlocksTyped
  <1>2. mid \in Sets(c) /\ SameLines(c, set, mid)
    BY <1>1, UpdateKeeps
  <1>3. /\ DOMAIN block = CacheName
        /\ \A d \in CacheName : block[d] \in [SetIndex -> Sets(d)]
    BY DEF BlocksTyped
  <1>4. block' = [block EXCEPT ![c][i] = new]
    OBVIOUS
  <1> HIDE DEF mid, i, way
  <1>8. /\ new \in [Way(c) -> Block]
        /\ \A w \in Way(c) :
             /\ new[w].lru = mid[w].lru /\ new[w].valid = mid[w].valid /\ new[w].line = mid[w].line
             /\ IF w = way THEN new[w].dirty ELSE new[w].dirty = mid[w].dirty
    <2>1. mid \in [Way(c) -> Block]
      BY <1>2 DEF Sets
    <2> QED
      BY <1>1, <2>1 DEF Block
  <1> HIDE DEF new
  <1>9. new \in Sets(c)
    <2>1. {new[w].lru : w \in Way(c)} = {mid[w].lru : w \in Way(c)}
      BY <1>8
    <2> QED
      BY <1>2, <1>8, <2>1 DEF Sets
  <1>5. /\ DOMAIN block' = CacheName
        /\ \A d \in CacheName : block'[d] = IF d = c THEN [block[c] EXCEPT ![i] = new] ELSE block[d]
    BY <1>3, <1>4
  <1>6. \A d \in CacheName : block'[d] \in [SetIndex -> Sets(d)]
    <2> TAKE d \in CacheName
    <2>1. block[c] \in [SetIndex -> Sets(c)]
      BY <1>3
    <2> QED
      BY <1>1, <1>9, <1>3, <1>5, <2>1
  <1>7. \A d \in CacheName, s \in SetIndex :
           block'[d][s] = IF d = c /\ s = i THEN new ELSE block[d][s]
    <2> TAKE d \in CacheName, s \in SetIndex
    <2>1. DOMAIN block[c] = SetIndex
      BY <1>3
    <2>2. CASE d = c
      <3>1. block'[d] = [block[c] EXCEPT ![i] = new]
        BY <1>5, <2>2
      <3> QED
        BY <2>1, <2>2, <3>1
    <2>3. CASE d # c
      <3>1. block'[d] = block[d]
        BY <1>5, <2>3
      <3> QED
        BY <2>3, <3>1
    <2> QED
      BY <2>2, <2>3
  <1>10. ASSUME NEW d \in CacheName, NEW s \in SetIndex, NEW w \in Way(d)
         PROVE  /\ block'[d][s][w].valid = block[d][s][w].valid
                /\ block'[d][s][w].line = block[d][s][w].line
                /\ IF d = c /\ s = i /\ w = way THEN block'[d][s][w].dirty
                   ELSE block'[d][s][w].dirty = block[d][s][w].dirty
    <2>1. CASE d = c /\ s = i
      <3>1. block'[d][s] = new /\ block[d][s] = set /\ w \in Way(c)
        BY <1>7, <2>1
      <3>2. mid[w].valid = set[w].valid /\ mid[w].line = set[w].line /\ mid[w].dirty = set[w].dirty
        BY <1>2, <3>1 DEF SameLines
      <3> HIDE DEF set
      <3> QED
        BY <1>8, <2>1, <3>1, <3>2
    <2>2. CASE ~(d = c /\ s = i)
      BY <1>7, <2>2
    <2> QED
      BY <2>1, <2>2
  <1>11. BlocksTyped'
    BY <1>5, <1>6 DEF BlocksTyped
  <1> QED
    BY <1>10, <1>11 DEF Touched, i, way

-----------------------------------------------------------------------------
(* Queues.                                                                 *)

\* The head and the rest make up a queue; if it holds each line once the
\* rest lacks the line of the head.
LEMMA TailOf ==
    ASSUME NEW q \in Seq(Packet), q # <<>>
    PROVE  /\ Head(q) \in Packet /\ Head(q) \in Range(q)
           /\ Tail(q) \in Seq(Packet) /\ Len(Tail(q)) <= Len(q)
           /\ Range(q) = Range(Tail(q)) \cup {Head(q)}
           /\ NoRepeats(q) => /\ NoRepeats(Tail(q))
                              /\ \A x \in Range(Tail(q)) : LineIn(x) # LineIn(Head(q))
  <1> DEFINE n == Len(q)
             t == Tail(q)
             h == Head(q)
  <1>1. n \in Nat /\ n > 0 /\ DOMAIN q = 1..n /\ h = q[1] /\ h \in Packet
    BY LenProperties, HeadTailProperties
  <1>2. /\ t \in Seq(Packet) /\ DOMAIN t = 1..(n - 1) /\ Len(t) = n - 1
        /\ \A i \in 1..(n - 1) : t[i] = q[i + 1]
    BY HeadTailProperties, LenProperties
  <1> HIDE DEF n, t, h
  <1>3. h \in Range(q)
    BY <1>1 DEF Range
  <1>4. Range(q) = Range(t) \cup {h}
    <2>1. ASSUME NEW y \in Range(t) PROVE y \in Range(q)
      <3>1. PICK i \in 1..(n - 1) : y = q[i + 1]
        BY <1>2 DEF Range
      <3>2. i + 1 \in 1..n
        BY <1>1
      <3> QED
        BY <3>1, <3>2, <1>1 DEF Range
    <2>2. ASSUME NEW y \in Range(q), y # h PROVE y \in Range(t)
      <3>1. PICK i \in 1..n : y = q[i]
        BY <1>1 DEF Range
      <3>2. i # 1
        BY <1>1, <2>2, <3>1
      <3>3. i - 1 \in 1..(n - 1) /\ t[i - 1] = y
        BY <3>1, <3>2, <1>1, <1>2
      <3> QED
        BY <3>3, <1>2 DEF Range
    <2> QED
      BY <2>1, <2>2, <1>3
  <1>5. ASSUME NoRepeats(q)
        PROVE  NoRepeats(t) /\ \A x \in Range(t) : LineIn(x) # LineIn(h)
    <2>1. NoRepeats(t)
      <3> SUFFICES ASSUME NEW i \in 1..(n - 1), NEW j \in 1..(n - 1), LineIn(t[i]) = LineIn(t[j])
                   PROVE  i = j
        BY <1>2 DEF NoRepeats
      <3>1. i + 1 \in 1..n /\ j + 1 \in 1..n /\ LineIn(q[i + 1]) = LineIn(q[j + 1])
        BY <1>1, <1>2
      <3>2. i + 1 = j + 1
        BY <3>1, <1>1, <1>5 DEF NoRepeats
      <3> QED
        BY <3>2
    <2>2. ASSUME NEW x \in Range(t) PROVE LineIn(x) # LineIn(h)
      <3>1. PICK i \in 1..(n - 1) : x = q[i + 1]
        BY <1>2 DEF Range
      <3>2. i + 1 \in 1..n /\ i + 1 # 1 /\ 1 \in 1..n
        BY <1>1
      <3> QED
        BY <3>1, <3>2, <1>1, <1>5 DEF NoRepeats
    <2> QED
      BY <2>1, <2>2
  <1> QED
    BY <1>1, <1>2, <1>3, <1>4, <1>5 DEF t, h, n

\* Appending adds one packet.
LEMMA AppendOf ==
    ASSUME NEW q \in Seq(Packet), NEW p \in Packet
    PROVE  /\ Append(q, p) \in Seq(Packet) /\ Len(Append(q, p)) = Len(q) + 1 /\ Len(q) \in Nat
           /\ Range(Append(q, p)) = Range(q) \cup {p}
           /\ NoRepeats(q) /\ (\A x \in Range(q) : LineIn(x) # LineIn(p))
                => NoRepeats(Append(q, p))
  <1> DEFINE n == Len(q)
             t == Append(q, p)
  <1>1. n \in Nat /\ DOMAIN q = 1..n
    BY LenProperties
  <1>2. /\ t \in Seq(Packet) /\ DOMAIN t = 1..(n + 1) /\ t[n + 1] = p /\ Len(t) = n + 1
        /\ \A a \in 1..n : t[a] = q[a]
    BY AppendProperties
  <1> HIDE DEF n, t
  <1>3. 1..(n + 1) = 1..n \cup {n + 1}
    BY <1>1
  <1>4. Range(t) = Range(q) \cup {p}
    BY <1>1, <1>2, <1>3 DEF Range
  <1>5. ASSUME NoRepeats(q), \A x \in Range(q) : LineIn(x) # LineIn(p)
        PROVE  NoRepeats(t)
    <2>1. \A a \in 1..n : LineIn(q[a]) # LineIn(p)
      BY <1>1, <1>5 DEF Range
    <2> QED
      BY <1>1, <1>2, <1>3, <1>5, <2>1 DEF NoRepeats
  <1> QED
    BY <1>1, <1>2, <1>4, <1>5 DEF t, n

\* q2 is q after p has joined: merged by f with the packet of its line, or
\* as a new one.
Joined(q, q2, p, f) ==
    /\ q2 \in Seq(Packet) /\ NoRepeats(q2)
    /\ \A y \in Range(q2) :
         \/ y \in Range(q) /\ LineIn(y) # LineIn(p)
         \/ y = p /\ \A x \in Range(q) : LineIn(x) # LineIn(p)
         \/ \E x \in Range(q) : LineIn(x) = LineIn(p) /\ y = f[x]
    /\ \A x \in Range(q) :
         IF LineIn(x) = LineIn(p) THEN f[x] \in Range(q2) ELSE x \in Range(q2)
    /\ (\A x \in Range(q) : LineIn(x) # LineIn(p)) => p \in Range(q2)

\* A packet that is appended joins.
LEMMA AppendJoins ==
    ASSUME NEW q \in Seq(Packet), NEW p \in Packet, NEW f,
           NoRepeats(q), \A x \in Range(q) : LineIn(x) # LineIn(p)
    PROVE  Joined(q, Append(q, p), p, f)
  BY AppendOf DEF Joined

\* So does one that is merged.
LEMMA MergeJoins ==
    ASSUME NEW q \in Seq(Packet), NEW p \in Packet, NEW f \in [Packet -> Packet], NoRepeats(q),
           \A x \in Packet : LineIn(f[x]) = LineIn(x),
           NEW y \in Range(q), LineIn(y) = LineIn(p)
    PROVE  LET q2 == [i \in DOMAIN q |-> IF LineIn(q[i]) = LineIn(p) THEN f[q[i]] ELSE q[i]]
           IN  Joined(q, q2, p, f) /\ Len(q2) = Len(q)
  <1> DEFINE l == LineIn(p)
             q2 == [i \in DOMAIN q |-> IF LineIn(q[i]) = l THEN f[q[i]] ELSE q[i]]
  <1>1. Len(q) \in Nat /\ DOMAIN q = 1..Len(q) /\ \A i \in DOMAIN q : q[i] \in Packet
    BY LenProperties, ElementOfSeq
  <1>2. /\ DOMAIN q2 = DOMAIN q
        /\ \A i \in DOMAIN q : q2[i] = IF LineIn(q[i]) = l THEN f[q[i]] ELSE q[i]
        /\ \A i \in DOMAIN q : q2[i] \in Packet /\ LineIn(q2[i]) = LineIn(q[i])
    BY <1>1
  <1>3. q2 \in Seq(Packet) /\ Len(q2) = Len(q)
    <2>1. q2 \in [1..Len(q) -> Packet]
      BY <1>1, <1>2
    <2> HIDE DEF q2
    <2>2. q2 \in Seq(Packet)
      BY <2>1, <1>1
    <2>3. Len(q2) = Len(q)
      BY <2>1, <2>2, <1>1, LenProperties
    <2> QED
      BY <2>2, <2>3
  <1> HIDE DEF q2, l
  <1>4. NoRepeats(q2)
    BY <1>2 DEF NoRepeats
  <1>5. ASSUME NEW z \in Range(q2)
        PROVE  \/ z \in Range(q) /\ LineIn(z) # l
               \/ \E x \in Range(q) : LineIn(x) = l /\ z = f[x]
    <2>1. PICK i \in DOMAIN q : z = q2[i]
      BY <1>2 DEF Range
    <2>2. q[i] \in Range(q)
      BY DEF Range
    <2> QED
      BY <1>2, <2>1, <2>2
  <1>6. \A x \in Range(q) : IF LineIn(x) = l THEN f[x] \in Range(q2) ELSE x \in Range(q2)
    BY <1>2 DEF Range
  <1>7. Joined(q, q2, p, f)
    BY <1>3, <1>4, <1>5, <1>6 DEF Joined, l
  <1> QED
    BY <1>3, <1>7 DEF q2, l

\* What a merge makes of a packet.
WithFlags(p) == [x \in Packet |-> MergeFlags(x, p)]
WithLevel(p) == [x \in Packet |-> MergeLevel(x, p)]

\* What MergeFlags and MergeLevel make of a packet: the requesters and the
\* flags of both are kept,
LEMMA FlagsMerged ==
    ASSUME NEW x \in Packet, NEW p \in Packet
    PROVE  LET y == MergeFlags(x, p)
           IN  /\ y \in Packet /\ y.addr = x.addr /\ y.type = x.type
               /\ y.fill_level = x.fill_level /\ y.who = x.who \cup p.who
               /\ y.fill_l1i = (x.fill_l1i \/ p.fill_l1i) /\ y.fill_l1d = (x.fill_l1d \/ p.fill_l1d)
  BY DEF MergeFlags, Packet

\* and the lower of the two fill levels.
LEMMA LevelsMerged ==
    ASSUME NEW x \in Packet, NEW p \in Packet
    PROVE  LET y == MergeLevel(x, p)
           IN  /\ y \in Packet /\ y.addr = x.addr /\ y.type = x.type
               /\ y.fill_level = (IF p.fill_level < x.fill_level THEN p.fill_level ELSE x.fill_level)
               /\ y.who = x.who \cup p.who
               /\ y.fill_l1i = (x.fill_l1i \/ p.fill_l1i) /\ y.fill_l1d = (x.fill_l1d \/ p.fill_l1d)
  <1> DEFINE z == MergeFlags(x, p)
             n == IF p.fill_level < x.fill_level THEN p.fill_level ELSE x.fill_level
  <1>1. /\ z \in Packet /\ z.addr = x.addr /\ z.type = x.type
        /\ z.fill_level = x.fill_level /\ z.who = x.who \cup p.who
        /\ z.fill_l1i = (x.fill_l1i \/ p.fill_l1i) /\ z.fill_l1d = (x.fill_l1d \/ p.fill_l1d)
    BY FlagsMerged
  <1>2. n \in {FILL_L1, FILL_L2, FILL_LLC}
    BY DEF Packet
  <1>3. MergeLevel(x, p) = [z EXCEPT !.fill_level = n]
    BY <1>1 DEF MergeLevel
  <1> HIDE DEF z, n
  <1>4. LET y == [z EXCEPT !.fill_level = n]
        IN  /\ y \in Packet /\ y.addr = z.addr /\ y.type = z.type /\ y.fill_level = n
            /\ y.who = z.who /\ y.fill_l1i = z.fill_l1i /\ y.fill_l1d = z.fill_l1d
    BY <1>1, <1>2 DEF Packet
  <1> QED
    BY <1>1, <1>3, <1>4 DEF n

\* And of a miss, which keeps the answer that may have come.
LEMMA MissMerged ==
    ASSUME NEW x \in Miss, NEW p \in Packet
    PROVE  LET y == MergeLevel(x, p)
           IN  /\ y \in Miss /\ y.addr = x.addr /\ y.type = x.type
               /\ y.fill_level = (IF p.fill_level < x.fill_level THEN p.fill_level ELSE x.fill_level)
               /\ y.who = x.who \cup p.who /\ y.returned = x.returned
               /\ y.fill_l1i = (x.fill_l1i \/ p.fill_l1i) /\ y.fill_l1d = (x.fill_l1d \/ p.fill_l1d)
  <1> DEFINE z == MergeFlags(x, p)
             n == IF p.fill_level < x.fill_level THEN p.fill_level ELSE x.fill_level
  <1>1. /\ z \in Miss /\ z.addr = x.addr /\ z.type = x.type /\ z.returned = x.returned
        /\ z.fill_level = x.fill_level /\ z.who = x.who \cup p.who
        /\ z.fill_l1i = (x.fill_l1i \/ p.fill_l1i) /\ z.fill_l1d = (x.fill_l1d \/ p.fill_l1d)
    BY DEF MergeFlags, Packet, Miss
  <1>2. n \in {FILL_L1, FILL_L2, FILL_LLC}
    BY DEF Packet, Miss
  <1>3. MergeLevel(x, p) = [z EXCEPT !.fill_level = n]
    BY <1>1 DEF MergeLevel
  <1> HIDE DEF z, n
  <1>4. LET y == [z EXCEPT !.fill_level = n]
        IN  /\ y \in Miss /\ y.addr = z.addr /\ y.type = z.type /\ y.fill_level = n
            /\ y.who = z.who /\ y.fill_l1i = z.fill_l1i /\ y.fill_l1d = z.fill_l1d
            /\ y.returned = z.returned
    BY <1>1, <1>2 DEF Miss
  <1> QED
    BY <1>1, <1>3, <1>4 DEF n

\* What a merge does to a packet it keeps in its line.
LEMMA MergesKeepLine ==
    ASSUME NEW p \in Packet
    PROVE  /\ WithFlags(p) \in [Packet -> Packet] /\ WithLevel(p) \in [Packet -> Packet]
           /\ \A x \in Packet : /\ LineIn(WithFlags(p)[x]) = LineIn(x)
                                /\ LineIn(WithLevel(p)[x]) = LineIn(x)
                                /\ WithFlags(p)[x] = MergeFlags(x, p)
                                /\ WithLevel(p)[x] = MergeLevel(x, p)
  BY FlagsMerged, LevelsMerged DEF WithFlags, WithLevel, LineIn

\* add_rq lets a request join the queue unless it is answered from the write
\* queue or there is no room.
LEMMA AddRq ==
    ASSUME NEW c \in CacheName, NEW p \in Packet,
           RQ[c] \in Seq(Packet), NoRepeats(RQ[c]), Len(RQ[c]) <= RQ_SIZE[c]
    PROVE  /\ Len(add_rq(c, p)) <= RQ_SIZE[c]
           /\ \/ add_rq(c, p) = RQ[c]
              \/ ~Forwards(c, p) /\ Joined(RQ[c], add_rq(c, p), p, WithFlags(p))
           /\ Forwards(c, p) => add_rq(c, p) = RQ[c]
           /\ ~Forwards(c, p) /\ (InQueue(RQ[c], p) \/ Room(c, RQ, RQ_SIZE))
                => Joined(RQ[c], add_rq(c, p), p, WithFlags(p))
  <1> DEFINE q == RQ[c]
             merged == [i \in DOMAIN q |-> IF LineIn(q[i]) = LineIn(p)
                                           THEN MergeFlags(q[i], p) ELSE q[i]]
  <1>1. RQ_SIZE[c] \in Nat
    BY Sizes
  <1>2. CASE Forwards(c, p)
    BY <1>2 DEF add_rq
  <1>3. CASE ~Forwards(c, p) /\ InQueue(q, p)
    <2>1. PICK y \in Range(q) : LineIn(y) = LineIn(p)
      BY <1>3 DEF InQueue
    <2> DEFINE f == WithFlags(p)
    <2>2. /\ f \in [Packet -> Packet]
          /\ \A x \in Packet : LineIn(f[x]) = LineIn(x) /\ f[x] = MergeFlags(x, p)
      BY MergesKeepLine
    <2> HIDE DEF f
    <2>6. \A i \in DOMAIN q : q[i] \in Packet
      BY ElementOfSeq, LenProperties
    <2>7. \A i \in DOMAIN q : f[q[i]] = MergeFlags(q[i], p)
      BY <2>2, <2>6
    <2>3. [i \in DOMAIN q |-> IF LineIn(q[i]) = LineIn(p) THEN f[q[i]] ELSE q[i]] = merged
      BY <2>7
    <2> DEFINE q2 == [i \in DOMAIN q |-> IF LineIn(q[i]) = LineIn(p) THEN f[q[i]] ELSE q[i]]
    <2>8. Joined(q, q2, p, f) /\ Len(q2) = Len(q)
      <3> HIDE DEF q
      <3>1. q \in Seq(Packet) /\ NoRepeats(q)
        BY DEF q
      <3> QED
        BY <2>1, <2>2, <3>1, MergeJoins
    <2>4. Joined(q, merged, p, WithFlags(p)) /\ Len(merged) = Len(q)
      BY <2>3, <2>8 DEF f
    <2>5. add_rq(c, p) = merged
      BY <1>3 DEF add_rq
    <2> QED
      BY <1>3, <2>4, <2>5
  <1>4. CASE ~Forwards(c, p) /\ ~InQueue(q, p) /\ Room(c, RQ, RQ_SIZE)
    <2>1. add_rq(c, p) = Append(q, p)
      BY <1>4 DEF add_rq
    <2>2. \A x \in Range(q) : LineIn(x) # LineIn(p)
      BY <1>4 DEF InQueue
    <2>3. Joined(q, Append(q, p), p, WithFlags(p))
      BY <2>2, AppendJoins
    <2>4. Len(Append(q, p)) = Len(q) + 1 /\ Len(q) \in Nat /\ Len(q) < RQ_SIZE[c]
      BY <1>4, AppendOf DEF Room
    <2>5. Len(Append(q, p)) <= RQ_SIZE[c]
      BY <2>4, <1>1
    <2> QED
      BY <1>4, <2>1, <2>3, <2>5
  <1>5. CASE ~Forwards(c, p) /\ ~InQueue(q, p) /\ ~Room(c, RQ, RQ_SIZE)
    BY <1>5 DEF add_rq
  <1> QED
    BY <1>2, <1>3, <1>4, <1>5

\* add_pq does the same with prefetches.
LEMMA AddPq ==
    ASSUME NEW c \in CacheName, NEW p \in Packet,
           PQ[c] \in Seq(Packet), NoRepeats(PQ[c]), Len(PQ[c]) <= PQ_SIZE[c]
    PROVE  /\ Len(add_pq(c, p)) <= PQ_SIZE[c]
           /\ \/ add_pq(c, p) = PQ[c]
              \/ ~Forwards(c, p) /\ Joined(PQ[c], add_pq(c, p), p, WithLevel(p))
           /\ Forwards(c, p) => add_pq(c, p) = PQ[c]
           /\ ~Forwards(c, p) /\ (InQueue(PQ[c], p) \/ Room(c, PQ, PQ_SIZE))
                => Joined(PQ[c], add_pq(c, p), p, WithLevel(p))
  <1> DEFINE q == PQ[c]
             merged == [i \in DOMAIN q |-> IF LineIn(q[i]) = LineIn(p)
                                           THEN MergeLevel(q[i], p) ELSE q[i]]
  <1>1. PQ_SIZE[c] \in Nat
    BY Sizes
  <1>2. CASE Forwards(c, p)
    BY <1>2 DEF add_pq
  <1>3. CASE ~Forwards(c, p) /\ InQueue(q, p)
    <2>1. PICK y \in Range(q) : LineIn(y) = LineIn(p)
      BY <1>3 DEF InQueue
    <2> DEFINE f == WithLevel(p)
    <2>2. /\ f \in [Packet -> Packet]
          /\ \A x \in Packet : LineIn(f[x]) = LineIn(x) /\ f[x] = MergeLevel(x, p)
      BY MergesKeepLine
    <2> HIDE DEF f
    <2>6. \A i \in DOMAIN q : q[i] \in Packet
      BY ElementOfSeq, LenProperties
    <2>7. \A i \in DOMAIN q : f[q[i]] = MergeLevel(q[i], p)
      BY <2>2, <2>6
    <2>3. [i \in DOMAIN q |-> IF LineIn(q[i]) = LineIn(p) THEN f[q[i]] ELSE q[i]] = merged
      BY <2>7
    <2> DEFINE q2 == [i \in DOMAIN q |-> IF LineIn(q[i]) = LineIn(p) THEN f[q[i]] ELSE q[i]]
    <2>8. Joined(q, q2, p, f) /\ Len(q2) = Len(q)
      <3> HIDE DEF q
      <3>1. q \in Seq(Packet) /\ NoRepeats(q)
        BY DEF q
      <3> QED
        BY <2>1, <2>2, <3>1, MergeJoins
    <2>4. Joined(q, merged, p, WithLevel(p)) /\ Len(merged) = Len(q)
      BY <2>3, <2>8 DEF f
    <2>5. add_pq(c, p) = merged
      BY <1>3 DEF add_pq
    <2> QED
      BY <1>3, <2>4, <2>5
  <1>4. CASE ~Forwards(c, p) /\ ~InQueue(q, p) /\ Room(c, PQ, PQ_SIZE)
    <2>1. add_pq(c, p) = Append(q, p)
      BY <1>4 DEF add_pq
    <2>2. \A x \in Range(q) : LineIn(x) # LineIn(p)
      BY <1>4 DEF InQueue
    <2>3. Joined(q, Append(q, p), p, WithLevel(p))
      BY <2>2, AppendJoins
    <2>4. Len(Append(q, p)) = Len(q) + 1 /\ Len(q) \in Nat /\ Len(q) < PQ_SIZE[c]
      BY <1>4, AppendOf DEF Room
    <2>5. Len(Append(q, p)) <= PQ_SIZE[c]
      BY <2>4, <1>1
    <2> QED
      BY <1>4, <2>1, <2>3, <2>5
  <1>5. CASE ~Forwards(c, p) /\ ~InQueue(q, p) /\ ~Room(c, PQ, PQ_SIZE)
    BY <1>5 DEF add_pq
  <1> QED
    BY <1>2, <1>3, <1>4, <1>5

\* add_wq appends what the queue does not hold yet.
LEMMA AddWq ==
    ASSUME NEW c \in CacheName, NEW p \in Packet,
           WQ[c] \in Seq(Packet), Len(WQ[c]) <= WQ_SIZE[c], Room(c, WQ, WQ_SIZE)
    PROVE  /\ add_wq(c, p) \in Seq(Packet) /\ Len(add_wq(c, p)) <= WQ_SIZE[c]
           /\ Range(WQ[c]) \subseteq Range(add_wq(c, p))
           /\ Range(add_wq(c, p)) \subseteq Range(WQ[c]) \cup {p}
           /\ \E q \in Range(add_wq(c, p)) : SamePlace(c, p, q)
  <1>1. WQ_SIZE[c] \in Nat /\ Len(WQ[c]) \in Nat /\ Len(WQ[c]) < WQ_SIZE[c]
    BY Sizes, LenProperties DEF Room
  <1>2. CASE Forwards(c, p)
    BY <1>2 DEF add_wq, Forwards
  <1>3. CASE ~Forwards(c, p)
    <2>1. add_wq(c, p) = Append(WQ[c], p)
      BY <1>3 DEF add_wq
    <2>2. SamePlace(c, p, p)
      BY DEF SamePlace
    <2> QED
      BY <1>1, <2>1, <2>2, AppendOf
  <1> QED
    BY <1>2, <1>3

-----------------------------------------------------------------------------
(* The tables of misses.                                                   *)

Answered(x) == [x EXCEPT !.returned = TRUE]

\* An answered miss differs in being answered alone.
LEMMA AnsweredMiss ==
    ASSUME NEW x \in Miss
    PROVE  /\ Answered(x) \in Miss /\ Answered(x).addr = x.addr /\ Answered(x).type = x.type
           /\ Answered(x).fill_level = x.fill_level /\ Answered(x).who = x.who
           /\ Answered(x).fill_l1i = x.fill_l1i /\ Answered(x).fill_l1d = x.fill_l1d
           /\ Answered(x).returned
  BY DEF Answered, Miss

\* return_data marks the one miss it is for.
LEMMA ReturnData ==
    ASSUME NEW m \in Table, NEW c \in CacheName, NEW l \in Line
    PROVE  /\ return_data(m, c, l) \in Table
           /\ \A d \in CacheName, k \in Line :
                return_data(m, c, l)[d][k] = IF d = c /\ k = l /\ m[d][k] # NONE
                                             THEN Answered(m[d][k]) ELSE m[d][k]
  <1>1. CASE m[c][l] = NONE
    BY <1>1 DEF return_data
  <1>2. CASE m[c][l] # NONE
    <2>1. m \in [CacheName -> [Line -> Miss \cup {NONE}]]
      BY DEF Table
    <2>2. Answered(m[c][l]) \in Miss
      BY <1>2, <2>1, AnsweredMiss
    <2>3. return_data(m, c, l) = [m EXCEPT ![c] = [m[c] EXCEPT ![l] = Answered(m[c][l])]]
      BY <1>2 DEF return_data, Answered
    <2> DEFINE a == Answered(m[c][l])
               r == [m EXCEPT ![c] = [m[c] EXCEPT ![l] = a]]
    <2> HIDE DEF a
    <2>4. a \in Miss \cup {NONE}
      BY <2>2 DEF a
    <2>5. r \in [CacheName -> [Line -> Miss \cup {NONE}]]
      BY <2>1, <2>4
    <2>6. \A d \in CacheName, k \in Line : r[d][k] = IF d = c /\ k = l THEN a ELSE m[d][k]
      BY <2>1
    <2> QED
      BY <1>2, <2>3, <2>5, <2>6 DEF Table, a
  <1> QED
    BY <1>1, <1>2

\* c answers the miss of l in d when it passes p on.
Answers(c, p, d, l) ==
    c = L2C /\ p.fill_level = FILL_L1 /\ d \in L1 /\ FlagFor(p, d) /\ l = LineIn(p)

\* Deliver answers the misses above that the packet's flags name.
LEMMA DeliverEffect ==
    ASSUME NEW m \in Table, NEW c \in CacheName, NEW p \in Packet \cup Miss
    PROVE  /\ Deliver(m, c, p) \in Table
           /\ \A d \in CacheName, l \in Line :
                Deliver(m, c, p)[d][l] = IF Answers(c, p, d, l) /\ m[d][l] # NONE
                                         THEN Answered(m[d][l]) ELSE m[d][l]
  <1> DEFINE k == LineIn(p)
             m1 == IF p.fill_l1i THEN return_data(m, L1I, k) ELSE m
             m2 == IF p.fill_l1d THEN return_data(m1, L1D, k) ELSE m1
  <1>1. k \in Line
    BY PacketLine
  <1>2. p.fill_level \in {1, 2, 4}
    BY DEF Packet, Miss, FILL_L1, FILL_L2, FILL_LLC
  <1>3. c = L2C => (p.fill_level < fill_level[c] <=> p.fill_level = FILL_L1)
    BY <1>2, Names DEF FILL_L1
  <1>4. Deliver(m, c, p) = IF c # L2C \/ p.fill_level >= fill_level[c] THEN m ELSE m2
    BY DEF Deliver
  <1>5. CASE c # L2C \/ p.fill_level # FILL_L1
    <2>1. Deliver(m, c, p) = m
      BY <1>2, <1>3, <1>4, <1>5, Names
    <2> QED
      BY <1>5, <2>1 DEF Answers
  <1>6. CASE c = L2C /\ p.fill_level = FILL_L1
    <2>1. Deliver(m, c, p) = m2
      BY <1>2, <1>3, <1>4, <1>6, Names
    <2>2. /\ m1 \in Table
          /\ \A d \in CacheName, l \in Line :
               m1[d][l] = IF d = L1I /\ l = k /\ m[d][l] # NONE /\ p.fill_l1i
                          THEN Answered(m[d][l]) ELSE m[d][l]
      <3>1. CASE p.fill_l1i
        BY <1>1, <3>1, Names, ReturnData
      <3>2. CASE ~p.fill_l1i
        BY <3>2
      <3> QED
        BY <3>1, <3>2
    <2> HIDE DEF m1, k
    <2>3. /\ m2 \in Table
          /\ \A d \in CacheName, l \in Line :
               m2[d][l] = IF d = L1D /\ l = k /\ m1[d][l] # NONE /\ p.fill_l1d
                          THEN Answered(m1[d][l]) ELSE m1[d][l]
      <3>1. CASE p.fill_l1d
        <4>1. m2 = return_data(m1, L1D, k) /\ m1 \in Table /\ L1D \in CacheName /\ k \in Line
          BY <1>1, <2>2, <3>1, Names
        <4> HIDE DEF m2
        <4>2. /\ m2 \in Table
              /\ \A d \in CacheName, l \in Line :
                   m2[d][l] = IF d = L1D /\ l = k /\ m1[d][l] # NONE THEN Answered(m1[d][l])
                              ELSE m1[d][l]
          BY <4>1, ReturnData
        <4> QED
          BY <3>1, <4>2
      <3>2. CASE ~p.fill_l1d
        BY <2>2, <3>2
      <3> QED
        BY <3>1, <3>2
    <2> HIDE DEF m2
    <2>4. ASSUME NEW d \in CacheName, NEW l \in Line
          PROVE  m2[d][l] = IF Answers(c, p, d, l) /\ m[d][l] # NONE
                            THEN Answered(m[d][l]) ELSE m[d][l]
      <3>1. CASE d = L1I
        BY <1>6, <2>2, <2>3, <3>1, Names DEF Answers, FlagFor, k
      <3>2. CASE d = L1D
        BY <1>6, <2>2, <2>3, <3>2, Names DEF Answers, FlagFor, k
      <3>3. CASE d = L2C
        BY <1>6, <2>2, <2>3, <3>3, Names DEF Answers, FlagFor, k
      <3> QED
        BY <3>1, <3>2, <3>3, Names
    <2> QED
      BY <2>1, <2>3, <2>4
  <1> QED
    BY <1>5, <1>6

-----------------------------------------------------------------------------
(* What the queues and the tables hold is kept by each of their operations. *)

\* The head of a read queue is a read, and the rest is a read queue.
LEMMA ReadPop ==
    ASSUME NEW c \in CacheName, NEW q, ReadQ(c, q), q # <<>>
    PROVE  /\ Head(q) \in Packet /\ ReadIn(c, Head(q)) /\ ReadQ(c, Tail(q))
           /\ Head(q) \in Range(q) /\ Range(q) = Range(Tail(q)) \cup {Head(q)}
           /\ \A x \in Range(Tail(q)) : LineIn(x) # LineIn(Head(q))
  <1>1. /\ q \in Seq(Packet) /\ Len(q) <= RQ_SIZE[c] /\ NoRepeats(q)
        /\ \A p \in Range(q) : ReadIn(c, p)
    BY DEF ReadQ
  <1>2. /\ Head(q) \in Packet /\ Head(q) \in Range(q)
        /\ Tail(q) \in Seq(Packet) /\ Len(Tail(q)) <= Len(q)
        /\ Range(q) = Range(Tail(q)) \cup {Head(q)}
        /\ NoRepeats(Tail(q)) /\ \A x \in Range(Tail(q)) : LineIn(x) # LineIn(Head(q))
    BY <1>1, TailOf
  <1>3. Len(Tail(q)) <= RQ_SIZE[c]
    <2> DEFINE a == Len(Tail(q))
               b == Len(q)
               n == RQ_SIZE[c]
    <2>1. a \in Nat /\ b \in Nat /\ n \in Nat /\ a <= b /\ b <= n
      BY <1>1, <1>2, Sizes, LenProperties
    <2> HIDE DEF a, b, n
    <2>2. a <= n
      BY <2>1
    <2> QED
      BY <2>2 DEF a, n
  <1> QED
    BY <1>1, <1>2, <1>3 DEF ReadQ

\* So it is with prefetches,
LEMMA PrefetchPop ==
    ASSUME NEW c \in CacheName, NEW q, PrefetchQ(c, q), q # <<>>
    PROVE  /\ Head(q) \in Packet /\ PrefetchIn(c, Head(q)) /\ PrefetchQ(c, Tail(q))
           /\ Head(q) \in Range(q) /\ Range(q) = Range(Tail(q)) \cup {Head(q)}
           /\ \A x \in Range(Tail(q)) : LineIn(x) # LineIn(Head(q))
  <1>1. /\ q \in Seq(Packet) /\ Len(q) <= PQ_SIZE[c] /\ NoRepeats(q)
        /\ \A p \in Range(q) : PrefetchIn(c, p)
    BY DEF PrefetchQ
  <1>2. /\ Head(q) \in Packet /\ Head(q) \in Range(q)
        /\ Tail(q) \in Seq(Packet) /\ Len(Tail(q)) <= Len(q)
        /\ Range(q) = Range(Tail(q)) \cup {Head(q)}
        /\ NoRepeats(Tail(q)) /\ \A x \in Range(Tail(q)) : LineIn(x) # LineIn(Head(q))
    BY <1>1, TailOf
  <1>3. Len(Tail(q)) <= PQ_SIZE[c]
    <2> DEFINE a == Len(Tail(q))
               b == Len(q)
               n == PQ_SIZE[c]
    <2>1. a \in Nat /\ b \in Nat /\ n \in Nat /\ a <= b /\ b <= n
      BY <1>1, <1>2, Sizes, LenProperties
    <2> HIDE DEF a, b, n
    <2>2. a <= n
      BY <2>1
    <2> QED
      BY <2>2 DEF a, n
  <1> QED
    BY <1>1, <1>2, <1>3 DEF PrefetchQ

\* and with stores and write-backs.
LEMMA WritePop ==
    ASSUME NEW c \in CacheName, NEW q, WriteQ(c, q), q # <<>>
    PROVE  /\ Head(q) \in Packet /\ WriteQ(c, Tail(q)) /\ c # L1I
           /\ c = L1D => StoreIn(Head(q))
           /\ Head(q) \in Range(q) /\ Range(q) = Range(Tail(q)) \cup {Head(q)}
  <1>1. /\ q \in Seq(Packet) /\ Len(q) <= WQ_SIZE[c] /\ c # L1I
        /\ c = L1D => \A p \in Range(q) : StoreIn(p)
    BY DEF WriteQ
  <1>2. /\ Head(q) \in Packet /\ Head(q) \in Range(q)
        /\ Tail(q) \in Seq(Packet) /\ Len(Tail(q)) <= Len(q)
        /\ Range(q) = Range(Tail(q)) \cup {Head(q)}
    BY <1>1, TailOf
  <1>3. Len(Tail(q)) <= WQ_SIZE[c]
    <2> DEFINE a == Len(Tail(q))
               b == Len(q)
               n == WQ_SIZE[c]
    <2>1. a \in Nat /\ b \in Nat /\ n \in Nat /\ a <= b /\ b <= n
      BY <1>1, <1>2, Sizes, LenProperties
    <2> HIDE DEF a, b, n
    <2>2. a <= n
      BY <2>1
    <2> QED
      BY <2>2 DEF a, n
  <1> QED
    BY <1>1, <1>2, <1>3 DEF WriteQ

\* A merge of two reads of a line is a read of the line,
LEMMA ReadsMerge ==
    ASSUME NEW c \in CacheName, NEW x \in Packet, NEW p \in Packet,
           ReadIn(c, x), ReadIn(c, p), LineIn(x) = LineIn(p)
    PROVE  ReadIn(c, MergeFlags(x, p))
  <1> DEFINE y == MergeFlags(x, p)
  <1>1. /\ y.addr = x.addr /\ y.type = x.type
        /\ y.fill_level = x.fill_level /\ y.who = x.who \cup p.who
        /\ y.fill_l1i = (x.fill_l1i \/ p.fill_l1i) /\ y.fill_l1d = (x.fill_l1d \/ p.fill_l1d)
    BY FlagsMerged
  <1>2. LineIn(y) = LineIn(x)
    BY <1>1 DEF LineIn
  <1>3. FlagLines(y) /\ Answerable(y)
    BY <1>1, <1>2 DEF ReadIn, FlagLines, Answerable
  <1>4. c \in L1 => y.type = "LOAD" /\ OwnFlags(c, y)
    BY <1>1 DEF ReadIn, OwnFlags
  <1> QED
    BY <1>1, <1>3, <1>4 DEF ReadIn

\* and the least of two levels is the first if either is.
LEMMA LeastLevel ==
    ASSUME NEW a \in {FILL_L1, FILL_L2, FILL_LLC}, NEW b \in {FILL_L1, FILL_L2, FILL_LLC}
    PROVE  (IF a < b THEN a ELSE b) = FILL_L1 <=> a = FILL_L1 \/ b = FILL_L1
  BY DEF FILL_L1, FILL_L2, FILL_LLC

\* Prefetches of one line merge to a prefetch.
LEMMA PrefetchesMerge ==
    ASSUME NEW c \in CacheName, NEW x \in Packet, NEW p \in Packet,
           PrefetchIn(c, x), PrefetchIn(c, p), LineIn(x) = LineIn(p)
    PROVE  PrefetchIn(c, MergeLevel(x, p))
  <1> DEFINE y == MergeLevel(x, p)
  <1>1. /\ y.addr = x.addr /\ y.type = x.type
        /\ y.fill_level = (IF p.fill_level < x.fill_level THEN p.fill_level ELSE x.fill_level)
        /\ y.who = x.who \cup p.who
        /\ y.fill_l1i = (x.fill_l1i \/ p.fill_l1i) /\ y.fill_l1d = (x.fill_l1d \/ p.fill_l1d)
    BY LevelsMerged
  <1>2. LineIn(y) = LineIn(x)
    BY <1>1 DEF LineIn
  <1>3. y.fill_level = FILL_L1 <=> p.fill_level = FILL_L1 \/ x.fill_level = FILL_L1
    BY <1>1, LeastLevel DEF Packet
  <1> HIDE DEF y
  <1>4. FlagLines(y) /\ Answerable(y)
    BY <1>1, <1>2, <1>3 DEF PrefetchIn, FlagLines, Answerable
  <1>5. c = L1I => OwnFlags(L1I, y)
    BY <1>1 DEF PrefetchIn, OwnFlags
  <1>6. c = L1D => ~y.fill_l1i
    BY <1>1 DEF PrefetchIn
  <1> QED
    BY <1>1, <1>4, <1>5, <1>6 DEF PrefetchIn, y

\* What add_rq and add_pq make of a queue is such a queue again.
LEMMA ReadAdd ==
    ASSUME NEW c \in CacheName, NEW p \in Packet, ReadQ(c, RQ[c]), ReadIn(c, p)
    PROVE  ReadQ(c, add_rq(c, p))
  <1> DEFINE q == RQ[c]
             q2 == add_rq(c, p)
  <1>1. /\ q \in Seq(Packet) /\ Len(q) <= RQ_SIZE[c] /\ NoRepeats(q)
        /\ \A x \in Range(q) : ReadIn(c, x) /\ x \in Packet
    BY RangeOfSeq DEF ReadQ
  <1>2. Len(q2) <= RQ_SIZE[c] /\ (q2 = q \/ Joined(q, q2, p, WithFlags(p)))
    BY <1>1, AddRq
  <1> HIDE DEF q2, q
  <1>3. CASE q2 = q
    BY <1>1, <1>3 DEF ReadQ, q, q2
  <1>4. CASE Joined(q, q2, p, WithFlags(p))
    <2>1. ASSUME NEW x \in Range(q), LineIn(x) = LineIn(p) PROVE ReadIn(c, WithFlags(p)[x])
      <3>1. WithFlags(p)[x] = MergeFlags(x, p) /\ x \in Packet /\ ReadIn(c, x)
        BY <1>1, MergesKeepLine
      <3> QED
        BY <2>1, <3>1, ReadsMerge
    <2>2. \A y \in Range(q2) : ReadIn(c, y)
      BY <1>1, <1>4, <2>1 DEF Joined
    <2>3. q2 \in Seq(Packet) /\ NoRepeats(q2)
      BY <1>4 DEF Joined
    <2> QED
      BY <1>2, <2>2, <2>3 DEF ReadQ, q2
  <1> QED
    BY <1>2, <1>3, <1>4

\* add_pq leaves a prefetch queue.
LEMMA PrefetchAdd ==
    ASSUME NEW c \in CacheName, NEW p \in Packet, PrefetchQ(c, PQ[c]), PrefetchIn(c, p)
    PROVE  PrefetchQ(c, add_pq(c, p))
  <1> DEFINE q == PQ[c]
             q2 == add_pq(c, p)
  <1>1. /\ q \in Seq(Packet) /\ Len(q) <= PQ_SIZE[c] /\ NoRepeats(q)
        /\ \A x \in Range(q) : PrefetchIn(c, x) /\ x \in Packet
    BY RangeOfSeq DEF PrefetchQ
  <1>2. Len(q2) <= PQ_SIZE[c] /\ (q2 = q \/ Joined(q, q2, p, WithLevel(p)))
    BY <1>1, AddPq
  <1> HIDE DEF q2, q
  <1>3. CASE q2 = q
    BY <1>1, <1>3 DEF PrefetchQ, q, q2
  <1>4. CASE Joined(q, q2, p, WithLevel(p))
    <2>1. ASSUME NEW x \in Range(q), LineIn(x) = LineIn(p) PROVE PrefetchIn(c, WithLevel(p)[x])
      <3>1. WithLevel(p)[x] = MergeLevel(x, p) /\ x \in Packet /\ PrefetchIn(c, x)
        BY <1>1, MergesKeepLine
      <3> QED
        BY <2>1, <3>1, PrefetchesMerge
    <2>2. \A y \in Range(q2) : PrefetchIn(c, y)
      BY <1>1, <1>4, <2>1 DEF Joined
    <2>3. q2 \in Seq(Packet) /\ NoRepeats(q2)
      BY <1>4 DEF Joined
    <2> QED
      BY <1>2, <2>2, <2>3 DEF PrefetchQ, q2
  <1> QED
    BY <1>2, <1>3, <1>4

\* A table in which the miss of one line is another.
Put(m, n, c, l, x) ==
    /\ n \in Table
    /\ \A d \in CacheName, k \in Line : n[d][k] = IF d = c /\ k = l THEN x ELSE m[d][k]

\* EXCEPT is such a change.
LEMMA PutEffect ==
    ASSUME NEW m \in Table, NEW c \in CacheName, NEW l \in Line, NEW x \in Miss \cup {NONE}
    PROVE  Put(m, [m EXCEPT ![c][l] = x], c, l, x)
  <1> DEFINE n == [m EXCEPT ![c][l] = x]
  <1>1. n \in [CacheName -> [Line -> Miss \cup {NONE}]]
    BY DEF Table
  <1>2. \A d \in CacheName, k \in Line : n[d][k] = IF d = c /\ k = l THEN x ELSE m[d][k]
    BY DEF Table
  <1> QED
    BY <1>1, <1>2 DEF Put, Table

\* Lines in flight are finitely many.
LEMMA LinesFinite ==
    ASSUME NEW t
    PROVE  IsFiniteSet(Lines(t)) /\ Cardinality(Lines(t)) \in Nat
  <1>1. Lines(t) \in SUBSET Line
    BY DEF Lines
  <1> QED
    BY <1>1, Sizes, FS_Subset, FS_CardinalityType

\* Such a change adds or takes one line at most.
LEMMA PutCount ==
    ASSUME NEW m \in Table, NEW n, NEW c \in CacheName, NEW l \in Line, NEW x, Put(m, n, c, l, x)
    PROVE  /\ \A d \in CacheName \ {c} : Lines(n[d]) = Lines(m[d])
           /\ x = NONE => Lines(n[c]) = Lines(m[c]) \ {l}
           /\ x # NONE => Lines(n[c]) = Lines(m[c]) \cup {l}
  BY DEF Put, Lines

\* A miss may take the place of another of its line, a free place of a table
\* that is not full, or end.
LEMMA PutMiss ==
    ASSUME NEW m, Misses(m), NEW n, NEW c \in CacheName, NEW l \in Line, NEW x,
           Put(m, n, c, l, x), MissIn(c, l, x),
           m[c][l] # NONE \/ Cardinality(Lines(m[c])) < MSHR_SIZE[c]
    PROVE  Misses(n)
  <1>1. m \in Table /\ n \in Table /\ x \in Miss /\ x # NONE
    BY Sizes DEF Misses, Put, MissIn
  <1>2. /\ \A d \in CacheName \ {c} : Lines(n[d]) = Lines(m[d])
        /\ Lines(n[c]) = Lines(m[c]) \cup {l}
    <2>1. Put(m, n, c, l, x)
      OBVIOUS
    <2> QED
      BY <1>1, <2>1, PutCount
  <1>3. Cardinality(Lines(n[c])) <= MSHR_SIZE[c]
    <2>1. CASE m[c][l] # NONE
      <3>1. Lines(n[c]) = Lines(m[c])
        BY <1>2, <2>1 DEF Lines
      <3> QED
        BY <3>1 DEF Misses, MissT
    <2>2. CASE m[c][l] = NONE /\ Cardinality(Lines(m[c])) < MSHR_SIZE[c]
      <3>1. l \notin Lines(m[c])
        BY <2>2 DEF Lines
      <3>2. Cardinality(Lines(n[c])) = Cardinality(Lines(m[c])) + 1
        BY <1>2, <3>1, LinesFinite, FS_AddElement
      <3>3. Cardinality(Lines(m[c])) \in Nat /\ MSHR_SIZE[c] \in Nat
        BY LinesFinite, Sizes
      <3> QED
        BY <2>2, <3>2, <3>3
    <2> QED
      BY <2>1, <2>2
  <1>4. \A d \in CacheName, k \in Line : n[d][k] # NONE => MissIn(d, k, n[d][k])
    BY <1>1 DEF Misses, MissT, Put
  <1>5. \A d \in CacheName : Cardinality(Lines(n[d])) <= MSHR_SIZE[d]
    BY <1>2, <1>3 DEF Misses, MissT
  <1> QED
    BY <1>1, <1>4, <1>5 DEF Misses, MissT

\* A table that loses a miss stays one.
LEMMA PutNone ==
    ASSUME NEW m, Misses(m), NEW n, NEW c \in CacheName, NEW l \in Line, Put(m, n, c, l, NONE)
    PROVE  Misses(n)
  <1>1. m \in Table /\ n \in Table
    BY DEF Misses, Put
  <1>2. /\ \A d \in CacheName \ {c} : Lines(n[d]) = Lines(m[d])
        /\ Lines(n[c]) = Lines(m[c]) \ {l}
    BY <1>1, PutCount
  <1>3. Cardinality(Lines(n[c])) <= MSHR_SIZE[c]
    <2> DEFINE a == Cardinality(Lines(n[c]))
               b == Cardinality(Lines(m[c]))
    <2>1. a <= b
      BY <1>2, LinesFinite, FS_Subset
    <2>2. a \in Nat /\ b \in Nat /\ MSHR_SIZE[c] \in Nat /\ b <= MSHR_SIZE[c]
      BY LinesFinite, Sizes DEF Misses, MissT
    <2> HIDE DEF a, b
    <2>3. a <= MSHR_SIZE[c]
      BY <2>1, <2>2
    <2> QED
      BY <2>3 DEF a
  <1>4. \A d \in CacheName, k \in Line : n[d][k] # NONE => MissIn(d, k, n[d][k])
    BY <1>1 DEF Misses, MissT, Put
  <1>5. \A d \in CacheName : Cardinality(Lines(n[d])) <= MSHR_SIZE[d]
    BY <1>2, <1>3 DEF Misses, MissT
  <1> QED
    BY <1>1, <1>4, <1>5 DEF Misses, MissT

\* n is m after c has passed p on.
Delivered(m, n, c, p) ==
    /\ n \in Table
    /\ \A d \in CacheName, l \in Line :
         n[d][l] = IF Answers(c, p, d, l) /\ m[d][l] # NONE THEN Answered(m[d][l]) ELSE m[d][l]

\* An answer changes no miss in anything else.
LEMMA DeliverFields ==
    ASSUME NEW m \in Table, NEW n, NEW c, NEW p, Delivered(m, n, c, p),
           NEW d \in CacheName, NEW l \in Line
    PROVE  /\ n[d][l] = NONE <=> m[d][l] = NONE
           /\ m[d][l] # NONE =>
                /\ n[d][l].type = m[d][l].type /\ n[d][l].who = m[d][l].who
                /\ n[d][l].fill_level = m[d][l].fill_level /\ n[d][l].addr = m[d][l].addr
                /\ n[d][l].fill_l1i = m[d][l].fill_l1i /\ n[d][l].fill_l1d = m[d][l].fill_l1d
                /\ n[d][l] \in Miss
                /\ n[d][l].returned <=> m[d][l].returned \/ Answers(c, p, d, l)
  <1>1. m \in [CacheName -> [Line -> Miss \cup {NONE}]]
    BY DEF Table
  <1>2. CASE m[d][l] = NONE
    BY <1>2 DEF Delivered
  <1>3. CASE m[d][l] # NONE
    <2>1. m[d][l] \in Miss /\ m[d][l].returned \in BOOLEAN
      BY <1>1, <1>3 DEF Miss
    <2>2. Answered(m[d][l]) # NONE
      BY <2>1, AnsweredMiss, Sizes
    <2>3. CASE Answers(c, p, d, l)
      BY <1>3, <2>1, <2>2, <2>3, AnsweredMiss DEF Delivered
    <2>4. CASE ~Answers(c, p, d, l)
      BY <1>3, <2>1, <2>4 DEF Delivered
    <2> QED
      BY <2>3, <2>4
  <1> QED
    BY <1>2, <1>3

\* So the table stays one.
LEMMA DeliverKeeps ==
    ASSUME NEW m, Misses(m), NEW n, NEW c, NEW p, Delivered(m, n, c, p)
    PROVE  Misses(n)
  <1>1. m \in Table /\ n \in Table
    BY DEF Misses, Delivered
  <1>2. ASSUME NEW d \in CacheName PROVE MissT(d, n[d])
    <2>1. Lines(n[d]) = Lines(m[d])
      BY <1>1, DeliverFields DEF Lines
    <2>2. ASSUME NEW l \in Line, n[d][l] # NONE PROVE MissIn(d, l, n[d][l])
      <3>1. m[d][l] # NONE /\ MissIn(d, l, m[d][l])
        BY <1>1, <2>2, DeliverFields DEF Misses, MissT
      <3>2. /\ n[d][l].type = m[d][l].type /\ n[d][l].who = m[d][l].who
            /\ n[d][l].fill_level = m[d][l].fill_level /\ n[d][l].addr = m[d][l].addr
            /\ n[d][l].fill_l1i = m[d][l].fill_l1i /\ n[d][l].fill_l1d = m[d][l].fill_l1d
            /\ n[d][l] \in Miss
        BY <1>1, <3>1, DeliverFields
      <3>3. LineIn(n[d][l]) = LineIn(m[d][l])
        BY <3>2 DEF LineIn
      <3> QED
        BY <3>1, <3>2, <3>3 DEF MissIn, FlagLines, Answerable, OwnFlags
    <2> QED
      BY <2>1, <2>2 DEF Misses, MissT
  <1> QED
    BY <1>1, <1>2 DEF Misses

\* Deliver does that.
LEMMA DeliverDelivers ==
    ASSUME NEW m \in Table, NEW c \in CacheName, NEW p \in Packet \cup Miss
    PROVE  Delivered(m, Deliver(m, c, p), c, p)
  BY DeliverEffect DEF Delivered

-----------------------------------------------------------------------------
(* The parts of the invariant that say what each variable holds.           *)

\* A fill leaves blocks of known lines,
LEMMA FilledKeeps ==
    ASSUME BlocksInv, NEW c \in CacheName, NEW l \in LinesOfAddr, NEW dirty, Filled(c, l, dirty)
    PROVE  BlocksInv'
  BY DEF BlocksInv, Filled

\* and so does a hit.
LEMMA TouchedKeeps ==
    ASSUME BlocksInv, NEW c \in CacheName, NEW l \in Line, Hit(c, l), NEW dirty, Touched(c, l, dirty)
    PROVE  BlocksInv'
  <1>1. /\ SetOf[c][l] \in SetIndex /\ check_hit(c, l) \in Way(c)
        /\ block[c][SetOf[c][l]][check_hit(c, l)].valid
    BY Sizes, CheckHit
  <1> QED
    BY <1>1 DEF BlocksInv, Touched

\* A dirty victim is written back under an address of its line.
LEMMA WritebackPacket ==
    ASSUME NEW l \in LinesOfAddr
    PROVE  writeback_packet(l) \in Packet /\ LineIn(writeback_packet(l)) = l
  <1> DEFINE a == CHOOSE a \in Addr : LineOf[a] = l
  <1>1. a \in Addr /\ LineOf[a] = l
    BY DEF LinesOfAddr
  <1> HIDE DEF a
  <1>2. writeback_packet(l) = [addr |-> a, type |-> "WRITEBACK", fill_level |-> FILL_L2,
                               fill_l1i |-> FALSE, fill_l1d |-> FALSE, who |-> {}]
    BY DEF writeback_packet, a
  <1> QED
    BY <1>1, <1>2 DEF Packet, Type, LineIn

\* A completed requester waits for nothing.
LEMMA CompleteTyped ==
    ASSUME BaseInv, NEW p
    PROVE  Complete(p) \in [Requester -> Addr \cup {NONE}]
  BY DEF BaseInv, Complete

\* What a packet leaves in the table.
LEMMA AsMissFields ==
    ASSUME NEW p \in Packet, NEW b \in BOOLEAN
    PROVE  LET x == AsMiss(p, b)
           IN  /\ x \in Miss /\ x.addr = p.addr /\ x.type = p.type /\ x.fill_level = p.fill_level
               /\ x.fill_l1i = p.fill_l1i /\ x.fill_l1d = p.fill_l1d /\ x.who = p.who
               /\ x.returned = b /\ LineIn(x) = LineIn(p)
  BY DEF AsMiss, Packet, Miss, LineIn

\* A demand: a read, or a store that asks for its line.
Demand(c, p) == ReadIn(c, p) \/ (c = L1D /\ StoreIn(p))

\* A read or a store may enter the table of its cache,
LEMMA DemandIsMiss ==
    ASSUME NEW c \in CacheName, NEW p \in Packet, NEW b \in BOOLEAN, Demand(c, p)
    PROVE  MissIn(c, LineIn(p), AsMiss(p, b))
  <1> DEFINE x == AsMiss(p, b)
  <1>1. /\ x \in Miss /\ x.type = p.type /\ x.fill_level = p.fill_level
        /\ x.fill_l1i = p.fill_l1i /\ x.fill_l1d = p.fill_l1d /\ x.who = p.who
        /\ LineIn(x) = LineIn(p)
    BY AsMissFields
  <1> HIDE DEF x
  <1>2. CASE ReadIn(c, p)
    BY <1>1, <1>2, Names DEF ReadIn, MissIn, FlagLines, Answerable, OwnFlags, x
  <1>3. CASE c = L1D /\ StoreIn(p)
    BY <1>1, <1>3, Names DEF StoreIn, MissIn, FlagLines, Answerable, OwnFlags, x
  <1> QED
    BY <1>2, <1>3 DEF Demand

\* and so may a prefetch that is meant for that cache.
LEMMA PrefetchIsMiss ==
    ASSUME NEW c \in CacheName, NEW p \in Packet, PrefetchIn(c, p), p.fill_level <= fill_level[c]
    PROVE  MissIn(c, LineIn(p), AsMiss(p, FALSE))
  <1> DEFINE x == AsMiss(p, FALSE)
  <1>1. /\ x \in Miss /\ x.type = p.type /\ x.fill_level = p.fill_level
        /\ x.fill_l1i = p.fill_l1i /\ x.fill_l1d = p.fill_l1d /\ x.who = p.who
        /\ LineIn(x) = LineIn(p)
    BY AsMissFields
  <1> HIDE DEF x
  <1>2. c \in L1 => p.fill_level = FILL_L1
    <2>1. p.fill_level \in {1, 2, 4}
      BY DEF Packet, FILL_L1, FILL_L2, FILL_LLC
    <2>2. ASSUME c \in L1 PROVE fill_level[c] = 1
      BY <2>2, Names
    <2> QED
      BY <2>1, <2>2 DEF FILL_L1
  <1>3. c \in L1 => OwnFlags(c, p)
    BY <1>2, Names DEF PrefetchIn, Answerable, OwnFlags
  <1>4. FlagLines(x) /\ Answerable(x) /\ (c \in L1 => OwnFlags(c, x))
    BY <1>1, <1>3 DEF PrefetchIn, FlagLines, Answerable, OwnFlags
  <1> QED
    BY <1>1, <1>4 DEF PrefetchIn, MissIn, x

\* x is the miss that p has joined.
Joins(c, miss, p, x) ==
    /\ x \in Miss
    /\ x.returned = miss.returned
    /\ x.who = miss.who \cup p.who
    /\ x.type = IF miss.type = "PREFETCH" THEN p.type ELSE miss.type
    /\ miss.type # "PREFETCH" \/ p.type = "PREFETCH" =>
         /\ x.fill_l1i = (miss.fill_l1i \/ p.fill_l1i)
         /\ x.fill_l1d = (miss.fill_l1d \/ p.fill_l1d)
    /\ miss.type = "PREFETCH" /\ p.type # "PREFETCH" =>
         x.fill_l1i = p.fill_l1i /\ x.fill_l1d = p.fill_l1d

\* A read or a store that meets a miss leaves a miss of that line,
LEMMA DemandJoins ==
    ASSUME NEW c \in CacheName, NEW p \in Packet, Demand(c, p),
           NEW miss, MissIn(c, LineIn(p), miss)
    PROVE  /\ Joins(c, miss, p, MergeMiss(miss, p))
           /\ MissIn(c, LineIn(p), MergeMiss(miss, p))
  <1>1. miss \in Miss /\ miss.returned \in BOOLEAN
    BY DEF MissIn, Miss
  <1>2. CASE miss.type = "PREFETCH"
    <2>1. MergeMiss(miss, p) = AsMiss(p, miss.returned)
      BY <1>2 DEF MergeMiss
    <2>2. p.type # "PREFETCH" /\ miss.who = {}
      BY <1>2 DEF Demand, ReadIn, StoreIn, MissIn
    <2>3. Joins(c, miss, p, AsMiss(p, miss.returned))
      BY <1>1, <1>2, <2>2, AsMissFields DEF Joins
    <2>4. MissIn(c, LineIn(p), AsMiss(p, miss.returned))
      BY <1>1, DemandIsMiss
    <2> QED
      BY <2>1, <2>3, <2>4
  <1>3. CASE miss.type # "PREFETCH"
    <2> DEFINE y == MergeLevel(miss, p)
    <2>1. MergeMiss(miss, p) = y
      BY <1>3 DEF MergeMiss
    <2>2. /\ y \in Miss /\ y.addr = miss.addr /\ y.type = miss.type
          /\ y.fill_level = (IF p.fill_level < miss.fill_level THEN p.fill_level ELSE miss.fill_level)
          /\ y.who = miss.who \cup p.who /\ y.returned = miss.returned
          /\ y.fill_l1i = (miss.fill_l1i \/ p.fill_l1i) /\ y.fill_l1d = (miss.fill_l1d \/ p.fill_l1d)
      BY <1>1, MissMerged
    <2>3. y.fill_level = FILL_L1 <=> p.fill_level = FILL_L1 \/ miss.fill_level = FILL_L1
      BY <1>1, <2>2, LeastLevel DEF Packet, Miss
    <2> HIDE DEF y
    <2>4. LineIn(y) = LineIn(p)
      BY <2>2 DEF LineIn, MissIn
    <2>5. FlagLines(p) /\ Answerable(p) /\ p.who \subseteq Own(c) /\ (c \in L1 => OwnFlags(c, p))
      BY Names DEF Demand, ReadIn, StoreIn, Answerable, OwnFlags
    <2>6. FlagLines(y) /\ Answerable(y)
      <3>1. y.type # "PREFETCH"
        BY <1>3, <2>2
      <3> QED
        BY <2>2, <2>3, <2>4, <2>5, <3>1 DEF MissIn, FlagLines, Answerable
    <2>7. c \in L1 => OwnFlags(c, y)
      BY <2>2, <2>5 DEF MissIn, OwnFlags
    <2>8. MissIn(c, LineIn(p), y)
      BY <1>3, <2>2, <2>4, <2>5, <2>6, <2>7 DEF MissIn
    <2>9. Joins(c, miss, p, y)
      BY <1>3, <2>2 DEF Joins
    <2> QED
      BY <2>1, <2>8, <2>9
  <1> QED
    BY <1>2, <1>3

\* and so does a prefetch.
LEMMA PrefetchJoins ==
    ASSUME NEW c \in CacheName, NEW p \in Packet, PrefetchIn(c, p),
           NEW miss, MissIn(c, LineIn(p), miss)
    PROVE  /\ Joins(c, miss, p, MergeLevel(miss, p))
           /\ MissIn(c, LineIn(p), MergeLevel(miss, p))
  <1> DEFINE y == MergeLevel(miss, p)
  <1>1. miss \in Miss
    BY DEF MissIn
  <1>2. /\ y \in Miss /\ y.addr = miss.addr /\ y.type = miss.type
        /\ y.fill_level = (IF p.fill_level < miss.fill_level THEN p.fill_level ELSE miss.fill_level)
        /\ y.who = miss.who \cup p.who /\ y.returned = miss.returned
        /\ y.fill_l1i = (miss.fill_l1i \/ p.fill_l1i) /\ y.fill_l1d = (miss.fill_l1d \/ p.fill_l1d)
    BY <1>1, MissMerged
  <1>3. y.fill_level = FILL_L1 <=> p.fill_level = FILL_L1 \/ miss.fill_level = FILL_L1
    BY <1>1, <1>2, LeastLevel DEF Packet, Miss
  <1> HIDE DEF y
  <1>4. LineIn(y) = LineIn(p)
    BY <1>2 DEF LineIn, MissIn
  <1>5. /\ p.type = "PREFETCH" /\ FlagLines(p) /\ Answerable(p) /\ p.who = {}
        /\ c = L1I => OwnFlags(L1I, p)
        /\ c = L1D => ~p.fill_l1i
    BY DEF PrefetchIn
  <1>6. FlagLines(y) /\ Answerable(y)
    BY <1>2, <1>3, <1>4, <1>5 DEF MissIn, FlagLines, Answerable
  <1>7. c \in L1 => OwnFlags(c, y)
    BY <1>2, <1>5, Names DEF MissIn, OwnFlags
  <1>8. MissIn(c, LineIn(p), y)
    BY <1>2, <1>4, <1>5, <1>6, <1>7 DEF MissIn
  <1>9. Joins(c, miss, p, y)
    BY <1>2, <1>5 DEF Joins
  <1> QED
    BY <1>8, <1>9 DEF y

-----------------------------------------------------------------------------
(* The steps: what each does to the packets and the blocks, and that it    *)
(* keeps the part of the invariant above.                                  *)

\* The write queue of L2C gets the dirty victim of the level above alone.
WritesBack(c, victim) ==
    \A q \in Range(WQ'[L2C]) : \/ q \in Range(WQ[L2C])
                               \/ c \in L1 /\ victim.dirty /\ LineIn(q) = victim.line

\* What a fill does.
FillEffects(c, l, miss, victim) ==
    /\ miss # NONE /\ MissIn(c, l, miss) /\ miss.returned
    /\ Filled(c, l, DirtyFill(c, miss))
    /\ UNCHANGED <<RQ, PQ>>
    /\ \E m : Delivered(MSHR, m, c, miss) /\ Put(m, MSHR', c, l, NONE)
    /\ asked' = Complete(miss)
    /\ Range(WQ[L2C]) \subseteq Range(WQ'[L2C])
    /\ victim.dirty /\ c \in L1 => \E q \in Range(WQ'[L2C]) : LineIn(q) = victim.line
    /\ WritesBack(c, victim)
    /\ WrittenBelow(c, victim)

\* handle_fill has this effect and keeps the base invariant.
LEMMA HandleFillEffect ==
    ASSUME BaseInv, NEW c \in CacheName, NEW l \in Line, handle_fill(c, l)
    PROVE  BaseInv' /\ FillEffects(c, l, MSHR[c][l], Victim(c, l))
  <1> DEFINE miss == MSHR[c][l]
             victim == Victim(c, l)
             wb == writeback_packet(victim.line)
             m == Deliver(MSHR, c, miss)
  <1>1. /\ miss # NONE /\ miss.returned /\ CanEvict(c, l)
        /\ WQ' = IF victim.dirty /\ c \in L1 THEN [WQ EXCEPT ![L2C] = add_wq(L2C, wb)] ELSE WQ
        /\ block' = [block EXCEPT ![c][SetOf[c][l]] = fill_cache(c, l, DirtyFill(c, miss))]
        /\ MSHR' = [m EXCEPT ![c][l] = NONE]
        /\ asked' = Complete(miss) /\ RQ' = RQ /\ PQ' = PQ
        /\ WrittenBelow(c, victim)
    BY DEF handle_fill
  <1>2. MSHR \in Table /\ Misses(MSHR) /\ BlocksInv /\ BlocksTyped
    BY DEF BaseInv, Misses, BlocksInv
  <1>3. MissIn(c, l, miss) /\ miss \in Miss /\ LineIn(miss) = l
    BY <1>1, <1>2 DEF Misses, MissT, MissIn
  <1>4. l \in LinesOfAddr
    BY <1>3, PacketLine
  <1>5. Filled(c, l, DirtyFill(c, miss))
    <2>1. DirtyFill(c, miss) \in BOOLEAN
      BY DEF DirtyFill
    <2> QED
      BY <1>1, <1>2, <2>1, FillEffect
  <1>6. BlocksInv'
    BY <1>2, <1>4, <1>5, FilledKeeps
  <1>7. Delivered(MSHR, m, c, miss)
    BY <1>2, <1>3, DeliverDelivers
  <1> HIDE DEF m
  <1>8. Misses(m) /\ m \in Table
    <2>1. Misses(m)
      BY <1>2, <1>7, DeliverKeeps
    <2> QED
      BY <2>1 DEF Misses
  <1>9. Put(m, MSHR', c, l, NONE)
    BY <1>1, <1>8, PutEffect
  <1>10. Misses(MSHR')
    BY <1>8, <1>9, PutNone
  <1>11. /\ WritesInv' /\ WritesBack(c, victim)
         /\ Range(WQ[L2C]) \subseteq Range(WQ'[L2C])
         /\ victim.dirty /\ c \in L1 => \E q \in Range(WQ'[L2C]) : LineIn(q) = victim.line
    <2>1. CASE victim.dirty /\ c \in L1
      <3>1. victim.line \in LinesOfAddr
        <4>1. SetOf[c][l] \in SetIndex /\ lru_victim(c, l) \in Way(c)
          BY <1>2, Sizes, VictimIn
        <4> QED
          BY <1>2, <2>1, <4>1 DEF BlocksInv, Victim, ThisSet
      <3>2. wb \in Packet /\ LineIn(wb) = victim.line
        BY <3>1, WritebackPacket
      <3>3. Room(L2C, WQ, WQ_SIZE)
        BY <1>1, <2>1 DEF CanEvict
      <3>4. WritesInv
        BY DEF BaseInv
      <3>5. WQ[L2C] \in Seq(Packet) /\ Len(WQ[L2C]) <= WQ_SIZE[L2C]
        BY <3>4, Names DEF WritesInv, WriteQ
      <3> DEFINE q2 == add_wq(L2C, wb)
      <3> HIDE DEF wb
      <3>6. /\ q2 \in Seq(Packet) /\ Len(q2) <= WQ_SIZE[L2C]
            /\ Range(WQ[L2C]) \subseteq Range(q2) /\ Range(q2) \subseteq Range(WQ[L2C]) \cup {wb}
            /\ \E q \in Range(q2) : SamePlace(L2C, wb, q)
        BY <3>2, <3>3, <3>5, Names, AddWq
      <3> HIDE DEF q2
      <3>7. WQ' = [WQ EXCEPT ![L2C] = q2]
        BY <1>1, <2>1 DEF q2, wb
      <3>8. WriteQ(L2C, q2)
        BY <3>6, Names DEF WriteQ
      <3>9. DOMAIN WQ' = CacheName /\ \A d \in CacheName : WQ'[d] = IF d = L2C THEN q2 ELSE WQ[d]
        BY <3>4, <3>7 DEF WritesInv
      <3>10. WritesInv'
        BY <3>4, <3>8, <3>9 DEF WritesInv
      <3>11. \E q \in Range(q2) : LineIn(q) = victim.line
        BY <3>2, <3>6, Names DEF SamePlace
      <3>12. WQ'[L2C] = q2
        BY <3>9, Names
      <3>13. WritesBack(c, victim)
        BY <2>1, <3>2, <3>6, <3>12 DEF WritesBack
      <3> QED
        BY <3>6, <3>10, <3>11, <3>12, <3>13
    <2>2. CASE ~(victim.dirty /\ c \in L1)
      <3>1. WQ' = WQ
        BY <1>1, <2>2
      <3> QED
        BY <2>2, <3>1 DEF BaseInv, WritesInv, WritesBack
    <2> QED
      BY <2>1, <2>2
  <1>12. asked' \in [Requester -> Addr \cup {NONE}] /\ unwritten' \in SUBSET StoreTaken
    BY <1>1, CompleteTyped DEF WrittenBelow, BaseInv
  <1>13. ReadsInv' /\ PrefetchesInv'
    BY <1>1 DEF BaseInv, ReadsInv, PrefetchesInv
  <1>14. BaseInv'
    BY <1>6, <1>10, <1>11, <1>12, <1>13 DEF BaseInv
  <1>15. \E mm : Delivered(MSHR, mm, c, miss) /\ Put(mm, MSHR', c, l, NONE)
    BY <1>7, <1>9
  <1> QED
    BY <1>1, <1>3, <1>5, <1>11, <1>14, <1>15 DEF FillEffects

\* The head of the write queue leaves it.
Popped(Q, c) ==
    /\ Q[c] # <<>>
    /\ DOMAIN Q' = CacheName
    /\ \A d \in CacheName : Q'[d] = IF d = c THEN Tail(Q[c]) ELSE Q[d]

\* The head of a write queue leaves it.
LEMMA WritesPopped ==
    ASSUME WritesInv, NEW c \in CacheName, WQ[c] # <<>>, WQ' = [WQ EXCEPT ![c] = Tail(@)]
    PROVE  /\ WritesInv' /\ Popped(WQ, c)
           /\ Head(WQ[c]) \in Packet /\ c # L1I /\ (c = L1D => StoreIn(Head(WQ[c])))
           /\ Range(WQ[c]) = Range(WQ'[c]) \cup {Head(WQ[c])}
  <1>1. /\ DOMAIN WQ' = CacheName
        /\ \A d \in CacheName : WQ'[d] = IF d = c THEN Tail(WQ[c]) ELSE WQ[d]
    BY DEF WritesInv
  <1>2. WriteQ(c, WQ[c])
    BY DEF WritesInv
  <1>3. /\ Head(WQ[c]) \in Packet /\ WriteQ(c, Tail(WQ[c])) /\ c # L1I
        /\ c = L1D => StoreIn(Head(WQ[c]))
        /\ Range(WQ[c]) = Range(Tail(WQ[c])) \cup {Head(WQ[c])}
    BY <1>2, WritePop
  <1>4. WritesInv'
    <2>1. \A d \in CacheName : WriteQ(d, WQ[d])
      BY DEF WritesInv
    <2>2. \A d \in CacheName : WriteQ(d, WQ'[d])
      BY <1>1, <1>3, <2>1
    <2> QED
      BY <1>1, <2>2 DEF WritesInv, WriteQ
  <1> QED
    BY <1>1, <1>3, <1>4 DEF Popped

\* What is recorded of a store is typed.
LEMMA TakenTyped ==
    ASSUME unwritten \in SUBSET StoreTaken, NEW l \in Line, NEW j, j \in BOOLEAN
    PROVE  Taken(l, j) \in SUBSET StoreTaken
  BY DEF Taken, StoreTaken

\* What the steps of handle_writeback do.
WritebackHitEffects(c, p) ==
    /\ p \in Packet /\ Hit(c, LineIn(p)) /\ Touched(c, LineIn(p), TRUE)
    /\ c \in {L1D, L2C} /\ Popped(WQ, c) /\ Range(WQ[c]) = Range(WQ'[c]) \cup {p}
    /\ c = L1D => LineIn(p) \in StoreLines
    /\ unwritten' = Taken(LineIn(p), FALSE)
    /\ UNCHANGED <<RQ, PQ, MSHR, asked>>

\* A write-back that hits has this effect,
LEMMA WritebackHitEffect ==
    ASSUME BaseInv, NEW c \in CacheName, WQ[c] # <<>>, WritebackHit(c)
    PROVE  BaseInv' /\ WritebackHitEffects(c, Head(WQ[c]))
  <1> DEFINE p == Head(WQ[c])
             l == LineIn(p)
  <1>1. /\ Hit(c, l)
        /\ block' = [block EXCEPT ![c][SetOf[c][l]] =
                       [update_replacement_state(@, check_hit(c, l), p.type)
                          EXCEPT ![check_hit(c, l)].dirty = TRUE]]
        /\ WQ' = [WQ EXCEPT ![c] = Tail(@)]
        /\ unwritten' = Taken(l, FALSE)
        /\ UNCHANGED <<RQ, PQ, MSHR, asked>>
    BY DEF WritebackHit
  <1>2. /\ BlocksInv /\ BlocksTyped /\ WritesInv
    <2>1. BlocksInv /\ WritesInv
      BY DEF BaseInv
    <2> QED
      BY <2>1 DEF BlocksInv
  <1>3. /\ WritesInv' /\ Popped(WQ, c) /\ p \in Packet /\ c # L1I
        /\ Range(WQ[c]) = Range(WQ'[c]) \cup {p}
        /\ c = L1D => StoreIn(p)
    BY <1>1, <1>2, WritesPopped
  <1>4. l \in Line
    <2> HIDE DEF p
    <2> QED
      BY <1>3, PacketLine
  <1>5. Touched(c, l, TRUE)
    <2> HIDE DEF p, l
    <2> QED
      BY <1>1, <1>2, <1>4, WritebackTouches
  <1>6. BlocksInv'
    BY <1>1, <1>2, <1>4, <1>5, TouchedKeeps
  <1>7. BaseInv'
    <2>1. unwritten' \in SUBSET StoreTaken
      BY <1>1, <1>4, TakenTyped DEF BaseInv
    <2> QED
      BY <1>1, <1>3, <1>6, <2>1 DEF BaseInv, ReadsInv, PrefetchesInv
  <1>8. c \in {L1D, L2C}
    BY <1>3, Names
  <1>9. c = L1D => l \in StoreLines
    BY <1>3 DEF StoreIn
  <1> QED
    BY <1>1, <1>3, <1>5, <1>7, <1>8, <1>9 DEF WritebackHitEffects

WritebackFillEffects(c, p) ==
    /\ c = L2C /\ p \in Packet /\ ~Hit(c, LineIn(p)) /\ Filled(c, LineIn(p), TRUE)
    /\ Popped(WQ, c) /\ Range(WQ[c]) = Range(WQ'[c]) \cup {p}
    /\ WrittenBelow(c, Victim(c, LineIn(p)))
    /\ UNCHANGED <<RQ, PQ, MSHR, asked>>

\* and one that fills has this one.
LEMMA WritebackFillEffect ==
    ASSUME BaseInv, NEW c \in CacheName, WQ[c] # <<>>, WritebackFill(c)
    PROVE  BaseInv' /\ WritebackFillEffects(c, Head(WQ[c]))
  <1> DEFINE p == Head(WQ[c])
             l == LineIn(p)
  <1>1. /\ c # L1D /\ ~Hit(c, l)
        /\ block' = [block EXCEPT ![c][SetOf[c][l]] = fill_cache(c, l, TRUE)]
        /\ WQ' = [WQ EXCEPT ![c] = Tail(@)]
        /\ WrittenBelow(c, Victim(c, l))
        /\ UNCHANGED <<RQ, PQ, MSHR, asked>>
    BY DEF WritebackFill
  <1>2. /\ BlocksInv /\ BlocksTyped /\ WritesInv
    BY DEF BaseInv, BlocksInv
  <1>3. /\ WritesInv' /\ Popped(WQ, c) /\ p \in Packet /\ c # L1I
        /\ Range(WQ[c]) = Range(WQ'[c]) \cup {p}
    BY <1>1, <1>2, WritesPopped
  <1>4. l \in Line /\ l \in LinesOfAddr
    BY <1>3, PacketLine
  <1>5. Filled(c, l, TRUE)
    BY <1>1, <1>2, <1>4, FillEffect
  <1>6. BlocksInv'
    BY <1>2, <1>4, <1>5, FilledKeeps
  <1>7. unwritten' \in SUBSET StoreTaken
    BY <1>1 DEF WrittenBelow, BaseInv
  <1>8. BaseInv'
    BY <1>1, <1>3, <1>6, <1>7 DEF BaseInv, ReadsInv, PrefetchesInv
  <1>9. c = L2C
    BY <1>1, <1>3, Names
  <1> QED
    BY <1>1, <1>3, <1>5, <1>8, <1>9 DEF WritebackFillEffects

\* What a request that goes below is to the second level.
LEMMA BelowFields ==
    ASSUME NEW p \in Packet
    PROVE  LET x == Below(p)
           IN  /\ x \in Packet /\ LineIn(x) = LineIn(p) /\ x.who = {} /\ x.type = p.type
               /\ x.fill_level = p.fill_level /\ x.fill_l1i = p.fill_l1i /\ x.fill_l1d = p.fill_l1d
               /\ Forwards(L2C, x) <=> Forwards(L2C, p)
  <1>1. /\ Below(p) \in Packet /\ Below(p).addr = p.addr /\ Below(p).who = {}
        /\ Below(p).type = p.type /\ Below(p).fill_level = p.fill_level
        /\ Below(p).fill_l1i = p.fill_l1i /\ Below(p).fill_l1d = p.fill_l1d
    BY DEF Below, Packet
  <1>2. LineIn(Below(p)) = LineIn(p)
    BY <1>1 DEF LineIn
  <1>3. Forwards(L2C, Below(p)) <=> Forwards(L2C, p)
    BY <1>2, Names DEF Forwards, SamePlace
  <1> QED
    BY <1>1, <1>2, <1>3

\* What goes below is a read of L2C.
LEMMA BelowIsRead ==
    ASSUME NEW c \in L1, NEW p \in Packet, Demand(c, p)
    PROVE  ReadIn(L2C, Below(p))
  <1>1. /\ p.type \in {"LOAD", "RFO"} /\ p.fill_level = FILL_L1 /\ FlagLines(p) /\ Answerable(p)
    BY Names DEF Demand, ReadIn, StoreIn, OwnFlags, Answerable
  <1>2. /\ LineIn(Below(p)) = LineIn(p) /\ Below(p).who = {} /\ Below(p).type = p.type
        /\ Below(p).fill_level = p.fill_level
        /\ Below(p).fill_l1i = p.fill_l1i /\ Below(p).fill_l1d = p.fill_l1d
    BY BelowFields
  <1> QED
    BY <1>1, <1>2, Names DEF ReadIn, FlagLines, Answerable

\* A new miss of the first level; what L2C is writing back it answers at once.
Sends(c, p) ==
    /\ MSHR[c][LineIn(p)] = NONE
    /\ \E m : /\ Put(MSHR, m, c, LineIn(p), AsMiss(p, FALSE))
              /\ IF Forwards(L2C, p) THEN Delivered(m, MSHR', L2C, p) ELSE MSHR' = m

\* add_mshr adds the miss of p, for which there is room.
LEMMA AddMshr ==
    ASSUME Misses(MSHR), NEW c \in CacheName, NEW p \in Packet, NewMiss(c, p),
           MissIn(c, LineIn(p), AsMiss(p, FALSE))
    PROVE  /\ MSHR[c][LineIn(p)] = NONE
           /\ Put(MSHR, add_mshr(c, p), c, LineIn(p), AsMiss(p, FALSE))
           /\ Misses(add_mshr(c, p))
  <1> DEFINE l == LineIn(p)
             x == AsMiss(p, FALSE)
  <1>1. l \in Line /\ MSHR \in Table /\ x \in Miss \cup {NONE}
    BY PacketLine DEF Misses, MissIn
  <1>2. add_mshr(c, p) = [MSHR EXCEPT ![c][l] = x]
    BY DEF add_mshr
  <1> HIDE DEF l, x
  <1> DEFINE n == [MSHR EXCEPT ![c][l] = x]
  <1>3. Put(MSHR, add_mshr(c, p), c, l, x)
    <2>1. Put(MSHR, n, c, l, x)
      BY <1>1, PutEffect
    <2> HIDE DEF n
    <2> QED
      BY <1>2, <2>1 DEF n
  <1>4. MSHR[c][l] = NONE /\ Cardinality(Lines(MSHR[c])) < MSHR_SIZE[c]
    <2>1. MSHR[c][l] = NONE /\ ~(Cardinality(Lines(MSHR[c])) >= MSHR_SIZE[c])
      BY DEF NewMiss, MSHRFull, Lines, l
    <2>2. Cardinality(Lines(MSHR[c])) \in Nat /\ MSHR_SIZE[c] \in Nat
      BY LinesFinite, Sizes
    <2> QED
      BY <2>1, <2>2
  <1>5. MissIn(c, l, x)
    BY DEF l, x
  <1>6. Misses(add_mshr(c, p))
    BY <1>1, <1>3, <1>4, <1>5, PutMiss
  <1> QED
    BY <1>3, <1>4, <1>6 DEF l, x

\* A miss of the first level does that.
LEMMA SendMiss ==
    ASSUME Misses(MSHR), NEW c \in L1, NEW p \in Packet, NewMiss(c, p),
           MissIn(c, LineIn(p), AsMiss(p, FALSE)),
           MSHR' = IF Forwards(L2C, p) THEN Deliver(add_mshr(c, p), L2C, p) ELSE add_mshr(c, p)
    PROVE  Sends(c, p) /\ Misses(MSHR')
  <1> DEFINE m == add_mshr(c, p)
  <1>1. c \in CacheName /\ L2C \in CacheName
    BY Names
  <1>2. MSHR[c][LineIn(p)] = NONE /\ Put(MSHR, m, c, LineIn(p), AsMiss(p, FALSE)) /\ Misses(m)
    BY <1>1, AddMshr
  <1>3. MSHR' = IF Forwards(L2C, p) THEN Deliver(m, L2C, p) ELSE m
    OBVIOUS
  <1> HIDE DEF m
  <1>4. Delivered(m, Deliver(m, L2C, p), L2C, p)
    BY <1>1, <1>2, DeliverDelivers DEF Misses
  <1>5. Misses(Deliver(m, L2C, p))
    BY <1>2, <1>4, DeliverKeeps
  <1> QED
    BY <1>2, <1>3, <1>4, <1>5 DEF Sends

\* The read queues after a packet has gone below.
SentBelow(p) == RQ'[L2C] = add_rq(L2C, Below(p))

RFOMissEffects(p) ==
    /\ p \in Packet /\ StoreIn(p)
    /\ Popped(WQ, L1D) /\ Range(WQ[L1D]) = Range(WQ'[L1D]) \cup {p}
    /\ SentBelow(p) /\ \A d \in L1 : RQ'[d] = RQ[d]
    /\ Sends(L1D, p) /\ NewMiss(L1D, p) /\ ~Hit(L1D, LineIn(p))
    /\ unwritten' = Taken(LineIn(p), FALSE)
    /\ UNCHANGED <<block, PQ, asked>>

\* A store that misses in L1D has this effect.
LEMMA RFOMissEffect ==
    ASSUME BaseInv, NEW c \in CacheName, WQ[c] # <<>>, RFOMiss(c)
    PROVE  BaseInv' /\ RFOMissEffects(Head(WQ[c]))
  <1> DEFINE p == Head(WQ[c])
  <1>1. /\ c = L1D /\ NewMiss(c, p) /\ ~Hit(c, LineIn(p))
        /\ WQ' = [WQ EXCEPT ![c] = Tail(@)]
        /\ RQ' = [RQ EXCEPT ![L2C] = add_rq(L2C, Below(p))]
        /\ MSHR' = IF Forwards(L2C, p) THEN Deliver(add_mshr(c, p), L2C, p) ELSE add_mshr(c, p)
        /\ unwritten' = Taken(LineIn(p), FALSE)
        /\ UNCHANGED <<block, PQ, asked>>
    BY DEF RFOMiss
  <1>2. WritesInv /\ ReadsInv /\ Misses(MSHR)
    BY DEF BaseInv
  <1>3. /\ WritesInv' /\ Popped(WQ, c) /\ p \in Packet /\ StoreIn(p)
        /\ Range(WQ[c]) = Range(WQ'[c]) \cup {p}
    BY <1>1, <1>2, WritesPopped
  <1> HIDE DEF p
  <1>4. Demand(c, p) /\ LineIn(p) \in Line
    BY <1>1, <1>3, PacketLine DEF Demand
  <1>5. MissIn(c, LineIn(p), AsMiss(p, FALSE))
    BY <1>3, <1>4, DemandIsMiss
  <1>6. Sends(c, p) /\ Misses(MSHR')
    BY <1>1, <1>2, <1>3, <1>5, Names, SendMiss
  <1>7. ReadQ(L2C, add_rq(L2C, Below(p)))
    <2>1. Below(p) \in Packet /\ ReadIn(L2C, Below(p))
      BY <1>1, <1>3, <1>4, Names, BelowFields, BelowIsRead
    <2> QED
      BY <1>2, <2>1, Names, ReadAdd DEF ReadsInv
  <1>8. /\ DOMAIN RQ' = CacheName
        /\ \A d \in CacheName : RQ'[d] = IF d = L2C THEN add_rq(L2C, Below(p)) ELSE RQ[d]
    BY <1>1, <1>2 DEF ReadsInv
  <1>9. ReadsInv'
    BY <1>2, <1>7, <1>8 DEF ReadsInv
  <1>10. SentBelow(p) /\ \A d \in L1 : RQ'[d] = RQ[d]
    BY <1>8, Names DEF SentBelow
  <1>11. BlocksInv' /\ PrefetchesInv'
    BY <1>1 DEF BaseInv, BlocksInv, BlocksTyped, PrefetchesInv
  <1>12. BaseInv'
    <2>1. unwritten' \in SUBSET StoreTaken
      BY <1>1, <1>4, TakenTyped DEF BaseInv
    <2> QED
      BY <1>1, <1>3, <1>6, <1>9, <1>11, <2>1 DEF BaseInv
  <1> QED
    BY <1>1, <1>3, <1>6, <1>10, <1>12 DEF RFOMissEffects, p

\* p joins the miss of its line in c, by way of the merge that x comes from.
Meets(c, p, x) ==
    /\ MSHR[c][LineIn(p)] # NONE
    /\ MissIn(c, LineIn(p), MSHR[c][LineIn(p)])
    /\ Joins(c, MSHR[c][LineIn(p)], p, x)
    /\ Put(MSHR, MSHR', c, LineIn(p), x)

\* A miss that becomes another of its line is met,
LEMMA MeetMiss ==
    ASSUME Misses(MSHR), NEW c \in CacheName, NEW p \in Packet, MSHR[c][LineIn(p)] # NONE,
           NEW x, Joins(c, MSHR[c][LineIn(p)], p, x), MissIn(c, LineIn(p), x),
           MSHR' = [MSHR EXCEPT ![c][LineIn(p)] = x]
    PROVE  Meets(c, p, x) /\ Misses(MSHR')
  <1> DEFINE l == LineIn(p)
  <1>1. l \in Line /\ MSHR \in Table /\ x \in Miss \cup {NONE} /\ MissIn(c, l, MSHR[c][l])
    BY PacketLine DEF Misses, MissT, MissIn
  <1>2. Put(MSHR, MSHR', c, l, x)
    <2> HIDE DEF l
    <2>1. MSHR' = [MSHR EXCEPT ![c][l] = x]
      BY DEF l
    <2> DEFINE n == [MSHR EXCEPT ![c][l] = x]
    <2>2. Put(MSHR, n, c, l, x)
      BY <1>1, PutEffect
    <2> QED
      BY <2>1, <2>2
  <1>3. Misses(MSHR')
    BY <1>1, <1>2, PutMiss
  <1> QED
    BY <1>1, <1>2, <1>3 DEF Meets

\* as JoinMiss does it.
LEMMA DemandMeets ==
    ASSUME Misses(MSHR), NEW c \in CacheName, NEW p \in Packet, Demand(c, p),
           MSHR[c][LineIn(p)] # NONE, MSHR' = JoinMiss(c, p)
    PROVE  Meets(c, p, MergeMiss(MSHR[c][LineIn(p)], p)) /\ Misses(MSHR')
  <1> DEFINE miss == MSHR[c][LineIn(p)]
             x == MergeMiss(miss, p)
  <1>1. LineIn(p) \in Line
    BY PacketLine
  <1>2. MissIn(c, LineIn(p), miss)
    BY <1>1 DEF Misses, MissT
  <1>3. Joins(c, miss, p, x) /\ MissIn(c, LineIn(p), x)
    BY <1>2, DemandJoins
  <1>4. MSHR' = [MSHR EXCEPT ![c][LineIn(p)] = x]
    BY DEF JoinMiss
  <1> HIDE DEF x
  <1>5. Meets(c, p, x) /\ Misses(MSHR')
    BY <1>3, <1>4, MeetMiss
  <1> QED
    BY <1>5 DEF x

RFOMergedEffects(p) ==
    /\ p \in Packet /\ StoreIn(p)
    /\ Popped(WQ, L1D) /\ Range(WQ[L1D]) = Range(WQ'[L1D]) \cup {p}
    /\ Meets(L1D, p, MergeMiss(MSHR[L1D][LineIn(p)], p))
    /\ unwritten' = Taken(LineIn(p), MSHR[L1D][LineIn(p)].type = "LOAD")
    /\ UNCHANGED <<block, RQ, PQ, asked>>

\* A store that joins a miss has this effect.
LEMMA RFOMergedEffect ==
    ASSUME BaseInv, NEW c \in CacheName, WQ[c] # <<>>, RFOMerged(c)
    PROVE  BaseInv' /\ RFOMergedEffects(Head(WQ[c]))
  <1> DEFINE p == Head(WQ[c])
             miss == MSHR[c][LineIn(p)]
  <1>1. /\ c = L1D /\ miss # NONE
        /\ WQ' = [WQ EXCEPT ![c] = Tail(@)]
        /\ MSHR' = JoinMiss(c, p)
        /\ unwritten' = Taken(LineIn(p), miss.type = "LOAD")
        /\ UNCHANGED <<block, RQ, PQ, asked>>
    BY DEF RFOMerged
  <1>2. WritesInv /\ Misses(MSHR)
    BY DEF BaseInv
  <1>3. /\ WritesInv' /\ Popped(WQ, c) /\ p \in Packet /\ StoreIn(p)
        /\ Range(WQ[c]) = Range(WQ'[c]) \cup {p}
    BY <1>1, <1>2, WritesPopped
  <1> HIDE DEF p
  <1>4. Demand(c, p) /\ LineIn(p) \in Line
    BY <1>1, <1>3, PacketLine DEF Demand
  <1>5. Meets(c, p, MergeMiss(miss, p)) /\ Misses(MSHR')
    BY <1>1, <1>2, <1>3, <1>4, DemandMeets
  <1>6. unwritten' \in SUBSET StoreTaken
    BY <1>1, <1>4, TakenTyped DEF BaseInv
  <1>7. BlocksInv' /\ PrefetchesInv' /\ ReadsInv'
    BY <1>1 DEF BaseInv, BlocksInv, BlocksTyped, PrefetchesInv, ReadsInv
  <1>8. BaseInv'
    BY <1>1, <1>3, <1>5, <1>6, <1>7 DEF BaseInv
  <1> QED
    BY <1>1, <1>3, <1>5, <1>8 DEF RFOMergedEffects, p

-----------------------------------------------------------------------------
(* handle_read and handle_prefetch.                                        *)

\* p is at the head of q, and the rest lacks its line.
HeadOf(q, p) ==
    /\ q # <<>> /\ p = Head(q) /\ p \in Packet
    /\ Range(q) = Range(Tail(q)) \cup {p}
    /\ \A x \in Range(Tail(q)) : LineIn(x) # LineIn(p)

\* The head of a read queue may leave it, while L2C is sent a read.
LEMMA ReadsPopped ==
    ASSUME ReadsInv, NEW c \in CacheName, RQ[c] # <<>>
    PROVE  LET p == Head(RQ[c])
           IN  /\ p \in Packet /\ ReadIn(c, p) /\ HeadOf(RQ[c], p)
               /\ RQ' = [RQ EXCEPT ![c] = Tail(@)] => ReadsInv' /\ Popped(RQ, c)
               /\ c \in L1 /\ RQ' = [RQ EXCEPT ![c] = Tail(@), ![L2C] = add_rq(L2C, Below(p))]
                    => /\ ReadsInv' /\ SentBelow(p) /\ RQ'[c] = Tail(RQ[c])
                       /\ \A d \in L1 : d # c => RQ'[d] = RQ[d]
  <1> DEFINE p == Head(RQ[c])
  <1>1. ReadQ(c, RQ[c]) /\ DOMAIN RQ = CacheName
    BY DEF ReadsInv
  <1>2. /\ p \in Packet /\ ReadIn(c, p) /\ ReadQ(c, Tail(RQ[c])) /\ HeadOf(RQ[c], p)
    BY <1>1, ReadPop DEF HeadOf
  <1>3. ASSUME RQ' = [RQ EXCEPT ![c] = Tail(@)] PROVE ReadsInv' /\ Popped(RQ, c)
    <2>1. /\ DOMAIN RQ' = CacheName
          /\ \A d \in CacheName : RQ'[d] = IF d = c THEN Tail(RQ[c]) ELSE RQ[d]
      BY <1>1, <1>3
    <2>2. ReadsInv'
      BY <1>2, <2>1 DEF ReadsInv
    <2> QED
      BY <2>1, <2>2 DEF Popped
  <1>4. ASSUME c \in L1, RQ' = [RQ EXCEPT ![c] = Tail(@), ![L2C] = add_rq(L2C, Below(p))]
        PROVE  /\ ReadsInv' /\ SentBelow(p) /\ RQ'[c] = Tail(RQ[c])
               /\ \A d \in L1 : d # c => RQ'[d] = RQ[d]
    <2> DEFINE q2 == add_rq(L2C, Below(p))
    <2>1. Below(p) \in Packet /\ ReadIn(L2C, Below(p))
      BY <1>2, <1>4, BelowFields, BelowIsRead DEF Demand
    <2>2. ReadQ(L2C, q2)
      BY <2>1, Names, ReadAdd DEF ReadsInv
    <2>3. /\ DOMAIN RQ' = CacheName
          /\ \A d \in CacheName :
               RQ'[d] = IF d = c THEN Tail(RQ[c]) ELSE IF d = L2C THEN q2 ELSE RQ[d]
      BY <1>1, <1>4, Names
    <2> HIDE DEF q2
    <2>4. ReadsInv'
      BY <1>2, <2>2, <2>3 DEF ReadsInv
    <2>5. RQ'[L2C] = q2 /\ RQ'[c] = Tail(RQ[c]) /\ \A d \in L1 : d # c => RQ'[d] = RQ[d]
      BY <1>4, <2>3, Names
    <2> QED
      BY <2>4, <2>5 DEF SentBelow, q2
  <1> QED
    BY <1>2, <1>3, <1>4

\* What the steps of handle_read do.
ReadHitEffects(c, p) ==
    /\ ReadIn(c, p) /\ HeadOf(RQ[c], p) /\ Popped(RQ, c)
    /\ Hit(c, LineIn(p)) /\ Touched(c, LineIn(p), FALSE)
    /\ Delivered(MSHR, MSHR', c, p)
    /\ asked' = Complete(p)
    /\ UNCHANGED <<WQ, PQ, unwritten>>

\* A read that hits has this effect,
LEMMA ReadHitEffect ==
    ASSUME BaseInv, NEW c \in CacheName, RQ[c] # <<>>, ReadHit(c)
    PROVE  BaseInv' /\ ReadHitEffects(c, Head(RQ[c]))
  <1> DEFINE p == Head(RQ[c])
             l == LineIn(p)
  <1>1. /\ Hit(c, l)
        /\ block' = [block EXCEPT ![c][SetOf[c][l]] =
                       update_replacement_state(@, check_hit(c, l), p.type)]
        /\ asked' = Complete(p)
        /\ MSHR' = Deliver(MSHR, c, p)
        /\ RQ' = [RQ EXCEPT ![c] = Tail(@)]
        /\ UNCHANGED <<WQ, PQ, unwritten>>
    BY DEF ReadHit
  <1>2. /\ BlocksInv /\ BlocksTyped /\ ReadsInv /\ Misses(MSHR) /\ MSHR \in Table
    BY DEF BaseInv, BlocksInv, Misses
  <1>3. p \in Packet /\ ReadIn(c, p) /\ HeadOf(RQ[c], p) /\ ReadsInv' /\ Popped(RQ, c)
    BY <1>1, <1>2, ReadsPopped
  <1>4. l \in Line
    BY <1>3, PacketLine
  <1>5. Touched(c, l, FALSE)
    <2> HIDE DEF p, l
    <2> QED
      BY <1>1, <1>2, <1>4, ReadTouches
  <1> HIDE DEF p
  <1>6. BlocksInv'
    BY <1>1, <1>2, <1>4, <1>5, TouchedKeeps
  <1>7. Delivered(MSHR, MSHR', c, p)
    BY <1>1, <1>2, <1>3, DeliverDelivers
  <1>8. Misses(MSHR')
    BY <1>2, <1>7, DeliverKeeps
  <1>9. asked' \in [Requester -> Addr \cup {NONE}]
    BY <1>1, CompleteTyped
  <1>10. BaseInv'
    BY <1>1, <1>3, <1>6, <1>8, <1>9 DEF BaseInv, WritesInv, PrefetchesInv
  <1> QED
    BY <1>1, <1>3, <1>5, <1>7, <1>10 DEF ReadHitEffects, p

ReadMissEffects(c, p) ==
    /\ p \in Packet /\ ReadIn(c, p) /\ HeadOf(RQ[c], p) /\ ~Hit(c, LineIn(p)) /\ NewMiss(c, p)
    /\ IF c \in L1
       THEN /\ SentBelow(p) /\ RQ'[c] = Tail(RQ[c])
            /\ \A d \in L1 : d # c => RQ'[d] = RQ[d]
            /\ Sends(c, p)
       ELSE Popped(RQ, c) /\ Put(MSHR, MSHR', c, LineIn(p), AsMiss(p, FALSE))
    /\ UNCHANGED <<block, WQ, PQ, asked, unwritten>>

\* one that misses this one,
LEMMA ReadMissEffect ==
    ASSUME BaseInv, NEW c \in CacheName, RQ[c] # <<>>, ReadMiss(c)
    PROVE  BaseInv' /\ ReadMissEffects(c, Head(RQ[c]))
  <1> DEFINE p == Head(RQ[c])
  <1>1. /\ ~Hit(c, LineIn(p)) /\ NewMiss(c, p)
        /\ UNCHANGED <<block, WQ, PQ, asked, unwritten>>
    BY DEF ReadMiss
  <1>2. ReadsInv /\ Misses(MSHR)
    BY DEF BaseInv
  <1>3. p \in Packet /\ ReadIn(c, p) /\ HeadOf(RQ[c], p)
    BY <1>2, ReadsPopped
  <1>4. BlocksInv' /\ PrefetchesInv' /\ WritesInv'
    BY <1>1 DEF BaseInv, BlocksInv, BlocksTyped, PrefetchesInv, WritesInv
  <1>5. MissIn(c, LineIn(p), AsMiss(p, FALSE))
    <2>1. Demand(c, p)
      BY <1>3 DEF Demand
    <2> HIDE DEF p
    <2> QED
      BY <1>3, <2>1, DemandIsMiss
  <1>6. CASE c \in L1
    <2>1. /\ RQ' = [RQ EXCEPT ![c] = Tail(@), ![L2C] = add_rq(L2C, Below(p))]
          /\ MSHR' = IF Forwards(L2C, p) THEN Deliver(add_mshr(c, p), L2C, p) ELSE add_mshr(c, p)
      BY <1>6 DEF ReadMiss
    <2>2. /\ ReadsInv' /\ SentBelow(p) /\ RQ'[c] = Tail(RQ[c])
          /\ \A d \in L1 : d # c => RQ'[d] = RQ[d]
      BY <1>2, <1>6, <2>1, ReadsPopped
    <2> HIDE DEF p
    <2>3. Sends(c, p) /\ Misses(MSHR')
      BY <1>1, <1>2, <1>3, <1>5, <1>6, <2>1, SendMiss
    <2>4. BaseInv'
      BY <1>1, <1>4, <2>2, <2>3 DEF BaseInv
    <2> QED
      BY <1>1, <1>3, <1>6, <2>2, <2>3, <2>4 DEF ReadMissEffects, p
  <1>7. CASE c \notin L1
    <2>1. RQ' = [RQ EXCEPT ![c] = Tail(@)] /\ MSHR' = add_mshr(c, p)
      BY <1>7 DEF ReadMiss
    <2>2. ReadsInv' /\ Popped(RQ, c)
      BY <1>2, <2>1, ReadsPopped
    <2> HIDE DEF p
    <2>3. Put(MSHR, MSHR', c, LineIn(p), AsMiss(p, FALSE)) /\ Misses(MSHR')
      BY <1>1, <1>2, <1>3, <1>5, <2>1, AddMshr
    <2>4. BaseInv'
      BY <1>1, <1>4, <2>2, <2>3 DEF BaseInv
    <2> QED
      BY <1>1, <1>3, <1>7, <2>2, <2>3, <2>4 DEF ReadMissEffects, p
  <1> QED
    BY <1>6, <1>7

ReadMergedEffects(c, p) ==
    /\ p \in Packet /\ ReadIn(c, p) /\ HeadOf(RQ[c], p) /\ ~Hit(c, LineIn(p)) /\ Popped(RQ, c)
    /\ Meets(c, p, MergeMiss(MSHR[c][LineIn(p)], p))
    /\ UNCHANGED <<block, WQ, PQ, asked, unwritten>>

\* and one that joins a miss this one.
LEMMA ReadMergedEffect ==
    ASSUME BaseInv, NEW c \in CacheName, RQ[c] # <<>>, ReadMerged(c)
    PROVE  BaseInv' /\ ReadMergedEffects(c, Head(RQ[c]))
  <1> DEFINE p == Head(RQ[c])
  <1>1. /\ ~Hit(c, LineIn(p)) /\ MSHR[c][LineIn(p)] # NONE
        /\ MSHR' = JoinMiss(c, p)
        /\ RQ' = [RQ EXCEPT ![c] = Tail(@)]
        /\ UNCHANGED <<block, WQ, PQ, asked, unwritten>>
    BY DEF ReadMerged
  <1>2. ReadsInv /\ Misses(MSHR)
    BY DEF BaseInv
  <1>3. p \in Packet /\ ReadIn(c, p) /\ HeadOf(RQ[c], p) /\ ReadsInv' /\ Popped(RQ, c)
    BY <1>1, <1>2, ReadsPopped
  <1>4. BlocksInv' /\ PrefetchesInv' /\ WritesInv'
    BY <1>1 DEF BaseInv, BlocksInv, BlocksTyped, PrefetchesInv, WritesInv
  <1> HIDE DEF p
  <1>5. Meets(c, p, MergeMiss(MSHR[c][LineIn(p)], p)) /\ Misses(MSHR')
    BY <1>1, <1>2, <1>3, DemandMeets DEF Demand
  <1>6. BaseInv'
    BY <1>1, <1>3, <1>4, <1>5 DEF BaseInv
  <1> QED
    BY <1>1, <1>3, <1>5, <1>6 DEF ReadMergedEffects, p

\* The head of a prefetch queue may leave it, for that of L2C too.
LEMMA PrefetchesPopped ==
    ASSUME PrefetchesInv, NEW c \in CacheName, PQ[c] # <<>>
    PROVE  LET p == Head(PQ[c])
           IN  /\ p \in Packet /\ PrefetchIn(c, p) /\ HeadOf(PQ[c], p)
               /\ PQ' = [PQ EXCEPT ![c] = Tail(@)] => PrefetchesInv' /\ Popped(PQ, c)
               /\ c \in L1 /\ PQ' = [PQ EXCEPT ![c] = Tail(@), ![L2C] = add_pq(L2C, p)]
                    => /\ PrefetchesInv' /\ PQ'[L2C] = add_pq(L2C, p) /\ PQ'[c] = Tail(PQ[c])
                       /\ \A d \in L1 : d # c => PQ'[d] = PQ[d]
  <1> DEFINE p == Head(PQ[c])
  <1>1. PrefetchQ(c, PQ[c]) /\ DOMAIN PQ = CacheName
    BY DEF PrefetchesInv
  <1>2. /\ p \in Packet /\ PrefetchIn(c, p) /\ PrefetchQ(c, Tail(PQ[c])) /\ HeadOf(PQ[c], p)
    BY <1>1, PrefetchPop DEF HeadOf
  <1>3. ASSUME PQ' = [PQ EXCEPT ![c] = Tail(@)] PROVE PrefetchesInv' /\ Popped(PQ, c)
    <2>1. /\ DOMAIN PQ' = CacheName
          /\ \A d \in CacheName : PQ'[d] = IF d = c THEN Tail(PQ[c]) ELSE PQ[d]
      BY <1>1, <1>3
    <2>2. PrefetchesInv'
      BY <1>2, <2>1 DEF PrefetchesInv
    <2> QED
      BY <2>1, <2>2 DEF Popped
  <1>4. ASSUME c \in L1, PQ' = [PQ EXCEPT ![c] = Tail(@), ![L2C] = add_pq(L2C, p)]
        PROVE  /\ PrefetchesInv' /\ PQ'[L2C] = add_pq(L2C, p) /\ PQ'[c] = Tail(PQ[c])
               /\ \A d \in L1 : d # c => PQ'[d] = PQ[d]
    <2> DEFINE q2 == add_pq(L2C, p)
    <2>1. PrefetchIn(L2C, p)
      BY <1>2, Names DEF PrefetchIn
    <2>2. PrefetchQ(L2C, q2)
      BY <1>2, <2>1, Names, PrefetchAdd DEF PrefetchesInv
    <2>3. /\ DOMAIN PQ' = CacheName
          /\ \A d \in CacheName :
               PQ'[d] = IF d = c THEN Tail(PQ[c]) ELSE IF d = L2C THEN q2 ELSE PQ[d]
      BY <1>1, <1>4, Names
    <2> HIDE DEF q2
    <2>4. PrefetchesInv'
      BY <1>2, <2>2, <2>3 DEF PrefetchesInv
    <2>5. PQ'[L2C] = q2 /\ PQ'[c] = Tail(PQ[c]) /\ \A d \in L1 : d # c => PQ'[d] = PQ[d]
      BY <1>4, <2>3, Names
    <2> QED
      BY <2>4, <2>5 DEF q2
  <1> QED
    BY <1>2, <1>3, <1>4

\* What the steps of handle_prefetch do.
PrefetchHitEffects(c, p) ==
    /\ p \in Packet /\ PrefetchIn(c, p) /\ HeadOf(PQ[c], p) /\ Popped(PQ, c)
    /\ Hit(c, LineIn(p)) /\ Touched(c, LineIn(p), FALSE)
    /\ Delivered(MSHR, MSHR', c, p)
    /\ UNCHANGED <<RQ, WQ, asked, unwritten>>

\* A prefetch that hits has this effect,
LEMMA PrefetchHitEffect ==
    ASSUME BaseInv, NEW c \in CacheName, PQ[c] # <<>>, PrefetchHit(c)
    PROVE  BaseInv' /\ PrefetchHitEffects(c, Head(PQ[c]))
  <1> DEFINE p == Head(PQ[c])
             l == LineIn(p)
  <1>1. /\ Hit(c, l)
        /\ block' = [block EXCEPT ![c][SetOf[c][l]] =
                       update_replacement_state(@, check_hit(c, l), p.type)]
        /\ MSHR' = Deliver(MSHR, c, p)
        /\ PQ' = [PQ EXCEPT ![c] = Tail(@)]
        /\ UNCHANGED <<RQ, WQ, asked, unwritten>>
    BY DEF PrefetchHit
  <1>2. /\ BlocksInv /\ BlocksTyped /\ PrefetchesInv /\ Misses(MSHR) /\ MSHR \in Table
    BY DEF BaseInv, BlocksInv, Misses
  <1>3. p \in Packet /\ PrefetchIn(c, p) /\ HeadOf(PQ[c], p) /\ PrefetchesInv' /\ Popped(PQ, c)
    BY <1>1, <1>2, PrefetchesPopped
  <1>4. l \in Line
    BY <1>3, PacketLine
  <1>5. Touched(c, l, FALSE)
    <2> HIDE DEF p, l
    <2> QED
      BY <1>1, <1>2, <1>4, ReadTouches
  <1> HIDE DEF p
  <1>6. BlocksInv'
    BY <1>1, <1>2, <1>4, <1>5, TouchedKeeps
  <1>7. Delivered(MSHR, MSHR', c, p)
    BY <1>1, <1>2, <1>3, DeliverDelivers
  <1>8. Misses(MSHR')
    BY <1>2, <1>7, DeliverKeeps
  <1>10. BaseInv'
    BY <1>1, <1>3, <1>6, <1>8 DEF BaseInv, WritesInv, ReadsInv
  <1> QED
    BY <1>1, <1>3, <1>5, <1>7, <1>10 DEF PrefetchHitEffects, p

PrefetchMissEffects(c, p) ==
    /\ p \in Packet /\ PrefetchIn(c, p) /\ HeadOf(PQ[c], p) /\ ~Hit(c, LineIn(p)) /\ NewMiss(c, p)
    /\ IF c \in L1
       THEN /\ Room(L2C, PQ, PQ_SIZE)
            /\ PQ'[L2C] = add_pq(L2C, p) /\ PQ'[c] = Tail(PQ[c])
            /\ \A d \in L1 : d # c => PQ'[d] = PQ[d]
            /\ IF p.fill_level = FILL_L1 THEN Sends(c, p) ELSE MSHR' = MSHR
       ELSE /\ Popped(PQ, c)
            /\ IF p.fill_level <= fill_level[c]
               THEN Put(MSHR, MSHR', c, LineIn(p), AsMiss(p, FALSE)) ELSE MSHR' = MSHR
    /\ UNCHANGED <<block, RQ, WQ, asked, unwritten>>

\* one that misses this one,
LEMMA PrefetchMissEffect ==
    ASSUME BaseInv, NEW c \in CacheName, PQ[c] # <<>>, PrefetchMiss(c)
    PROVE  BaseInv' /\ PrefetchMissEffects(c, Head(PQ[c]))
  <1> DEFINE p == Head(PQ[c])
             m == IF p.fill_level <= fill_level[c] THEN add_mshr(c, p) ELSE MSHR
  <1>1. /\ ~Hit(c, LineIn(p)) /\ NewMiss(c, p)
        /\ UNCHANGED <<block, RQ, WQ, asked, unwritten>>
    BY DEF PrefetchMiss
  <1>2. PrefetchesInv /\ Misses(MSHR)
    BY DEF BaseInv
  <1>3. p \in Packet /\ PrefetchIn(c, p) /\ HeadOf(PQ[c], p)
    BY <1>2, PrefetchesPopped
  <1>4. BlocksInv' /\ ReadsInv' /\ WritesInv'
    BY <1>1 DEF BaseInv, BlocksInv, BlocksTyped, ReadsInv, WritesInv
  <1>5. ASSUME p.fill_level <= fill_level[c] PROVE MissIn(c, LineIn(p), AsMiss(p, FALSE))
    <2> HIDE DEF p
    <2> QED
      BY <1>3, <1>5, PrefetchIsMiss
  <1>6. CASE c \in L1
    <2>1. /\ Room(L2C, PQ, PQ_SIZE)
          /\ PQ' = [PQ EXCEPT ![c] = Tail(@), ![L2C] = add_pq(L2C, p)]
          /\ MSHR' = IF Forwards(L2C, p) THEN Deliver(m, L2C, p) ELSE m
      BY <1>6 DEF PrefetchMiss
    <2>2. /\ PrefetchesInv' /\ PQ'[L2C] = add_pq(L2C, p) /\ PQ'[c] = Tail(PQ[c])
          /\ \A d \in L1 : d # c => PQ'[d] = PQ[d]
      BY <1>2, <1>6, <2>1, PrefetchesPopped
    <2> HIDE DEF p
    <2>3. /\ p.fill_level <= fill_level[c] <=> p.fill_level = FILL_L1
          /\ p.fill_level # FILL_L1 => p.fill_level >= fill_level[L2C]
      <3>1. fill_level[c] = 1 /\ fill_level[L2C] = 2 /\ p.fill_level \in {1, 2, 4}
        BY <1>3, <1>6, Names DEF Packet, FILL_L1, FILL_L2, FILL_LLC
      <3> QED
        BY <3>1 DEF FILL_L1
    <2>4. (IF p.fill_level = FILL_L1 THEN Sends(c, p) ELSE MSHR' = MSHR) /\ Misses(MSHR')
      <3>1. CASE p.fill_level = FILL_L1
        <4>1. MSHR' = IF Forwards(L2C, p) THEN Deliver(add_mshr(c, p), L2C, p) ELSE add_mshr(c, p)
          BY <2>1, <2>3, <3>1
        <4>2. MissIn(c, LineIn(p), AsMiss(p, FALSE))
          BY <1>5, <2>3, <3>1 DEF p
        <4>3. Sends(c, p) /\ Misses(MSHR')
          BY <1>1, <1>2, <1>3, <1>6, <4>1, <4>2, SendMiss
        <4> QED
          BY <3>1, <4>3
      <3>2. CASE p.fill_level # FILL_L1
        <4>1. MSHR' = IF Forwards(L2C, p) THEN Deliver(MSHR, L2C, p) ELSE MSHR
          BY <2>1, <2>3, <3>2
        <4>2. Deliver(MSHR, L2C, p) = MSHR
          BY <2>3, <3>2 DEF Deliver
        <4> QED
          BY <1>2, <3>2, <4>1, <4>2
      <3> QED
        BY <3>1, <3>2
    <2>5. BaseInv'
      BY <1>1, <1>4, <2>2, <2>4 DEF BaseInv
    <2> QED
      BY <1>1, <1>3, <1>6, <2>1, <2>2, <2>4, <2>5 DEF PrefetchMissEffects, p
  <1>7. CASE c \notin L1
    <2>1. PQ' = [PQ EXCEPT ![c] = Tail(@)] /\ MSHR' = m
      BY <1>7 DEF PrefetchMiss
    <2>2. PrefetchesInv' /\ Popped(PQ, c)
      BY <1>2, <2>1, PrefetchesPopped
    <2> HIDE DEF p
    <2>3. /\ IF p.fill_level <= fill_level[c]
             THEN Put(MSHR, MSHR', c, LineIn(p), AsMiss(p, FALSE)) ELSE MSHR' = MSHR
          /\ Misses(MSHR')
      <3>1. CASE p.fill_level <= fill_level[c]
        <4>1. MSHR' = add_mshr(c, p)
          BY <2>1, <3>1
        <4>2. Put(MSHR, MSHR', c, LineIn(p), AsMiss(p, FALSE)) /\ Misses(MSHR')
          BY <1>1, <1>2, <1>3, <1>5, <3>1, <4>1, AddMshr DEF p
        <4> QED
          BY <3>1, <4>2
      <3>2. CASE ~(p.fill_level <= fill_level[c])
        BY <1>2, <2>1, <3>2
      <3> QED
        BY <3>1, <3>2
    <2>4. BaseInv'
      BY <1>1, <1>4, <2>2, <2>3 DEF BaseInv
    <2> QED
      BY <1>1, <1>3, <1>7, <2>2, <2>3, <2>4 DEF PrefetchMissEffects, p
  <1> QED
    BY <1>6, <1>7

PrefetchMergedEffects(c, p) ==
    /\ p \in Packet /\ PrefetchIn(c, p) /\ HeadOf(PQ[c], p) /\ ~Hit(c, LineIn(p)) /\ Popped(PQ, c)
    /\ Meets(c, p, MergeLevel(MSHR[c][LineIn(p)], p))
    /\ UNCHANGED <<block, RQ, WQ, asked, unwritten>>

\* and one that joins a miss this one.
LEMMA PrefetchMergedEffect ==
    ASSUME BaseInv, NEW c \in CacheName, PQ[c] # <<>>, PrefetchMerged(c)
    PROVE  BaseInv' /\ PrefetchMergedEffects(c, Head(PQ[c]))
  <1> DEFINE p == Head(PQ[c])
             miss == MSHR[c][LineIn(p)]
             x == MergeLevel(miss, p)
  <1>1. /\ ~Hit(c, LineIn(p)) /\ MSHR[c][LineIn(p)] # NONE
        /\ MSHR' = [MSHR EXCEPT ![c][LineIn(p)] = x]
        /\ PQ' = [PQ EXCEPT ![c] = Tail(@)]
        /\ UNCHANGED <<block, RQ, WQ, asked, unwritten>>
    BY DEF PrefetchMerged
  <1>2. PrefetchesInv /\ Misses(MSHR)
    BY DEF BaseInv
  <1>3. p \in Packet /\ PrefetchIn(c, p) /\ HeadOf(PQ[c], p) /\ PrefetchesInv' /\ Popped(PQ, c)
    BY <1>1, <1>2, PrefetchesPopped
  <1>4. BlocksInv' /\ ReadsInv' /\ WritesInv'
    BY <1>1 DEF BaseInv, BlocksInv, BlocksTyped, ReadsInv, WritesInv
  <1> HIDE DEF p
  <1>5. MissIn(c, LineIn(p), miss)
    BY <1>1, <1>2, <1>3, PacketLine DEF Misses, MissT
  <1>6. Joins(c, miss, p, x) /\ MissIn(c, LineIn(p), x)
    BY <1>3, <1>5, PrefetchJoins
  <1> HIDE DEF x
  <1>7. Meets(c, p, x) /\ Misses(MSHR')
    BY <1>1, <1>2, <1>3, <1>6, MeetMiss
  <1>8. BaseInv'
    BY <1>1, <1>3, <1>4, <1>7 DEF BaseInv
  <1> QED
    BY <1>1, <1>3, <1>7, <1>8 DEF PrefetchMergedEffects, p, x

-----------------------------------------------------------------------------
(* The steps of the environment.                                           *)

\* A fetch or a load asks: a read of its own joins the queue.
AskEffects(c, r, addr, p) ==
    /\ c \in L1 /\ c = CacheOf(r) /\ p \in Packet /\ ReadIn(c, p) /\ p.who = {r}
    /\ LineIn(p) = LineOf[addr]
    /\ Joined(RQ[c], RQ'[c], p, WithFlags(p))
    /\ \A d \in CacheName : d # c => RQ'[d] = RQ[d]
    /\ addr \in Addr /\ asked[r] = NONE /\ asked' = [asked EXCEPT ![r] = addr]
    /\ UNCHANGED <<block, WQ, PQ, MSHR, unwritten>>

\* A fetch or a load that asks has this effect,
LEMMA AskEffect ==
    ASSUME BaseInv, NEW r, NEW addr,
           (r \in Fetch /\ addr \in FetchAddr) \/ (r \in Load /\ addr \in LoadAddr),
           Ask(r, addr)
    PROVE  BaseInv' /\ \E p : AskEffects(CacheOf(r), r, addr, p)
  <1> DEFINE c == CacheOf(r)
             p == [addr |-> addr, type |-> "LOAD", fill_level |-> FILL_L1,
                   fill_l1i |-> c = L1I, fill_l1d |-> c = L1D, who |-> {r}]
  <1>1. /\ asked[r] = NONE /\ ~Forwards(c, p)
        /\ InQueue(RQ[c], p) \/ Room(c, RQ, RQ_SIZE)
        /\ RQ' = [RQ EXCEPT ![c] = add_rq(c, p)]
        /\ asked' = [asked EXCEPT ![r] = addr]
        /\ UNCHANGED <<block, WQ, PQ, MSHR, unwritten>>
    BY DEF Ask
  <1>2. r \in Requester /\ addr \in Addr /\ c \in L1 /\ c \in CacheName
    BY Names DEF Requester, Addr, CacheOf
  <1>3. IF c = L1I THEN LineOf[addr] \in CodeLines ELSE LineOf[addr] \in DataLines
    BY CacheAssumption, Names DEF CacheOf, CodeLines, DataLines
  <1> HIDE DEF c
  <1>4. p \in Packet /\ p.who = {r} /\ p.type = "LOAD" /\ p.fill_level = FILL_L1
        /\ (p.fill_l1i <=> c = L1I) /\ (p.fill_l1d <=> c = L1D) /\ p.addr = addr
    BY <1>2 DEF Packet, Type
  <1> HIDE DEF p
  <1>5. FlagLines(p) /\ Answerable(p) /\ OwnFlags(c, p)
    BY <1>2, <1>3, <1>4, Names DEF FlagLines, Answerable, OwnFlags, LineIn
  <1>6. ReadIn(c, p)
    BY <1>2, <1>4, <1>5 DEF ReadIn, Own, c
  <1>7. ReadsInv /\ ReadQ(c, RQ[c])
    BY <1>2 DEF BaseInv, ReadsInv
  <1>8. /\ ReadQ(c, add_rq(c, p))
        /\ Joined(RQ[c], add_rq(c, p), p, WithFlags(p))
    <2>1. RQ[c] \in Seq(Packet) /\ NoRepeats(RQ[c]) /\ Len(RQ[c]) <= RQ_SIZE[c]
      BY <1>7 DEF ReadQ
    <2>2. ReadQ(c, add_rq(c, p))
      BY <1>2, <1>4, <1>6, <1>7, ReadAdd
    <2>3. Joined(RQ[c], add_rq(c, p), p, WithFlags(p))
      BY <1>1, <1>2, <1>4, <2>1, AddRq
    <2> QED
      BY <2>2, <2>3
  <1> DEFINE q2 == add_rq(c, p)
  <1>9. /\ DOMAIN RQ' = CacheName
        /\ \A d \in CacheName : RQ'[d] = IF d = c THEN q2 ELSE RQ[d]
    BY <1>1, <1>2, <1>7 DEF ReadsInv
  <1>10. ReadsInv'
    BY <1>7, <1>8, <1>9 DEF ReadsInv
  <1>11. asked' \in [Requester -> Addr \cup {NONE}]
    BY <1>1, <1>2 DEF BaseInv
  <1>12. BaseInv'
    BY <1>1, <1>10, <1>11 DEF BaseInv, BlocksInv, BlocksTyped, WritesInv, PrefetchesInv
  <1>13. AskEffects(c, r, addr, p)
    BY <1>1, <1>2, <1>4, <1>6, <1>8, <1>9 DEF AskEffects, LineIn, c
  <1> QED
    BY <1>12, <1>13 DEF c

\* A store that retires enters the write queue of L1D.
StoreEffects ==
    /\ \A d \in CacheName : d # L1D => WQ'[d] = WQ[d]
    /\ UNCHANGED <<block, RQ, PQ, MSHR, asked, unwritten>>

\* a store that retires this one,
LEMMA StoreEffect ==
    ASSUME BaseInv, NEW addr \in StoreAddr, Store(addr)
    PROVE  BaseInv' /\ StoreEffects
  <1> DEFINE p == [addr |-> addr, type |-> "RFO", fill_level |-> FILL_L1,
                   fill_l1i |-> FALSE, fill_l1d |-> TRUE, who |-> {}]
  <1>1. /\ Room(L1D, WQ, WQ_SIZE)
        /\ WQ' = [WQ EXCEPT ![L1D] = add_wq(L1D, p)]
        /\ UNCHANGED <<block, RQ, PQ, MSHR, asked, unwritten>>
    BY DEF Store
  <1>2. /\ p \in Packet /\ p.type = "RFO" /\ p.fill_level = FILL_L1 /\ p.who = {}
        /\ ~p.fill_l1i /\ p.fill_l1d /\ p.addr = addr /\ addr \in Addr
    BY DEF Packet, Type, Addr
  <1>3. LineOf[addr] \in DataLines /\ LineOf[addr] \in StoreLines
    BY DEF DataLines, StoreLines
  <1> HIDE DEF p
  <1>4. StoreIn(p)
    BY <1>2, <1>3, Names DEF StoreIn, FlagLines, OwnFlags, LineIn
  <1>5. WritesInv /\ WriteQ(L1D, WQ[L1D])
    BY Names DEF BaseInv, WritesInv
  <1> DEFINE q2 == add_wq(L1D, p)
  <1>6. /\ q2 \in Seq(Packet) /\ Len(q2) <= WQ_SIZE[L1D]
        /\ Range(q2) \subseteq Range(WQ[L1D]) \cup {p}
    BY <1>1, <1>2, <1>5, Names, AddWq DEF WriteQ
  <1>7. /\ DOMAIN WQ' = CacheName
        /\ \A d \in CacheName : WQ'[d] = IF d = L1D THEN q2 ELSE WQ[d]
    BY <1>1, <1>5 DEF WritesInv
  <1> HIDE DEF q2
  <1>8. WriteQ(L1D, q2)
    BY <1>4, <1>5, <1>6, Names DEF WriteQ
  <1>9. WritesInv'
    BY <1>5, <1>7, <1>8 DEF WritesInv
  <1>10. BaseInv'
    BY <1>1, <1>9 DEF BaseInv, BlocksInv, BlocksTyped, ReadsInv, PrefetchesInv
  <1> QED
    BY <1>1, <1>7, <1>10 DEF StoreEffects

\* A prefetcher asks for a line.
PrefetchLineEffects(c, p) ==
    /\ c \in CacheName /\ p \in Packet /\ PrefetchIn(c, p)
    /\ c = L2C => ~p.fill_l1i /\ ~p.fill_l1d
    /\ PQ'[c] = add_pq(c, p) /\ ~Forwards(c, p) /\ Room(c, PQ, PQ_SIZE)
    /\ \A d \in CacheName : d # c => PQ'[d] = PQ[d]
    /\ UNCHANGED <<block, RQ, WQ, MSHR, asked, unwritten>>

\* a prefetcher that asks this one,
LEMMA PrefetchLineEffect ==
    ASSUME BaseInv, NEW c \in CacheName, NEW pf \in PrefetchOf[c], prefetch_line(c, pf[1], pf[2])
    PROVE  BaseInv' /\ \E p : PrefetchLineEffects(c, p)
  <1> DEFINE a == pf[1]
             n == pf[2]
  <1>1. a \in Addr /\ n \in {FILL_L1, FILL_L2, FILL_LLC}
    <2>1. PrefetchOf[c] \in SUBSET (Addr \X {FILL_L1, FILL_L2, FILL_LLC})
      BY CacheAssumption
    <2> QED
      BY <2>1
  <1>2. /\ c = L1I => n = FILL_L1 /\ LineOf[a] \in CodeLines
        /\ c = L1D => LineOf[a] \in DataLines
        /\ c = L2C => n # FILL_L1
        /\ LineOf[a] \in PrefetchLines(c)
        /\ c = L2C \/ (c = L1D /\ n # FILL_L1) => LineOf[a] \in AskedForAside
    <2>1. pf \in PrefetchOf[c] /\ a = pf[1] /\ n = pf[2]
      OBVIOUS
    <2> HIDE DEF a, n
    <2>2. /\ c = L1I => n = FILL_L1 /\ LineOf[a] \in CodeLines
          /\ c = L1D => LineOf[a] \in DataLines
          /\ c = L2C => n # FILL_L1
          /\ LineOf[a] \in PrefetchLines(c)
      BY <2>1, CacheAssumption DEF CodeLines, DataLines, PrefetchLines
    <2>3. c = L2C \/ (c = L1D /\ n # FILL_L1) => LineOf[a] \in AskedForAside
      BY <2>1 DEF AskedForAside
    <2> QED
      BY <2>2, <2>3
  <1>3. prefetch_line(c, a, n)
    OBVIOUS
  <1> HIDE DEF a, n
  <1> DEFINE p == [addr |-> a, type |-> "PREFETCH", fill_level |-> n,
                   fill_l1i |-> c = L1I, fill_l1d |-> c # L1I /\ n = FILL_L1, who |-> {}]
  <1>4. /\ Room(c, PQ, PQ_SIZE) /\ ~Forwards(c, p)
        /\ PQ' = [PQ EXCEPT ![c] = add_pq(c, p)]
        /\ UNCHANGED <<block, RQ, WQ, MSHR, asked, unwritten>>
    BY <1>3 DEF prefetch_line
  <1>5. /\ p \in Packet /\ p.type = "PREFETCH" /\ p.fill_level = n /\ p.who = {} /\ p.addr = a
        /\ (p.fill_l1i <=> c = L1I) /\ (p.fill_l1d <=> c # L1I /\ n = FILL_L1)
    BY <1>1 DEF Packet, Type
  <1> HIDE DEF p
  <1>6. c = L1I \/ c = L1D \/ c = L2C
    BY DEF CacheName
  <1>7. PrefetchIn(c, p)
    <2>1. LineIn(p) = LineOf[a] /\ Answerable(p)
      BY <1>2, <1>5, <1>6, Names DEF Answerable, LineIn
    <2>2. FlagLines(p)
      <3>1. p.fill_l1i => c = L1I
        BY <1>5
      <3>2. p.fill_l1d => c = L1D
        BY <1>2, <1>5, <1>6
      <3>3. p.fill_l1i \/ p.fill_l1d \/ LineIn(p) \in AskedForAside
        BY <1>2, <1>5, <1>6, <2>1
      <3> QED
        BY <1>2, <2>1, <3>1, <3>2, <3>3 DEF FlagLines
    <2> QED
      BY <1>5, <2>1, <2>2, Names DEF PrefetchIn, OwnFlags
  <1>8. PrefetchesInv /\ PrefetchQ(c, PQ[c])
    BY DEF BaseInv, PrefetchesInv
  <1> DEFINE q2 == add_pq(c, p)
  <1>9. PrefetchQ(c, q2)
    BY <1>5, <1>7, <1>8, PrefetchAdd
  <1>10. /\ DOMAIN PQ' = CacheName
         /\ \A d \in CacheName : PQ'[d] = IF d = c THEN q2 ELSE PQ[d]
    BY <1>4, <1>8 DEF PrefetchesInv
  <1>11. PrefetchesInv'
    BY <1>8, <1>9, <1>10 DEF PrefetchesInv
  <1>12. BaseInv'
    BY <1>4, <1>11 DEF BaseInv, BlocksInv, BlocksTyped, WritesInv, ReadsInv
  <1>13. PrefetchLineEffects(c, p)
    BY <1>2, <1>4, <1>5, <1>7, <1>10, Names DEF PrefetchLineEffects
  <1> QED
    BY <1>12, <1>13

\* The memory answers a miss of L2C.
MemoryEffects(l) ==
    /\ MSHR[L2C][l] # NONE /\ MissIn(L2C, l, MSHR[L2C][l]) /\ ~MSHR[L2C][l].returned
    /\ Put(MSHR, MSHR', L2C, l, Answered(MSHR[L2C][l]))
    /\ UNCHANGED <<block, queues, asked, unwritten>>

\* an answer of the last-level cache this one,
LEMMA MemoryEffect ==
    ASSUME BaseInv, NEW l \in Line, MemoryAnswers(l)
    PROVE  BaseInv' /\ MemoryEffects(l)
  <1> DEFINE miss == MSHR[L2C][l]
             x == Answered(miss)
  <1>1. /\ miss # NONE /\ ~miss.returned /\ MSHR' = return_data(MSHR, L2C, l)
        /\ UNCHANGED <<block, queues, asked, unwritten>>
    BY DEF MemoryAnswers
  <1>2. Misses(MSHR) /\ MSHR \in Table
    BY DEF BaseInv, Misses
  <1>3. MissIn(L2C, l, miss) /\ miss \in Miss
    BY <1>1, <1>2, Names DEF Misses, MissT, MissIn
  <1>4. Put(MSHR, MSHR', L2C, l, x)
    <2> DEFINE n == return_data(MSHR, L2C, l)
    <2>1. /\ n \in Table
          /\ \A d \in CacheName, k \in Line :
               n[d][k] = IF d = L2C /\ k = l /\ MSHR[d][k] # NONE
                         THEN Answered(MSHR[d][k]) ELSE MSHR[d][k]
      BY <1>2, Names, ReturnData
    <2> HIDE DEF n
    <2>2. MSHR' = n
      BY <1>1 DEF n
    <2> QED
      BY <1>1, <2>1, <2>2 DEF Put
  <1>5. /\ x \in Miss /\ x.addr = miss.addr /\ x.type = miss.type
        /\ x.fill_level = miss.fill_level /\ x.who = miss.who
        /\ x.fill_l1i = miss.fill_l1i /\ x.fill_l1d = miss.fill_l1d
    BY <1>3, AnsweredMiss
  <1> HIDE DEF x
  <1>6. LineIn(x) = LineIn(miss)
    BY <1>5 DEF LineIn
  <1>7. MissIn(L2C, l, x)
    BY <1>3, <1>5, <1>6 DEF MissIn, FlagLines, Answerable, OwnFlags
  <1>8. Misses(MSHR')
    BY <1>1, <1>2, <1>4, <1>7, Names, PutMiss
  <1>9. BaseInv'
    BY <1>1, <1>8 DEF BaseInv, BlocksInv, BlocksTyped, WritesInv, ReadsInv, PrefetchesInv, queues
  <1> QED
    BY <1>1, <1>3, <1>4, <1>9 DEF MemoryEffects, x

\* A page that is swapped out loses its blocks, and no other page does.
SwapEffects(page) ==
    /\ \A d \in CacheName, s \in SetIndex : \A w \in Way(d) :
         /\ block'[d][s][w].line = block[d][s][w].line
         /\ block'[d][s][w].dirty = block[d][s][w].dirty
         /\ block'[d][s][w].valid => block[d][s][w].valid
         /\ block[d][s][w].valid /\ ~block'[d][s][w].valid => block[d][s][w].line \in page
    /\ unwritten' = {s \in unwritten : s.line \notin page}
    /\ UNCHANGED <<queues, MSHR, asked>>

\* and a page that is swapped out this one.
LEMMA SwapEffect ==
    ASSUME BaseInv, NEW page, SwapOut(page)
    PROVE  BaseInv' /\ SwapEffects(page)
  <1> DEFINE Gone(c, s, w) == \E l \in page : SetOf[c][l] = s /\ Hit(c, l) /\ w = check_hit(c, l)
             new(c, s, w) == [block[c][s][w] EXCEPT !.valid = @ /\ ~Gone(c, s, w)]
  <1>1. /\ block' = [c \in CacheName |-> [s \in SetIndex |-> [w \in Way(c) |-> new(c, s, w)]]]
        /\ unwritten' = {s \in unwritten : s.line \notin page}
        /\ UNCHANGED <<queues, MSHR, asked>>
    BY DEF SwapOut
  <1>2. BlocksTyped /\ BlocksInv
    BY DEF BaseInv, BlocksInv
  <1>3. ASSUME NEW c \in CacheName, NEW s \in SetIndex, NEW w \in Way(c), Gone(c, s, w)
        PROVE  block[c][s][w].line \in page
    <2>1. PICK l \in page : SetOf[c][l] = s /\ Hit(c, l) /\ w = check_hit(c, l)
      BY <1>3
    <2>2. block[c][s][w].line = l
      BY <2>1, CheckHit
    <2> QED
      BY <2>2
  <1> HIDE DEF Gone
  <1>4. ASSUME NEW c \in CacheName, NEW s \in SetIndex, NEW w \in Way(c)
        PROVE  /\ new(c, s, w) \in Block
               /\ new(c, s, w).line = block[c][s][w].line /\ new(c, s, w).dirty = block[c][s][w].dirty
               /\ new(c, s, w).lru = block[c][s][w].lru
               /\ new(c, s, w).valid <=> block[c][s][w].valid /\ ~Gone(c, s, w)
    <2>1. block[c][s] \in Sets(c)
      BY <1>2 DEF BlocksTyped
    <2>2. block[c][s][w] \in Block
      BY <2>1 DEF Sets
    <2> DEFINE g == Gone(c, s, w)
               x == block[c][s][w]
    <2>3. g \in BOOLEAN
      BY DEF Gone
    <2> HIDE DEF x, g
    <2>4. /\ [x EXCEPT !.valid = @ /\ ~g] \in Block
          /\ [x EXCEPT !.valid = @ /\ ~g].line = x.line /\ [x EXCEPT !.valid = @ /\ ~g].dirty = x.dirty
          /\ [x EXCEPT !.valid = @ /\ ~g].lru = x.lru
          /\ [x EXCEPT !.valid = @ /\ ~g].valid <=> x.valid /\ ~g
      BY <2>2, <2>3 DEF Block, x
    <2> QED
      BY <2>4 DEF x, g
  <1> HIDE DEF new
  <1>5. /\ DOMAIN block' = CacheName
        /\ \A c \in CacheName : block'[c] = [s \in SetIndex |-> [w \in Way(c) |-> new(c, s, w)]]
    BY <1>1
  <1>6. ASSUME NEW c \in CacheName, NEW s \in SetIndex
        PROVE  block'[c][s] = [w \in Way(c) |-> new(c, s, w)]
    <2>1. block'[c] = [t \in SetIndex |-> [w \in Way(c) |-> new(c, t, w)]]
      BY <1>5
    <2> QED
      BY <2>1
  <1>7. \A c \in CacheName, s \in SetIndex : \A w \in Way(c) : block'[c][s][w] = new(c, s, w)
    BY <1>6
  <1>8. ASSUME NEW c \in CacheName, NEW s \in SetIndex PROVE block'[c][s] \in Sets(c)
    <2>1. block'[c][s] \in [Way(c) -> Block]
      <3>1. [w \in Way(c) |-> new(c, s, w)] \in [Way(c) -> Block]
        BY <1>4
      <3> QED
        BY <1>6, <3>1
    <2>2. {block'[c][s][w].lru : w \in Way(c)} = {block[c][s][w].lru : w \in Way(c)}
      BY <1>4, <1>7
    <2>3. {block[c][s][w].lru : w \in Way(c)} = Way(c)
      BY <1>2 DEF BlocksTyped, Sets
    <2> QED
      BY <2>1, <2>2, <2>3 DEF Sets
  <1>9. BlocksTyped'
    BY <1>5, <1>8 DEF BlocksTyped
  <1>10. ASSUME NEW c \in CacheName, NEW s \in SetIndex, NEW w \in Way(c)
         PROVE  /\ block'[c][s][w].line = block[c][s][w].line
                /\ block'[c][s][w].dirty = block[c][s][w].dirty
                /\ block'[c][s][w].valid => block[c][s][w].valid
                /\ block[c][s][w].valid /\ ~block'[c][s][w].valid => block[c][s][w].line \in page
    BY <1>3, <1>4, <1>7
  <1>11. BlocksInv'
    BY <1>2, <1>9, <1>10 DEF BlocksInv
  <1>12. BaseInv'
    BY <1>1, <1>11 DEF BaseInv, WritesInv, ReadsInv, PrefetchesInv, queues
  <1> QED
    BY <1>1, <1>10, <1>12 DEF SwapEffects

-----------------------------------------------------------------------------
(* All steps together.                                                     *)

\* What any step does.
Effect ==
    \/ \E c \in CacheName, l \in Line : FillEffects(c, l, MSHR[c][l], Victim(c, l))
    \/ \E c \in CacheName : \E p :
         \/ WritebackHitEffects(c, p) \/ WritebackFillEffects(c, p)
         \/ ReadHitEffects(c, p) \/ ReadMissEffects(c, p) \/ ReadMergedEffects(c, p)
         \/ PrefetchHitEffects(c, p) \/ PrefetchMissEffects(c, p) \/ PrefetchMergedEffects(c, p)
         \/ PrefetchLineEffects(c, p)
    \/ \E p : RFOMissEffects(p) \/ RFOMergedEffects(p)
    \/ \E r \in Requester : \E addr, p : AskEffects(CacheOf(r), r, addr, p)
    \/ StoreEffects
    \/ \E l \in Line : MemoryEffects(l)
    \/ \E page \in SwappedPage : SwapEffects(page)

\* Every step has one of these effects, and keeps what the blocks, the queues
\* and the tables hold.
LEMMA StepEffect ==
    ASSUME BaseInv, Next
    PROVE  BaseInv' /\ Effect
  <1>1. ASSUME NEW c \in CacheName, NEW l \in Line, handle_fill(c, l) PROVE BaseInv' /\ Effect
    BY <1>1, HandleFillEffect DEF Effect
  <1>2. ASSUME NEW c \in CacheName, handle_writeback(c) PROVE BaseInv' /\ Effect
    <2>1. CASE WritebackHit(c)
      BY <1>2, <2>1, WritebackHitEffect DEF Effect, handle_writeback
    <2>2. CASE RFOMiss(c)
      BY <1>2, <2>2, RFOMissEffect DEF Effect, handle_writeback
    <2>3. CASE RFOMerged(c)
      BY <1>2, <2>3, RFOMergedEffect DEF Effect, handle_writeback
    <2>4. CASE WritebackFill(c)
      BY <1>2, <2>4, WritebackFillEffect DEF Effect, handle_writeback
    <2> QED
      BY <1>2, <2>1, <2>2, <2>3, <2>4 DEF handle_writeback
  <1>3. ASSUME NEW c \in CacheName, handle_read(c) PROVE BaseInv' /\ Effect
    <2>1. CASE ReadHit(c)
      BY <1>3, <2>1, ReadHitEffect DEF Effect, handle_read
    <2>2. CASE ReadMiss(c)
      BY <1>3, <2>2, ReadMissEffect DEF Effect, handle_read
    <2>3. CASE ReadMerged(c)
      BY <1>3, <2>3, ReadMergedEffect DEF Effect, handle_read
    <2> QED
      BY <1>3, <2>1, <2>2, <2>3 DEF handle_read
  <1>4. ASSUME NEW c \in CacheName, handle_prefetch(c) PROVE BaseInv' /\ Effect
    <2>1. CASE PrefetchHit(c)
      BY <1>4, <2>1, PrefetchHitEffect DEF Effect, handle_prefetch
    <2>2. CASE PrefetchMiss(c)
      BY <1>4, <2>2, PrefetchMissEffect DEF Effect, handle_prefetch
    <2>3. CASE PrefetchMerged(c)
      BY <1>4, <2>3, PrefetchMergedEffect DEF Effect, handle_prefetch
    <2> QED
      BY <1>4, <2>1, <2>2, <2>3 DEF handle_prefetch
  <1>5. ASSUME NEW r, NEW addr, Ask(r, addr),
               (r \in Fetch /\ addr \in FetchAddr) \/ (r \in Load /\ addr \in LoadAddr)
        PROVE  BaseInv' /\ Effect
    BY <1>5, AskEffect DEF Effect, Requester
  <1>6. ASSUME NEW addr \in StoreAddr, Store(addr) PROVE BaseInv' /\ Effect
    BY <1>6, StoreEffect DEF Effect
  <1>7. ASSUME NEW c \in CacheName, NEW pf \in PrefetchOf[c], prefetch_line(c, pf[1], pf[2])
        PROVE  BaseInv' /\ Effect
    BY <1>7, PrefetchLineEffect DEF Effect
  <1>8. ASSUME NEW l \in Line, MemoryAnswers(l) PROVE BaseInv' /\ Effect
    BY <1>8, MemoryEffect DEF Effect
  <1>9. ASSUME NEW page \in SwappedPage, SwapOut(page) PROVE BaseInv' /\ Effect
    BY <1>9, SwapEffect DEF Effect
  <1> QED
    BY <1>1, <1>2, <1>3, <1>4, <1>5, <1>6, <1>7, <1>8, <1>9 DEF Next, operate

\* A step that changes nothing keeps everything.
LEMMA BaseStutters == BaseInv /\ UNCHANGED vars => BaseInv'
  BY DEF BaseInv, BlocksInv, BlocksTyped, ReadsInv, WritesInv, PrefetchesInv, vars, queues

\* Empty queues, empty tables, and every set in the order of its ways.
LEMMA BaseInit == Init => BaseInv
  <1> SUFFICES ASSUME Init PROVE BaseInv
    OBVIOUS
  <1>1. BlocksInv
    <2> DEFINE b(w) == [valid |-> FALSE, line |-> NONE, dirty |-> FALSE, lru |-> w]
    <2>1. block = [c \in CacheName |-> [s \in SetIndex |-> [w \in Way(c) |-> b(w)]]]
      BY DEF Init
    <2>2. \A c \in CacheName : \A w \in Way(c) :
            /\ b(w) \in Block /\ b(w).lru = w /\ ~b(w).valid /\ ~b(w).dirty
      BY DEF Block, Way
    <2> HIDE DEF b
    <2>3. /\ DOMAIN block = CacheName
          /\ \A c \in CacheName : block[c] = [s \in SetIndex |-> [w \in Way(c) |-> b(w)]]
      BY <2>1
    <2>4. ASSUME NEW c \in CacheName, NEW s \in SetIndex PROVE block[c][s] \in Sets(c)
      <3>1. block[c][s] = [w \in Way(c) |-> b(w)]
        BY <2>3
      <3>2. [w \in Way(c) |-> b(w)] \in [Way(c) -> Block]
        BY <2>2
      <3>3. {block[c][s][w].lru : w \in Way(c)} = Way(c)
        BY <2>2, <3>1
      <3> QED
        BY <3>1, <3>2, <3>3 DEF Sets
    <2>5. \A c \in CacheName, s \in SetIndex : \A w \in Way(c) : block[c][s][w] = b(w)
      BY <2>3
    <2>6. BlocksTyped
      BY <2>3, <2>4 DEF BlocksTyped
    <2> QED
      BY <2>2, <2>5, <2>6 DEF BlocksInv
  <1>2. /\ <<>> \in Seq(Packet) /\ Len(<<>>) = 0 /\ DOMAIN <<>> = {}
    OBVIOUS
  <1>3. NoRepeats(<<>>) /\ Range(<<>>) = {}
    BY <1>2 DEF NoRepeats, Range
  <1>4. ReadsInv
    BY <1>2, <1>3, Sizes DEF Init, ReadsInv, ReadQ
  <1>5. PrefetchesInv
    BY <1>2, <1>3, Sizes DEF Init, PrefetchesInv, PrefetchQ
  <1>6. WritesInv
    BY <1>2, <1>3, Sizes DEF Init, WritesInv, WriteQ
  <1>7. Misses(MSHR)
    <2>1. MSHR = [c \in CacheName |-> [l \in Line |-> NONE]]
      BY DEF Init
    <2>2. MSHR \in Table /\ \A c \in CacheName, l \in Line : MSHR[c][l] = NONE
      BY <2>1 DEF Table
    <2>3. \A c \in CacheName : Lines(MSHR[c]) = {}
      BY <2>2 DEF Lines
    <2>4. \A c \in CacheName : Cardinality(Lines(MSHR[c])) <= MSHR_SIZE[c]
      <3>1. Cardinality({}) = 0
        BY FS_EmptySet
      <3>2. \A c \in CacheName : 0 <= MSHR_SIZE[c]
        BY Sizes
      <3> QED
        BY <2>3, <3>1, <3>2
    <2> QED
      BY <2>2, <2>4 DEF Misses, MissT
  <1> QED
    BY <1>1, <1>4, <1>5, <1>6, <1>7 DEF Init, BaseInv

\* The caches, their queues and their tables are what the declarations say:
\* no queue and no MSHR outgrows its size, and the ways of a set stay ordered
\* by their use.
THEOREM CacheTypeOK == Spec => []TypeOK
  <1>1. BaseInv /\ [Next]_vars => BaseInv'
    BY StepEffect, BaseStutters
  <1>2. ASSUME BaseInv PROVE TypeOK
    <2>1. \A c \in CacheName, s \in SetIndex :
            /\ block[c][s] \in [Way(c) -> Block]
            /\ {block[c][s][w].lru : w \in Way(c)} = Way(c)
      BY <1>2 DEF BaseInv, BlocksInv, BlocksTyped, Sets
    <2>2. \A c \in CacheName :
            /\ RQ[c] \in Seq(Packet) /\ Len(RQ[c]) <= RQ_SIZE[c]
            /\ WQ[c] \in Seq(Packet) /\ Len(WQ[c]) <= WQ_SIZE[c]
            /\ PQ[c] \in Seq(Packet) /\ Len(PQ[c]) <= PQ_SIZE[c]
      BY <1>2 DEF BaseInv, ReadsInv, ReadQ, WritesInv, WriteQ, PrefetchesInv, PrefetchQ
    <2>3. \A c \in CacheName : /\ MSHR[c] \in [Line -> Miss \cup {NONE}]
                               /\ Cardinality(Lines(MSHR[c])) <= MSHR_SIZE[c]
      BY <1>2 DEF BaseInv, Misses, MissT, Table
    <2> QED
      BY <1>2, <2>1, <2>2, <2>3 DEF BaseInv, Lines, TypeOK
  <1> QED
    BY <1>1, <1>2, BaseInit, PTL DEF Spec

-----------------------------------------------------------------------------
(* Stores are kept.                                                        *)

\* A fill makes a dirty line of its own and takes one from the victim only,
LEMMA FilledDirty ==
    ASSUME BlocksTyped, NEW c \in CacheName, NEW l \in Line, NEW dirty \in BOOLEAN,
           Filled(c, l, dirty)
    PROVE  /\ dirty => DirtyIn(c, l)'
           /\ \A d \in CacheName : \A k :
                DirtyIn(d, k) => \/ DirtyIn(d, k)'
                                 \/ d = c /\ Victim(c, l).dirty /\ Victim(c, l).line = k
  <1> DEFINE i == SetOf[c][l]
             v == lru_victim(c, l)
  <1>1. i \in SetIndex /\ v \in Way(c)
    BY Sizes, VictimIn
  <1>2. /\ block'[c][i][v].valid /\ block'[c][i][v].line = l /\ block'[c][i][v].dirty = dirty
    BY <1>1 DEF Filled
  <1>3. dirty => DirtyIn(c, l)'
    BY <1>1, <1>2 DEF DirtyIn
  <1>4. ASSUME NEW d \in CacheName, NEW k, DirtyIn(d, k)
        PROVE  DirtyIn(d, k)' \/ (d = c /\ Victim(c, l).dirty /\ Victim(c, l).line = k)
    <2>1. PICK s \in SetIndex, w \in Way(d) :
            block[d][s][w].valid /\ block[d][s][w].dirty /\ block[d][s][w].line = k
      BY <1>4 DEF DirtyIn
    <2>2. CASE d = c /\ s = i /\ w = v
      BY <2>1, <2>2 DEF Victim, ThisSet
    <2>3. CASE ~(d = c /\ s = i /\ w = v)
      <3>1. block'[d][s][w].valid /\ block'[d][s][w].dirty /\ block'[d][s][w].line = k
        BY <2>1, <2>3 DEF Filled
      <3> QED
        BY <3>1 DEF DirtyIn
    <2> QED
      BY <2>2, <2>3
  <1> QED
    BY <1>3, <1>4

\* and a hit takes none.
LEMMA TouchedDirty ==
    ASSUME NEW c \in CacheName, NEW l \in Line, Hit(c, l), NEW dirty \in BOOLEAN,
           Touched(c, l, dirty)
    PROVE  /\ dirty => DirtyIn(c, l)'
           /\ \A d \in CacheName : \A k : DirtyIn(d, k) => DirtyIn(d, k)'
  <1> DEFINE i == SetOf[c][l]
             v == check_hit(c, l)
  <1>1. i \in SetIndex /\ v \in Way(c) /\ block[c][i][v].valid /\ block[c][i][v].line = l
    BY Sizes, CheckHit
  <1>2. ASSUME dirty PROVE DirtyIn(c, l)'
    <2>1. /\ block'[c][i][v].valid /\ block'[c][i][v].line = l /\ block'[c][i][v].dirty
      BY <1>1, <1>2 DEF Touched
    <2> QED
      BY <1>1, <2>1 DEF DirtyIn
  <1>3. ASSUME NEW d \in CacheName, NEW k, DirtyIn(d, k) PROVE DirtyIn(d, k)'
    <2>1. PICK s \in SetIndex, w \in Way(d) :
            block[d][s][w].valid /\ block[d][s][w].dirty /\ block[d][s][w].line = k
      BY <1>3 DEF DirtyIn
    <2>2. block'[d][s][w].valid /\ block'[d][s][w].dirty /\ block'[d][s][w].line = k
      BY <2>1 DEF Touched
    <2> QED
      BY <2>2 DEF DirtyIn
  <1> QED
    BY <1>2, <1>3

\* The misses of L1D that fill their line dirty.
Rfo(m, l) == m[L1D][l] # NONE /\ m[L1D][l].type = "RFO"
RfoKept(m, n) == \A l \in Line : Rfo(m, l) => Rfo(n, l)

\* They stay through answers, through new misses and through merges.
LEMMA DeliveredRfo ==
    ASSUME NEW m \in Table, NEW n, NEW c, NEW p, Delivered(m, n, c, p)
    PROVE  RfoKept(m, n)
  BY DeliverFields, Names DEF RfoKept, Rfo

\* A new miss leaves those of the stores, and that of a store is one of them.
LEMMA SendsRfo ==
    ASSUME Misses(MSHR), NEW c \in CacheName, NEW p \in Packet, Sends(c, p)
    PROVE  /\ RfoKept(MSHR, MSHR')
           /\ c = L1D /\ p.type = "RFO" => Rfo(MSHR', LineIn(p))
  <1> DEFINE l == LineIn(p)
             x == AsMiss(p, FALSE)
  <1>1. l \in Line
    BY PacketLine
  <1>2. x \in Miss /\ x.type = p.type /\ x # NONE
    BY AsMissFields, Sizes
  <1> HIDE DEF x
  <1>3. PICK m : /\ MSHR[c][l] = NONE /\ Put(MSHR, m, c, l, x)
                 /\ IF Forwards(L2C, p) THEN Delivered(m, MSHR', L2C, p) ELSE MSHR' = m
    BY DEF Sends, x
  <1>4. m \in Table
    BY <1>3 DEF Put
  <1>5. RfoKept(MSHR, m)
    BY <1>1, <1>3, Names DEF Put, RfoKept, Rfo
  <1>6. c = L1D /\ p.type = "RFO" => Rfo(m, l)
    BY <1>1, <1>2, <1>3, Names DEF Put, Rfo
  <1>7. RfoKept(m, MSHR')
    <2>1. CASE Forwards(L2C, p)
      BY <1>3, <1>4, <2>1, DeliveredRfo
    <2>2. CASE ~Forwards(L2C, p)
      BY <1>3, <2>2 DEF RfoKept
    <2> QED
      BY <2>1, <2>2
  <1> QED
    BY <1>1, <1>5, <1>6, <1>7 DEF RfoKept

\* A change of one miss leaves the stores' if it leaves its own,
LEMMA PutRfo ==
    ASSUME NEW m, NEW n, NEW c, NEW l \in Line, NEW x, Put(m, n, c, l, x),
           c = L1D => m[c][l] = NONE \/ m[c][l].type # "RFO" \/ (x # NONE /\ x.type = "RFO")
    PROVE  RfoKept(m, n)
  BY Names DEF Put, RfoKept, Rfo

\* and a merge does, and makes it one when a store joins a store or a
\* prefetch.
LEMMA MeetsRfo ==
    ASSUME NEW c \in CacheName, NEW p \in Packet, NEW x, Meets(c, p, x)
    PROVE  /\ RfoKept(MSHR, MSHR')
           /\ c = L1D /\ p.type = "RFO" /\ MSHR[c][LineIn(p)].type # "LOAD" => Rfo(MSHR', LineIn(p))
  <1> DEFINE l == LineIn(p)
             miss == MSHR[c][l]
  <1>1. l \in Line
    BY PacketLine
  <1>2. /\ MissIn(c, l, miss) /\ Put(MSHR, MSHR', c, l, x) /\ x \in Miss
        /\ x.type = IF miss.type = "PREFETCH" THEN p.type ELSE miss.type
    BY DEF Meets, Joins
  <1>3. x # NONE /\ miss.type \in {"LOAD", "RFO", "PREFETCH"}
    BY <1>2, Sizes DEF MissIn
  <1>4. RfoKept(MSHR, MSHR')
    <2> HIDE DEF l
    <2>1. c = L1D => MSHR[c][l] = NONE \/ MSHR[c][l].type # "RFO" \/ (x # NONE /\ x.type = "RFO")
      BY <1>2, <1>3
    <2> QED
      BY <1>1, <1>2, <2>1, PutRfo
  <1>5. MSHR'[c][l] = x
    BY <1>1, <1>2 DEF Put
  <1>6. c = L1D /\ p.type = "RFO" /\ miss.type # "LOAD" => x.type = "RFO"
    BY <1>2, <1>3
  <1> QED
    BY <1>3, <1>4, <1>5, <1>6 DEF Rfo

\* A write-back of the line waits in L2C.
InWriteback(l) == \E p \in Range(WQ[L2C]) : LineIn(p) = l

\* The four places that hold a line dirty.
LEMMA HeldMeans ==
    ASSUME NEW l
    PROVE  /\ HeldDirty(l) <=> \/ DirtyIn(L1D, l) \/ DirtyIn(L2C, l)
                               \/ Rfo(MSHR, l) \/ InWriteback(l)
           /\ HeldDirty(l)' <=> \/ DirtyIn(L1D, l)' \/ DirtyIn(L2C, l)'
                                \/ Rfo(MSHR', l) \/ InWriteback(l)'
  BY DEF HeldDirty, Rfo, InWriteback

\* A step that takes nothing from any of the places keeps what they hold.
BlocksKept == \A d \in CacheName : \A k : DirtyIn(d, k) => DirtyIn(d, k)'
WritebacksKept == Range(WQ[L2C]) \subseteq Range(WQ'[L2C])

\* A line that each place keeps is held.
LEMMA HeldKept ==
    ASSUME NEW l \in Line, HeldDirty(l), BlocksKept, WritebacksKept, RfoKept(MSHR, MSHR')
    PROVE  HeldDirty(l)'
  BY HeldMeans, Names DEF BlocksKept, WritebacksKept, RfoKept, InWriteback

\* Blocks, misses or write-backs that stay the same keep theirs.
LEMMA SameKept ==
    /\ block' = block => BlocksKept
    /\ MSHR' = MSHR => RfoKept(MSHR, MSHR')
    /\ WQ'[L2C] = WQ[L2C] => WritebacksKept
  BY DEF BlocksKept, DirtyIn, RfoKept, WritebacksKept

\* The lines of the stores that StoresKept speaks of.
Marked == {s.line : s \in {x \in unwritten : ~x.joined}}

\* StoresKept says that these are held,
LEMMA KeptMeans ==
    /\ StoresKept <=> \A k \in Marked : HeldDirty(k)
    /\ StoresKept' <=> \A k \in Marked' : HeldDirty(k)'
    /\ unwritten \in SUBSET StoreTaken => Marked \in SUBSET Line
  <1>1. StoresKept <=> \A k \in Marked : HeldDirty(k)
    BY DEF StoresKept, Marked
  <1>2. StoresKept' <=> \A k \in Marked' : HeldDirty(k)'
    BY DEF StoresKept, Marked
  <1>3. unwritten \in SUBSET StoreTaken => Marked \in SUBSET Line
    BY DEF Marked, StoreTaken
  <1> QED
    BY <1>1, <1>2, <1>3

\* and this is what the steps add to them and take from them.
LEMMA MarkedSteps ==
    ASSUME NEW l, NEW j, NEW c, NEW victim, NEW page
    PROVE  /\ unwritten' = unwritten => Marked' = Marked
           /\ unwritten' = Taken(l, j) => Marked' = IF j THEN Marked ELSE Marked \cup {l}
           /\ WrittenBelow(c, victim)
                => \A k \in Marked' :
                     k \in Marked /\ (c = L2C /\ victim.dirty /\ k = victim.line => HeldDirty(k)')
           /\ unwritten' = {s \in unwritten : s.line \notin page}
                => \A k \in Marked' : k \in Marked /\ k \notin page
  <1>1. unwritten' = unwritten => Marked' = Marked
    BY DEF Marked
  <1>2. ASSUME unwritten' = Taken(l, j)
        PROVE  Marked' = IF j THEN Marked ELSE Marked \cup {l}
    <2> DEFINE new == [line |-> l, joined |-> j]
    <2>1. new.line = l /\ new.joined = j /\ unwritten' = unwritten \cup {new}
      BY <1>2 DEF Taken
    <2> HIDE DEF new
    <2> QED
      BY <2>1 DEF Marked
  <1>3. ASSUME WrittenBelow(c, victim), NEW k \in Marked'
        PROVE  k \in Marked /\ (c = L2C /\ victim.dirty /\ k = victim.line => HeldDirty(k)')
    <2>1. PICK s \in unwritten' : ~s.joined /\ k = s.line
      BY <1>3 DEF Marked
    <2>2. s \in unwritten /\ (c = L2C /\ victim.dirty /\ s.line = victim.line => HeldDirty(s.line)')
      BY <1>3 DEF WrittenBelow
    <2> QED
      BY <2>1, <2>2 DEF Marked
  <1>4. unwritten' = {s \in unwritten : s.line \notin page}
          => \A k \in Marked' : k \in Marked /\ k \notin page
    BY DEF Marked
  <1> QED
    BY <1>1, <1>2, <1>3, <1>4

\* The steps that fill a line: the victim is written back, or it is not dirty,
\* or nothing else of its line is.
LEMMA FillKeepsStores ==
    ASSUME BaseInv, StoresKept, NEW c \in CacheName, NEW l \in Line,
           FillEffects(c, l, MSHR[c][l], Victim(c, l))
    PROVE  StoresKept'
  <1> DEFINE miss == MSHR[c][l]
             victim == Victim(c, l)
             dirty == DirtyFill(c, miss)
  <1>1. /\ miss # NONE /\ Filled(c, l, dirty)
        /\ \E m : Delivered(MSHR, m, c, miss) /\ Put(m, MSHR', c, l, NONE)
        /\ WritebacksKept
        /\ victim.dirty /\ c \in L1 => \E q \in Range(WQ'[L2C]) : LineIn(q) = victim.line
        /\ WrittenBelow(c, victim)
    BY DEF FillEffects, WritebacksKept
  <1>2. BlocksTyped /\ MSHR \in Table /\ dirty \in BOOLEAN
    BY DEF BaseInv, BlocksInv, Misses, DirtyFill
  <1>3. /\ dirty => DirtyIn(c, l)'
        /\ \A d \in CacheName : \A k :
             DirtyIn(d, k) => DirtyIn(d, k)' \/ (d = c /\ victim.dirty /\ victim.line = k)
    BY <1>1, <1>2, FilledDirty
  <1>4. ASSUME NEW k \in Line, Rfo(MSHR, k) PROVE Rfo(MSHR', k) \/ DirtyIn(L1D, k)'
    <2>1. PICK m : Delivered(MSHR, m, c, miss) /\ Put(m, MSHR', c, l, NONE)
      BY <1>1
    <2>2. Rfo(m, k)
      BY <1>2, <1>4, <2>1, DeliveredRfo DEF RfoKept
    <2>3. CASE c = L1D /\ k = l
      <3>1. dirty
        BY <1>4, <2>3 DEF DirtyFill, Rfo
      <3> QED
        BY <1>3, <2>3, <3>1
    <2>4. CASE ~(c = L1D /\ k = l)
      BY <2>1, <2>2, <2>4, Names DEF Put, Rfo
    <2> QED
      BY <2>3, <2>4
  <1> HIDE DEF dirty, miss
  <1>5. ASSUME NEW k \in Marked' PROVE HeldDirty(k)'
    <2>1. k \in Marked /\ (c = L2C /\ victim.dirty /\ k = victim.line => HeldDirty(k)')
      BY <1>1, <1>5, MarkedSteps
    <2>2. HeldDirty(k) /\ k \in Line
      BY <2>1, KeptMeans DEF BaseInv
    <2>3. CASE victim.dirty /\ k = victim.line
      <3>1. CASE c = L2C
        BY <2>1, <2>3, <3>1
      <3>2. CASE c # L2C
        <4>1. InWriteback(k)'
          BY <1>1, <2>3, <3>2, Names DEF InWriteback
        <4> QED
          BY <4>1, HeldMeans
      <3> QED
        BY <3>1, <3>2
    <2>4. CASE ~(victim.dirty /\ k = victim.line)
      <3>1. \A d \in CacheName : DirtyIn(d, k) => DirtyIn(d, k)'
        BY <1>3, <2>4
      <3>2. InWriteback(k) => InWriteback(k)'
        BY <1>1 DEF WritebacksKept, InWriteback
      <3> QED
        BY <1>4, <2>2, <3>1, <3>2, HeldMeans, Names
    <2> QED
      BY <2>3, <2>4
  <1> QED
    BY <1>5, KeptMeans

\* The same of a write-back that fills a line of L2C.
LEMMA WritebackFillKeepsStores ==
    ASSUME BaseInv, StoresKept, NEW c \in CacheName, NEW p, WritebackFillEffects(c, p)
    PROVE  StoresKept'
  <1> DEFINE l == LineIn(p)
             victim == Victim(c, l)
  <1>1. /\ c = L2C /\ p \in Packet /\ Filled(c, l, TRUE)
        /\ Range(WQ[c]) = Range(WQ'[c]) \cup {p}
        /\ WrittenBelow(c, victim) /\ MSHR' = MSHR
    BY DEF WritebackFillEffects
  <1>2. l \in Line /\ BlocksTyped
    BY <1>1, PacketLine DEF BaseInv, BlocksInv
  <1>3. /\ DirtyIn(c, l)'
        /\ \A d \in CacheName : \A k :
             DirtyIn(d, k) => DirtyIn(d, k)' \/ (d = c /\ victim.dirty /\ victim.line = k)
    BY <1>1, <1>2, FilledDirty
  <1>4. ASSUME NEW k \in Marked' PROVE HeldDirty(k)'
    <2>1. k \in Marked /\ (victim.dirty /\ k = victim.line => HeldDirty(k)')
      BY <1>1, <1>4, MarkedSteps
    <2>2. HeldDirty(k)
      BY <2>1, KeptMeans
    <2>3. CASE victim.dirty /\ k = victim.line
      BY <2>1, <2>3
    <2>4. CASE k = l
      BY <1>1, <1>3, <2>4, HeldMeans
    <2>5. CASE ~(victim.dirty /\ k = victim.line) /\ k # l
      <3>1. \A d \in CacheName : DirtyIn(d, k) => DirtyIn(d, k)'
        BY <1>3, <2>5
      <3>2. InWriteback(k) => InWriteback(k)'
        BY <1>1, <2>5 DEF InWriteback
      <3>3. Rfo(MSHR, k) => Rfo(MSHR', k)
        BY <1>1
      <3> QED
        BY <2>2, <3>1, <3>2, <3>3, HeldMeans, Names
    <2> QED
      BY <2>3, <2>4, <2>5
  <1> QED
    BY <1>4, KeptMeans

\* A write-back that hits leaves its line dirty where it hits.
LEMMA WritebackHitKeepsStores ==
    ASSUME BaseInv, StoresKept, NEW c \in CacheName, NEW p, WritebackHitEffects(c, p)
    PROVE  StoresKept'
  <1> DEFINE l == LineIn(p)
  <1>1. /\ p \in Packet /\ Hit(c, l) /\ Touched(c, l, TRUE) /\ c \in {L1D, L2C} /\ Popped(WQ, c)
        /\ Range(WQ[c]) = Range(WQ'[c]) \cup {p}
        /\ Marked' = Marked \cup {l} /\ MSHR' = MSHR
    BY MarkedSteps DEF WritebackHitEffects
  <1>2. l \in Line
    BY <1>1, PacketLine
  <1>3. DirtyIn(c, l)' /\ \A d \in CacheName : \A k : DirtyIn(d, k) => DirtyIn(d, k)'
    BY <1>1, <1>2, TouchedDirty
  <1>4. ASSUME NEW k \in Marked' PROVE HeldDirty(k)'
    <2>1. CASE k = l
      BY <1>1, <1>3, <2>1, HeldMeans
    <2>2. CASE k # l
      <3>1. HeldDirty(k)
        BY <1>1, <1>4, <2>2, KeptMeans
      <3>2. InWriteback(k) => InWriteback(k)'
        <4>1. CASE c = L2C
          BY <1>1, <2>2, <4>1 DEF InWriteback
        <4>2. CASE c # L2C
          BY <1>1, <4>2, Names DEF InWriteback, Popped
        <4> QED
          BY <4>1, <4>2
      <3>3. Rfo(MSHR, k) => Rfo(MSHR', k)
        BY <1>1
      <3> QED
        BY <1>3, <3>1, <3>2, <3>3, HeldMeans, Names
    <2> QED
      BY <2>1, <2>2
  <1> QED
    BY <1>4, KeptMeans

\* A store that misses, or meets the miss of its line, leaves an entry that
\* will fill the line dirty.
LEMMA RFOKeepsStores ==
    ASSUME BaseInv, StoresKept, NEW p, RFOMissEffects(p) \/ RFOMergedEffects(p)
    PROVE  StoresKept'
  <1> DEFINE l == LineIn(p)
  <1>1. p \in Packet /\ StoreIn(p) /\ block' = block /\ WQ'[L2C] = WQ[L2C]
    BY Names DEF RFOMissEffects, RFOMergedEffects, Popped
  <1>2. /\ RfoKept(MSHR, MSHR')
        /\ \A k \in Marked' : k \in Marked \/ Rfo(MSHR', k)
    <2>1. CASE RFOMissEffects(p)
      <3>1. Sends(L1D, p) /\ Marked' = Marked \cup {l}
        BY <2>1, MarkedSteps DEF RFOMissEffects
      <3>2. RfoKept(MSHR, MSHR') /\ Rfo(MSHR', l)
        BY <1>1, <3>1, Names, SendsRfo DEF BaseInv, StoreIn
      <3> QED
        BY <3>1, <3>2
    <2>2. CASE RFOMergedEffects(p)
      <3> DEFINE miss == MSHR[L1D][l]
                 x == MergeMiss(miss, p)
      <3>1. /\ Meets(L1D, p, x)
            /\ Marked' = IF miss.type = "LOAD" THEN Marked ELSE Marked \cup {l}
        BY <2>2, MarkedSteps DEF RFOMergedEffects
      <3> HIDE DEF x
      <3>2. RfoKept(MSHR, MSHR') /\ (miss.type # "LOAD" => Rfo(MSHR', l))
        BY <1>1, <3>1, Names, MeetsRfo DEF StoreIn
      <3> QED
        BY <3>1, <3>2
    <2> QED
      BY <2>1, <2>2, <1>1
  <1>3. BlocksKept /\ WritebacksKept
    BY <1>1, SameKept
  <1>4. ASSUME NEW k \in Marked' PROVE HeldDirty(k)'
    <2>1. CASE Rfo(MSHR', k)
      BY <2>1, HeldMeans
    <2>2. CASE k \in Marked
      <3>1. HeldDirty(k) /\ k \in Line
        BY <2>2, KeptMeans DEF BaseInv
      <3> QED
        BY <1>2, <1>3, <3>1, HeldKept
    <2> QED
      BY <1>2, <2>1, <2>2
  <1> QED
    BY <1>4, KeptMeans

\* The other steps take nothing from where the lines are held.
LEMMA QuietKeepsStores ==
    ASSUME BaseInv, StoresKept, BlocksKept, WritebacksKept, RfoKept(MSHR, MSHR'),
           unwritten' = unwritten
    PROVE  StoresKept'
  <1>1. Marked' = Marked
    BY MarkedSteps
  <1> QED
    BY <1>1, KeptMeans, HeldKept DEF BaseInv

\* Reads and prefetches move requests between queues and tables, which the
\* stores do not rest on.
LEMMA RequestsKeepStores ==
    ASSUME BaseInv, StoresKept, NEW c \in CacheName, NEW p,
           \/ ReadHitEffects(c, p) \/ ReadMissEffects(c, p) \/ ReadMergedEffects(c, p)
           \/ PrefetchHitEffects(c, p) \/ PrefetchMissEffects(c, p) \/ PrefetchMergedEffects(c, p)
           \/ PrefetchLineEffects(c, p)
    PROVE  StoresKept'
  <1>1. /\ p \in Packet /\ WQ' = WQ /\ unwritten' = unwritten
    BY DEF ReadHitEffects, ReadMissEffects, ReadMergedEffects, PrefetchHitEffects,
           PrefetchMissEffects, PrefetchMergedEffects, PrefetchLineEffects, HeadOf
  <1>2. Misses(MSHR) /\ MSHR \in Table /\ LineIn(p) \in Line
    BY <1>1, PacketLine DEF BaseInv, Misses
  <1>3. BlocksKept
    <2>1. CASE ReadHitEffects(c, p) \/ PrefetchHitEffects(c, p)
      <3>1. Hit(c, LineIn(p)) /\ Touched(c, LineIn(p), FALSE)
        BY <2>1 DEF ReadHitEffects, PrefetchHitEffects
      <3> QED
        BY <1>2, <3>1, TouchedDirty DEF BlocksKept
    <2>2. CASE ~(ReadHitEffects(c, p) \/ PrefetchHitEffects(c, p))
      <3>1. block' = block
        BY <2>2 DEF ReadMissEffects, ReadMergedEffects, PrefetchMissEffects,
                    PrefetchMergedEffects, PrefetchLineEffects
      <3> QED
        BY <3>1, SameKept
    <2> QED
      BY <2>1, <2>2
  <1>4. RfoKept(MSHR, MSHR')
    <2>1. CASE ReadHitEffects(c, p) \/ PrefetchHitEffects(c, p)
      BY <1>2, <2>1, DeliveredRfo DEF ReadHitEffects, PrefetchHitEffects
    <2>2. CASE Sends(c, p)
      BY <1>1, <1>2, <2>2, SendsRfo
    <2>3. CASE MSHR[c][LineIn(p)] = NONE /\ Put(MSHR, MSHR', c, LineIn(p), AsMiss(p, FALSE))
      BY <1>2, <2>3, PutRfo
    <2>4. CASE MSHR' = MSHR
      BY <2>4, SameKept
    <2>5. CASE \E x : Meets(c, p, x)
      BY <1>1, <2>5, MeetsRfo
    <2>6. ReadMissEffects(c, p) \/ PrefetchMissEffects(c, p)
            => \/ Sends(c, p) \/ MSHR' = MSHR
               \/ MSHR[c][LineIn(p)] = NONE /\ Put(MSHR, MSHR', c, LineIn(p), AsMiss(p, FALSE))
      BY DEF ReadMissEffects, PrefetchMissEffects, NewMiss
    <2>7. ReadMergedEffects(c, p) \/ PrefetchMergedEffects(c, p) => \E x : Meets(c, p, x)
      BY DEF ReadMergedEffects, PrefetchMergedEffects
    <2>8. PrefetchLineEffects(c, p) => MSHR' = MSHR
      BY DEF PrefetchLineEffects
    <2> QED
      BY <2>1, <2>2, <2>3, <2>4, <2>5, <2>6, <2>7, <2>8
  <1>5. WritebacksKept
    BY <1>1, SameKept
  <1> QED
    BY <1>1, <1>3, <1>4, <1>5, QuietKeepsStores

\* What is swapped out is no longer expected to be kept, and the rest is.
LEMMA SwapKeepsStores ==
    ASSUME BaseInv, StoresKept, NEW page, SwapEffects(page)
    PROVE  StoresKept'
  <1>1. WQ' = WQ /\ MSHR' = MSHR
    BY DEF SwapEffects, queues
  <1>2. ASSUME NEW k \in Marked' PROVE HeldDirty(k)'
    <2>1. k \in Marked /\ k \notin page
      BY <1>2, MarkedSteps DEF SwapEffects
    <2>2. ASSUME NEW d \in CacheName, DirtyIn(d, k) PROVE DirtyIn(d, k)'
      <3>1. PICK s \in SetIndex, w \in Way(d) :
              block[d][s][w].valid /\ block[d][s][w].dirty /\ block[d][s][w].line = k
        BY <2>2 DEF DirtyIn
      <3>2. /\ block'[d][s][w].line = block[d][s][w].line
            /\ block'[d][s][w].dirty = block[d][s][w].dirty
            /\ block[d][s][w].valid /\ ~block'[d][s][w].valid => block[d][s][w].line \in page
        BY DEF SwapEffects
      <3>3. block[d][s][w].valid \in BOOLEAN /\ block'[d][s][w].valid
        BY <2>1, <3>1, <3>2
      <3> QED
        BY <3>1, <3>2, <3>3 DEF DirtyIn
    <2>3. HeldDirty(k)
      BY <2>1, KeptMeans
    <2>4. (Rfo(MSHR, k) => Rfo(MSHR', k)) /\ (InWriteback(k) => InWriteback(k)')
      BY <1>1 DEF InWriteback
    <2> QED
      BY <2>2, <2>3, <2>4, HeldMeans, Names
  <1> QED
    BY <1>2, KeptMeans

\* The rest of the environment.
LEMMA OthersKeepStores ==
    ASSUME BaseInv, StoresKept,
           \/ \E c, r, addr, p : AskEffects(c, r, addr, p)
           \/ StoreEffects
           \/ \E l \in Line : MemoryEffects(l)
    PROVE  StoresKept'
  <1>1. block' = block /\ WQ'[L2C] = WQ[L2C] /\ unwritten' = unwritten
    BY Names DEF AskEffects, StoreEffects, MemoryEffects, queues
  <1>2. RfoKept(MSHR, MSHR')
    <2>1. CASE \E l \in Line : MemoryEffects(l)
      <3>1. PICK l \in Line : Put(MSHR, MSHR', L2C, l, Answered(MSHR[L2C][l]))
        BY <2>1 DEF MemoryEffects
      <3> QED
        BY <3>1, PutRfo, Names
    <2>2. CASE ~\E l \in Line : MemoryEffects(l)
      <3>1. MSHR' = MSHR
        BY <2>2 DEF AskEffects, StoreEffects
      <3> QED
        BY <3>1, SameKept
    <2> QED
      BY <2>1, <2>2
  <1> QED
    BY <1>1, <1>2, SameKept, QuietKeepsStores

\* The line of a store that did not join the miss of a load is dirty in a
\* cache, on its way to L2C, or in a miss of L1D that will fill it dirty, until
\* it has been written below L2C: handle_fill, handle_writeback and the
\* evictions clean no such line. Of the stores that join a load's miss
\* (cache.cc:346-379) nothing is shown: handle_fill fills their lines clean.
THEOREM CacheStoresKept == Spec => []StoresKept
  <1>1. ASSUME BaseInv, StoresKept, [Next]_vars PROVE StoresKept'
    <2>1. CASE UNCHANGED vars
      <3>1. block' = block /\ MSHR' = MSHR /\ WQ' = WQ /\ unwritten' = unwritten
        BY <2>1 DEF vars, queues
      <3> QED
        BY <1>1, <3>1, SameKept, QuietKeepsStores
    <2>2. CASE Next
      <3>1. Effect
        BY <1>1, <2>2, StepEffect
      <3>2. ASSUME NEW c \in CacheName, NEW l \in Line, FillEffects(c, l, MSHR[c][l], Victim(c, l))
            PROVE  StoresKept'
        BY <1>1, <3>2, FillKeepsStores
      <3>3. ASSUME NEW c \in CacheName, NEW p,
                   WritebackHitEffects(c, p) \/ WritebackFillEffects(c, p)
            PROVE  StoresKept'
        BY <1>1, <3>3, WritebackHitKeepsStores, WritebackFillKeepsStores
      <3>4. ASSUME NEW c \in CacheName, NEW p,
                   \/ ReadHitEffects(c, p) \/ ReadMissEffects(c, p) \/ ReadMergedEffects(c, p)
                   \/ PrefetchHitEffects(c, p) \/ PrefetchMissEffects(c, p)
                   \/ PrefetchMergedEffects(c, p) \/ PrefetchLineEffects(c, p)
            PROVE  StoresKept'
        BY <1>1, <3>4, RequestsKeepStores
      <3>5. ASSUME NEW p, RFOMissEffects(p) \/ RFOMergedEffects(p) PROVE StoresKept'
        BY <1>1, <3>5, RFOKeepsStores
      <3>6. ASSUME NEW r \in Requester, NEW addr, NEW p, AskEffects(CacheOf(r), r, addr, p)
            PROVE  StoresKept'
        BY <1>1, <3>6, OthersKeepStores
      <3>7. ASSUME StoreEffects \/ \E l \in Line : MemoryEffects(l) PROVE StoresKept'
        BY <1>1, <3>7, OthersKeepStores
      <3>8. ASSUME NEW page, SwapEffects(page) PROVE StoresKept'
        BY <1>1, <3>8, SwapKeepsStores
      <3> QED
        BY <3>1, <3>2, <3>3, <3>4, <3>5, <3>6, <3>7, <3>8 DEF Effect
    <2> QED
      BY <1>1, <2>1, <2>2
  <1>2. BaseInv /\ [Next]_vars => BaseInv'
    BY StepEffect, BaseStutters
  <1>3. Init => StoresKept
    BY DEF Init, StoresKept
  <1> QED
    BY <1>1, <1>2, <1>3, BaseInit, PTL DEF Spec

-----------------------------------------------------------------------------
(* Who waits is held once.                                                 *)

\* r waits in the read queue, or in the MSHR, of its cache under line l.
Reads(r, l) == \E p \in Range(RQ[CacheOf(r)]) : r \in p.who /\ LineIn(p) = l
Waits(m, c, l, r) == m[c][l] # NONE /\ r \in m[c][l].who

\* Under the line it has asked for a requester waits in one of the two, and
\* under no other line in any.
WaitersInv ==
    \A r \in Requester, l \in Line :
      /\ Reads(r, l) \/ Waits(MSHR, CacheOf(r), l, r) <=> asked[r] # NONE /\ LineOf[asked[r]] = l
      /\ ~(Reads(r, l) /\ Waits(MSHR, CacheOf(r), l, r))

\* What a step adds to who waits in the MSHR: the requesters of p, or no one.
Takes(m, n, c, p) ==
    \A d \in CacheName, l \in Line, r \in Requester :
      Waits(n, d, l, r) <=> Waits(m, d, l, r) \/ (d = c /\ l = LineIn(p) /\ r \in p.who)
WaitSame(m, n) ==
    \A d \in CacheName, l \in Line, r \in Requester : Waits(n, d, l, r) <=> Waits(m, d, l, r)

\* An answer leaves every requester at its miss.
LEMMA DeliveredWaits ==
    ASSUME NEW m \in Table, NEW n, NEW c, NEW p, Delivered(m, n, c, p)
    PROVE  WaitSame(m, n)
  <1> SUFFICES ASSUME NEW d \in CacheName, NEW l \in Line, NEW r \in Requester
               PROVE  Waits(n, d, l, r) <=> Waits(m, d, l, r)
    BY DEF WaitSame
  <1>1. n[d][l] = NONE <=> m[d][l] = NONE
    BY DeliverFields
  <1>2. m[d][l] # NONE => n[d][l].who = m[d][l].who
    BY DeliverFields
  <1> QED
    BY <1>1, <1>2 DEF Waits

\* A new miss takes in who waits for its packet, as a read, a store or a
\* prefetch,
LEMMA PutTakes ==
    ASSUME NEW m, NEW n, NEW c \in CacheName, NEW p \in Packet, m[c][LineIn(p)] = NONE,
           Put(m, n, c, LineIn(p), AsMiss(p, FALSE))
    PROVE  Takes(m, n, c, p)
  <1> DEFINE x == AsMiss(p, FALSE)
  <1>1. x \in Miss /\ x.who = p.who
    BY AsMissFields
  <1>2. x # NONE
    BY <1>1, Sizes
  <1>3. \A d \in CacheName, k \in Line : n[d][k] = IF d = c /\ k = LineIn(p) THEN x ELSE m[d][k]
    BY DEF Put
  <1> HIDE DEF x
  <1> QED
    BY <1>1, <1>2, <1>3 DEF Takes, Waits

\* A new miss takes the requesters of its packet.
LEMMA SendsTakes ==
    ASSUME Misses(MSHR), NEW c \in CacheName, NEW p \in Packet, Sends(c, p)
    PROVE  Takes(MSHR, MSHR', c, p)
  <1>1. PICK m : /\ MSHR[c][LineIn(p)] = NONE /\ Put(MSHR, m, c, LineIn(p), AsMiss(p, FALSE))
                 /\ IF Forwards(L2C, p) THEN Delivered(m, MSHR', L2C, p) ELSE MSHR' = m
    BY DEF Sends
  <1>2. Takes(MSHR, m, c, p)
    BY <1>1, PutTakes
  <1>3. WaitSame(m, MSHR')
    <2>1. CASE Forwards(L2C, p)
      <3>1. m \in Table
        BY <1>1 DEF Put
      <3> QED
        BY <1>1, <2>1, <3>1, DeliveredWaits
    <2>2. CASE ~Forwards(L2C, p)
      BY <1>1, <2>2 DEF WaitSame
    <2> QED
      BY <2>1, <2>2
  <1> QED
    BY <1>2, <1>3 DEF Takes, WaitSame

\* and so does one that a packet joins.
LEMMA MeetsTakes ==
    ASSUME NEW c \in CacheName, NEW p \in Packet, NEW x, Meets(c, p, x)
    PROVE  Takes(MSHR, MSHR', c, p)
  <1>1. /\ MSHR[c][LineIn(p)] # NONE /\ Put(MSHR, MSHR', c, LineIn(p), x)
        /\ x \in Miss /\ x.who = MSHR[c][LineIn(p)].who \cup p.who
    BY DEF Meets, Joins
  <1>2. x # NONE
    BY <1>1, Sizes
  <1>3. \A d \in CacheName, k \in Line :
          MSHR'[d][k] = IF d = c /\ k = LineIn(p) THEN x ELSE MSHR[d][k]
    BY <1>1 DEF Put
  <1> QED
    BY <1>1, <1>2, <1>3 DEF Takes, Waits

\* A packet no one waits for changes nothing.
LEMMA TakesNone ==
    ASSUME NEW m, NEW n, NEW c, NEW p, Takes(m, n, c, p), p.who = {}
    PROVE  WaitSame(m, n)
  BY DEF Takes, WaitSame

\* Requesters belong to the first level, and a cache holds its own only.
LEMMA Owners ==
    ASSUME NEW r \in Requester
    PROVE  CacheOf(r) \in L1 /\ CacheOf(r) \in CacheName /\ \A c : r \in Own(c) => CacheOf(r) = c
  BY Names DEF CacheOf, Own

\* A step that leaves reads, misses and requesters as they are.
LEMMA WaitersStay ==
    ASSUME BaseInv, WaitersInv, \A d \in L1 : RQ'[d] = RQ[d], WaitSame(MSHR, MSHR'), asked' = asked
    PROVE  WaitersInv'
  <1> SUFFICES ASSUME NEW r \in Requester, NEW l \in Line
               PROVE  /\ Reads(r, l)' \/ Waits(MSHR', CacheOf(r), l, r)
                          <=> asked'[r] # NONE /\ LineOf[asked'[r]] = l
                      /\ ~(Reads(r, l)' /\ Waits(MSHR', CacheOf(r), l, r))
    BY DEF WaitersInv, Waits
  <1>1. Reads(r, l)' <=> Reads(r, l)
    BY Owners DEF Reads
  <1>2. Waits(MSHR', CacheOf(r), l, r) <=> Waits(MSHR, CacheOf(r), l, r)
    BY Owners DEF WaitSame
  <1> QED
    BY <1>1, <1>2 DEF WaitersInv

\* Of the head of a read queue, r waits in it under its line or not at all.
LEMMA HeadReads ==
    ASSUME NEW c \in CacheName, NEW p, HeadOf(RQ[c], p), RQ'[c] = Tail(RQ[c]),
           NEW r \in Requester, CacheOf(r) = c, NEW l \in Line
    PROVE  /\ Reads(r, l) <=> Reads(r, l)' \/ (r \in p.who /\ l = LineIn(p))
           /\ ~Reads(r, LineIn(p))'
  BY DEF HeadOf, Reads

\* A read that misses or meets a miss takes who waits along from the queue
\* into the MSHR.
LEMMA ReadMoves ==
    ASSUME BaseInv, WaitersInv, NEW c \in CacheName, NEW p \in Packet, HeadOf(RQ[c], p),
           RQ'[c] = Tail(RQ[c]), \A d \in L1 : d # c => RQ'[d] = RQ[d],
           Takes(MSHR, MSHR', c, p), asked' = asked,
           ~\E r \in Requester : Waits(MSHR, c, LineIn(p), r) /\ r \in p.who
    PROVE  WaitersInv'
  <1> SUFFICES ASSUME NEW r \in Requester, NEW l \in Line
               PROVE  /\ Reads(r, l)' \/ Waits(MSHR', CacheOf(r), l, r)
                          <=> asked'[r] # NONE /\ LineOf[asked'[r]] = l
                      /\ ~(Reads(r, l)' /\ Waits(MSHR', CacheOf(r), l, r))
    BY DEF WaitersInv, Waits
  <1>1. /\ Reads(r, l) \/ Waits(MSHR, CacheOf(r), l, r) <=> asked[r] # NONE /\ LineOf[asked[r]] = l
        /\ ~(Reads(r, l) /\ Waits(MSHR, CacheOf(r), l, r))
    BY DEF WaitersInv
  <1>2. CASE CacheOf(r) = c
    <2>1. /\ Reads(r, l) <=> Reads(r, l)' \/ (r \in p.who /\ l = LineIn(p))
          /\ ~Reads(r, LineIn(p))'
      BY <1>2, HeadReads
    <2>2. Waits(MSHR', CacheOf(r), l, r) <=>
            Waits(MSHR, CacheOf(r), l, r) \/ (r \in p.who /\ l = LineIn(p))
      BY <1>2 DEF Takes
    <2> QED
      BY <1>1, <2>1, <2>2
  <1>3. CASE CacheOf(r) # c
    <2>1. Reads(r, l)' <=> Reads(r, l)
      BY <1>3, Owners DEF Reads
    <2>2. Waits(MSHR', CacheOf(r), l, r) <=> Waits(MSHR, CacheOf(r), l, r)
      BY <1>3, Owners DEF Takes
    <2> QED
      BY <1>1, <2>1, <2>2
  <1> QED
    BY <1>2, <1>3

\* A read that misses or merges hands its requesters to the miss.
LEMMA ReadsKeepWaiters ==
    ASSUME BaseInv, WaitersInv, NEW c \in CacheName, NEW p,
           ReadMissEffects(c, p) \/ ReadMergedEffects(c, p)
    PROVE  WaitersInv'
  <1>1. /\ p \in Packet /\ ReadIn(c, p) /\ HeadOf(RQ[c], p) /\ asked' = asked
        /\ RQ'[c] = Tail(RQ[c]) /\ \A d \in L1 : d # c => RQ'[d] = RQ[d]
    BY Names DEF ReadMissEffects, ReadMergedEffects, Popped
  <1>2. Takes(MSHR, MSHR', c, p)
    <2>1. CASE ReadMissEffects(c, p)
      <3>1. CASE c \in L1
        BY <1>1, <2>1, <3>1, SendsTakes DEF ReadMissEffects, BaseInv
      <3>2. CASE c \notin L1
        BY <1>1, <2>1, <3>2, PutTakes DEF ReadMissEffects, NewMiss
      <3> QED
        BY <3>1, <3>2
    <2>2. CASE ReadMergedEffects(c, p)
      BY <1>1, <2>2, MeetsTakes DEF ReadMergedEffects
    <2> QED
      BY <2>1, <2>2
  <1>3. ASSUME NEW r \in Requester, Waits(MSHR, c, LineIn(p), r), r \in p.who PROVE FALSE
    <2>1. CacheOf(r) = c
      BY <1>1, <1>3, Owners DEF ReadIn
    <2>2. Reads(r, LineIn(p))
      BY <1>1, <1>3, <2>1 DEF Reads, HeadOf
    <2> QED
      BY <1>1, <1>3, <2>1, <2>2, PacketLine DEF WaitersInv
  <1> QED
    BY <1>1, <1>2, <1>3, ReadMoves

\* A read that hits completes who waits for it.
LEMMA ReadHitKeepsWaiters ==
    ASSUME BaseInv, WaitersInv, NEW c \in CacheName, NEW p, ReadHitEffects(c, p)
    PROVE  WaitersInv'
  <1>1. /\ p \in Packet /\ ReadIn(c, p) /\ HeadOf(RQ[c], p) /\ asked' = Complete(p)
        /\ RQ'[c] = Tail(RQ[c]) /\ \A d \in L1 : d # c => RQ'[d] = RQ[d]
        /\ Delivered(MSHR, MSHR', c, p)
    BY Names DEF ReadHitEffects, Popped, HeadOf
  <1>2. WaitSame(MSHR, MSHR')
    BY <1>1, DeliveredWaits DEF BaseInv, Misses
  <1> SUFFICES ASSUME NEW r \in Requester, NEW l \in Line
               PROVE  /\ Reads(r, l)' \/ Waits(MSHR', CacheOf(r), l, r)
                          <=> asked'[r] # NONE /\ LineOf[asked'[r]] = l
                      /\ ~(Reads(r, l)' /\ Waits(MSHR', CacheOf(r), l, r))
    BY DEF WaitersInv, Waits
  <1>3. /\ Reads(r, l) \/ Waits(MSHR, CacheOf(r), l, r) <=> asked[r] # NONE /\ LineOf[asked[r]] = l
        /\ ~(Reads(r, l) /\ Waits(MSHR, CacheOf(r), l, r))
    BY DEF WaitersInv
  <1>4. Waits(MSHR', CacheOf(r), l, r) <=> Waits(MSHR, CacheOf(r), l, r)
    BY <1>2, Owners DEF WaitSame
  <1>5. asked'[r] = IF r \in p.who THEN NONE ELSE asked[r]
    BY <1>1 DEF Complete
  <1>6. CASE r \in p.who
    <2>1. CacheOf(r) = c
      BY <1>1, <1>6, Owners DEF ReadIn
    <2>2. /\ Reads(r, l) <=> Reads(r, l)' \/ l = LineIn(p)
          /\ Reads(r, LineIn(p)) /\ ~Reads(r, LineIn(p))'
      BY <1>1, <1>6, <2>1, HeadReads, PacketLine
    <2>3. /\ asked[r] # NONE /\ LineOf[asked[r]] = LineIn(p)
          /\ ~Waits(MSHR, CacheOf(r), LineIn(p), r)
      BY <1>1, <2>2, PacketLine DEF WaitersInv
    <2>4. ~Reads(r, l)' /\ ~Waits(MSHR, CacheOf(r), l, r)
      BY <1>3, <2>2, <2>3
    <2> QED
      BY <1>4, <1>5, <1>6, <2>4
  <1>7. CASE r \notin p.who
    <2>1. Reads(r, l)' <=> Reads(r, l)
      <3>1. CASE CacheOf(r) = c
        BY <1>1, <1>7, <3>1, HeadReads
      <3>2. CASE CacheOf(r) # c
        BY <1>1, <3>2, Owners DEF Reads
      <3> QED
        BY <3>1, <3>2
    <2> QED
      BY <1>3, <1>4, <1>5, <1>7, <2>1
  <1> QED
    BY <1>6, <1>7

\* So does a miss that is filled.
LEMMA FillKeepsWaiters ==
    ASSUME BaseInv, WaitersInv, NEW c \in CacheName, NEW l \in Line,
           FillEffects(c, l, MSHR[c][l], Victim(c, l))
    PROVE  WaitersInv'
  <1> DEFINE miss == MSHR[c][l]
  <1>1. /\ miss # NONE /\ MissIn(c, l, miss) /\ RQ' = RQ /\ asked' = Complete(miss)
        /\ \E m : Delivered(MSHR, m, c, miss) /\ Put(m, MSHR', c, l, NONE)
    BY DEF FillEffects
  <1>2. PICK m : Delivered(MSHR, m, c, miss) /\ Put(m, MSHR', c, l, NONE)
    BY <1>1
  <1>3. WaitSame(MSHR, m)
    BY <1>2, DeliveredWaits DEF BaseInv, Misses
  <1>4. \A d \in CacheName, k \in Line, r \in Requester :
          Waits(MSHR', d, k, r) <=> Waits(MSHR, d, k, r) /\ ~(d = c /\ k = l)
    BY <1>2, <1>3 DEF WaitSame, Waits, Put
  <1> SUFFICES ASSUME NEW r \in Requester, NEW k \in Line
               PROVE  /\ Reads(r, k)' \/ Waits(MSHR', CacheOf(r), k, r)
                          <=> asked'[r] # NONE /\ LineOf[asked'[r]] = k
                      /\ ~(Reads(r, k)' /\ Waits(MSHR', CacheOf(r), k, r))
    BY DEF WaitersInv, Waits
  <1>5. /\ Reads(r, k) \/ Waits(MSHR, CacheOf(r), k, r) <=> asked[r] # NONE /\ LineOf[asked[r]] = k
        /\ ~(Reads(r, k) /\ Waits(MSHR, CacheOf(r), k, r))
    BY DEF WaitersInv
  <1>6. asked'[r] = IF r \in miss.who THEN NONE ELSE asked[r]
    BY <1>1 DEF Complete
  <1>7. Reads(r, k)' <=> Reads(r, k)
    BY <1>1 DEF Reads
  <1>8. Waits(MSHR', CacheOf(r), k, r) <=> Waits(MSHR, CacheOf(r), k, r) /\ ~(CacheOf(r) = c /\ k = l)
    BY <1>4, Owners
  <1>9. CASE r \in miss.who
    <2>1. CacheOf(r) = c
      BY <1>1, <1>9, Owners DEF MissIn
    <2>2. Waits(MSHR, CacheOf(r), l, r)
      BY <1>1, <1>9, <2>1 DEF Waits
    <2>3. asked[r] # NONE /\ LineOf[asked[r]] = l /\ ~Reads(r, l)
      BY <2>2 DEF WaitersInv
    <2> QED
      BY <1>5, <1>6, <1>7, <1>8, <1>9, <2>1, <2>3
  <1>10. CASE r \notin miss.who
    <2>1. CacheOf(r) = c /\ k = l => ~Waits(MSHR, CacheOf(r), k, r)
      BY <1>10 DEF Waits
    <2> QED
      BY <1>5, <1>6, <1>7, <1>8, <1>10, <2>1
  <1> QED
    BY <1>9, <1>10

\* What asks begins to wait in the read queue.
LEMMA AskKeepsWaiters ==
    ASSUME BaseInv, WaitersInv, NEW r \in Requester, NEW addr, NEW p,
           AskEffects(CacheOf(r), r, addr, p)
    PROVE  WaitersInv'
  <1> DEFINE c == CacheOf(r)
             q == RQ[c]
             q2 == RQ'[c]
             f == WithFlags(p)
  <1>1. /\ c \in L1 /\ p \in Packet /\ p.who = {r} /\ LineIn(p) = LineOf[addr]
        /\ Joined(q, q2, p, f)
        /\ \A d \in CacheName : d # c => RQ'[d] = RQ[d]
        /\ addr \in Addr /\ asked[r] = NONE /\ asked' = [asked EXCEPT ![r] = addr]
        /\ MSHR' = MSHR
    BY DEF AskEffects
  <1>2. addr # NONE /\ c \in CacheName
    BY <1>1, Sizes, Owners
  <1>3. \A x \in Range(q) : x \in Packet
    <2>1. ReadsInv
      BY DEF BaseInv
    <2>2. q \in Seq(Packet)
      BY <1>2, <2>1 DEF ReadsInv, ReadQ
    <2> QED
      BY <2>2, RangeOfSeq
  <1>4. \A x \in Range(q) : f[x].who = x.who \cup {r} /\ LineIn(f[x]) = LineIn(x)
    <2> TAKE x \in Range(q)
    <2>1. f[x] = MergeFlags(x, p) /\ LineIn(f[x]) = LineIn(x)
      BY <1>1, <1>3, MergesKeepLine
    <2>2. MergeFlags(x, p).who = x.who \cup p.who
      BY <1>1, <1>3, FlagsMerged
    <2> QED
      BY <1>1, <2>1, <2>2
  <1> SUFFICES ASSUME NEW s \in Requester, NEW l \in Line
               PROVE  /\ Reads(s, l)' \/ Waits(MSHR', CacheOf(s), l, s)
                          <=> asked'[s] # NONE /\ LineOf[asked'[s]] = l
                      /\ ~(Reads(s, l)' /\ Waits(MSHR', CacheOf(s), l, s))
    BY DEF WaitersInv, Waits
  <1>5. /\ Reads(s, l) \/ Waits(MSHR, CacheOf(s), l, s) <=> asked[s] # NONE /\ LineOf[asked[s]] = l
        /\ ~(Reads(s, l) /\ Waits(MSHR, CacheOf(s), l, s))
    BY DEF WaitersInv
  <1>6. asked'[s] = IF s = r THEN addr ELSE asked[s]
    BY <1>1 DEF BaseInv
  <1> HIDE DEF f
  <1>7. Reads(s, l)' <=> Reads(s, l) \/ (s = r /\ l = LineIn(p))
    <2>1. CASE CacheOf(s) = c
      <3> HIDE DEF c
      <3>1. /\ Reads(s, l) <=> \E x \in Range(q) : s \in x.who /\ LineIn(x) = l
            /\ Reads(s, l)' <=> \E y \in Range(q2) : s \in y.who /\ LineIn(y) = l
        BY <2>1 DEF Reads
      <3> HIDE DEF q, q2
      <3>2. ASSUME NEW y \in Range(q2), s \in y.who, LineIn(y) = l
            PROVE  (\E x \in Range(q) : s \in x.who /\ LineIn(x) = l) \/ (s = r /\ l = LineIn(p))
        <4>1. CASE y \in Range(q)
          BY <3>2, <4>1
        <4>2. CASE y = p
          BY <1>1, <3>2, <4>2
        <4>3. CASE \E x \in Range(q) : LineIn(x) = LineIn(p) /\ y = f[x]
          BY <1>4, <3>2, <4>3
        <4> QED
          BY <1>1, <4>1, <4>2, <4>3 DEF Joined
      <3>3. ASSUME NEW x \in Range(q), s \in x.who, LineIn(x) = l
            PROVE  \E y \in Range(q2) : s \in y.who /\ LineIn(y) = l
        <4>1. IF LineIn(x) = LineIn(p) THEN f[x] \in Range(q2) ELSE x \in Range(q2)
          BY <1>1 DEF Joined
        <4> QED
          BY <1>4, <3>3, <4>1
      <3>4. ASSUME s = r, l = LineIn(p) PROVE \E y \in Range(q2) : s \in y.who /\ LineIn(y) = l
        <4>1. CASE \E x \in Range(q) : LineIn(x) = LineIn(p)
          BY <1>1, <1>4, <3>4, <4>1 DEF Joined
        <4>2. CASE ~\E x \in Range(q) : LineIn(x) = LineIn(p)
          BY <1>1, <3>4, <4>2 DEF Joined
        <4> QED
          BY <4>1, <4>2
      <3> QED
        BY <3>1, <3>2, <3>3, <3>4
    <2>2. CASE CacheOf(s) # c
      BY <1>1, <2>2, Owners DEF Reads
    <2> QED
      BY <2>1, <2>2
  <1>8. s = r => ~Waits(MSHR, CacheOf(s), l, s) /\ ~Reads(s, l)
    BY <1>1, <1>5
  <1> QED
    BY <1>1, <1>2, <1>5, <1>6, <1>7, <1>8

\* The other steps move no requester.
LEMMA OthersKeepWaiters ==
    ASSUME BaseInv, WaitersInv, NEW c \in CacheName, NEW p,
           \/ WritebackHitEffects(c, p) \/ WritebackFillEffects(c, p)
           \/ RFOMissEffects(p) \/ RFOMergedEffects(p)
           \/ PrefetchHitEffects(c, p) \/ PrefetchMissEffects(c, p) \/ PrefetchMergedEffects(c, p)
           \/ PrefetchLineEffects(c, p)
           \/ StoreEffects \/ (\E l \in Line : MemoryEffects(l)) \/ (\E page : SwapEffects(page))
    PROVE  WaitersInv'
  <1>1. asked' = asked /\ \A d \in L1 : RQ'[d] = RQ[d]
    BY DEF WritebackHitEffects, WritebackFillEffects, RFOMissEffects, RFOMergedEffects,
           PrefetchHitEffects, PrefetchMissEffects, PrefetchMergedEffects, PrefetchLineEffects,
           StoreEffects, MemoryEffects, SwapEffects, queues
  <1>2. MSHR \in Table /\ Misses(MSHR)
    BY DEF BaseInv, Misses
  <1>3. WaitSame(MSHR, MSHR')
    <2>1. CASE RFOMissEffects(p)
      <3>1. p \in Packet /\ p.who = {} /\ Sends(L1D, p) /\ L1D \in CacheName
        BY <2>1, Names DEF RFOMissEffects, StoreIn
      <3> QED
        BY <1>2, <3>1, SendsTakes, TakesNone
    <2>2. CASE RFOMergedEffects(p)
      <3>1. p \in Packet /\ p.who = {} /\ L1D \in CacheName /\ \E x : Meets(L1D, p, x)
        BY <2>2, Names DEF RFOMergedEffects, StoreIn
      <3> QED
        BY <3>1, MeetsTakes, TakesNone
    <2>3. CASE PrefetchHitEffects(c, p)
      BY <1>2, <2>3, DeliveredWaits DEF PrefetchHitEffects
    <2>4. CASE PrefetchMissEffects(c, p)
      <3>1. p \in Packet /\ p.who = {} /\ MSHR[c][LineIn(p)] = NONE
        BY <2>4 DEF PrefetchMissEffects, PrefetchIn, NewMiss
      <3>2. CASE Sends(c, p)
        BY <1>2, <3>1, <3>2, SendsTakes, TakesNone
      <3>3. CASE Put(MSHR, MSHR', c, LineIn(p), AsMiss(p, FALSE))
        BY <3>1, <3>3, PutTakes, TakesNone
      <3>4. CASE MSHR' = MSHR
        BY <3>4 DEF WaitSame
      <3> QED
        BY <2>4, <3>2, <3>3, <3>4 DEF PrefetchMissEffects
    <2>5. CASE PrefetchMergedEffects(c, p)
      <3>1. p \in Packet /\ p.who = {} /\ \E x : Meets(c, p, x)
        BY <2>5 DEF PrefetchMergedEffects, PrefetchIn
      <3> QED
        BY <3>1, MeetsTakes, TakesNone
    <2>6. CASE \E l \in Line : MemoryEffects(l)
      <3>1. PICK l \in Line : /\ MSHR[L2C][l] # NONE /\ MissIn(L2C, l, MSHR[L2C][l])
                              /\ Put(MSHR, MSHR', L2C, l, Answered(MSHR[L2C][l]))
        BY <2>6 DEF MemoryEffects
      <3> DEFINE x == Answered(MSHR[L2C][l])
      <3>2. x \in Miss /\ x.who = MSHR[L2C][l].who
        BY <3>1, AnsweredMiss DEF MissIn
      <3>3. x # NONE
        BY <3>2, Sizes
      <3>4. \A d \in CacheName, k \in Line : MSHR'[d][k] = IF d = L2C /\ k = l THEN x ELSE MSHR[d][k]
        BY <3>1 DEF Put
      <3> HIDE DEF x
      <3> QED
        BY <3>1, <3>2, <3>3, <3>4 DEF WaitSame, Waits
    <2>7. CASE \/ WritebackHitEffects(c, p) \/ WritebackFillEffects(c, p)
               \/ PrefetchLineEffects(c, p) \/ StoreEffects \/ \E page : SwapEffects(page)
      <3>1. WritebackHitEffects(c, p) \/ WritebackFillEffects(c, p) => MSHR' = MSHR
        BY DEF WritebackHitEffects, WritebackFillEffects
      <3>2. PrefetchLineEffects(c, p) \/ StoreEffects => MSHR' = MSHR
        BY DEF PrefetchLineEffects, StoreEffects
      <3>3. (\E page : SwapEffects(page)) => MSHR' = MSHR
        BY DEF SwapEffects
      <3> QED
        BY <2>7, <3>1, <3>2, <3>3 DEF WaitSame
    <2> QED
      BY <2>1, <2>2, <2>3, <2>4, <2>5, <2>6, <2>7
  <1> QED
    BY <1>1, <1>3, WaitersStay

\* To wait under one line in a queue that holds a line once, or in the MSHR,
\* is to be held once.
LEMMA WaitersHeldOnce == BaseInv /\ WaitersInv => RequesterHeldOnce
  <1> SUFFICES ASSUME BaseInv, WaitersInv, NEW r \in Requester
               PROVE  LET c == CacheOf(r)
                      IN    Cardinality({i \in DOMAIN RQ[c] : r \in RQ[c][i].who})
                          + Cardinality({l \in Line : MSHR[c][l] # NONE /\ r \in MSHR[c][l].who})
                          = IF asked[r] = NONE THEN 0 ELSE 1
    BY DEF RequesterHeldOnce
  <1> DEFINE c == CacheOf(r)
             inReads == {i \in DOMAIN RQ[c] : r \in RQ[c][i].who}
             inMisses == {l \in Line : MSHR[c][l] # NONE /\ r \in MSHR[c][l].who}
             a == LineOf[asked[r]]
  <1>1. c \in CacheName /\ ReadsInv /\ ReadQ(c, RQ[c])
    BY Owners DEF BaseInv, ReadsInv
  <1>2. NoRepeats(RQ[c]) /\ \A i \in DOMAIN RQ[c] : RQ[c][i] \in Range(RQ[c]) /\ RQ[c][i] \in Packet
    BY <1>1, ElementOfSeq, LenProperties DEF ReadQ, Range
  <1>3. asked[r] \in Addr \cup {NONE}
    BY DEF BaseInv
  <1>4. \A i \in inReads : asked[r] # NONE /\ LineIn(RQ[c][i]) = a /\ ~Waits(MSHR, c, a, r)
    <2> TAKE i \in inReads
    <2>1. Reads(r, LineIn(RQ[c][i])) /\ LineIn(RQ[c][i]) \in Line
      BY <1>2, PacketLine DEF Reads
    <2> QED
      BY <2>1 DEF WaitersInv
  <1>5. \A l \in inMisses : asked[r] # NONE /\ l = a /\ ~Reads(r, a)
    <2> TAKE l \in inMisses
    <2>1. Waits(MSHR, c, l, r) /\ l \in Line
      BY DEF Waits
    <2> QED
      BY <2>1 DEF WaitersInv
  <1>6. \A i, j \in inReads : i = j
    BY <1>2, <1>4 DEF NoRepeats
  <1>7. CASE asked[r] = NONE
    <2>1. inReads = {} /\ inMisses = {}
      BY <1>4, <1>5, <1>7
    <2>2. Cardinality(inReads) = 0 /\ Cardinality(inMisses) = 0
      BY <2>1, FS_EmptySet
    <2> QED
      BY <1>7, <2>2
  <1>8. CASE asked[r] # NONE
    <2>1. a \in Line /\ (Reads(r, a) \/ Waits(MSHR, c, a, r))
      BY <1>3, <1>8, Sizes DEF WaitersInv
    <2>2. CASE Reads(r, a)
      <3>1. PICK p \in Range(RQ[c]) : r \in p.who /\ LineIn(p) = a
        BY <2>2 DEF Reads
      <3>2. PICK i \in DOMAIN RQ[c] : p = RQ[c][i]
        BY <3>1 DEF Range
      <3>3. inReads = {i}
        BY <1>6, <3>1, <3>2
      <3>4. inMisses = {}
        BY <1>5, <2>2
      <3>5. Cardinality(inReads) = 1 /\ Cardinality(inMisses) = 0
        BY <3>3, <3>4, FS_EmptySet, FS_Singleton
      <3> QED
        BY <1>8, <3>5
    <2>3. CASE ~Reads(r, a)
      <3>1. inReads = {}
        <4>1. ASSUME NEW i \in inReads PROVE FALSE
          BY <1>2, <1>4, <2>3, <4>1 DEF Reads
        <4> QED
          BY <4>1
      <3>2. inMisses = {a}
        BY <1>5, <2>1, <2>3 DEF Waits
      <3>3. Cardinality(inReads) = 0 /\ Cardinality(inMisses) = 1
        BY <3>1, <3>2, FS_EmptySet, FS_Singleton
      <3> QED
        BY <1>8, <3>3
    <2> QED
      BY <2>2, <2>3
  <1> QED
    BY <1>7, <1>8

\* A fetch or a load that waits is held by one packet of its cache, in the
\* read queue or in the MSHR, through every merge, miss, hit and fill, and one
\* that does not wait by none: it is neither forgotten nor completed twice.
THEOREM CacheRequesterHeldOnce == Spec => []RequesterHeldOnce
  <1>1. ASSUME BaseInv, WaitersInv, [Next]_vars PROVE WaitersInv'
    <2>1. CASE UNCHANGED vars
      <3>1. MSHR' = MSHR /\ RQ' = RQ /\ asked' = asked
        BY <2>1 DEF vars, queues
      <3> QED
        BY <1>1, <3>1, WaitersStay DEF WaitSame
    <2>2. CASE Next
      <3>1. Effect /\ L1D \in CacheName
        BY <1>1, <2>2, StepEffect, Names
      <3>2. ASSUME NEW c \in CacheName, NEW l \in Line, FillEffects(c, l, MSHR[c][l], Victim(c, l))
            PROVE  WaitersInv'
        BY <1>1, <3>2, FillKeepsWaiters
      <3>3. ASSUME NEW c \in CacheName, NEW p,
                   ReadHitEffects(c, p) \/ ReadMissEffects(c, p) \/ ReadMergedEffects(c, p)
            PROVE  WaitersInv'
        BY <1>1, <3>3, ReadHitKeepsWaiters, ReadsKeepWaiters
      <3>4. ASSUME NEW c \in CacheName, NEW p,
                   \/ WritebackHitEffects(c, p) \/ WritebackFillEffects(c, p)
                   \/ RFOMissEffects(p) \/ RFOMergedEffects(p)
                   \/ PrefetchHitEffects(c, p) \/ PrefetchMissEffects(c, p)
                   \/ PrefetchMergedEffects(c, p) \/ PrefetchLineEffects(c, p)
            PROVE  WaitersInv'
        BY <1>1, <3>4, OthersKeepWaiters
      <3>5. ASSUME NEW r \in Requester, NEW addr, NEW p, AskEffects(CacheOf(r), r, addr, p)
            PROVE  WaitersInv'
        BY <1>1, <3>5, AskKeepsWaiters
      <3>6. ASSUME StoreEffects \/ (\E l \in Line : MemoryEffects(l)) \/ (\E page : SwapEffects(page))
            PROVE  WaitersInv'
        BY <1>1, <3>1, <3>6, OthersKeepWaiters
      <3> QED
        BY <3>1, <3>2, <3>3, <3>4, <3>5, <3>6 DEF Effect
    <2> QED
      BY <1>1, <2>1, <2>2
  <1>2. BaseInv /\ [Next]_vars => BaseInv'
    BY StepEffect, BaseStutters
  <1>3. ASSUME Init PROVE WaitersInv
    <2>1. \A c \in CacheName : RQ[c] = <<>> /\ \A l \in Line : MSHR[c][l] = NONE
      BY <1>3 DEF Init
    <2>2. Range(<<>>) = {}
      BY DEF Range
    <2>3. \A r \in Requester : asked[r] = NONE
      BY <1>3 DEF Init
    <2> QED
      BY <2>1, <2>2, <2>3, Owners DEF WaitersInv, Reads, Waits
  <1> QED
    BY <1>1, <1>2, <1>3, BaseInit, WaitersHeldOnce, PTL DEF Spec

-----------------------------------------------------------------------------
(* One request below.                                                      *)

\* A queue of L2C, or its MSHR, holds a request that it will answer in c; and
\* a miss of c waits for an answer.
Asks(q, c, l) == \E p \in Range(q) : LineIn(p) = l /\ FlagFor(p, c)
Under(m, c, l) == m[L2C][l] # NONE /\ FlagFor(m[L2C][l], c)
Awaits(m, c, l) == m[c][l] # NONE /\ ~m[c][l].returned

\* The prefetcher of neither first-level cache asks for lines of the other.
Separate ==
    /\ CodeLines \cap PrefetchLines(L1D) = {}
    /\ DataLines \cap PrefetchLines(L1I) = {}

\* At most one of three holds a request, and only for a miss that waits;
\* with Separate, one does.
OneOf(r, p, m, w) ==
    /\ r \/ p \/ m => w
    /\ Separate => (w => r \/ p \/ m)
    /\ ~(r /\ p) /\ ~(r /\ m) /\ ~(p /\ m)
BelowAt(c, l) ==
    OneOf(Asks(RQ[L2C], c, l), Asks(PQ[L2C], c, l), Under(MSHR, c, l), Awaits(MSHR, c, l))
BelowInv == \A c \in L1, l \in Line : BelowAt(c, l)

\* p asks for line l on behalf of c.
For(p, c, l) == LineIn(p) = l /\ FlagFor(p, c)

\* What leaves a queue from its head, and what enters it,
LEMMA HeadAsks ==
    ASSUME NEW q, NEW p, HeadOf(q, p), NEW c, NEW l
    PROVE  /\ Asks(q, c, l) <=> Asks(Tail(q), c, l) \/ For(p, c, l)
           /\ ~(Asks(Tail(q), c, l) /\ For(p, c, l))
  BY DEF HeadOf, Asks, For

\* A packet that joins brings its flags, and takes none from the others.
LEMMA JoinedAsks ==
    ASSUME NEW q \in Seq(Packet), NEW q2, NEW p \in Packet, NEW f, Joined(q, q2, p, f),
           \A x \in Packet : /\ LineIn(f[x]) = LineIn(x)
                             /\ \A d \in L1 : FlagFor(f[x], d) <=> FlagFor(x, d) \/ FlagFor(p, d),
           NEW c \in L1, NEW l
    PROVE  Asks(q2, c, l) <=> Asks(q, c, l) \/ For(p, c, l)
  <1>1. \A x \in Range(q) : x \in Packet
    BY RangeOfSeq
  <1>2. ASSUME Asks(q2, c, l) PROVE Asks(q, c, l) \/ For(p, c, l)
    <2>1. PICK y \in Range(q2) : LineIn(y) = l /\ FlagFor(y, c)
      BY <1>2 DEF Asks
    <2>2. CASE y \in Range(q) \/ y = p
      BY <2>1, <2>2 DEF Asks, For
    <2>3. CASE \E x \in Range(q) : LineIn(x) = LineIn(p) /\ y = f[x]
      BY <1>1, <2>1, <2>3 DEF Asks, For
    <2> QED
      BY <2>2, <2>3 DEF Joined
  <1>3. ASSUME Asks(q, c, l) PROVE Asks(q2, c, l)
    <2>1. PICK x \in Range(q) : LineIn(x) = l /\ FlagFor(x, c)
      BY <1>3 DEF Asks
    <2>2. IF LineIn(x) = LineIn(p) THEN f[x] \in Range(q2) ELSE x \in Range(q2)
      BY DEF Joined
    <2> QED
      BY <1>1, <2>1, <2>2 DEF Asks
  <1>4. ASSUME For(p, c, l) PROVE Asks(q2, c, l)
    <2>1. CASE \E x \in Range(q) : LineIn(x) = LineIn(p)
      <3>1. PICK x \in Range(q) : LineIn(x) = LineIn(p)
        BY <2>1
      <3>2. f[x] \in Range(q2) /\ LineIn(f[x]) = l /\ FlagFor(f[x], c)
        BY <1>1, <1>4, <3>1 DEF Joined, For
      <3> QED
        BY <3>2 DEF Asks
    <2>2. CASE \A x \in Range(q) : LineIn(x) # LineIn(p)
      BY <1>4, <2>2 DEF Joined, Asks, For
    <2> QED
      BY <2>1, <2>2
  <1> QED
    BY <1>2, <1>3, <1>4

\* Both merges keep the flags of both packets.
LEMMA MergedFlags ==
    ASSUME NEW p \in Packet, NEW x \in Packet
    PROVE  /\ LineIn(WithFlags(p)[x]) = LineIn(x) /\ LineIn(WithLevel(p)[x]) = LineIn(x)
           /\ \A d \in L1 :
                /\ FlagFor(WithFlags(p)[x], d) <=> FlagFor(x, d) \/ FlagFor(p, d)
                /\ FlagFor(WithLevel(p)[x], d) <=> FlagFor(x, d) \/ FlagFor(p, d)
  <1>1. /\ LineIn(WithFlags(p)[x]) = LineIn(x) /\ LineIn(WithLevel(p)[x]) = LineIn(x)
        /\ WithFlags(p)[x] = MergeFlags(x, p) /\ WithLevel(p)[x] = MergeLevel(x, p)
    BY MergesKeepLine
  <1>2. /\ MergeFlags(x, p).fill_l1i = (x.fill_l1i \/ p.fill_l1i)
        /\ MergeFlags(x, p).fill_l1d = (x.fill_l1d \/ p.fill_l1d)
    BY FlagsMerged
  <1>3. /\ MergeLevel(x, p).fill_l1i = (x.fill_l1i \/ p.fill_l1i)
        /\ MergeLevel(x, p).fill_l1d = (x.fill_l1d \/ p.fill_l1d)
    BY LevelsMerged
  <1> QED
    BY <1>1, <1>2, <1>3 DEF FlagFor

\* Only a request that fills the first level carries a flag, and one of the
\* first level carries its own.
LEMMA FlagsAnswer ==
    ASSUME NEW p, Answerable(p)
    PROVE  p.fill_level = FILL_L1 <=> \E c \in L1 : FlagFor(p, c)
  BY Names DEF Answerable, FlagFor

\* A packet of the first level is for its own cache alone.
LEMMA OwnFlagFor ==
    ASSUME NEW c \in L1, NEW p, OwnFlags(c, p), NEW d \in L1
    PROVE  FlagFor(p, d) <=> d = c
  BY Names DEF OwnFlags, FlagFor

\* What an answer, and a change of one miss, leave of the misses that wait.
LEMMA DeliveredBelow ==
    ASSUME NEW m \in Table, NEW n, NEW c, NEW p, Delivered(m, n, c, p),
           NEW d \in L1, NEW l \in Line
    PROVE  /\ Under(n, d, l) <=> Under(m, d, l)
           /\ Awaits(n, d, l) <=> Awaits(m, d, l) /\ ~Answers(c, p, d, l)
  <1>1. d \in CacheName /\ L2C \in CacheName
    BY Names
  <1>2. /\ n[L2C][l] = NONE <=> m[L2C][l] = NONE
        /\ m[L2C][l] # NONE => /\ n[L2C][l].fill_l1i = m[L2C][l].fill_l1i
                               /\ n[L2C][l].fill_l1d = m[L2C][l].fill_l1d
    BY <1>1, DeliverFields
  <1>3. /\ n[d][l] = NONE <=> m[d][l] = NONE
        /\ m[d][l] # NONE => (n[d][l].returned <=> m[d][l].returned \/ Answers(c, p, d, l))
    BY <1>1, DeliverFields
  <1> QED
    BY <1>2, <1>3 DEF Under, Awaits, FlagFor

\* A change of one miss changes what waits there alone.
LEMMA PutBelow ==
    ASSUME NEW m, NEW n, NEW l \in Line, NEW x, NEW d \in L1, NEW k \in Line
    PROVE  /\ Put(m, n, L2C, l, x) =>
                /\ Under(n, d, k) <=> IF k = l THEN x # NONE /\ FlagFor(x, d) ELSE Under(m, d, k)
                /\ Awaits(n, d, k) <=> Awaits(m, d, k)
           /\ \A c \in L1 : Put(m, n, c, l, x) =>
                /\ Under(n, d, k) <=> Under(m, d, k)
                /\ Awaits(n, d, k) <=> IF d = c /\ k = l THEN x # NONE /\ ~x.returned
                                                         ELSE Awaits(m, d, k)
  <1>1. d \in CacheName /\ L2C \in CacheName /\ d # L2C /\ \A c \in L1 : c \in CacheName /\ c # L2C
    BY Names
  <1> QED
    BY <1>1 DEF Put, Under, Awaits

\* A new miss waits, unless L2C has answered it at once.
LEMMA SendsBelow ==
    ASSUME Misses(MSHR), NEW c \in L1, NEW p \in Packet, Sends(c, p),
           OwnFlags(c, p), p.fill_level = FILL_L1, NEW d \in L1, NEW l \in Line
    PROVE  /\ Under(MSHR', d, l) <=> Under(MSHR, d, l)
           /\ Awaits(MSHR', d, l) <=> Awaits(MSHR, d, l) \/ (For(p, d, l) /\ ~Forwards(L2C, p))
           /\ For(p, d, l) => ~Awaits(MSHR, d, l)
  <1> DEFINE x == AsMiss(p, FALSE)
  <1>1. PICK m : /\ MSHR[c][LineIn(p)] = NONE /\ Put(MSHR, m, c, LineIn(p), x)
                 /\ IF Forwards(L2C, p) THEN Delivered(m, MSHR', L2C, p) ELSE MSHR' = m
    BY DEF Sends
  <1>2. x # NONE /\ ~x.returned /\ LineIn(p) \in Line
    BY AsMissFields, Sizes, PacketLine
  <1>3. FlagFor(p, d) <=> d = c
    BY OwnFlagFor
  <1> HIDE DEF x
  <1>4. /\ Under(m, d, l) <=> Under(MSHR, d, l)
        /\ Awaits(m, d, l) <=> Awaits(MSHR, d, l) \/ For(p, d, l)
    BY <1>1, <1>2, <1>3, PutBelow DEF For
  <1>5. For(p, d, l) => ~Awaits(MSHR, d, l)
    BY <1>1, <1>3 DEF For, Awaits
  <1>6. CASE Forwards(L2C, p)
    <2>1. m \in Table /\ Delivered(m, MSHR', L2C, p)
      BY <1>1, <1>6 DEF Put
    <2>2. Answers(L2C, p, d, l) <=> For(p, d, l)
      BY DEF Answers, For
    <2>3. /\ Under(MSHR', d, l) <=> Under(m, d, l)
          /\ Awaits(MSHR', d, l) <=> Awaits(m, d, l) /\ ~Answers(L2C, p, d, l)
      BY <2>1, DeliveredBelow
    <2> QED
      BY <1>4, <1>5, <1>6, <2>2, <2>3
  <1>7. CASE ~Forwards(L2C, p)
    BY <1>1, <1>4, <1>5, <1>7
  <1> QED
    BY <1>6, <1>7

\* The reads of L2C are as many as the misses above that wait, at most, so
\* that one more miss finds room for its read.
LEMMA ReadRoom ==
    ASSUME BaseInv, BelowInv, NEW c \in L1, NEW p, NewMiss(c, p)
    PROVE  Room(L2C, RQ, RQ_SIZE)
  <1> DEFINE q == RQ[L2C]
             A == Lines(MSHR[L1I])
             B == Lines(MSHR[L1D])
             f == [i \in 1..Len(q) |-> LineIn(q[i])]
  <1>1. /\ q \in Seq(Packet) /\ NoRepeats(q) /\ \A x \in Range(q) : ReadIn(L2C, x)
    BY Names DEF BaseInv, ReadsInv, ReadQ
  <1>2. Len(q) \in Nat /\ DOMAIN q = 1..Len(q)
    BY <1>1, LenProperties
  <1>3. ASSUME NEW i \in 1..Len(q) PROVE LineIn(q[i]) \in A \cup B
    <2>1. q[i] \in Range(q) /\ q[i] \in Packet
      BY <1>1, <1>2, ElementOfSeq DEF Range
    <2>2. ReadIn(L2C, q[i]) /\ LineIn(q[i]) \in Line
      BY <1>1, <2>1, PacketLine
    <2>3. PICK d \in L1 : FlagFor(q[i], d)
      BY <2>2, FlagsAnswer DEF ReadIn
    <2>4. Asks(q, d, LineIn(q[i]))
      BY <2>1, <2>3 DEF Asks
    <2>5. Awaits(MSHR, d, LineIn(q[i]))
      BY <2>2, <2>4 DEF BelowInv, BelowAt, OneOf
    <2>6. MSHR[d][LineIn(q[i])] # NONE /\ (d = L1I \/ d = L1D)
      BY <2>5, Names DEF Awaits
    <2> QED
      BY <2>2, <2>6 DEF Lines
  <1>4. f \in Injection(1..Len(q), A \cup B)
    <2>1. f \in [1..Len(q) -> A \cup B]
      BY <1>3
    <2>2. ASSUME NEW i \in 1..Len(q), NEW j \in 1..Len(q), f[i] = f[j] PROVE i = j
      BY <1>1, <1>2, <2>2 DEF NoRepeats
    <2> QED
      BY <2>1, <2>2 DEF Injection, IsInjective
  <1> DEFINE a == Cardinality(A)
             b == Cardinality(B)
             n == Cardinality(A \cup B)
             k == Cardinality(A \cap B)
  <1>5. IsFiniteSet(A) /\ IsFiniteSet(B) /\ a \in Nat /\ b \in Nat
    BY LinesFinite
  <1>6. IsFiniteSet(A \cup B) /\ n = a + b - k /\ n \in Nat /\ k \in Nat
    BY <1>5, FS_Union, FS_Intersection, FS_CardinalityType
  <1>7. Len(q) <= n
    <2>1. Cardinality(1..Len(q)) = Len(q)
      BY <1>2, FS_Interval
    <2> HIDE DEF f, A, B
    <2>2. Cardinality(1..Len(q)) <= n
      BY <1>4, <1>6, FS_Injection
    <2> QED
      BY <2>1, <2>2
  <1>8. a <= MSHR_SIZE[L1I] /\ b <= MSHR_SIZE[L1D]
    BY Names DEF BaseInv, Misses, MissT
  <1>9. a < MSHR_SIZE[L1I] \/ b < MSHR_SIZE[L1D]
    <2>1. ~(Cardinality(Lines(MSHR[c])) >= MSHR_SIZE[c]) /\ (c = L1I \/ c = L1D)
      BY Names DEF NewMiss, MSHRFull, Lines
    <2>2. MSHR_SIZE[L1I] \in Nat /\ MSHR_SIZE[L1D] \in Nat
      BY Sizes, Names
    <2> QED
      BY <1>5, <2>1, <2>2
  <1>10. /\ MSHR_SIZE[L1I] \in Nat /\ MSHR_SIZE[L1D] \in Nat /\ RQ_SIZE[L2C] \in Nat
         /\ RQ_SIZE[L2C] >= MSHR_SIZE[L1I] + MSHR_SIZE[L1D]
    BY Sizes, Names
  <1> HIDE DEF a, b, n, k, f, A, B
  <1>11. Len(q) < RQ_SIZE[L2C]
    BY <1>2, <1>5, <1>6, <1>7, <1>8, <1>9, <1>10
  <1> QED
    BY <1>11 DEF Room

\* So the queues of L2C take in every request sent below that they do not
\* answer at once.
LEMMA SentAsks ==
    ASSUME BaseInv, BelowInv, NEW c \in L1, NEW p \in Packet, NewMiss(c, p), SentBelow(p),
           NEW d \in L1, NEW l \in Line
    PROVE  Asks(RQ'[L2C], d, l) <=> Asks(RQ[L2C], d, l) \/ (For(p, d, l) /\ ~Forwards(L2C, p))
  <1> DEFINE b == Below(p)
  <1>1. /\ b \in Packet /\ LineIn(b) = LineIn(p) /\ (Forwards(L2C, b) <=> Forwards(L2C, p))
        /\ b.fill_l1i = p.fill_l1i /\ b.fill_l1d = p.fill_l1d
    BY BelowFields
  <1>2. /\ RQ[L2C] \in Seq(Packet) /\ NoRepeats(RQ[L2C]) /\ Len(RQ[L2C]) <= RQ_SIZE[L2C]
    BY Names DEF BaseInv, ReadsInv, ReadQ
  <1>3. Room(L2C, RQ, RQ_SIZE)
    BY ReadRoom
  <1>4. RQ'[L2C] = add_rq(L2C, b)
    BY DEF SentBelow
  <1> HIDE DEF b
  <1>5. For(b, d, l) <=> For(p, d, l)
    BY <1>1 DEF For, FlagFor
  <1>6. CASE Forwards(L2C, p)
    <2>1. add_rq(L2C, b) = RQ[L2C]
      BY <1>1, <1>2, <1>6, Names, AddRq
    <2> QED
      BY <1>4, <1>6, <2>1
  <1>7. CASE ~Forwards(L2C, p)
    <2>1. Joined(RQ[L2C], RQ'[L2C], b, WithFlags(b))
      BY <1>1, <1>2, <1>3, <1>4, <1>7, Names, AddRq
    <2>2. \A x \in Packet : /\ LineIn(WithFlags(b)[x]) = LineIn(x)
                            /\ \A e \in L1 : FlagFor(WithFlags(b)[x], e) <=> FlagFor(x, e) \/ FlagFor(b, e)
      BY <1>1, MergedFlags
    <2> QED
      BY <1>1, <1>2, <1>5, <1>7, <2>1, <2>2, JoinedAsks
  <1> QED
    BY <1>6, <1>7

PassedBelow(p) == PQ'[L2C] = add_pq(L2C, p)

\* A prefetch passed below is asked for there, or answered from the write
\* queue.
LEMMA PrefetchAsks ==
    ASSUME BaseInv, NEW p \in Packet, Room(L2C, PQ, PQ_SIZE), PassedBelow(p),
           NEW d \in L1, NEW l \in Line
    PROVE  Asks(PQ'[L2C], d, l) <=> Asks(PQ[L2C], d, l) \/ (For(p, d, l) /\ ~Forwards(L2C, p))
  <1>1. /\ PQ[L2C] \in Seq(Packet) /\ NoRepeats(PQ[L2C]) /\ Len(PQ[L2C]) <= PQ_SIZE[L2C]
    BY Names DEF BaseInv, PrefetchesInv, PrefetchQ
  <1>2. CASE Forwards(L2C, p)
    <2>1. PQ'[L2C] = PQ[L2C]
      BY <1>1, <1>2, Names, AddPq DEF PassedBelow
    <2> QED
      BY <1>2, <2>1 DEF Asks
  <1>3. CASE ~Forwards(L2C, p)
    <2>1. Joined(PQ[L2C], PQ'[L2C], p, WithLevel(p))
      BY <1>1, <1>3, Names, AddPq DEF PassedBelow
    <2>2. \A x \in Packet : /\ LineIn(WithLevel(p)[x]) = LineIn(x)
                            /\ \A e \in L1 : FlagFor(WithLevel(p)[x], e) <=> FlagFor(x, e) \/ FlagFor(p, e)
      BY MergedFlags
    <2>3. Asks(PQ'[L2C], d, l) <=> Asks(PQ[L2C], d, l) \/ For(p, d, l)
      BY <1>1, <2>1, <2>2, JoinedAsks
    <2> QED
      BY <1>3, <2>3
  <1> QED
    BY <1>2, <1>3

\* What a step leaves of the requests below and of the misses above.
ReadsSame == \A c \in L1, l \in Line : Asks(RQ'[L2C], c, l) <=> Asks(RQ[L2C], c, l)
PrefetchesSame == \A c \in L1, l \in Line : Asks(PQ'[L2C], c, l) <=> Asks(PQ[L2C], c, l)
UnderSame == \A c \in L1, l \in Line : Under(MSHR', c, l) <=> Under(MSHR, c, l)
AwaitsSame == \A c \in L1, l \in Line : Awaits(MSHR', c, l) <=> Awaits(MSHR, c, l)

\* A step that leaves all of them keeps the invariant.
LEMMA BelowStays ==
    ASSUME BelowInv, ReadsSame, PrefetchesSame, UnderSame, AwaitsSame
    PROVE  BelowInv'
  <1> SUFFICES ASSUME NEW c \in L1, NEW l \in Line
               PROVE  OneOf(Asks(RQ'[L2C], c, l), Asks(PQ'[L2C], c, l), Under(MSHR', c, l),
                            Awaits(MSHR', c, l))
    BY DEF BelowInv, BelowAt, OneOf, Asks, Under, Awaits
  <1> QED
    BY DEF BelowInv, BelowAt, OneOf, ReadsSame, PrefetchesSame, UnderSame, AwaitsSame

\* Queues and tables that stay leave them.
LEMMA SameRequests ==
    /\ RQ'[L2C] = RQ[L2C] => ReadsSame
    /\ PQ'[L2C] = PQ[L2C] => PrefetchesSame
    /\ MSHR' = MSHR => UnderSame /\ AwaitsSame
  BY DEF ReadsSame, PrefetchesSame, UnderSame, AwaitsSame

\* The goal at a line, in terms of what the next state holds.
LEMMA BelowNext ==
    ASSUME \A c \in L1, l \in Line :
             OneOf(Asks(RQ'[L2C], c, l), Asks(PQ'[L2C], c, l), Under(MSHR', c, l), Awaits(MSHR', c, l))
    PROVE  BelowInv'
  BY DEF BelowInv, BelowAt, OneOf, Asks, Under, Awaits

\* A miss of the first level and its request below come together.
LEMMA DemandSent ==
    ASSUME BaseInv, BelowInv, NEW c \in L1, NEW p \in Packet, NewMiss(c, p), SentBelow(p),
           Sends(c, p), OwnFlags(c, p), p.fill_level = FILL_L1, PQ'[L2C] = PQ[L2C]
    PROVE  BelowInv'
  <1> SUFFICES ASSUME NEW d \in L1, NEW l \in Line
               PROVE  OneOf(Asks(RQ'[L2C], d, l), Asks(PQ'[L2C], d, l), Under(MSHR', d, l),
                            Awaits(MSHR', d, l))
    BY BelowNext
  <1> DEFINE g == For(p, d, l) /\ ~Forwards(L2C, p)
  <1>1. Asks(RQ'[L2C], d, l) <=> Asks(RQ[L2C], d, l) \/ g
    BY SentAsks
  <1>2. /\ Under(MSHR', d, l) <=> Under(MSHR, d, l)
        /\ Awaits(MSHR', d, l) <=> Awaits(MSHR, d, l) \/ g
        /\ For(p, d, l) => ~Awaits(MSHR, d, l)
    BY SendsBelow DEF BaseInv
  <1> QED
    BY <1>1, <1>2 DEF BelowInv, BelowAt, OneOf

\* The same of a prefetch into the first level.
LEMMA PrefetchSent ==
    ASSUME BaseInv, BelowInv, NEW c \in L1, NEW p \in Packet, Room(L2C, PQ, PQ_SIZE),
           PassedBelow(p), Sends(c, p), OwnFlags(c, p), p.fill_level = FILL_L1,
           RQ'[L2C] = RQ[L2C]
    PROVE  BelowInv'
  <1> SUFFICES ASSUME NEW d \in L1, NEW l \in Line
               PROVE  OneOf(Asks(RQ'[L2C], d, l), Asks(PQ'[L2C], d, l), Under(MSHR', d, l),
                            Awaits(MSHR', d, l))
    BY BelowNext
  <1> DEFINE g == For(p, d, l) /\ ~Forwards(L2C, p)
  <1>1. Asks(PQ'[L2C], d, l) <=> Asks(PQ[L2C], d, l) \/ g
    BY PrefetchAsks
  <1>2. /\ Under(MSHR', d, l) <=> Under(MSHR, d, l)
        /\ Awaits(MSHR', d, l) <=> Awaits(MSHR, d, l) \/ g
        /\ For(p, d, l) => ~Awaits(MSHR, d, l)
    BY SendsBelow DEF BaseInv
  <1> QED
    BY <1>1, <1>2 DEF BelowInv, BelowAt, OneOf

\* The miss of a request in L2C, new or joined, is under its flags from then
\* on, and a join leaves the misses above as they are.
LEMMA PutUnder ==
    ASSUME NEW m, NEW n, NEW p \in Packet, m[L2C][LineIn(p)] = NONE,
           Put(m, n, L2C, LineIn(p), AsMiss(p, FALSE)), NEW d \in L1, NEW l \in Line
    PROVE  /\ Under(n, d, l) <=> Under(m, d, l) \/ For(p, d, l)
           /\ Awaits(n, d, l) <=> Awaits(m, d, l)
  <1> DEFINE x == AsMiss(p, FALSE)
  <1>1. x # NONE /\ x.fill_l1i = p.fill_l1i /\ x.fill_l1d = p.fill_l1d /\ LineIn(p) \in Line
    BY AsMissFields, Sizes, PacketLine
  <1>2. Put(m, n, L2C, LineIn(p), x)
    OBVIOUS
  <1> HIDE DEF x
  <1>3. /\ Under(n, d, l) <=> IF l = LineIn(p) THEN x # NONE /\ FlagFor(x, d) ELSE Under(m, d, l)
        /\ Awaits(n, d, l) <=> Awaits(m, d, l)
    BY <1>1, <1>2, PutBelow
  <1>4. FlagFor(x, d) <=> FlagFor(p, d)
    BY <1>1 DEF FlagFor
  <1> QED
    BY <1>1, <1>3, <1>4 DEF For, Under

\* The flags of a prefetch in flight that a demand takes the place of.
FlagsKept(miss, p) ==
    miss.type = "PREFETCH" /\ p.type # "PREFETCH" => \A d \in L1 : FlagFor(miss, d) => FlagFor(p, d)

\* A join brings its flags to a miss of L2C, and a demand that takes the
\* place of a prefetch keeps those it had if it carries them itself;
LEMMA MeetsUnder ==
    ASSUME NEW p \in Packet, NEW x, Meets(L2C, p, x), NEW d \in L1, NEW l \in Line
    PROVE  /\ Under(MSHR', d, l) => Under(MSHR, d, l) \/ For(p, d, l)
           /\ FlagsKept(MSHR[L2C][LineIn(p)], p) =>
                (Under(MSHR, d, l) \/ For(p, d, l) => Under(MSHR', d, l))
  <1> DEFINE miss == MSHR[L2C][LineIn(p)]
  <1>1. miss # NONE /\ x \in Miss /\ Put(MSHR, MSHR', L2C, LineIn(p), x) /\ LineIn(p) \in Line
    BY PacketLine DEF Meets, Joins
  <1>2. x # NONE
    BY <1>1, Sizes
  <1>3. /\ FlagFor(x, d) => FlagFor(miss, d) \/ FlagFor(p, d)
        /\ FlagsKept(miss, p) => (FlagFor(miss, d) \/ FlagFor(p, d) => FlagFor(x, d))
    <2>1. CASE miss.type = "PREFETCH" /\ p.type # "PREFETCH"
      <3>1. FlagFor(x, d) <=> FlagFor(p, d)
        BY <2>1 DEF Meets, Joins, FlagFor
      <3> QED
        BY <2>1, <3>1 DEF FlagsKept
    <2>2. CASE ~(miss.type = "PREFETCH" /\ p.type # "PREFETCH")
      BY <2>2 DEF Meets, Joins, FlagFor
    <2> QED
      BY <2>1, <2>2
  <1>4. Under(MSHR', d, l) <=> IF l = LineIn(p) THEN x # NONE /\ FlagFor(x, d) ELSE Under(MSHR, d, l)
    BY <1>1, PutBelow
  <1> HIDE DEF miss
  <1> QED
    BY <1>1, <1>2, <1>3, <1>4 DEF For, Under, miss

\* no miss waits more or less for it.
LEMMA MeetsAwaits ==
    ASSUME NEW c \in CacheName, NEW p \in Packet, NEW x, Meets(c, p, x)
    PROVE  AwaitsSame /\ (c \in L1 => UnderSame)
  <1>1. /\ MSHR[c][LineIn(p)] # NONE /\ x \in Miss /\ x.returned = MSHR[c][LineIn(p)].returned
        /\ Put(MSHR, MSHR', c, LineIn(p), x) /\ LineIn(p) \in Line
    BY PacketLine DEF Meets, Joins
  <1>2. x # NONE
    BY <1>1, Sizes
  <1>3. CASE c = L2C
    BY <1>1, <1>3, PutBelow, Names DEF AwaitsSame
  <1>4. CASE c \in L1
    <2>1. \A d \in L1, k \in Line :
            /\ Under(MSHR', d, k) <=> Under(MSHR, d, k)
            /\ Awaits(MSHR', d, k) <=> IF d = c /\ k = LineIn(p) THEN x # NONE /\ ~x.returned
                                       ELSE Awaits(MSHR, d, k)
      BY <1>1, <1>4, PutBelow
    <2> QED
      BY <1>1, <1>2, <2>1 DEF UnderSame, AwaitsSame, Awaits
  <1> QED
    BY <1>3, <1>4, Names

\* A prefetch for one first-level cache is not met by a read of the other.
LEMMA ReadKeepsFlags ==
    ASSUME Separate, NEW p, ReadIn(L2C, p), NEW miss, MissIn(L2C, LineIn(p), miss)
    PROVE  FlagsKept(miss, p)
  <1> SUFFICES ASSUME miss.type = "PREFETCH", NEW d \in L1, FlagFor(miss, d) PROVE FlagFor(p, d)
    BY DEF FlagsKept
  <1> DEFINE l == LineIn(p)
  <1>1. /\ LineIn(miss) = l
        /\ miss.fill_l1i => l \in PrefetchLines(L1I)
        /\ miss.fill_l1d => l \in PrefetchLines(L1D)
    BY DEF MissIn, FlagLines
  <1>2. /\ p.fill_l1i => l \in CodeLines
        /\ p.fill_l1d => l \in DataLines
        /\ p.fill_l1i \/ p.fill_l1d
    BY DEF ReadIn, FlagLines, Answerable
  <1> HIDE DEF l
  <1>3. CASE d = L1I
    BY <1>1, <1>2, <1>3, Names DEF FlagFor, Separate
  <1>4. CASE d = L1D
    BY <1>1, <1>2, <1>4, Names DEF FlagFor, Separate
  <1> QED
    BY <1>3, <1>4, Names

\* A read that leaves the queue of L2C for its MSHR keeps one request below,
LEMMA ReadTaken ==
    ASSUME BelowInv, NEW p \in Packet, HeadOf(RQ[L2C], p), RQ'[L2C] = Tail(RQ[L2C]),
           PQ'[L2C] = PQ[L2C], AwaitsSame,
           \A d \in L1, l \in Line :
             /\ Under(MSHR', d, l) => Under(MSHR, d, l) \/ For(p, d, l)
             /\ Separate => (Under(MSHR, d, l) \/ For(p, d, l) => Under(MSHR', d, l))
    PROVE  BelowInv'
  <1> SUFFICES ASSUME NEW d \in L1, NEW l \in Line
               PROVE  OneOf(Asks(RQ'[L2C], d, l), Asks(PQ'[L2C], d, l), Under(MSHR', d, l),
                            Awaits(MSHR', d, l))
    BY BelowNext
  <1>1. /\ Asks(RQ[L2C], d, l) <=> Asks(Tail(RQ[L2C]), d, l) \/ For(p, d, l)
        /\ ~(Asks(Tail(RQ[L2C]), d, l) /\ For(p, d, l))
    BY HeadAsks
  <1>2. Awaits(MSHR', d, l) <=> Awaits(MSHR, d, l)
    BY DEF AwaitsSame
  <1>3. /\ Under(MSHR', d, l) => Under(MSHR, d, l) \/ For(p, d, l)
        /\ Separate => (Under(MSHR, d, l) \/ For(p, d, l) => Under(MSHR', d, l))
    OBVIOUS
  <1> QED
    BY <1>1, <1>2, <1>3 DEF BelowInv, BelowAt, OneOf

\* and so does a prefetch,
LEMMA PrefetchTaken ==
    ASSUME BelowInv, NEW p \in Packet, HeadOf(PQ[L2C], p), PQ'[L2C] = Tail(PQ[L2C]),
           RQ'[L2C] = RQ[L2C], AwaitsSame,
           \A d \in L1, l \in Line : Under(MSHR', d, l) <=> Under(MSHR, d, l) \/ For(p, d, l)
    PROVE  BelowInv'
  <1> SUFFICES ASSUME NEW d \in L1, NEW l \in Line
               PROVE  OneOf(Asks(RQ'[L2C], d, l), Asks(PQ'[L2C], d, l), Under(MSHR', d, l),
                            Awaits(MSHR', d, l))
    BY BelowNext
  <1>1. /\ Asks(PQ[L2C], d, l) <=> Asks(Tail(PQ[L2C]), d, l) \/ For(p, d, l)
        /\ ~(Asks(Tail(PQ[L2C]), d, l) /\ For(p, d, l))
    BY HeadAsks
  <1>2. Awaits(MSHR', d, l) <=> Awaits(MSHR, d, l)
    BY DEF AwaitsSame
  <1>3. Under(MSHR', d, l) <=> Under(MSHR, d, l) \/ For(p, d, l)
    OBVIOUS
  <1> QED
    BY <1>1, <1>2, <1>3 DEF BelowInv, BelowAt, OneOf

\* a head of either queue that L2C answers at once,
LEMMA HeadAnswered ==
    ASSUME BaseInv, BelowInv, NEW p \in Packet, Answerable(p), Delivered(MSHR, MSHR', L2C, p),
           \/ /\ HeadOf(RQ[L2C], p) /\ RQ'[L2C] = Tail(RQ[L2C]) /\ PQ'[L2C] = PQ[L2C]
           \/ /\ HeadOf(PQ[L2C], p) /\ PQ'[L2C] = Tail(PQ[L2C]) /\ RQ'[L2C] = RQ[L2C]
    PROVE  BelowInv'
  <1> SUFFICES ASSUME NEW d \in L1, NEW l \in Line
               PROVE  OneOf(Asks(RQ'[L2C], d, l), Asks(PQ'[L2C], d, l), Under(MSHR', d, l),
                            Awaits(MSHR', d, l))
    BY BelowNext
  <1>1. MSHR \in Table
    BY DEF BaseInv, Misses
  <1>2. /\ Under(MSHR', d, l) <=> Under(MSHR, d, l)
        /\ Awaits(MSHR', d, l) <=> Awaits(MSHR, d, l) /\ ~Answers(L2C, p, d, l)
    BY <1>1, DeliveredBelow
  <1>3. Answers(L2C, p, d, l) <=> For(p, d, l)
    BY FlagsAnswer DEF Answers, For
  <1>4. CASE HeadOf(RQ[L2C], p) /\ RQ'[L2C] = Tail(RQ[L2C]) /\ PQ'[L2C] = PQ[L2C]
    <2>1. /\ Asks(RQ[L2C], d, l) <=> Asks(RQ'[L2C], d, l) \/ For(p, d, l)
          /\ ~(Asks(RQ'[L2C], d, l) /\ For(p, d, l))
      BY <1>4, HeadAsks
    <2>2. Asks(PQ'[L2C], d, l) <=> Asks(PQ[L2C], d, l)
      BY <1>4
    <2> QED
      BY <1>2, <1>3, <2>1, <2>2 DEF BelowInv, BelowAt, OneOf
  <1>5. CASE HeadOf(PQ[L2C], p) /\ PQ'[L2C] = Tail(PQ[L2C]) /\ RQ'[L2C] = RQ[L2C]
    <2>1. /\ Asks(PQ[L2C], d, l) <=> Asks(PQ'[L2C], d, l) \/ For(p, d, l)
          /\ ~(Asks(PQ'[L2C], d, l) /\ For(p, d, l))
      BY <1>5, HeadAsks
    <2>2. Asks(RQ'[L2C], d, l) <=> Asks(RQ[L2C], d, l)
      BY <1>5
    <2> QED
      BY <1>2, <1>3, <2>1, <2>2 DEF BelowInv, BelowAt, OneOf
  <1> QED
    BY <1>4, <1>5

\* and a fill: one in L2C answers the misses above, and one of the first
\* level finds its miss answered.
LEMMA FillKeepsBelow ==
    ASSUME BaseInv, BelowInv, NEW c \in CacheName, NEW l \in Line,
           FillEffects(c, l, MSHR[c][l], Victim(c, l))
    PROVE  BelowInv'
  <1> DEFINE miss == MSHR[c][l]
  <1>1. /\ miss # NONE /\ MissIn(c, l, miss) /\ miss.returned /\ RQ' = RQ /\ PQ' = PQ
        /\ \E m : Delivered(MSHR, m, c, miss) /\ Put(m, MSHR', c, l, NONE)
    BY DEF FillEffects
  <1>2. PICK m : Delivered(MSHR, m, c, miss) /\ Put(m, MSHR', c, l, NONE)
    BY <1>1
  <1>3. MSHR \in Table
    BY DEF BaseInv, Misses
  <1> SUFFICES ASSUME NEW d \in L1, NEW k \in Line
               PROVE  OneOf(Asks(RQ[L2C], d, k), Asks(PQ[L2C], d, k), Under(MSHR', d, k),
                            Awaits(MSHR', d, k))
    BY <1>1, BelowNext
  <1>4. /\ Under(m, d, k) <=> Under(MSHR, d, k)
        /\ Awaits(m, d, k) <=> Awaits(MSHR, d, k) /\ ~Answers(c, miss, d, k)
    BY <1>2, <1>3, DeliveredBelow
  <1>5. OneOf(Asks(RQ[L2C], d, k), Asks(PQ[L2C], d, k), Under(MSHR, d, k), Awaits(MSHR, d, k))
    BY DEF BelowInv, BelowAt
  <1>6. CASE c = L2C
    <2>1. /\ Under(MSHR', d, k) <=> k # l /\ Under(m, d, k)
          /\ Awaits(MSHR', d, k) <=> Awaits(m, d, k)
      BY <1>2, <1>6, PutBelow
    <2>2. Answers(c, miss, d, k) <=> k = l /\ Under(MSHR, d, k)
      <3>1. LineIn(miss) = l /\ (miss.fill_level = FILL_L1 <=> \E e \in L1 : FlagFor(miss, e))
        BY <1>1, FlagsAnswer DEF MissIn
      <3> QED
        BY <1>1, <1>6, <3>1 DEF Answers, Under
    <2> QED
      BY <1>4, <1>5, <2>1, <2>2 DEF OneOf
  <1>7. CASE c \in L1
    <2>1. ~Answers(c, miss, d, k)
      BY <1>7, Names DEF Answers
    <2>2. /\ Under(MSHR', d, k) <=> Under(m, d, k)
          /\ Awaits(MSHR', d, k) <=> ~(d = c /\ k = l) /\ Awaits(m, d, k)
      BY <1>2, <1>7, PutBelow
    <2>3. d = c /\ k = l => ~Awaits(MSHR, d, k)
      BY <1>1 DEF Awaits
    <2> QED
      BY <1>4, <1>5, <2>1, <2>2, <2>3 DEF OneOf
  <1> QED
    BY <1>6, <1>7, Names

\* What a cache of the first level does with its own queues alone.
LEMMA AnsweredAbove ==
    ASSUME BaseInv, NEW c \in L1, NEW p, Delivered(MSHR, MSHR', c, p)
    PROVE  UnderSame /\ AwaitsSame
  <1>1. MSHR \in Table
    BY DEF BaseInv, Misses
  <1>2. \A d \in L1, l \in Line : ~Answers(c, p, d, l)
    BY Names DEF Answers
  <1> QED
    BY <1>1, <1>2, DeliveredBelow DEF UnderSame, AwaitsSame

\* The steps that handle reads keep one request below,
LEMMA ReadsKeepBelow ==
    ASSUME BaseInv, BelowInv, NEW c \in CacheName, NEW p,
           ReadHitEffects(c, p) \/ ReadMissEffects(c, p) \/ ReadMergedEffects(c, p)
    PROVE  BelowInv'
  <1>1. /\ p \in Packet /\ ReadIn(c, p) /\ HeadOf(RQ[c], p) /\ PQ' = PQ
        /\ RQ'[c] = Tail(RQ[c])
    BY Names DEF ReadHitEffects, ReadMissEffects, ReadMergedEffects, Popped, HeadOf
  <1>2. CASE ReadHitEffects(c, p)
    <2>1. CASE c = L2C
      BY <1>1, <1>2, <2>1, HeadAnswered DEF ReadHitEffects, ReadIn
    <2>2. CASE c \in L1
      <3>1. RQ'[L2C] = RQ[L2C] /\ Delivered(MSHR, MSHR', c, p)
        BY <1>2, <2>2, Names DEF ReadHitEffects, Popped
      <3> QED
        BY <1>1, <2>2, <3>1, AnsweredAbove, SameRequests, BelowStays
    <2> QED
      BY <2>1, <2>2, Names
  <1>3. CASE ReadMissEffects(c, p)
    <2>1. CASE c = L2C
      <3>1. /\ MSHR[L2C][LineIn(p)] = NONE
            /\ Put(MSHR, MSHR', L2C, LineIn(p), AsMiss(p, FALSE))
        BY <1>3, <2>1, Names DEF ReadMissEffects, NewMiss
      <3>2. \A d \in L1, l \in Line : /\ Under(MSHR', d, l) <=> Under(MSHR, d, l) \/ For(p, d, l)
                                      /\ Awaits(MSHR', d, l) <=> Awaits(MSHR, d, l)
        BY <1>1, <3>1, PutUnder
      <3> QED
        BY <1>1, <2>1, <3>2, ReadTaken DEF AwaitsSame
    <2>2. CASE c \in L1
      <3>1. SentBelow(p) /\ Sends(c, p) /\ NewMiss(c, p)
        BY <1>3, <2>2 DEF ReadMissEffects
      <3>2. OwnFlags(c, p) /\ p.fill_level = FILL_L1
        BY <1>1, <2>2 DEF ReadIn
      <3> QED
        BY <1>1, <2>2, <3>1, <3>2, DemandSent
    <2> QED
      BY <2>1, <2>2, Names
  <1>4. CASE ReadMergedEffects(c, p)
    <2> DEFINE x == MergeMiss(MSHR[c][LineIn(p)], p)
    <2>1. Meets(c, p, x) /\ Popped(RQ, c)
      BY <1>4 DEF ReadMergedEffects
    <2> HIDE DEF x
    <2>2. AwaitsSame /\ (c \in L1 => UnderSame)
      BY <1>1, <2>1, MeetsAwaits
    <2>3. CASE c = L2C
      <3>1. Separate => FlagsKept(MSHR[L2C][LineIn(p)], p)
        BY <1>1, <2>1, <2>3, ReadKeepsFlags DEF Meets
      <3>2. \A d \in L1, l \in Line :
              /\ Under(MSHR', d, l) => Under(MSHR, d, l) \/ For(p, d, l)
              /\ Separate => (Under(MSHR, d, l) \/ For(p, d, l) => Under(MSHR', d, l))
        BY <1>1, <2>1, <2>3, <3>1, MeetsUnder
      <3> QED
        BY <1>1, <2>2, <2>3, <3>2, ReadTaken
    <2>4. CASE c \in L1
      <3>1. RQ'[L2C] = RQ[L2C]
        BY <2>1, <2>4, Names DEF Popped
      <3> QED
        BY <1>1, <2>2, <2>4, <3>1, SameRequests, BelowStays
    <2> QED
      BY <2>3, <2>4, Names
  <1> QED
    BY <1>2, <1>3, <1>4

\* and so do those that handle prefetches.
LEMMA PrefetchesKeepBelow ==
    ASSUME BaseInv, BelowInv, NEW c \in CacheName, NEW p,
           PrefetchHitEffects(c, p) \/ PrefetchMissEffects(c, p) \/ PrefetchMergedEffects(c, p)
    PROVE  BelowInv'
  <1>1. /\ p \in Packet /\ PrefetchIn(c, p) /\ HeadOf(PQ[c], p) /\ RQ' = RQ
        /\ PQ'[c] = Tail(PQ[c])
    BY Names DEF PrefetchHitEffects, PrefetchMissEffects, PrefetchMergedEffects, Popped
  <1>2. p.type = "PREFETCH" /\ Answerable(p)
    BY <1>1 DEF PrefetchIn
  <1>3. CASE PrefetchHitEffects(c, p)
    <2>1. CASE c = L2C
      BY <1>1, <1>2, <1>3, <2>1, HeadAnswered DEF PrefetchHitEffects
    <2>2. CASE c \in L1
      <3>1. PQ'[L2C] = PQ[L2C] /\ Delivered(MSHR, MSHR', c, p)
        BY <1>3, <2>2, Names DEF PrefetchHitEffects, Popped
      <3> QED
        BY <1>1, <2>2, <3>1, AnsweredAbove, SameRequests, BelowStays
    <2> QED
      BY <2>1, <2>2, Names
  <1>4. CASE PrefetchMissEffects(c, p)
    <2>1. CASE c = L2C
      <3>1. MSHR[L2C][LineIn(p)] = NONE
        BY <1>4, <2>1 DEF PrefetchMissEffects, NewMiss
      <3>2. CASE p.fill_level <= fill_level[c]
        <4>1. Put(MSHR, MSHR', L2C, LineIn(p), AsMiss(p, FALSE))
          BY <1>4, <2>1, <3>2, Names DEF PrefetchMissEffects
        <4>2. \A d \in L1, l \in Line : /\ Under(MSHR', d, l) <=> Under(MSHR, d, l) \/ For(p, d, l)
                                        /\ Awaits(MSHR', d, l) <=> Awaits(MSHR, d, l)
          BY <1>1, <3>1, <4>1, PutUnder
        <4> QED
          BY <1>1, <2>1, <4>2, PrefetchTaken DEF AwaitsSame
      <3>3. CASE ~(p.fill_level <= fill_level[c])
        <4>1. MSHR' = MSHR
          BY <1>4, <2>1, <3>3, Names DEF PrefetchMissEffects
        <4>2. p.fill_level # FILL_L1
          BY <2>1, <3>3, Names DEF FILL_L1
        <4>3. \A d \in L1, l \in Line : ~For(p, d, l)
          BY <1>2, <4>2, FlagsAnswer DEF For
        <4> QED
          BY <1>1, <2>1, <4>1, <4>3, PrefetchTaken, SameRequests
      <3> QED
        BY <3>2, <3>3
    <2>2. CASE c \in L1
      <3>1. Room(L2C, PQ, PQ_SIZE) /\ PassedBelow(p)
        BY <1>4, <2>2 DEF PrefetchMissEffects, PassedBelow
      <3>2. CASE p.fill_level = FILL_L1
        <4>1. Sends(c, p)
          BY <1>4, <2>2, <3>2 DEF PrefetchMissEffects
        <4>2. OwnFlags(c, p)
          BY <1>1, <2>2, <3>2, Names DEF PrefetchIn, Answerable, OwnFlags
        <4> QED
          BY <1>1, <2>2, <3>1, <3>2, <4>1, <4>2, PrefetchSent
      <3>3. CASE p.fill_level # FILL_L1
        <4>1. MSHR' = MSHR
          BY <1>4, <2>2, <3>3 DEF PrefetchMissEffects
        <4>2. \A d \in L1, l \in Line : ~For(p, d, l)
          BY <1>2, <3>3, FlagsAnswer DEF For
        <4>3. PrefetchesSame
          BY <1>1, <3>1, <4>2, PrefetchAsks DEF PrefetchesSame
        <4> QED
          BY <1>1, <4>1, <4>3, SameRequests, BelowStays
      <3> QED
        BY <3>2, <3>3
    <2> QED
      BY <2>1, <2>2, Names
  <1>5. CASE PrefetchMergedEffects(c, p)
    <2> DEFINE x == MergeLevel(MSHR[c][LineIn(p)], p)
    <2>1. Meets(c, p, x) /\ Popped(PQ, c)
      BY <1>5 DEF PrefetchMergedEffects
    <2> HIDE DEF x
    <2>2. AwaitsSame /\ (c \in L1 => UnderSame)
      BY <1>1, <2>1, MeetsAwaits
    <2>3. CASE c = L2C
      <3>1. FlagsKept(MSHR[L2C][LineIn(p)], p)
        BY <1>2 DEF FlagsKept
      <3>2. \A d \in L1, l \in Line : Under(MSHR', d, l) <=> Under(MSHR, d, l) \/ For(p, d, l)
        BY <1>1, <2>1, <2>3, <3>1, MeetsUnder
      <3> QED
        BY <1>1, <2>2, <2>3, <3>2, PrefetchTaken
    <2>4. CASE c \in L1
      <3>1. PQ'[L2C] = PQ[L2C]
        BY <2>1, <2>4, Names DEF Popped
      <3> QED
        BY <1>1, <2>2, <2>4, <3>1, SameRequests, BelowStays
    <2> QED
      BY <2>3, <2>4, Names
  <1> QED
    BY <1>3, <1>4, <1>5

\* A demand of L1D that meets a miss, a prefetcher, the core, the memory and a
\* page swap leave the requests below and the misses that wait as they are.
LEMMA OthersKeepBelow ==
    ASSUME BaseInv, BelowInv, NEW c \in CacheName, NEW p,
           \/ WritebackHitEffects(c, p) \/ WritebackFillEffects(c, p)
           \/ RFOMissEffects(p) \/ RFOMergedEffects(p) \/ PrefetchLineEffects(c, p)
           \/ (\E r \in Requester : \E addr : AskEffects(CacheOf(r), r, addr, p))
           \/ StoreEffects \/ (\E l \in Line : MemoryEffects(l)) \/ (\E page : SwapEffects(page))
    PROVE  BelowInv'
  <1>1. CASE WritebackHitEffects(c, p) \/ WritebackFillEffects(c, p)
    <2>1. RQ' = RQ /\ PQ' = PQ /\ MSHR' = MSHR
      BY <1>1 DEF WritebackHitEffects, WritebackFillEffects
    <2> QED
      BY <2>1, SameRequests, BelowStays
  <1>2. CASE RFOMissEffects(p)
    <2>1. /\ p \in Packet /\ StoreIn(p) /\ SentBelow(p) /\ Sends(L1D, p) /\ NewMiss(L1D, p)
          /\ PQ' = PQ
      BY <1>2 DEF RFOMissEffects
    <2>2. OwnFlags(L1D, p) /\ p.fill_level = FILL_L1
      BY <2>1 DEF StoreIn
    <2> QED
      BY <2>1, <2>2, Names, DemandSent
  <1>3. CASE RFOMergedEffects(p)
    <2> DEFINE x == MergeMiss(MSHR[L1D][LineIn(p)], p)
    <2>1. p \in Packet /\ Meets(L1D, p, x) /\ RQ' = RQ /\ PQ' = PQ
      BY <1>3 DEF RFOMergedEffects
    <2> HIDE DEF x
    <2>2. AwaitsSame /\ UnderSame
      BY <2>1, Names, MeetsAwaits
    <2> QED
      BY <2>1, <2>2, SameRequests, BelowStays
  <1>4. CASE PrefetchLineEffects(c, p)
    <2>1. /\ p \in Packet /\ (c = L2C => ~p.fill_l1i /\ ~p.fill_l1d)
          /\ PQ'[c] = add_pq(c, p) /\ Room(c, PQ, PQ_SIZE)
          /\ c # L2C => PQ'[L2C] = PQ[L2C]
          /\ RQ' = RQ /\ MSHR' = MSHR
      BY <1>4, Names DEF PrefetchLineEffects
    <2>2. PrefetchesSame
      <3>1. CASE c = L2C
        <4>1. \A d \in L1, l \in Line : ~For(p, d, l)
          BY <2>1, <3>1 DEF For, FlagFor
        <4>2. PassedBelow(p) /\ Room(L2C, PQ, PQ_SIZE)
          BY <2>1, <3>1 DEF PassedBelow
        <4> QED
          BY <2>1, <4>1, <4>2, PrefetchAsks DEF PrefetchesSame
      <3>2. CASE c # L2C
        BY <2>1, <3>2, SameRequests
      <3> QED
        BY <3>1, <3>2
    <2> QED
      BY <2>1, <2>2, SameRequests, BelowStays
  <1>5. CASE \E r \in Requester : \E addr : AskEffects(CacheOf(r), r, addr, p)
    <2>1. PICK r \in Requester : \E addr : AskEffects(CacheOf(r), r, addr, p)
      BY <1>5
    <2>2. RQ'[L2C] = RQ[L2C] /\ PQ' = PQ /\ MSHR' = MSHR
      BY <2>1, Names DEF AskEffects
    <2> QED
      BY <2>2, SameRequests, BelowStays
  <1>6. CASE StoreEffects \/ \E page : SwapEffects(page)
    <2>1. RQ' = RQ /\ PQ' = PQ /\ MSHR' = MSHR
      BY <1>6 DEF StoreEffects, SwapEffects, queues
    <2> QED
      BY <2>1, SameRequests, BelowStays
  <1>7. CASE \E l \in Line : MemoryEffects(l)
    <2>1. PICK l \in Line : MemoryEffects(l)
      BY <1>7
    <2> DEFINE miss == MSHR[L2C][l]
               x == Answered(miss)
    <2>2. /\ miss # NONE /\ MissIn(L2C, l, miss) /\ Put(MSHR, MSHR', L2C, l, x)
          /\ RQ' = RQ /\ PQ' = PQ
      BY <2>1 DEF MemoryEffects, queues
    <2>3. x # NONE /\ x.fill_l1i = miss.fill_l1i /\ x.fill_l1d = miss.fill_l1d
      BY <2>2, AnsweredMiss, Sizes DEF MissIn
    <2> HIDE DEF x
    <2>4. \A d \in L1, k \in Line :
            /\ Under(MSHR', d, k) <=> IF k = l THEN x # NONE /\ FlagFor(x, d) ELSE Under(MSHR, d, k)
            /\ Awaits(MSHR', d, k) <=> Awaits(MSHR, d, k)
      BY <2>2, PutBelow
    <2>5. UnderSame /\ AwaitsSame
      BY <2>2, <2>3, <2>4 DEF UnderSame, AwaitsSame, Under, FlagFor
    <2> QED
      BY <2>2, <2>5, SameRequests, BelowStays
  <1> QED
    BY <1>1, <1>2, <1>3, <1>4, <1>5, <1>6, <1>7

\* A queue that holds a line once holds at most one request for it.
LEMMA AskedOnce ==
    ASSUME NEW q \in Seq(Packet), NoRepeats(q), \A p \in Range(q) : Answerable(p),
           NEW c \in L1, NEW l
    PROVE  LET found == {i \in DOMAIN q : /\ LineIn(q[i]) = l /\ FlagFor(q[i], c)
                                          /\ q[i].fill_level = FILL_L1}
           IN  Cardinality(found) = IF Asks(q, c, l) THEN 1 ELSE 0
  <1> DEFINE found == {i \in DOMAIN q : /\ LineIn(q[i]) = l /\ FlagFor(q[i], c)
                                        /\ q[i].fill_level = FILL_L1}
  <1>1. \A i \in DOMAIN q : q[i] \in Range(q) /\ Answerable(q[i])
    BY DEF Range
  <1>2. CASE Asks(q, c, l)
    <2>1. PICK p \in Range(q) : LineIn(p) = l /\ FlagFor(p, c)
      BY <1>2 DEF Asks
    <2>2. PICK i \in DOMAIN q : p = q[i]
      BY <2>1 DEF Range
    <2>3. i \in found
      BY <1>1, <2>1, <2>2, FlagsAnswer
    <2>4. found = {i}
      BY <2>3 DEF NoRepeats
    <2> QED
      BY <1>2, <2>4, FS_Singleton
  <1>3. CASE ~Asks(q, c, l)
    <2>1. found = {}
      BY <1>1, <1>3 DEF Asks
    <2> QED
      BY <1>3, <2>1, FS_EmptySet
  <1> QED
    BY <1>2, <1>3

\* So the count is exact with Separate, and never too high without.
LEMMA CountBelow ==
    ASSUME BaseInv, BelowInv, NEW c \in L1, NEW l \in Line
    PROVE  /\ RequestsBelow(c, l) <= IF Awaits(MSHR, c, l) THEN 1 ELSE 0
           /\ Separate => RequestsBelow(c, l) = IF Awaits(MSHR, c, l) THEN 1 ELSE 0
  <1> DEFINE inQueue(q) == {i \in DOMAIN q : /\ LineIn(q[i]) = l /\ FlagFor(q[i], c)
                                             /\ q[i].fill_level = FILL_L1}
             inMiss == IF /\ MSHR[L2C][l] # NONE
                          /\ LineIn(MSHR[L2C][l]) = l /\ FlagFor(MSHR[L2C][l], c)
                          /\ MSHR[L2C][l].fill_level = FILL_L1 THEN 1 ELSE 0
             a == Cardinality(inQueue(RQ[L2C]))
             b == Cardinality(inQueue(PQ[L2C]))
  <1>1. RequestsBelow(c, l) = a + b + inMiss
    BY DEF RequestsBelow
  <1>2. a = IF Asks(RQ[L2C], c, l) THEN 1 ELSE 0
    <2>1. /\ RQ[L2C] \in Seq(Packet) /\ NoRepeats(RQ[L2C])
          /\ \A p \in Range(RQ[L2C]) : Answerable(p)
      BY Names DEF BaseInv, ReadsInv, ReadQ, ReadIn
    <2> QED
      BY <2>1, AskedOnce
  <1>3. b = IF Asks(PQ[L2C], c, l) THEN 1 ELSE 0
    <2>1. /\ PQ[L2C] \in Seq(Packet) /\ NoRepeats(PQ[L2C])
          /\ \A p \in Range(PQ[L2C]) : Answerable(p)
      BY Names DEF BaseInv, PrefetchesInv, PrefetchQ, PrefetchIn
    <2> QED
      BY <2>1, AskedOnce
  <1>4. inMiss = IF Under(MSHR, c, l) THEN 1 ELSE 0
    <2>1. MSHR[L2C][l] # NONE => LineIn(MSHR[L2C][l]) = l /\ Answerable(MSHR[L2C][l])
      BY Names DEF BaseInv, Misses, MissT, MissIn
    <2> QED
      BY <2>1, FlagsAnswer DEF Under
  <1> HIDE DEF a, b, inMiss
  <1>5. OneOf(Asks(RQ[L2C], c, l), Asks(PQ[L2C], c, l), Under(MSHR, c, l), Awaits(MSHR, c, l))
    BY DEF BelowInv, BelowAt
  <1>6. /\ a + b + inMiss <= IF Awaits(MSHR, c, l) THEN 1 ELSE 0
        /\ Separate => a + b + inMiss = IF Awaits(MSHR, c, l) THEN 1 ELSE 0
    BY <1>2, <1>3, <1>4, <1>5 DEF OneOf
  <1> QED
    BY <1>1, <1>6

\* Nothing is asked for at the start,
LEMMA BelowInit == Init => BelowInv
  <1> SUFFICES ASSUME Init PROVE BelowInv
    OBVIOUS
  <1>1. RQ[L2C] = <<>> /\ PQ[L2C] = <<>> /\ \A c \in CacheName, l \in Line : MSHR[c][l] = NONE
    BY Names DEF Init
  <1>2. Range(<<>>) = {}
    BY DEF Range
  <1> QED
    BY <1>1, <1>2, Names DEF BelowInv, BelowAt, OneOf, Asks, Under, Awaits

\* and every step keeps one request below each miss.
LEMMA BelowNextKeeps ==
    ASSUME BaseInv, BelowInv, [Next]_vars
    PROVE  BelowInv'
  <1>1. CASE UNCHANGED vars
    <2>1. MSHR' = MSHR /\ RQ' = RQ /\ PQ' = PQ
      BY <1>1 DEF vars, queues
    <2> QED
      BY <2>1, SameRequests, BelowStays
  <1>2. CASE Next
    <2>1. Effect /\ L1D \in CacheName
      BY <1>2, StepEffect, Names
    <2>2. ASSUME NEW c \in CacheName, NEW l \in Line, FillEffects(c, l, MSHR[c][l], Victim(c, l))
          PROVE  BelowInv'
      BY <2>2, FillKeepsBelow
    <2>3. ASSUME NEW c \in CacheName, NEW p,
                 ReadHitEffects(c, p) \/ ReadMissEffects(c, p) \/ ReadMergedEffects(c, p)
          PROVE  BelowInv'
      BY <2>3, ReadsKeepBelow
    <2>4. ASSUME NEW c \in CacheName, NEW p,
                 \/ PrefetchHitEffects(c, p) \/ PrefetchMissEffects(c, p)
                 \/ PrefetchMergedEffects(c, p)
          PROVE  BelowInv'
      BY <2>4, PrefetchesKeepBelow
    <2>5. ASSUME NEW c \in CacheName, NEW p,
                 \/ WritebackHitEffects(c, p) \/ WritebackFillEffects(c, p)
                 \/ RFOMissEffects(p) \/ RFOMergedEffects(p) \/ PrefetchLineEffects(c, p)
          PROVE  BelowInv'
      BY <2>5, OthersKeepBelow
    <2>6. ASSUME NEW r \in Requester, NEW addr, NEW p, AskEffects(CacheOf(r), r, addr, p)
          PROVE  BelowInv'
      BY <2>1, <2>6, OthersKeepBelow
    <2>7. ASSUME StoreEffects \/ (\E l \in Line : MemoryEffects(l)) \/ (\E page : SwapEffects(page))
          PROVE  BelowInv'
      BY <2>1, <2>7, OthersKeepBelow
    <2> QED
      BY <2>1, <2>2, <2>3, <2>4, <2>5, <2>6, <2>7 DEF Effect
  <1> QED
    BY <1>1, <1>2

\* When the prefetcher of neither first-level cache asks for lines of the
\* other, a miss of the first level that waits has exactly one request below
\* it, and any other line none: no answer is lost, however reads, stores and
\* prefetches of the two caches merge, and none comes unexpected.
THEOREM CacheOneRequestBelow == Separate => (Spec => []OneRequestBelow)
  <1> SUFFICES ASSUME Separate PROVE Spec => []OneRequestBelow
    OBVIOUS
  <1>1. ASSUME BaseInv, BelowInv PROVE OneRequestBelow
    BY <1>1, CountBelow DEF OneRequestBelow, Awaits
  <1>2. BaseInv /\ [Next]_vars => BaseInv'
    BY StepEffect, BaseStutters
  <1>3. BaseInv /\ BelowInv /\ [Next]_vars => BelowInv'
    BY BelowNextKeeps
  <1> QED
    BY <1>1, <1>2, <1>3, BaseInit, BelowInit, PTL DEF Spec

\* Whatever the prefetchers ask for, L2C holds at most one request that it
\* will answer in a cache above, and only if the miss there waits for it: the
\* assertion of return_data, that an answer finds its miss, never fails.
AnswersExpected ==
    \A c \in L1, line \in Line :
      RequestsBelow(c, line) <=
        IF MSHR[c][line] # NONE /\ ~MSHR[c][line].returned THEN 1 ELSE 0

\* No answer of L2C, for reads, stores and prefetches of two caches that
\* merge, finds its miss gone or answered before.
THEOREM CacheAnswersExpected == Spec => []AnswersExpected
  <1>1. ASSUME BaseInv, BelowInv PROVE AnswersExpected
    BY <1>1, CountBelow DEF AnswersExpected, Awaits
  <1>2. BaseInv /\ [Next]_vars => BaseInv'
    BY StepEffect, BaseStutters
  <1>3. BaseInv /\ BelowInv /\ [Next]_vars => BelowInv'
    BY BelowNextKeeps
  <1> QED
    BY <1>1, <1>2, <1>3, BaseInit, BelowInit, PTL DEF Spec

-----------------------------------------------------------------------------
(* No two copies.                                                          *)

\* The lines that may be in two ways of L2C, where a line is plain if it is
\* none of them.
Exempt == StoreLines \cap (AskedForAside \cup UNION SwappedPage)
Plain(c, l) == c # L2C \/ l \notin Exempt

\* A packet of line l is in q.
Has(q, l) == \E p \in Range(q) : LineIn(p) = l

\* A block that is valid lies in the set of its line,
HomeInv ==
    \A c \in CacheName, s \in SetIndex : \A w \in Way(c) :
      block[c][s][w].valid => SetOf[c][block[c][s][w].line] = s
\* only stores make a block of the first level dirty, which stays valid until
\* its page is swapped out,
DirtyInv ==
    \A c \in L1, s \in SetIndex : \A w \in Way(c) :
      block[c][s][w].dirty =>
        /\ c = L1D /\ block[c][s][w].line \in StoreLines
        /\ block[c][s][w].valid \/ block[c][s][w].line \in UNION SwappedPage
\* a line that is in a cache is in one way of it and has no miss there,
SingleInv ==
    \A c \in CacheName, l \in Line : Plain(c, l) =>
      /\ \A v, w \in Ways(c, l) : v = w
      /\ MSHR[c][l] # NONE => ~Hit(c, l)
\* and a line on its way from L1D to L2C is not on its way to L2C from below.
WrittenInv ==
    \A l \in Line : InWriteback(l) =>
      /\ l \in StoreLines
      /\ l \notin Exempt => MSHR[L2C][l] = NONE /\ ~Has(RQ[L2C], l) /\ ~Has(PQ[L2C], l)
CopiesInv == HomeInv /\ DirtyInv /\ SingleInv /\ WrittenInv

\* What steps leave: no line gets a way, a miss is new only if the line is
\* absent, and no line that is being written back gets a request or a miss.
WaysFewer == \A c \in CacheName, l \in Line : Ways(c, l)' \subseteq Ways(c, l)
MissesAbsent ==
    \A c \in CacheName, l \in Line : MSHR'[c][l] # NONE => MSHR[c][l] # NONE \/ ~Hit(c, l)
WritesFewer == \A l \in Line : InWriteback(l)' => InWriteback(l)
NoneAsked ==
    \A l \in Line : InWriteback(l) =>
      /\ Has(RQ'[L2C], l) => Has(RQ[L2C], l)
      /\ Has(PQ'[L2C], l) => Has(PQ[L2C], l)
      /\ MSHR'[L2C][l] # NONE => MSHR[L2C][l] # NONE \/ Has(RQ[L2C], l) \/ Has(PQ[L2C], l)

\* These keep a line in one way,
LEMMA SingleKept ==
    ASSUME SingleInv, WaysFewer, MissesAbsent
    PROVE  SingleInv'
  <1> SUFFICES ASSUME NEW c \in CacheName, NEW l \in Line, Plain(c, l)
               PROVE  /\ \A v, w \in Ways(c, l)' : v = w
                      /\ MSHR'[c][l] # NONE => Ways(c, l)' = {}
    BY DEF SingleInv, Hit, Plain
  <1>1. Ways(c, l)' \subseteq Ways(c, l)
    BY DEF WaysFewer
  <1>2. /\ \A v, w \in Ways(c, l) : v = w
        /\ MSHR[c][l] # NONE => Ways(c, l) = {}
    BY DEF SingleInv, Hit
  <1>3. MSHR'[c][l] # NONE => Ways(c, l) = {}
    BY <1>2 DEF MissesAbsent, Hit
  <1> QED
    BY <1>1, <1>2, <1>3

\* and these what is being written back unasked for.
LEMMA WrittenKept ==
    ASSUME WrittenInv, WritesFewer, NoneAsked
    PROVE  WrittenInv'
  <1> SUFFICES ASSUME NEW l \in Line, InWriteback(l)'
               PROVE  /\ l \in StoreLines
                      /\ l \notin Exempt => /\ MSHR'[L2C][l] = NONE
                                            /\ ~Has(RQ'[L2C], l) /\ ~Has(PQ'[L2C], l)
    BY DEF WrittenInv, Has
  <1>1. InWriteback(l)
    BY DEF WritesFewer
  <1> QED
    BY <1>1 DEF WrittenInv, NoneAsked

\* A step that leaves the blocks as they are.
LEMMA BlocksStay ==
    ASSUME BaseInv, \A d \in CacheName, s \in SetIndex : \A w \in Way(d) :
             /\ block'[d][s][w].valid = block[d][s][w].valid
             /\ block'[d][s][w].line = block[d][s][w].line
             /\ block'[d][s][w].dirty = block[d][s][w].dirty,
           CopiesInv
    PROVE  HomeInv' /\ DirtyInv' /\ WaysFewer
  <1>1. HomeInv'
    BY DEF CopiesInv, HomeInv
  <1>2. DirtyInv'
    BY Names DEF CopiesInv, DirtyInv
  <1>3. WaysFewer
    <2> SUFFICES ASSUME NEW d \in CacheName, NEW k \in Line, NEW w \in Way(d),
                        block'[d][SetOf[d][k]][w].valid, block'[d][SetOf[d][k]][w].line = k
                 PROVE  block[d][SetOf[d][k]][w].valid /\ block[d][SetOf[d][k]][w].line = k
      BY DEF WaysFewer, Ways, ThisSet
    <2>1. SetOf[d][k] \in SetIndex
      BY Sizes
    <2> QED
      BY <2>1
  <1> QED
    BY <1>1, <1>2, <1>3

\* A hit leaves the lines where they are; a store that hits L1D makes its
\* block dirty.
LEMMA TouchedCopies ==
    ASSUME BaseInv, CopiesInv, NEW c \in CacheName, NEW l \in Line, Hit(c, l),
           NEW dirty \in BOOLEAN, Touched(c, l, dirty),
           dirty /\ c \in L1 => c = L1D /\ l \in StoreLines
    PROVE  HomeInv' /\ DirtyInv' /\ WaysFewer
  <1>1. HomeInv'
    BY DEF CopiesInv, HomeInv, Touched
  <1>2. DirtyInv'
    <2> SUFFICES ASSUME NEW d \in L1, NEW s \in SetIndex, NEW w \in Way(d), block'[d][s][w].dirty
                 PROVE  /\ d = L1D /\ block'[d][s][w].line \in StoreLines
                        /\ block'[d][s][w].valid \/ block'[d][s][w].line \in UNION SwappedPage
      BY DEF DirtyInv
    <2>1. d \in CacheName
      BY Names
    <2>2. /\ block'[d][s][w].valid = block[d][s][w].valid
          /\ block'[d][s][w].line = block[d][s][w].line
      <3>1. \A e \in CacheName, r \in SetIndex : \A v \in Way(e) :
              /\ block'[e][r][v].valid = block[e][r][v].valid
              /\ block'[e][r][v].line = block[e][r][v].line
        BY DEF Touched
      <3> QED
        BY <2>1, <3>1
    <2>3. CASE dirty /\ d = c /\ s = SetOf[c][l] /\ w = check_hit(c, l)
      BY <2>2, <2>3, CheckHit
    <2>4. CASE ~(dirty /\ d = c /\ s = SetOf[c][l] /\ w = check_hit(c, l))
      <3>1. block[d][s][w].dirty
        BY <2>1, <2>4 DEF Touched
      <3> QED
        BY <2>2, <3>1 DEF CopiesInv, DirtyInv
    <2> QED
      BY <2>3, <2>4
  <1>3. WaysFewer
    <2> SUFFICES ASSUME NEW d \in CacheName, NEW k \in Line, NEW w \in Way(d),
                        block'[d][SetOf[d][k]][w].valid, block'[d][SetOf[d][k]][w].line = k
                 PROVE  block[d][SetOf[d][k]][w].valid /\ block[d][SetOf[d][k]][w].line = k
      BY DEF WaysFewer, Ways, ThisSet
    <2>1. SetOf[d][k] \in SetIndex
      BY Sizes
    <2> QED
      BY <2>1 DEF Touched
  <1> QED
    BY <1>1, <1>2, <1>3

\* A fill puts a line that was absent into one way.
LEMMA FilledCopies ==
    ASSUME BaseInv, CopiesInv, NEW c \in CacheName, NEW l \in Line,
           NEW dirty \in BOOLEAN, Filled(c, l, dirty),
           dirty /\ c \in L1 => c = L1D /\ l \in StoreLines
    PROVE  /\ HomeInv' /\ DirtyInv'
           /\ \A d \in CacheName, k \in Line : d # c \/ k # l => Ways(d, k)' \subseteq Ways(d, k)
           /\ ~Hit(c, l) => Ways(c, l)' \subseteq {lru_victim(c, l)}
  <1>1. HomeInv'
    BY DEF CopiesInv, HomeInv, Filled
  <1>2. DirtyInv'
    <2> SUFFICES ASSUME NEW d \in L1, NEW s \in SetIndex, NEW w \in Way(d), block'[d][s][w].dirty
                 PROVE  /\ d = L1D /\ block'[d][s][w].line \in StoreLines
                        /\ block'[d][s][w].valid \/ block'[d][s][w].line \in UNION SwappedPage
      BY DEF DirtyInv
    <2>1. d \in CacheName
      BY Names
    <2>2. CASE d = c /\ s = SetOf[c][l] /\ w = lru_victim(c, l)
      BY <2>1, <2>2 DEF Filled
    <2>3. CASE ~(d = c /\ s = SetOf[c][l] /\ w = lru_victim(c, l))
      <3>1. /\ block'[d][s][w].valid = block[d][s][w].valid
            /\ block'[d][s][w].line = block[d][s][w].line
            /\ block'[d][s][w].dirty = block[d][s][w].dirty
        BY <2>1, <2>3 DEF Filled
      <3> QED
        BY <3>1 DEF CopiesInv, DirtyInv
    <2> QED
      BY <2>2, <2>3
  <1>3. ASSUME NEW d \in CacheName, NEW k \in Line, d # c \/ k # l
        PROVE  Ways(d, k)' \subseteq Ways(d, k)
    <2> SUFFICES ASSUME NEW w \in Way(d), block'[d][SetOf[d][k]][w].valid,
                        block'[d][SetOf[d][k]][w].line = k
                 PROVE  block[d][SetOf[d][k]][w].valid /\ block[d][SetOf[d][k]][w].line = k
      BY DEF Ways, ThisSet
    <2>1. SetOf[d][k] \in SetIndex
      BY Sizes
    <2> QED
      BY <1>3, <2>1 DEF Filled
  <1>4. ASSUME ~Hit(c, l) PROVE Ways(c, l)' \subseteq {lru_victim(c, l)}
    <2> SUFFICES ASSUME NEW w \in Way(c), block'[c][SetOf[c][l]][w].valid,
                        block'[c][SetOf[c][l]][w].line = l, w # lru_victim(c, l)
                 PROVE  FALSE
      BY DEF Ways, ThisSet
    <2>1. SetOf[c][l] \in SetIndex
      BY Sizes
    <2>2. block[c][SetOf[c][l]][w].valid /\ block[c][SetOf[c][l]][w].line = l
      BY <2>1 DEF Filled
    <2> QED
      BY <1>4, <2>2 DEF Hit, Ways, ThisSet
  <1> QED
    BY <1>1, <1>2, <1>3, <1>4

\* A step that adds no way, and asks for no line that is there or on its way
\* down.
LEMMA CopiesStay ==
    ASSUME CopiesInv, HomeInv' /\ DirtyInv' /\ WaysFewer, MissesAbsent, WritesFewer, NoneAsked
    PROVE  CopiesInv'
  BY SingleKept, WrittenKept DEF CopiesInv

-----------------------------------------------------------------------------
(* What becomes of the requests.                                           *)

MissesFewer == \A c \in CacheName, l \in Line : MSHR'[c][l] # NONE => MSHR[c][l] # NONE
NewMissOnly(c, p) ==
    \A d \in CacheName, l \in Line :
      MSHR'[d][l] # NONE => MSHR[d][l] # NONE \/ (d = c /\ l = LineIn(p))

\* An answer makes no miss,
LEMMA DeliveredNone ==
    ASSUME NEW m \in Table, NEW n, NEW c, NEW p, Delivered(m, n, c, p)
    PROVE  \A d \in CacheName, l \in Line : n[d][l] # NONE => m[d][l] # NONE
  BY DeliverFields

\* nor does a meeting,
LEMMA MeetsNone ==
    ASSUME NEW c \in CacheName, NEW p \in Packet, NEW x, Meets(c, p, x)
    PROVE  MissesFewer
  BY DEF Meets, Put, MissesFewer

\* and a request that goes below makes its own alone.
LEMMA SendsNone ==
    ASSUME NEW c \in L1, NEW p \in Packet, Sends(c, p)
    PROVE  NewMissOnly(c, p)
  <1>1. PICK m : /\ Put(MSHR, m, c, LineIn(p), AsMiss(p, FALSE))
                 /\ IF Forwards(L2C, p) THEN Delivered(m, MSHR', L2C, p) ELSE MSHR' = m
    BY DEF Sends
  <1>2. \A d \in CacheName, l \in Line :
          m[d][l] # NONE => MSHR[d][l] # NONE \/ (d = c /\ l = LineIn(p))
    BY <1>1 DEF Put
  <1>3. \A d \in CacheName, l \in Line : MSHR'[d][l] # NONE => m[d][l] # NONE
    <2>1. CASE Forwards(L2C, p)
      BY <1>1, <2>1, DeliveredNone DEF Put
    <2>2. CASE ~Forwards(L2C, p)
      BY <1>1, <2>2
    <2> QED
      BY <2>1, <2>2
  <1> QED
    BY <1>2, <1>3 DEF NewMissOnly

\* A queue gets no line but that of the packet that joins it,
LEMMA JoinedHas ==
    ASSUME NEW q \in Seq(Packet), NEW q2, NEW p \in Packet, NEW f, Joined(q, q2, p, f),
           \A x \in Packet : LineIn(f[x]) = LineIn(x), NEW l, Has(q2, l)
    PROVE  Has(q, l) \/ l = LineIn(p)
  <1>1. \A x \in Range(q) : x \in Packet
    BY RangeOfSeq
  <1>2. PICK y \in Range(q2) : LineIn(y) = l
    BY DEF Has
  <1>3. CASE y \in Range(q) \/ y = p
    BY <1>2, <1>3 DEF Has
  <1>4. CASE \E x \in Range(q) : LineIn(x) = LineIn(p) /\ y = f[x]
    BY <1>1, <1>2, <1>4 DEF Has
  <1> QED
    BY <1>3, <1>4 DEF Joined

\* and none that is being written back.
LEMMA ForwardsWritten ==
    ASSUME NEW p
    PROVE  Forwards(L2C, p) <=> InWriteback(LineIn(p))
  BY Names DEF Forwards, SamePlace, InWriteback

\* A read sent below adds no line that is being written back,
LEMMA SentHas ==
    ASSUME BaseInv, NEW p \in Packet, SentBelow(p), NEW l, InWriteback(l), Has(RQ'[L2C], l)
    PROVE  Has(RQ[L2C], l)
  <1> DEFINE b == Below(p)
  <1>1. /\ b \in Packet /\ LineIn(b) = LineIn(p)
    BY BelowFields
  <1>2. /\ RQ[L2C] \in Seq(Packet) /\ NoRepeats(RQ[L2C]) /\ Len(RQ[L2C]) <= RQ_SIZE[L2C]
    BY Names DEF BaseInv, ReadsInv, ReadQ
  <1>3. RQ'[L2C] = add_rq(L2C, b)
    BY DEF SentBelow
  <1> HIDE DEF b
  <1>4. CASE RQ'[L2C] = RQ[L2C]
    BY <1>4
  <1>5. CASE ~Forwards(L2C, b) /\ Joined(RQ[L2C], RQ'[L2C], b, WithFlags(b))
    <2>1. \A x \in Packet : LineIn(WithFlags(b)[x]) = LineIn(x)
      BY <1>1, MergesKeepLine
    <2>2. Has(RQ[L2C], l) \/ l = LineIn(b)
      BY <1>1, <1>2, <1>5, <2>1, JoinedHas
    <2> QED
      BY <1>5, <2>2, ForwardsWritten
  <1> QED
    BY <1>1, <1>2, <1>3, <1>4, <1>5, Names, AddRq

\* nor does a prefetch.
LEMMA PassedHas ==
    ASSUME BaseInv, NEW p \in Packet, PassedBelow(p), NEW l, InWriteback(l), Has(PQ'[L2C], l)
    PROVE  Has(PQ[L2C], l)
  <1>1. /\ PQ[L2C] \in Seq(Packet) /\ NoRepeats(PQ[L2C]) /\ Len(PQ[L2C]) <= PQ_SIZE[L2C]
    BY Names DEF BaseInv, PrefetchesInv, PrefetchQ
  <1>2. CASE PQ'[L2C] = PQ[L2C]
    BY <1>2
  <1>3. CASE ~Forwards(L2C, p) /\ Joined(PQ[L2C], PQ'[L2C], p, WithLevel(p))
    <2>1. \A x \in Packet : LineIn(WithLevel(p)[x]) = LineIn(x)
      BY MergesKeepLine
    <2>2. Has(PQ[L2C], l) \/ l = LineIn(p)
      BY <1>1, <1>3, <2>1, JoinedHas
    <2> QED
      BY <1>3, <2>2, ForwardsWritten
  <1> QED
    BY <1>1, <1>2, <1>3, Names, AddPq DEF PassedBelow

\* Nothing below L1D asks for a line of its own that it has no miss of.
LEMMA UnaskedBelow ==
    ASSUME BaseInv, BelowInv, NEW l \in Line, l \in StoreLines, l \notin Exempt, MSHR[L1D][l] = NONE
    PROVE  MSHR[L2C][l] = NONE /\ ~Has(RQ[L2C], l) /\ ~Has(PQ[L2C], l)
  <1>1. l \notin AskedForAside
    BY DEF Exempt
  <1>2. l \notin CodeLines
    BY <1>1 DEF CodeLines, AskedForAside
  <1>3. ASSUME NEW p, FlagLines(p), LineIn(p) = l PROVE FlagFor(p, L1D)
    BY <1>1, <1>2, <1>3, Names DEF FlagLines, FlagFor
  <1>4. ~Asks(RQ[L2C], L1D, l) /\ ~Asks(PQ[L2C], L1D, l) /\ ~Under(MSHR, L1D, l)
    BY Names DEF BelowInv, BelowAt, OneOf, Awaits
  <1>5. ~Has(RQ[L2C], l)
    <2>1. \A p \in Range(RQ[L2C]) : FlagLines(p)
      BY Names DEF BaseInv, ReadsInv, ReadQ, ReadIn
    <2> QED
      BY <1>3, <1>4, <2>1 DEF Has, Asks
  <1>6. ~Has(PQ[L2C], l)
    <2>1. \A p \in Range(PQ[L2C]) : FlagLines(p)
      BY Names DEF BaseInv, PrefetchesInv, PrefetchQ, PrefetchIn
    <2> QED
      BY <1>3, <1>4, <2>1 DEF Has, Asks
  <1>7. MSHR[L2C][l] = NONE
    <2>1. MSHR[L2C][l] # NONE => FlagLines(MSHR[L2C][l]) /\ LineIn(MSHR[L2C][l]) = l
      BY Names DEF BaseInv, Misses, MissT, MissIn
    <2> QED
      BY <1>3, <1>4, <2>1 DEF Under
  <1> QED
    BY <1>5, <1>6, <1>7

-----------------------------------------------------------------------------
(* The steps.                                                              *)

\* A dirty block of L1D that is written back is of a line nothing below L1D
\* asks for, unless the line is exempt.
LEMMA VictimUnasked ==
    ASSUME BaseInv, BelowInv, CopiesInv, NEW c \in L1, NEW l \in Line, Victim(c, l).dirty
    PROVE  /\ Victim(c, l).line \in StoreLines
           /\ Victim(c, l).line \notin Exempt =>
                /\ MSHR[L2C][Victim(c, l).line] = NONE
                /\ ~Has(RQ[L2C], Victim(c, l).line) /\ ~Has(PQ[L2C], Victim(c, l).line)
  <1> DEFINE i == SetOf[c][l]
             w == lru_victim(c, l)
             k == block[c][i][w].line
  <1>1. c \in CacheName /\ i \in SetIndex /\ w \in Way(c) /\ BlocksInv
    BY Names, Sizes, VictimIn DEF BaseInv, BlocksInv
  <1>2. Victim(c, l) = block[c][i][w]
    BY DEF Victim, ThisSet
  <1>3. block[c][i][w].dirty
    BY <1>2
  <1> HIDE DEF i, w
  <1>4. c = L1D /\ k \in StoreLines /\ (block[c][i][w].valid \/ k \in UNION SwappedPage)
    BY <1>1, <1>3 DEF CopiesInv, DirtyInv
  <1>5. k \in Line
    BY <1>1, <1>3, Sizes DEF BlocksInv
  <1>6. ASSUME k \notin Exempt
        PROVE  MSHR[L2C][k] = NONE /\ ~Has(RQ[L2C], k) /\ ~Has(PQ[L2C], k)
    <2>1. block[c][i][w].valid
      BY <1>4, <1>6 DEF Exempt
    <2>2. SetOf[c][k] = i
      BY <1>1, <2>1 DEF CopiesInv, HomeInv
    <2>3. Hit(c, k)
      BY <1>1, <2>1, <2>2 DEF Hit, Ways, ThisSet
    <2>4. MSHR[L1D][k] = NONE
      BY <1>1, <1>4, <1>5, <2>3, Names DEF CopiesInv, SingleInv, Plain
    <2> QED
      BY <1>4, <1>5, <1>6, <2>4, UnaskedBelow
  <1> QED
    BY <1>2, <1>4, <1>6

\* A fill puts the line of its miss into one way and ends the miss.
LEMMA FillKeepsCopies ==
    ASSUME BaseInv, BelowInv, CopiesInv, NEW c \in CacheName, NEW l \in Line,
           FillEffects(c, l, MSHR[c][l], Victim(c, l))
    PROVE  CopiesInv'
  <1> DEFINE miss == MSHR[c][l]
             dirty == DirtyFill(c, miss)
  <1>1. /\ miss # NONE /\ MissIn(c, l, miss) /\ Filled(c, l, dirty) /\ RQ' = RQ /\ PQ' = PQ
        /\ \E m : Delivered(MSHR, m, c, miss) /\ Put(m, MSHR', c, l, NONE)
        /\ WritesBack(c, Victim(c, l))
    BY DEF FillEffects
  <1>2. dirty \in BOOLEAN /\ (dirty /\ c \in L1 => c = L1D /\ l \in StoreLines)
    BY <1>1 DEF DirtyFill, MissIn
  <1> HIDE DEF dirty
  <1>3. /\ HomeInv' /\ DirtyInv'
        /\ \A d \in CacheName, k \in Line : d # c \/ k # l => Ways(d, k)' \subseteq Ways(d, k)
        /\ ~Hit(c, l) => Ways(c, l)' \subseteq {lru_victim(c, l)}
    BY <1>1, <1>2, FilledCopies
  <1>4. MissesFewer /\ MSHR'[c][l] = NONE
    <2>1. PICK m : Delivered(MSHR, m, c, miss) /\ Put(m, MSHR', c, l, NONE)
      BY <1>1
    <2>2. \A d \in CacheName, k \in Line : m[d][k] # NONE => MSHR[d][k] # NONE
      BY <2>1, DeliveredNone DEF BaseInv, Misses
    <2> QED
      BY <2>1, <2>2 DEF Put, MissesFewer
  <1>5. SingleInv'
    <2> SUFFICES ASSUME NEW d \in CacheName, NEW k \in Line, Plain(d, k)
                 PROVE  /\ \A v, w \in Ways(d, k)' : v = w
                        /\ MSHR'[d][k] # NONE => Ways(d, k)' = {}
      BY DEF SingleInv, Hit, Plain
    <2>1. /\ \A v, w \in Ways(d, k) : v = w
          /\ MSHR[d][k] # NONE => Ways(d, k) = {}
      BY DEF CopiesInv, SingleInv, Hit
    <2>2. CASE d = c /\ k = l
      BY <1>1, <1>3, <1>4, <2>1, <2>2 DEF Hit
    <2>3. CASE d # c \/ k # l
      <3>1. Ways(d, k)' \subseteq Ways(d, k)
        BY <1>3, <2>3
      <3>2. MSHR'[d][k] # NONE => MSHR[d][k] # NONE
        BY <1>4 DEF MissesFewer
      <3> QED
        BY <2>1, <3>1, <3>2
    <2> QED
      BY <2>2, <2>3
  <1>6. WrittenInv'
    <2> SUFFICES ASSUME NEW k \in Line, InWriteback(k)'
                 PROVE  /\ k \in StoreLines
                        /\ k \notin Exempt => /\ MSHR'[L2C][k] = NONE
                                              /\ ~Has(RQ'[L2C], k) /\ ~Has(PQ'[L2C], k)
      BY DEF WrittenInv, Has
    <2>1. PICK q \in Range(WQ'[L2C]) : LineIn(q) = k
      BY DEF InWriteback
    <2>2. MSHR'[L2C][k] # NONE => MSHR[L2C][k] # NONE
      BY <1>4, Names DEF MissesFewer
    <2>3. CASE q \in Range(WQ[L2C])
      <3>1. InWriteback(k)
        BY <2>1, <2>3 DEF InWriteback
      <3> QED
        BY <1>1, <2>2, <3>1 DEF CopiesInv, WrittenInv
    <2>4. CASE c \in L1 /\ Victim(c, l).dirty /\ k = Victim(c, l).line
      BY <1>1, <2>2, <2>4, VictimUnasked
    <2> QED
      BY <1>1, <2>1, <2>3, <2>4 DEF WritesBack
  <1> QED
    BY <1>3, <1>5, <1>6 DEF CopiesInv

\* A write-back fills a line that is absent and has no miss.
LEMMA WritebackFillKeepsCopies ==
    ASSUME BaseInv, CopiesInv, NEW c \in CacheName, NEW p, WritebackFillEffects(c, p)
    PROVE  CopiesInv'
  <1> DEFINE l == LineIn(p)
  <1>1. /\ c = L2C /\ p \in Packet /\ ~Hit(c, l) /\ Filled(c, l, TRUE)
        /\ Range(WQ[c]) = Range(WQ'[c]) \cup {p}
        /\ RQ' = RQ /\ PQ' = PQ /\ MSHR' = MSHR
    BY DEF WritebackFillEffects
  <1>2. l \in Line /\ c \notin L1
    BY <1>1, PacketLine, Names
  <1>3. InWriteback(l) /\ WritesFewer
    BY <1>1 DEF InWriteback, WritesFewer
  <1>4. l \notin Exempt => MSHR[c][l] = NONE
    BY <1>1, <1>2, <1>3 DEF CopiesInv, WrittenInv
  <1> HIDE DEF l
  <1>5. /\ HomeInv' /\ DirtyInv'
        /\ \A d \in CacheName, k \in Line : d # c \/ k # l => Ways(d, k)' \subseteq Ways(d, k)
        /\ Ways(c, l)' \subseteq {lru_victim(c, l)}
    BY <1>1, <1>2, FilledCopies
  <1>6. SingleInv'
    <2> SUFFICES ASSUME NEW d \in CacheName, NEW k \in Line, Plain(d, k)
                 PROVE  /\ \A v, w \in Ways(d, k)' : v = w
                        /\ MSHR'[d][k] # NONE => Ways(d, k)' = {}
      BY DEF SingleInv, Hit, Plain
    <2>1. CASE d = c /\ k = l
      BY <1>1, <1>4, <1>5, <2>1 DEF Plain
    <2>2. CASE d # c \/ k # l
      <3>1. Ways(d, k)' \subseteq Ways(d, k)
        BY <1>5, <2>2
      <3> QED
        BY <1>1, <3>1 DEF CopiesInv, SingleInv, Hit
    <2> QED
      BY <2>1, <2>2
  <1>7. WrittenInv'
    BY <1>1, <1>3, WrittenKept DEF CopiesInv, NoneAsked
  <1> QED
    BY <1>5, <1>6, <1>7 DEF CopiesInv

\* A hit moves nothing.
LEMMA HitsKeepCopies ==
    ASSUME BaseInv, CopiesInv, NEW c \in CacheName, NEW p,
           ReadHitEffects(c, p) \/ PrefetchHitEffects(c, p) \/ WritebackHitEffects(c, p)
    PROVE  CopiesInv'
  <1> DEFINE l == LineIn(p)
  <1>1. CASE ReadHitEffects(c, p) \/ PrefetchHitEffects(c, p)
    <2>1. /\ p \in Packet /\ Hit(c, l) /\ Touched(c, l, FALSE) /\ Delivered(MSHR, MSHR', c, p)
          /\ WQ' = WQ
          /\ \/ Popped(RQ, c) /\ HeadOf(RQ[c], p) /\ PQ' = PQ
             \/ Popped(PQ, c) /\ HeadOf(PQ[c], p) /\ RQ' = RQ
      BY <1>1 DEF ReadHitEffects, PrefetchHitEffects, HeadOf
    <2>2. l \in Line
      BY <2>1, PacketLine
    <2>3. MissesFewer
      BY <2>1, DeliveredNone DEF BaseInv, Misses, MissesFewer
    <2> HIDE DEF l
    <2>4. HomeInv' /\ DirtyInv' /\ WaysFewer
      BY <2>1, <2>2, TouchedCopies
    <2>5. WritesFewer
      BY <2>1 DEF WritesFewer, InWriteback
    <2>6. ASSUME NEW k
          PROVE  /\ Has(RQ'[L2C], k) => Has(RQ[L2C], k)
                 /\ Has(PQ'[L2C], k) => Has(PQ[L2C], k)
      <3>1. CASE Popped(RQ, c) /\ HeadOf(RQ[c], p) /\ PQ' = PQ
        BY <3>1, Names DEF Popped, HeadOf, Has
      <3>2. CASE Popped(PQ, c) /\ HeadOf(PQ[c], p) /\ RQ' = RQ
        BY <3>2, Names DEF Popped, HeadOf, Has
      <3> QED
        BY <2>1, <3>1, <3>2
    <2>7. NoneAsked /\ MissesAbsent
      BY <2>3, <2>6, Names DEF NoneAsked, MissesAbsent, MissesFewer
    <2> QED
      BY <2>4, <2>5, <2>7, CopiesStay
  <1>2. CASE WritebackHitEffects(c, p)
    <2>1. /\ p \in Packet /\ Hit(c, l) /\ Touched(c, l, TRUE) /\ c \in {L1D, L2C}
          /\ Popped(WQ, c) /\ Range(WQ[c]) = Range(WQ'[c]) \cup {p}
          /\ c = L1D => l \in StoreLines
          /\ RQ' = RQ /\ PQ' = PQ /\ MSHR' = MSHR
      BY <1>2 DEF WritebackHitEffects
    <2>2. l \in Line /\ (c \in L1 => c = L1D)
      BY <2>1, PacketLine, Names
    <2> HIDE DEF l
    <2>4. HomeInv' /\ DirtyInv' /\ WaysFewer
      BY <2>1, <2>2, TouchedCopies
    <2>5. WritesFewer
      BY <2>1, Names DEF WritesFewer, InWriteback, Popped
    <2>6. NoneAsked /\ MissesAbsent
      BY <2>1 DEF NoneAsked, MissesAbsent
    <2> QED
      BY <2>4, <2>5, <2>6, CopiesStay
  <1> QED
    BY <1>1, <1>2

\* The other steps leave the blocks alone.
LEMMA SameBlocks ==
    ASSUME BaseInv, CopiesInv, block' = block
    PROVE  HomeInv' /\ DirtyInv' /\ WaysFewer
  BY BlocksStay

\* A miss or a merge takes a packet from a queue; what goes below is not of a
\* line that is being written back.
LEMMA MissesKeepCopies ==
    ASSUME BaseInv, CopiesInv, NEW c \in CacheName, NEW p,
           \/ ReadMissEffects(c, p) \/ ReadMergedEffects(c, p)
           \/ PrefetchMissEffects(c, p) \/ PrefetchMergedEffects(c, p)
    PROVE  CopiesInv'
  <1> DEFINE l == LineIn(p)
  <1>1. /\ p \in Packet /\ ~Hit(c, l) /\ block' = block /\ WQ' = WQ
        /\ l \in Line
    BY PacketLine DEF ReadMissEffects, ReadMergedEffects, PrefetchMissEffects, PrefetchMergedEffects
  <1>2. HomeInv' /\ DirtyInv' /\ WaysFewer /\ WritesFewer
    BY <1>1, SameBlocks DEF WritesFewer, InWriteback
  <1>3. NewMissOnly(c, p)
    <2>1. CASE ReadMergedEffects(c, p) \/ PrefetchMergedEffects(c, p)
      <3>1. \E x : Meets(c, p, x)
        BY <2>1 DEF ReadMergedEffects, PrefetchMergedEffects
      <3>2. MissesFewer
        BY <1>1, <3>1, MeetsNone
      <3> QED
        BY <3>2 DEF MissesFewer, NewMissOnly
    <2>2. CASE ReadMissEffects(c, p) \/ PrefetchMissEffects(c, p)
      <3>1. \/ c \in L1 /\ Sends(c, p)
            \/ \E x : Put(MSHR, MSHR', c, l, x)
            \/ MSHR' = MSHR
        BY <2>2 DEF ReadMissEffects, PrefetchMissEffects
      <3>2. CASE c \in L1 /\ Sends(c, p)
        BY <1>1, <3>2, SendsNone
      <3>3. CASE \E x : Put(MSHR, MSHR', c, l, x)
        BY <3>3 DEF Put, NewMissOnly
      <3>4. CASE MSHR' = MSHR
        BY <3>4 DEF NewMissOnly
      <3> QED
        BY <3>1, <3>2, <3>3, <3>4
    <2> QED
      BY <2>1, <2>2
  <1>4. MissesAbsent
    BY <1>1, <1>3 DEF MissesAbsent, NewMissOnly
  <1>5. /\ c \in L1 => \/ SentBelow(p) /\ PQ' = PQ
                       \/ PassedBelow(p) /\ RQ' = RQ
                       \/ RQ'[L2C] = RQ[L2C] /\ PQ'[L2C] = PQ[L2C]
        /\ c = L2C => \/ Popped(RQ, c) /\ HeadOf(RQ[c], p) /\ PQ' = PQ
                      \/ Popped(PQ, c) /\ HeadOf(PQ[c], p) /\ RQ' = RQ
    <2>1. CASE ReadMergedEffects(c, p)
      BY <2>1, Names DEF ReadMergedEffects, Popped
    <2>2. CASE PrefetchMergedEffects(c, p)
      BY <2>2, Names DEF PrefetchMergedEffects, Popped
    <2>3. CASE ReadMissEffects(c, p)
      BY <2>3, Names DEF ReadMissEffects
    <2>4. CASE PrefetchMissEffects(c, p)
      BY <2>4, Names DEF PrefetchMissEffects, PassedBelow
    <2> QED
      BY <2>1, <2>2, <2>3, <2>4
  <1> HIDE DEF l
  <1>6. ASSUME NEW k \in Line, InWriteback(k)
        PROVE  /\ Has(RQ'[L2C], k) => Has(RQ[L2C], k)
               /\ Has(PQ'[L2C], k) => Has(PQ[L2C], k)
    <2>1. CASE SentBelow(p) /\ PQ' = PQ
      BY <1>1, <1>6, <2>1, SentHas
    <2>2. CASE PassedBelow(p) /\ RQ' = RQ
      BY <1>1, <1>6, <2>2, PassedHas
    <2>3. CASE RQ'[L2C] = RQ[L2C] /\ PQ'[L2C] = PQ[L2C]
      BY <2>3
    <2>4. CASE c = L2C /\ Popped(RQ, c) /\ HeadOf(RQ[c], p) /\ PQ' = PQ
      BY <2>4 DEF Popped, HeadOf, Has
    <2>5. CASE c = L2C /\ Popped(PQ, c) /\ HeadOf(PQ[c], p) /\ RQ' = RQ
      BY <2>5 DEF Popped, HeadOf, Has
    <2> QED
      BY <1>5, <2>1, <2>2, <2>3, <2>4, <2>5, Names
  <1>7. ASSUME NEW k \in Line, MSHR'[L2C][k] # NONE
        PROVE  MSHR[L2C][k] # NONE \/ Has(RQ[L2C], k) \/ Has(PQ[L2C], k)
    <2>1. MSHR[L2C][k] # NONE \/ (c = L2C /\ k = l)
      BY <1>3, <1>7, Names DEF NewMissOnly, l
    <2>2. CASE c = L2C /\ k = l
      BY <1>5, <2>2 DEF HeadOf, Has, l
    <2> QED
      BY <2>1, <2>2
  <1>8. NoneAsked
    BY <1>6, <1>7 DEF NoneAsked
  <1> QED
    BY <1>2, <1>4, <1>8, CopiesStay

\* A store, and whatever the environment does.
LEMMA OthersKeepCopies ==
    ASSUME BaseInv, CopiesInv, NEW c \in CacheName, NEW p,
           \/ RFOMissEffects(p) \/ RFOMergedEffects(p) \/ PrefetchLineEffects(c, p)
           \/ (\E r \in Requester : \E addr : AskEffects(CacheOf(r), r, addr, p))
           \/ StoreEffects \/ (\E l \in Line : MemoryEffects(l))
           \/ (\E page \in SwappedPage : SwapEffects(page))
    PROVE  CopiesInv'
  <1>1. CASE RFOMissEffects(p)
    <2>1. /\ p \in Packet /\ ~Hit(L1D, LineIn(p)) /\ SentBelow(p) /\ Sends(L1D, p)
          /\ WQ'[L2C] = WQ[L2C] /\ PQ' = PQ /\ block' = block
      BY <1>1, Names DEF RFOMissEffects, Popped
    <2>2. HomeInv' /\ DirtyInv' /\ WaysFewer /\ WritesFewer
      BY <2>1, SameBlocks DEF WritesFewer, InWriteback
    <2>3. NewMissOnly(L1D, p)
      BY <2>1, Names, SendsNone
    <2>4. MissesAbsent
      BY <2>1, <2>3 DEF MissesAbsent, NewMissOnly
    <2>5. ASSUME NEW k \in Line, InWriteback(k), Has(RQ'[L2C], k) PROVE Has(RQ[L2C], k)
      BY <2>1, <2>5, SentHas
    <2>6. NoneAsked
      BY <2>1, <2>3, <2>5, Names DEF NoneAsked, NewMissOnly
    <2> QED
      BY <2>2, <2>4, <2>6, CopiesStay
  <1>2. CASE RFOMergedEffects(p)
    <2>1. /\ WQ'[L2C] = WQ[L2C] /\ RQ' = RQ /\ PQ' = PQ /\ block' = block
          /\ p \in Packet /\ \E x : Meets(L1D, p, x)
      BY <1>2, Names DEF RFOMergedEffects, Popped
    <2>2. HomeInv' /\ DirtyInv' /\ WaysFewer /\ WritesFewer
      BY <2>1, SameBlocks DEF WritesFewer, InWriteback
    <2>3. MissesFewer
      BY <2>1, Names, MeetsNone
    <2>4. MissesAbsent /\ NoneAsked
      BY <2>1, <2>3, Names DEF MissesAbsent, NoneAsked, MissesFewer
    <2> QED
      BY <2>2, <2>4, CopiesStay
  <1>3. CASE PrefetchLineEffects(c, p)
    <2>1. /\ p \in Packet /\ RQ' = RQ /\ WQ' = WQ /\ MSHR' = MSHR /\ block' = block
          /\ PassedBelow(p) \/ PQ'[L2C] = PQ[L2C]
      BY <1>3, Names DEF PrefetchLineEffects, PassedBelow
    <2>2. HomeInv' /\ DirtyInv' /\ WaysFewer /\ WritesFewer
      BY <2>1, SameBlocks DEF WritesFewer, InWriteback
    <2>3. ASSUME NEW k \in Line, InWriteback(k), Has(PQ'[L2C], k) PROVE Has(PQ[L2C], k)
      <3>1. CASE PassedBelow(p)
        BY <2>1, <2>3, <3>1, PassedHas
      <3>2. CASE PQ'[L2C] = PQ[L2C]
        BY <2>3, <3>2
      <3> QED
        BY <2>1, <3>1, <3>2
    <2>4. MissesAbsent /\ NoneAsked
      BY <2>1, <2>3 DEF MissesAbsent, NoneAsked
    <2> QED
      BY <2>2, <2>4, CopiesStay
  <1>4. CASE \E r \in Requester : \E addr : AskEffects(CacheOf(r), r, addr, p)
    <2>1. RQ'[L2C] = RQ[L2C] /\ WQ' = WQ /\ PQ' = PQ /\ MSHR' = MSHR /\ block' = block
      BY <1>4, Names DEF AskEffects
    <2>2. HomeInv' /\ DirtyInv' /\ WaysFewer /\ WritesFewer
      BY <2>1, SameBlocks DEF WritesFewer, InWriteback
    <2>3. MissesAbsent /\ NoneAsked
      BY <2>1 DEF MissesAbsent, NoneAsked
    <2> QED
      BY <2>2, <2>3, CopiesStay
  <1>5. CASE StoreEffects
    <2>1. WQ'[L2C] = WQ[L2C] /\ RQ' = RQ /\ PQ' = PQ /\ MSHR' = MSHR /\ block' = block
      BY <1>5, Names DEF StoreEffects
    <2>2. HomeInv' /\ DirtyInv' /\ WaysFewer /\ WritesFewer
      BY <2>1, SameBlocks DEF WritesFewer, InWriteback
    <2>3. MissesAbsent /\ NoneAsked
      BY <2>1 DEF MissesAbsent, NoneAsked
    <2> QED
      BY <2>2, <2>3, CopiesStay
  <1>6. CASE \E l \in Line : MemoryEffects(l)
    <2>1. PICK l \in Line : MemoryEffects(l)
      BY <1>6
    <2>2. /\ MSHR[L2C][l] # NONE /\ Put(MSHR, MSHR', L2C, l, Answered(MSHR[L2C][l]))
          /\ WQ' = WQ /\ RQ' = RQ /\ PQ' = PQ /\ block' = block
      BY <2>1 DEF MemoryEffects, queues
    <2>3. HomeInv' /\ DirtyInv' /\ WaysFewer /\ WritesFewer
      BY <2>2, SameBlocks DEF WritesFewer, InWriteback
    <2>4. MissesFewer
      BY <2>2 DEF Put, MissesFewer
    <2>5. MissesAbsent /\ NoneAsked
      BY <2>2, <2>4, Names DEF MissesAbsent, NoneAsked, MissesFewer
    <2> QED
      BY <2>3, <2>5, CopiesStay
  <1>7. CASE \E page \in SwappedPage : SwapEffects(page)
    <2>1. PICK page \in SwappedPage : SwapEffects(page)
      BY <1>7
    <2>2. WQ' = WQ /\ RQ' = RQ /\ PQ' = PQ /\ MSHR' = MSHR
      BY <2>1 DEF SwapEffects, queues
    <2>3. HomeInv'
      BY <2>1 DEF SwapEffects, CopiesInv, HomeInv
    <2>4. DirtyInv'
      <3> SUFFICES ASSUME NEW d \in L1, NEW s \in SetIndex, NEW w \in Way(d), block'[d][s][w].dirty
                   PROVE  /\ d = L1D /\ block'[d][s][w].line \in StoreLines
                          /\ block'[d][s][w].valid \/ block'[d][s][w].line \in UNION SwappedPage
        BY DEF DirtyInv
      <3>3. d \in CacheName
        BY Names
      <3>1. /\ block'[d][s][w].line = block[d][s][w].line
            /\ block'[d][s][w].dirty = block[d][s][w].dirty
            /\ block[d][s][w].valid /\ ~block'[d][s][w].valid => block[d][s][w].line \in page
        <4>1. \A d2 \in CacheName, s2 \in SetIndex : \A w2 \in Way(d2) :
                /\ block'[d2][s2][w2].line = block[d2][s2][w2].line
                /\ block'[d2][s2][w2].dirty = block[d2][s2][w2].dirty
                /\ block[d2][s2][w2].valid /\ ~block'[d2][s2][w2].valid
                     => block[d2][s2][w2].line \in page
          BY <2>1 DEF SwapEffects
        <4> QED
          BY <3>3, <4>1
      <3>2. /\ d = L1D /\ block[d][s][w].line \in StoreLines
            /\ block[d][s][w].valid \/ block[d][s][w].line \in UNION SwappedPage
        BY <3>1 DEF CopiesInv, DirtyInv
      <3> QED
        BY <3>1, <3>2
    <2>5. WaysFewer
      <3> SUFFICES ASSUME NEW d \in CacheName, NEW l \in Line, NEW w \in Way(d),
                          block'[d][SetOf[d][l]][w].valid, block'[d][SetOf[d][l]][w].line = l
                   PROVE  block[d][SetOf[d][l]][w].valid /\ block[d][SetOf[d][l]][w].line = l
        BY DEF WaysFewer, Ways, ThisSet
      <3>1. SetOf[d][l] \in SetIndex
        BY Sizes
      <3> QED
        BY <2>1, <3>1 DEF SwapEffects
    <2>6. MissesAbsent /\ NoneAsked /\ WritesFewer
      BY <2>2 DEF MissesAbsent, NoneAsked, WritesFewer, InWriteback
    <2> QED
      BY <2>3, <2>4, <2>5, <2>6, CopiesStay
  <1> QED
    BY <1>1, <1>2, <1>3, <1>4, <1>5, <1>6, <1>7

\* The caches start empty.
LEMMA CopiesInit == Init => CopiesInv
  <1> SUFFICES ASSUME Init PROVE CopiesInv
    OBVIOUS
  <1>1. \A c \in CacheName, s \in SetIndex : \A w \in Way(c) :
          ~block[c][s][w].valid /\ ~block[c][s][w].dirty
    BY DEF Init
  <1>2. HomeInv /\ DirtyInv
    BY <1>1, Names DEF HomeInv, DirtyInv
  <1>3. \A c \in CacheName, l \in Line : Ways(c, l) = {}
    BY <1>1, Sizes DEF Ways, ThisSet
  <1>4. SingleInv
    BY <1>3 DEF SingleInv, Hit
  <1>5. WQ[L2C] = <<>> /\ Range(<<>>) = {}
    BY Names DEF Init, Range
  <1>6. WrittenInv
    BY <1>5 DEF WrittenInv, InWriteback
  <1> QED
    BY <1>2, <1>4, <1>6 DEF CopiesInv

\* Every step keeps the lines in one way.
LEMMA CopiesNextKeeps ==
    ASSUME BaseInv, BelowInv, CopiesInv, [Next]_vars
    PROVE  CopiesInv'
  <1>1. CASE UNCHANGED vars
    <2>1. WQ' = WQ /\ RQ' = RQ /\ PQ' = PQ /\ MSHR' = MSHR /\ block' = block
      BY <1>1 DEF vars, queues
    <2>2. HomeInv' /\ DirtyInv' /\ WaysFewer
      BY <2>1, SameBlocks
    <2>3. MissesAbsent /\ NoneAsked /\ WritesFewer
      BY <2>1 DEF MissesAbsent, NoneAsked, WritesFewer, InWriteback
    <2> QED
      BY <2>2, <2>3, CopiesStay
  <1>2. CASE Next
    <2>1. Effect /\ L1D \in CacheName
      BY <1>2, StepEffect, Names
    <2>2. ASSUME NEW c \in CacheName, NEW l \in Line, FillEffects(c, l, MSHR[c][l], Victim(c, l))
          PROVE  CopiesInv'
      BY <2>2, FillKeepsCopies
    <2>3. ASSUME NEW c \in CacheName, NEW p,
                 ReadHitEffects(c, p) \/ PrefetchHitEffects(c, p) \/ WritebackHitEffects(c, p)
          PROVE  CopiesInv'
      BY <2>3, HitsKeepCopies
    <2>4. ASSUME NEW c \in CacheName, NEW p,
                 \/ ReadMissEffects(c, p) \/ ReadMergedEffects(c, p)
                 \/ PrefetchMissEffects(c, p) \/ PrefetchMergedEffects(c, p)
          PROVE  CopiesInv'
      BY <2>4, MissesKeepCopies
    <2>5. ASSUME NEW c \in CacheName, NEW p, WritebackFillEffects(c, p)
          PROVE  CopiesInv'
      BY <2>5, WritebackFillKeepsCopies
    <2>6. ASSUME NEW c \in CacheName, NEW p,
                 RFOMissEffects(p) \/ RFOMergedEffects(p) \/ PrefetchLineEffects(c, p)
          PROVE  CopiesInv'
      BY <2>6, OthersKeepCopies
    <2>7. ASSUME NEW r \in Requester, NEW addr, NEW p, AskEffects(CacheOf(r), r, addr, p)
          PROVE  CopiesInv'
      BY <2>1, <2>7, OthersKeepCopies
    <2>8. ASSUME \/ StoreEffects \/ (\E l \in Line : MemoryEffects(l))
                 \/ (\E page \in SwappedPage : SwapEffects(page))
          PROVE  CopiesInv'
      BY <2>1, <2>8, OthersKeepCopies
    <2> QED
      BY <2>1, <2>2, <2>3, <2>4, <2>5, <2>6, <2>7, <2>8 DEF Effect
  <1> QED
    BY <1>1, <1>2

\* A line is in one way of a cache at most, except in L2C a line that is
\* stored to and that L2C may be asked for aside, or whose page is swapped
\* out: fills, write-backs and forwarding never bring a line in twice.
THEOREM CacheNoTwoCopies == Spec => []NoTwoCopies
  <1>1. ASSUME CopiesInv PROVE NoTwoCopies
    <2>1. ASSUME NEW c \in CacheName, NEW l \in Line, Plain(c, l)
          PROVE  Cardinality(Ways(c, l)) <= 1
      <3>1. \A v, w \in Ways(c, l) : v = w
        BY <1>1, <2>1 DEF CopiesInv, SingleInv
      <3>2. CASE Ways(c, l) = {}
        BY <3>2, FS_EmptySet
      <3>3. CASE Ways(c, l) # {}
        <4>1. PICK w : w \in Ways(c, l)
          BY <3>3
        <4>2. Ways(c, l) = {w}
          BY <3>1, <4>1
        <4>3. Cardinality({w}) = 1
          BY FS_Singleton
        <4> QED
          BY <4>2, <4>3
      <3> QED
        BY <3>2, <3>3
    <2>2. \A c \in CacheName, l \in Line : Plain(c, l) \/ (c = L2C /\ l \in Exempt)
      BY DEF Plain
    <2> QED
      BY <2>1, <2>2 DEF NoTwoCopies, Exempt
  <1>2. BaseInv /\ [Next]_vars => BaseInv'
    BY StepEffect, BaseStutters
  <1>3. BaseInv /\ BelowInv /\ [Next]_vars => BelowInv'
    BY BelowNextKeeps
  <1>4. BaseInv /\ BelowInv /\ CopiesInv /\ [Next]_vars => CopiesInv'
    BY CopiesNextKeeps
  <1> QED
    BY <1>1, <1>2, <1>3, <1>4, BaseInit, BelowInit, CopiesInit, PTL DEF Spec

=============================================================================
