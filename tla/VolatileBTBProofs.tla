-------------------------- MODULE VolatileBTBProofs --------------------------
(***************************************************************************)
(* What holds of the STT-RAM BTB for every number of partitions, sets and  *)
(* ways, every hash and either policy.                                     *)
(***************************************************************************)
EXTENDS VolatileBTB, BTBProofs, SequenceTheorems

\* Among naturally numbered candidates with natural values there is a first
\* one of least value.
LEMMA FirstLeast ==
    ASSUME NEW n \in Nat \ {0}, NEW v \in [0..(n - 1) -> Nat]
    PROVE  \E p \in 0..(n - 1) : \A q \in 0..(n - 1) :
             v[p] < v[q] \/ (v[p] = v[q] /\ p <= q)
  <1> DEFINE V == {v[q] : q \in 0..(n - 1)}
             T == {q \in 0..(n - 1) : v[q] = Min(V)}
  <1>1. V \in SUBSET Nat /\ V # {}
    <2>1. 0 \in 0..(n - 1)
      OBVIOUS
    <2>2. v[0] \in V
      BY <2>1
    <2> QED
      BY <2>2
  <1>2. Min(V) \in V /\ \A y \in V : Min(V) <= y
    BY <1>1, MinIn
  <1>3. T \in SUBSET Nat /\ T # {}
    <2>1. PICK q \in 0..(n - 1) : v[q] = Min(V)
      BY <1>2
    <2>2. q \in T
      BY <2>1
    <2>3. \A x \in T : x \in 0..(n - 1)
      OBVIOUS
    <2> HIDE DEF T
    <2> QED
      BY <2>2, <2>3
  <1>4. Min(T) \in T /\ \A y \in T : Min(T) <= y
    BY <1>3, MinIn
  <1>5. ASSUME NEW q \in 0..(n - 1)
        PROVE  v[Min(T)] < v[q] \/ (v[Min(T)] = v[q] /\ Min(T) <= q)
    <2>1. v[Min(T)] = Min(V) /\ Min(V) <= v[q] /\ v[q] \in Nat /\ Min(V) \in Nat
      BY <1>1, <1>2, <1>4
    <2>2. CASE v[q] = Min(V)
      BY <2>1, <2>2, <1>4
    <2>3. CASE v[q] # Min(V)
      <3> DEFINE a == Min(V)
                 b == v[q]
                 c == v[Min(T)]
      <3> HIDE DEF a, b, c
      <3>1. c = a /\ a <= b /\ b \in Nat /\ a \in Nat /\ b # a
        BY <2>1, <2>3 DEF a, b, c
      <3>2. c < b
        BY <3>1
      <3> QED
        BY <3>2 DEF b, c
    <2> QED
      BY <2>2, <2>3
  <1> QED
    BY <1>4, <1>5

-----------------------------------------------------------------------------
(* Sets of entries. *)

\* new is old without its entry at way w, if there is one, and with e at the
\* end: what an update makes of a set.
Shifted(old, new, w, e) ==
    /\ w \in 1..(Len(old) + 1)
    /\ new \in Seq(BTBEntry)
    /\ Len(new) = IF w <= Len(old) THEN Len(old) ELSE Len(old) + 1
    /\ \A i \in 1..(Len(new) - 1) : new[i] = old[IF i < w THEN i ELSE i + 1]
    /\ new[Len(new)] = e

\* An entry appended to a set with a free way shifts no other.
LEMMA AppendShifts ==
    ASSUME NEW old \in Seq(BTBEntry), NEW e \in BTBEntry
    PROVE  Shifted(old, Append(old, e), Len(old) + 1, e)
  <1>1. Len(old) \in Nat
    BY LenProperties
  <1> QED
    BY <1>1, AppendProperties DEF Shifted

\* An entry that replaces the head of a full set moves every other one place
\* forward.
LEMMA EvictionShifts ==
    ASSUME NEW old \in Seq(BTBEntry), NEW e \in BTBEntry, old # <<>>
    PROVE  Shifted(old, Append(Tail(old), e), 1, e)
  <1> DEFINE rest == Tail(old)
  <1>1. /\ Len(old) \in Nat \ {0}
        /\ rest \in Seq(BTBEntry)
        /\ Len(rest) = Len(old) - 1
        /\ \A i \in 1..Len(rest) : rest[i] = old[i + 1]
    BY HeadTailProperties, EmptySeq
  <1> HIDE DEF rest
  <1>2. /\ Append(rest, e) \in Seq(BTBEntry)
        /\ Len(Append(rest, e)) = Len(rest) + 1
        /\ \A i \in 1..Len(rest) : Append(rest, e)[i] = rest[i]
        /\ Append(rest, e)[Len(rest) + 1] = e
    BY <1>1, AppendProperties
  <1>3. Shifted(old, Append(rest, e), 1, e)
    BY <1>1, <1>2 DEF Shifted
  <1> QED
    BY <1>3 DEF rest

\* An entry rewritten in update_BTB moves to the end of its set, and those
\* behind it one place forward.
LEMMA RewriteShifts ==
    ASSUME NEW old \in Seq(BTBEntry), NEW w \in 1..Len(old), NEW e \in BTBEntry
    PROVE  Shifted(old, Append(RemoveAt(old, w), e), w, e)
  <1> DEFINE a == SubSeq(old, 1, w - 1)
             b == SubSeq(old, w + 1, Len(old))
             rest == RemoveAt(old, w)
  <1>0. Len(old) \in Nat /\ \A i \in 1..Len(old) : old[i] \in BTBEntry
    BY LenProperties, ElementOfSeq
  <1>1. /\ a \in Seq(BTBEntry)
        /\ Len(a) = w - 1
        /\ \A i \in 1..(w - 1) : a[i] = old[i]
    BY <1>0, SubSeqProperties
  <1>2. /\ b \in Seq(BTBEntry)
        /\ Len(b) = Len(old) - w
        /\ \A i \in 1..(Len(old) - w) : b[i] = old[w + i]
    BY <1>0, SubSeqProperties
  <1>3. /\ rest \in Seq(BTBEntry)
        /\ Len(rest) = Len(old) - 1
        /\ \A i \in 1..Len(rest) : rest[i] = old[IF i < w THEN i ELSE i + 1]
    <2>1. rest = a \o b
      BY DEF RemoveAt
    <2> HIDE DEF a, b, rest
    <2>2. /\ a \o b \in Seq(BTBEntry)
          /\ Len(a \o b) = Len(a) + Len(b)
          /\ \A i \in 1..(Len(a) + Len(b)) :
               (a \o b)[i] = IF i <= Len(a) THEN a[i] ELSE b[i - Len(a)]
      BY <1>1, <1>2, ConcatProperties
    <2>3. ASSUME NEW i \in 1..Len(rest)
          PROVE  rest[i] = old[IF i < w THEN i ELSE i + 1]
      <3>1. /\ i \in 1..(Len(a) + Len(b))
            /\ rest[i] = IF i <= w - 1 THEN a[i] ELSE b[i - (w - 1)]
        BY <2>1, <2>2, <1>1, <1>2
      <3>2. CASE i < w
        BY <3>1, <3>2, <1>0, <1>1
      <3>3. CASE ~ (i < w)
        <4>1. i - (w - 1) \in 1..(Len(old) - w)
          BY SMTT(30), <3>1, <3>3, <1>0, <1>1, <1>2
        <4>2. b[i - (w - 1)] = old[w + (i - (w - 1))]
          BY <4>1, <1>2
        <4>3. w + (i - (w - 1)) = i + 1
          BY <3>1, <1>0, <1>1, <1>2
        <4> QED
          BY <3>1, <3>3, <4>2, <4>3, <1>0, <1>1, <1>2
      <3> QED
        BY <3>2, <3>3
    <2> QED
      BY <2>1, <2>2, <2>3, <1>0, <1>1, <1>2
  <1> HIDE DEF rest
  <1>4. /\ Append(rest, e) \in Seq(BTBEntry)
        /\ Len(Append(rest, e)) = Len(rest) + 1
        /\ \A i \in 1..Len(rest) : Append(rest, e)[i] = rest[i]
        /\ Append(rest, e)[Len(rest) + 1] = e
    BY <1>3, AppendProperties
  <1>5. Shifted(old, Append(rest, e), w, e)
    BY <1>0, <1>3, <1>4 DEF Shifted
  <1> QED
    BY <1>5 DEF rest

-----------------------------------------------------------------------------
(* The BTB as a collection of sets. *)

Replaces(p, s, new) == theBTB' = [theBTB EXCEPT ![p][s] = new]

\* Replacing one set of the BTB leaves the others alone.
LEMMA ReplaceSet ==
    ASSUME BTBTypeOK, NEW p \in Partition, NEW s \in SetIndex,
           NEW new \in Seq(BTBEntry), Replaces(p, s, new)
    PROVE  /\ theBTB' \in [Partition -> [SetIndex -> Seq(BTBEntry)]]
           /\ theBTB'[p][s] = new
           /\ \A q \in Partition, t \in SetIndex :
                q # p \/ t # s => theBTB'[q][t] = theBTB[q][t]
  BY DEF BTBTypeOK, Replaces

\* The ways of a set of the right type.
LEMMA SetType ==
    ASSUME BTBTypeOK, NEW p \in Partition, NEW s \in SetIndex
    PROVE  /\ theBTB[p][s] \in Seq(BTBEntry)
           /\ Len(theBTB[p][s]) \in Nat
           /\ DOMAIN theBTB[p][s] = 1..Len(theBTB[p][s])
           /\ \A w \in DOMAIN theBTB[p][s] : theBTB[p][s][w] \in BTBEntry
  <1>1. theBTB[p][s] \in Seq(BTBEntry)
    BY DEF BTBTypeOK
  <1> QED
    BY <1>1, LenProperties, ElementOfSeq

\* A lookup that finds an entry returns the first of the first partition.
LEMMA HomeIsFirst ==
    ASSUME BTBTypeOK, NEW ip \in Ip, Holders(ip) # {}
    PROVE  /\ Home(ip) \in Partition
           /\ Matches(Home(ip), ip) # {}
           /\ \A q \in Partition : Matches(q, ip) # {} => Home(ip) <= q
           /\ Min(Matches(Home(ip), ip)) \in Matches(Home(ip), ip)
           /\ \A w \in Matches(Home(ip), ip) : Min(Matches(Home(ip), ip)) <= w
  <1>1. Holders(ip) \in SUBSET Nat
    BY PartitionAssumption DEF Holders, Partition
  <1>2. Home(ip) \in Holders(ip) /\ \A q \in Holders(ip) : Home(ip) <= q
    BY <1>1, MinIn DEF Home
  <1>3. Home(ip) \in Partition /\ Matches(Home(ip), ip) # {}
    BY <1>2 DEF Holders
  <1>4. Matches(Home(ip), ip) \in SUBSET Nat
    <2>1. Index[Home(ip)][ip] \in SetIndex
      BY <1>3, PartitionAssumption
    <2>2. DOMAIN ThisSet(Home(ip), ip) \subseteq Nat
      BY <1>3, <2>1, SetType DEF ThisSet
    <2> QED
      BY <2>2 DEF Matches
  <1>5. /\ Min(Matches(Home(ip), ip)) \in Matches(Home(ip), ip)
        /\ \A w \in Matches(Home(ip), ip) : Min(Matches(Home(ip), ip)) <= w
    BY <1>3, <1>4, MinIn
  <1> QED
    BY <1>2, <1>3, <1>5 DEF Holders

\* get_lru_value returns a number for every partition and address.
LEMMA LRUValueIsNat ==
    ASSUME BTBTypeOK, NEW p \in Partition, NEW ip \in Ip
    PROVE  get_lru_value(p, ip) \in Nat
  <1> DEFINE set == ThisSet(p, ip)
  <1>1. set \in Seq(BTBEntry) /\ Len(set) \in Nat /\ Assoc[p] \in Nat \ {0}
    BY PartitionAssumption, SetType DEF ThisSet
  <1>2. CASE Len(set) < Assoc[p]
    BY <1>2 DEF get_lru_value
  <1>3. CASE ~ (Len(set) < Assoc[p])
    <2>1. set # <<>>
      BY <1>1, <1>3, EmptySeq
    <2>2. Head(set) \in BTBEntry
      BY <1>1, <2>1, HeadTailProperties
    <2> QED
      BY <1>3, <2>2 DEF get_lru_value, BTBEntry
  <1> QED
    BY <1>2, <1>3

\* The partition an update replaces in has the least value, and is the first
\* of those that do.
LEMMA LRUPartitionIsLeast ==
    ASSUME BTBTypeOK, NEW ip \in Ip
    PROVE  /\ get_lru_partition(ip) \in Partition
           /\ \A q \in Partition :
                get_lru_value(get_lru_partition(ip), ip) <= get_lru_value(q, ip)
  <1>1. \A q \in 0..(NUM_BTB_PARTITIONS - 1) : get_lru_value(q, ip) \in Nat
    BY LRUValueIsNat DEF Partition
  <1>2. \E p \in Partition : \A q \in Partition :
          \/ get_lru_value(p, ip) < get_lru_value(q, ip)
          \/ get_lru_value(p, ip) = get_lru_value(q, ip) /\ p <= q
    <2> DEFINE v == [q \in 0..(NUM_BTB_PARTITIONS - 1) |-> get_lru_value(q, ip)]
    <2>1. /\ v \in [0..(NUM_BTB_PARTITIONS - 1) -> Nat]
          /\ \A q \in 0..(NUM_BTB_PARTITIONS - 1) : v[q] = get_lru_value(q, ip)
      BY <1>1
    <2>2. NUM_BTB_PARTITIONS \in Nat \ {0}
      BY PartitionAssumption
    <2> HIDE DEF v
    <2>3. \E p \in 0..(NUM_BTB_PARTITIONS - 1) : \A q \in 0..(NUM_BTB_PARTITIONS - 1) :
            v[p] < v[q] \/ (v[p] = v[q] /\ p <= q)
      BY <2>1, <2>2, FirstLeast
    <2> QED
      BY <2>1, <2>3 DEF Partition
  <1> DEFINE p == get_lru_partition(ip)
  <1>3. /\ p \in Partition
        /\ \A q \in Partition :
             \/ get_lru_value(p, ip) < get_lru_value(q, ip)
             \/ get_lru_value(p, ip) = get_lru_value(q, ip) /\ p <= q
    BY <1>2 DEF get_lru_partition
  <1> HIDE DEF p
  <1>4. \A q \in Partition : get_lru_value(p, ip) <= get_lru_value(q, ip)
    <2> TAKE q \in Partition
    <2> DEFINE a == get_lru_value(p, ip)
               b == get_lru_value(q, ip)
    <2>1. a \in Nat /\ b \in Nat /\ (a < b \/ a = b)
      BY <1>3, LRUValueIsNat
    <2> HIDE DEF a, b
    <2>2. a <= b
      BY <2>1
    <2> QED
      BY <2>2 DEF a, b
  <1> QED
    BY <1>3, <1>4 DEF p

-----------------------------------------------------------------------------
(* What the two operations do to the sets. *)

\* The same entries in the same places, up to their hit counts.
SameEntries ==
    \A p \in Partition, s \in SetIndex :
        /\ Len(theBTB'[p][s]) = Len(theBTB[p][s])
        /\ \A w \in 1..Len(theBTB[p][s]) :
             LET was == theBTB[p][s][w]
                 is  == theBTB'[p][s][w]
             IN  /\ is.tag = was.tag
                 /\ is.target_ip = was.target_ip
                 /\ is.lru = was.lru
                 /\ is.owner = was.owner
                 /\ is.write_timestamp = was.write_timestamp

\* Counting a hit changes nothing of an entry but its count.
LEMMA CountedHit ==
    ASSUME NEW old \in BTBEntry
    PROVE  LET e == [old EXCEPT !.hit_count = @ + 1]
           IN  /\ e \in BTBEntry
               /\ e.tag = old.tag
               /\ e.target_ip = old.target_ip
               /\ e.lru = old.lru
               /\ e.owner = old.owner
               /\ e.write_timestamp = old.write_timestamp
  BY DEF BTBEntry

\* btb_prediction counts hits and nothing else: every entry stays at its
\* place with its tag, its target, its age and its owner.
LEMMA PredictionEffect ==
    ASSUME BTBTypeOK, NEW ip \in Ip, NEW type \in Types, btb_prediction(ip, type)
    PROVE  /\ theBTB' \in [Partition -> [SetIndex -> Seq(BTBEntry)]]
           /\ SameEntries
  <1>1. CASE UNCHANGED theBTB
    BY <1>1 DEF BTBTypeOK, SameEntries
  <1>2. CASE PredictHit(ip)
    <2> DEFINE p == Home(ip)
               s == Index[p][ip]
               w == Min(Matches(p, ip))
               old == theBTB[p][s]
               e == [old[w] EXCEPT !.hit_count = @ + 1]
               new == [old EXCEPT ![w] = e]
    <2>1. Holders(ip) # {}
      BY <1>2 DEF PredictHit, Hits
    <2>2. p \in Partition /\ w \in Matches(p, ip)
      BY <2>1, HomeIsFirst
    <2>3. s \in SetIndex
      BY SMTT(30), <2>2, PartitionAssumption
    <2>4. /\ old \in Seq(BTBEntry)
          /\ w \in 1..Len(old)
          /\ old[w] \in BTBEntry
      BY <2>2, <2>3, SetType DEF Matches, ThisSet
    <2>5. theBTB' = [theBTB EXCEPT ![p][s] = new]
      BY <1>2 DEF PredictHit
    <2>6. /\ e \in BTBEntry
          /\ e.tag = old[w].tag
          /\ e.target_ip = old[w].target_ip
          /\ e.lru = old[w].lru
          /\ e.owner = old[w].owner
          /\ e.write_timestamp = old[w].write_timestamp
      <3> DEFINE x == old[w]
      <3> HIDE DEF x
      <3> QED
        BY <2>4, CountedHit DEF x
    <2>7. /\ new \in Seq(BTBEntry)
          /\ Len(new) = Len(old)
          /\ \A v \in 1..Len(old) : new[v] = IF v = w THEN e ELSE old[v]
      <3> HIDE DEF p, s, w, e
      <3> QED
        BY <2>4, <2>6, ExceptSeq
    <2>8. /\ theBTB' \in [Partition -> [SetIndex -> Seq(BTBEntry)]]
          /\ theBTB'[p][s] = new
          /\ \A q \in Partition, t \in SetIndex :
               q # p \/ t # s => theBTB'[q][t] = theBTB[q][t]
      <3>1. p \in Partition /\ s \in SetIndex /\ new \in Seq(BTBEntry)
        BY <2>2, <2>3, <2>7
      <3> HIDE DEF p, s, w, old, e, new
      <3> QED
        BY ZenonT(30), <3>1, <2>5, ReplaceSet DEF Replaces
    <2>9. ASSUME NEW q \in Partition, NEW t \in SetIndex
          PROVE  /\ Len(theBTB'[q][t]) = Len(theBTB[q][t])
                 /\ \A v \in 1..Len(theBTB[q][t]) :
                      LET was == theBTB[q][t][v]
                          is  == theBTB'[q][t][v]
                      IN  /\ is.tag = was.tag
                          /\ is.target_ip = was.target_ip
                          /\ is.lru = was.lru
                          /\ is.owner = was.owner
                          /\ is.write_timestamp = was.write_timestamp
      <3> HIDE DEF p, s, w, e, new
      <3>1. CASE q = p /\ t = s
        BY <2>6, <2>7, <2>8, <3>1
      <3>2. CASE q # p \/ t # s
        BY <2>8, <3>2
      <3> QED
        BY <3>1, <3>2
    <2> HIDE DEF p, s, w, e, new, old
    <2> QED
      BY <2>8, <2>9 DEF SameEntries
  <1> QED
    BY <1>1, <1>2 DEF btb_prediction, PredictMiss, PredictExpired

\* The entry an update stores for ip in partition p: a new one when no
\* partition had a match, else the first match rewritten.
Stores(ip, target, p, w, e) ==
    /\ e \in BTBEntry
    /\ e.lru = basic_btb_lru_counter
    /\ e.write_timestamp = current_core_cycle
    /\ e.tag = Tag[p][ip]
    /\ \/ /\ Holders(ip) = {}
          /\ target \in Target
          /\ p = get_lru_partition(ip)
          /\ e.owner = ip
          /\ e.target_ip = target
       \/ /\ Holders(ip) # {}
          /\ p = Home(ip)
          /\ w \in Matches(p, ip)
          /\ e.owner = IF target # 0 THEN ip ELSE ThisSet(p, ip)[w].owner
          /\ e.target_ip = IF target # 0 THEN target ELSE ThisSet(p, ip)[w].target_ip

\* The entry that an insertion stores is an entry.
LEMMA NewEntryType ==
    ASSUME BTBTypeOK, NEW ip \in Ip, NEW p \in Partition, NEW target \in Target
    PROVE  NewEntry(p, ip, target) \in BTBEntry
  BY PartitionAssumption DEF NewEntry, BTBEntry, BTBTypeOK

\* A rewritten entry is an entry, with the current age and time; its target
\* and owner change only when the branch was taken.
LEMMA RewrittenEntryType ==
    ASSUME BTBTypeOK, NEW ip \in Ip, NEW p \in Partition, NEW old \in BTBEntry,
           NEW target \in Target \cup {0}
    PROVE  /\ RewrittenEntry(old, ip, target) \in BTBEntry
           /\ RewrittenEntry(old, ip, target).lru = basic_btb_lru_counter
           /\ RewrittenEntry(old, ip, target).write_timestamp = current_core_cycle
           /\ RewrittenEntry(old, ip, target).tag = old.tag
           /\ RewrittenEntry(old, ip, target).owner
                = IF target # 0 THEN ip ELSE old.owner
           /\ RewrittenEntry(old, ip, target).target_ip
                = IF target # 0 THEN target ELSE old.target_ip
  BY PartitionAssumption DEF RewrittenEntry, BTBEntry, BTBTypeOK, Expired

\* The books of a taken update: what it puts in place of nothing, what it
\* evicts, which the profile and the refreshes count, and what it rewrites,
\* whose refreshes are forgotten.
Inserted(set, w) ==
    /\ w = Len(set) + 1
    /\ BTB_writes' = BTB_writes + 1
    /\ UNCHANGED <<sttram_refreshes, mot_stats, forgotten>>

Evicted(set, w) ==
    /\ w = 1 /\ w \in 1..Len(set)
    /\ BTB_writes' = BTB_writes + 1
    /\ sttram_refreshes' = sttram_refreshes + RefreshesOf(set[w])
    /\ mot_stats' = [mot_stats EXCEPT
         ![LifetimeZone(Lifetime(set[w]))][HitBucket(set[w].hit_count)] = @ + 1]
    /\ UNCHANGED forgotten

Rewritten(set, w) ==
    /\ w \in 1..Len(set)
    /\ forgotten' = forgotten + RefreshesOf(set[w])
    /\ UNCHANGED <<BTB_writes, sttram_refreshes, mot_stats>>

Booked(set, w) == Inserted(set, w) \/ Evicted(set, w) \/ Rewritten(set, w)

\* An update replaces one set by itself without at most one entry and with
\* the entry it stores at the end, and keeps its books, or changes no set.
LEMMA UpdateBooks ==
    ASSUME BTBTypeOK, NEW ip \in Ip, NEW target \in Target \cup {0},
           NEW taken \in BOOLEAN, update_btb(ip, target, taken)
    PROVE  \/ /\ UNCHANGED <<theBTB, sttram_refreshes, mot_stats, forgotten>>
              /\ BTB_writes' = BTB_writes + 1
              /\ ~ (target # 0 /\ taken)
           \/ \E p \in Partition, new \in Seq(BTBEntry), w \in Nat, e \in BTBEntry :
                /\ theBTB' = [theBTB EXCEPT ![p][Index[p][ip]] = new]
                /\ Shifted(ThisSet(p, ip), new, w, e)
                /\ Stores(ip, target, p, w, e)
                /\ Booked(ThisSet(p, ip), w)
  <1> DEFINE Effect ==
        \E p \in Partition, new \in Seq(BTBEntry), w \in Nat, e \in BTBEntry :
            /\ theBTB' = [theBTB EXCEPT ![p][Index[p][ip]] = new]
            /\ Shifted(ThisSet(p, ip), new, w, e)
            /\ Stores(ip, target, p, w, e)
            /\ Booked(ThisSet(p, ip), w)
  <1>1. ASSUME UpdateMiss(ip, target, taken),
               ~ (/\ UNCHANGED <<theBTB, sttram_refreshes, mot_stats, forgotten>>
                  /\ BTB_writes' = BTB_writes + 1
                  /\ ~ (target # 0 /\ taken))
        PROVE  Effect
    <2> DEFINE p == get_lru_partition(ip)
               old == ThisSet(p, ip)
               e == NewEntry(p, ip, target)
    <2>1. /\ Holders(ip) = {}
          /\ target # 0
          /\ InsertFree(p, ip, target) \/ InsertEvicting(p, ip, target)
          /\ BTB_writes' = BTB_writes + 1 /\ UNCHANGED forgotten
      BY <1>1 DEF UpdateMiss
    <2>2. target \in Target
      BY <2>1
    <2>3. p \in Partition
      BY LRUPartitionIsLeast
    <2>4. /\ e \in BTBEntry
          /\ e.lru = basic_btb_lru_counter
          /\ e.write_timestamp = current_core_cycle
          /\ e.tag = Tag[p][ip]
          /\ e.owner = ip
          /\ e.target_ip = target
      BY <2>2, <2>3, NewEntryType DEF NewEntry
    <2>5. Index[p][ip] \in SetIndex /\ Assoc[p] \in Nat \ {0}
      BY <2>3, PartitionAssumption
    <2>6. /\ old \in Seq(BTBEntry)
          /\ Len(old) \in Nat
          /\ old = theBTB[p][Index[p][ip]]
      BY <2>3, <2>5, SetType DEF ThisSet
    <2>7. \A w : Stores(ip, target, p, w, e)
      BY <2>1, <2>2, <2>4 DEF Stores
    <2>8. CASE InsertFree(p, ip, target)
      <3>1. theBTB' = [theBTB EXCEPT ![p][Index[p][ip]] = Append(old, e)]
        BY <2>8 DEF InsertFree, ThisSet
      <3>4. Booked(old, Len(old) + 1)
        BY <2>1, <2>8 DEF InsertFree, Booked, Inserted
      <3> HIDE DEF p, old, e
      <3>2. Shifted(old, Append(old, e), Len(old) + 1, e)
        BY <2>4, <2>6, AppendShifts
      <3>3. Append(old, e) \in Seq(BTBEntry) /\ Len(old) + 1 \in Nat
        BY <2>6, <3>2 DEF Shifted
      <3> QED
        BY <2>3, <2>4, <2>7, <3>1, <3>2, <3>3, <3>4 DEF old
    <2>9. CASE InsertEvicting(p, ip, target)
      <3>1. /\ theBTB' = [theBTB EXCEPT ![p][Index[p][ip]] = Append(Tail(old), e)]
            /\ Len(old) >= Assoc[p]
        BY <2>9 DEF InsertEvicting, ThisSet
      <3>5. /\ sttram_refreshes' = sttram_refreshes + RefreshesOf(Head(old))
            /\ mot_stats' = [mot_stats EXCEPT
                 ![LifetimeZone(Lifetime(Head(old)))][HitBucket(Head(old).hit_count)] = @ + 1]
        BY <2>9 DEF InsertEvicting
      <3> HIDE DEF p, old, e
      <3>2. old # <<>>
        BY <2>5, <2>6, <3>1, EmptySeq
      <3>3. Shifted(old, Append(Tail(old), e), 1, e)
        BY <2>4, <2>6, <3>2, EvictionShifts
      <3>4. Append(Tail(old), e) \in Seq(BTBEntry)
        BY <3>3 DEF Shifted
      <3>6. Head(old) = old[1] /\ 1 \in 1..Len(old)
        BY <2>6, <3>2, HeadTailProperties, EmptySeq
      <3>7. Booked(old, 1)
        BY <2>1, <3>5, <3>6 DEF Booked, Evicted
      <3> QED
        BY <2>3, <2>4, <2>7, <3>1, <3>3, <3>4, <3>7 DEF old
    <2> QED
      BY <2>1, <2>8, <2>9
  <1>2. ASSUME UpdateHit(ip, target)
        PROVE  Effect
    <2> DEFINE p == Home(ip)
               w == Min(Matches(p, ip))
               old == ThisSet(p, ip)
               x == old[w]
               e == RewrittenEntry(x, ip, target)
    <2>1. Holders(ip) # {}
      BY <1>2 DEF UpdateHit
    <2>2. p \in Partition /\ w \in Matches(p, ip)
      BY <2>1, HomeIsFirst
    <2>3. Index[p][ip] \in SetIndex
      BY SMTT(30), <2>2, PartitionAssumption
    <2>4. /\ old \in Seq(BTBEntry)
          /\ Len(old) \in Nat
          /\ w \in 1..Len(old)
          /\ x \in BTBEntry
          /\ x.tag = Tag[p][ip]
      BY <2>2, <2>3, SetType DEF Matches, ThisSet
    <2>10. Booked(old, w)
      <3>1. /\ forgotten' = forgotten + RefreshesOf(old[w])
            /\ UNCHANGED <<BTB_writes, sttram_refreshes, mot_stats>>
        BY <1>2 DEF UpdateHit, get_BTBentry
      <3> HIDE DEF p, w, old
      <3> QED
        BY <2>4, <3>1 DEF Booked, Rewritten
    <2>5. /\ e \in BTBEntry
          /\ e.lru = basic_btb_lru_counter
          /\ e.write_timestamp = current_core_cycle
          /\ e.tag = x.tag
          /\ e.owner = IF target # 0 THEN ip ELSE x.owner
          /\ e.target_ip = IF target # 0 THEN target ELSE x.target_ip
      <3> HIDE DEF p, x
      <3> QED
        BY <2>2, <2>4, RewrittenEntryType
    <2>6. theBTB' = [theBTB EXCEPT ![p][Index[p][ip]] = Append(RemoveAt(old, w), e)]
      BY <1>2 DEF UpdateHit, Rewrite, ThisSet
    <2>7. Stores(ip, target, p, w, e)
      <3> HIDE DEF w, e
      <3> QED
        BY <2>1, <2>2, <2>4, <2>5 DEF Stores
    <2> HIDE DEF p, w, old, x, e
    <2>8. Shifted(old, Append(RemoveAt(old, w), e), w, e)
      BY <2>4, <2>5, RewriteShifts
    <2>9. Append(RemoveAt(old, w), e) \in Seq(BTBEntry) /\ w \in Nat
      BY <2>4, <2>8 DEF Shifted
    <2> QED
      BY <2>2, <2>5, <2>6, <2>7, <2>8, <2>9, <2>10 DEF old
  <1> QED
    BY <1>1, <1>2 DEF update_btb

\* The same, without the books.
LEMMA UpdateEffect ==
    ASSUME BTBTypeOK, NEW ip \in Ip, NEW target \in Target \cup {0},
           NEW taken \in BOOLEAN, update_btb(ip, target, taken)
    PROVE  \/ UNCHANGED theBTB /\ ~ (target # 0 /\ taken)
           \/ \E p \in Partition, new \in Seq(BTBEntry), w \in Nat, e \in BTBEntry :
                /\ theBTB' = [theBTB EXCEPT ![p][Index[p][ip]] = new]
                /\ Shifted(ThisSet(p, ip), new, w, e)
                /\ Stores(ip, target, p, w, e)
  BY UpdateBooks

\* Every other step leaves the entries alone.
LEMMA StepEffect ==
    ASSUME BTBTypeOK, [Next]_vars
    PROVE  /\ \/ theBTB' \in [Partition -> [SetIndex -> Seq(BTBEntry)]] /\ SameEntries
              \/ \E target \in Target \cup {0}, taken \in BOOLEAN :
                   TraceUpdate(target, taken) /\ resolving \in Ip
           /\ basic_btb_lru_counter' \in {basic_btb_lru_counter, basic_btb_lru_counter + 1}
           /\ current_core_cycle' \in {current_core_cycle, current_core_cycle + 1}
           /\ resolving' \in Ip \cup {NONE}
  <1>1. ASSUME NEW ip \in Ip, SpecPrediction(ip) \/ TracePrediction(ip)
        PROVE  /\ theBTB' \in [Partition -> [SetIndex -> Seq(BTBEntry)]]
               /\ SameEntries
               /\ UNCHANGED <<basic_btb_lru_counter, current_core_cycle>>
               /\ resolving' \in {resolving, ip}
    <2>1. BranchType[ip] \in Types /\ "NOT_BRANCH" \in Types
      BY PartitionAssumption DEF Types
    <2> QED
      BY <1>1, <2>1, PredictionEffect
      DEF SpecPrediction, TracePrediction, btb_prediction
  <1>2. ASSUME NEW target \in Target \cup {0}, NEW taken \in BOOLEAN,
               TraceUpdate(target, taken)
        PROVE  /\ resolving \in Ip
               /\ basic_btb_lru_counter' = basic_btb_lru_counter + 1
               /\ current_core_cycle' = current_core_cycle
               /\ resolving' = NONE
    BY <1>2 DEF TraceUpdate, update_btb, BTBTypeOK
  <1>3. CASE Cycle \/ dump_stt_write_stats \/ UNCHANGED vars
    <2>1. UNCHANGED <<theBTB, basic_btb_lru_counter, resolving>>
      BY <1>3 DEF Cycle, dump_stt_write_stats, vars
    <2>2. current_core_cycle' \in {current_core_cycle, current_core_cycle + 1}
      BY <1>3 DEF Cycle, dump_stt_write_stats, vars
    <2> QED
      BY <2>1, <2>2 DEF BTBTypeOK, SameEntries
  <1> QED
    BY <1>1, <1>2, <1>3 DEF Next, BTBTypeOK

-----------------------------------------------------------------------------
(* Types. *)

\* Every step keeps the types of the BTB.
LEMMA BTBTypeStep ==
    BTBTypeOK /\ [Next]_vars => BTBTypeOK'
  <1> SUFFICES ASSUME BTBTypeOK, [Next]_vars
               PROVE  BTBTypeOK'
    OBVIOUS
  <1>1. /\ basic_btb_lru_counter' \in Nat
        /\ current_core_cycle' \in Nat
        /\ resolving' \in Ip \cup {NONE}
    BY StepEffect DEF BTBTypeOK
  <1>2. ASSUME NEW target \in Target \cup {0}, NEW taken \in BOOLEAN,
               TraceUpdate(target, taken), resolving \in Ip
        PROVE  theBTB' \in [Partition -> [SetIndex -> Seq(BTBEntry)]]
    <2> DEFINE ip == resolving
    <2>1. update_btb(ip, target, taken) /\ ip \in Ip
      BY <1>2 DEF TraceUpdate
    <2> HIDE DEF ip
    <2>2. CASE UNCHANGED theBTB
      BY <2>2 DEF BTBTypeOK
    <2>3. ASSUME NEW p \in Partition, NEW new \in Seq(BTBEntry),
                 theBTB' = [theBTB EXCEPT ![p][Index[p][ip]] = new]
          PROVE  theBTB' \in [Partition -> [SetIndex -> Seq(BTBEntry)]]
      <3> DEFINE t == Index[p][ip]
      <3>1. t \in SetIndex /\ theBTB' = [theBTB EXCEPT ![p][t] = new]
        BY <2>1, <2>3, PartitionAssumption
      <3> HIDE DEF t
      <3> QED
        BY <3>1, ReplaceSet DEF Replaces
    <2>4. UNCHANGED theBTB \/
            \E p \in Partition, new \in Seq(BTBEntry), w \in Nat, e \in BTBEntry :
              /\ theBTB' = [theBTB EXCEPT ![p][Index[p][ip]] = new]
              /\ Shifted(ThisSet(p, ip), new, w, e)
              /\ Stores(ip, target, p, w, e)
      BY <2>1, UpdateEffect
    <2> QED
      BY <2>2, <2>3, <2>4
  <1> QED
    BY <1>1, <1>2, StepEffect DEF BTBTypeOK

\* The sets hold well-formed entries and the counters never go below zero.
THEOREM BTBTypeCorrect == Spec => []BTBTypeOK
  <1>1. Init => BTBTypeOK
    BY EmptySeq DEF Init, BTBTypeOK
  <1> QED
    BY <1>1, BTBTypeStep, PTL DEF Spec

-----------------------------------------------------------------------------
(* The LRU order. *)

\* Every stamp is older than the counter, so the entry an update puts at the
\* end of its set carries the largest.
StampsPast ==
    \A p \in Partition, s \in SetIndex :
        \A w \in DOMAIN theBTB[p][s] : theBTB[p][s][w].lru < basic_btb_lru_counter

LRUInv == BTBTypeOK /\ HeadIsLRU /\ StampsPast

\* One set, before and after an update.
LEMMA ShiftKeepsOrder ==
    ASSUME NEW old \in Seq(BTBEntry), NEW new, NEW w, NEW e \in BTBEntry,
           NEW n \in Nat, e.lru = n, Shifted(old, new, w, e),
           \A i \in 1..Len(old) : old[i].lru < n,
           \A i, j \in 1..Len(old) : i < j => old[i].lru < old[j].lru
    PROVE  /\ \A i \in 1..Len(new) : new[i].lru < n + 1
           /\ \A i, j \in 1..Len(new) : i < j => new[i].lru < new[j].lru
  <1> DEFINE m == Len(old)
             k == Len(new)
             from(i) == IF i < w THEN i ELSE i + 1
  <1>1. m \in Nat /\ k \in Nat \ {0} /\ w \in 1..(m + 1)
    BY LenProperties DEF Shifted
  <1>2. ASSUME NEW i \in 1..(k - 1)
        PROVE  from(i) \in 1..m /\ new[i] = old[from(i)]
    BY <1>1 DEF Shifted
  <1>3. new[k].lru = n
    BY DEF Shifted
  <1>4. \A i \in 1..m : old[i].lru \in Nat
    <2>1. \A i \in 1..m : old[i] \in BTBEntry
      BY ElementOfSeq
    <2> QED
      BY <2>1 DEF BTBEntry
  <1>5. ASSUME NEW i \in 1..(k - 1)
        PROVE  new[i].lru < n /\ new[i].lru \in Nat
    BY <1>2, <1>4
  <1>6. \A i \in 1..k : new[i].lru < n + 1
    <2> TAKE i \in 1..k
    <2>1. i = k \/ i \in 1..(k - 1)
      BY <1>1
    <2> HIDE DEF k
    <2> QED
      BY <2>1, <1>3, <1>5
  <1>7. ASSUME NEW i \in 1..k, NEW j \in 1..k, i < j
        PROVE  new[i].lru < new[j].lru
    <2>1. i \in 1..(k - 1) /\ (j = k \/ j \in 1..(k - 1))
      BY <1>1, <1>7
    <2>2. CASE j = k
      BY <2>1, <2>2, <1>3, <1>5
    <2>3. CASE j \in 1..(k - 1)
      <3>1. from(i) < from(j)
        BY <1>1, <1>7
      <3> HIDE DEF from
      <3> QED
        BY <2>1, <2>3, <3>1, <1>2
    <2> QED
      BY <2>1, <2>2, <2>3
  <1> QED
    BY <1>6, <1>7

\* Every step keeps the ways of a set in the order of their last use, all of
\* them older than the counter.
LEMMA LRUStep ==
    LRUInv /\ [Next]_vars => LRUInv'
  <1> SUFFICES ASSUME LRUInv, [Next]_vars
               PROVE  (HeadIsLRU /\ StampsPast)'
    BY BTBTypeStep DEF LRUInv
  <1>1. /\ BTBTypeOK /\ HeadIsLRU /\ StampsPast
        /\ basic_btb_lru_counter \in Nat
        /\ basic_btb_lru_counter' \in {basic_btb_lru_counter, basic_btb_lru_counter + 1}
    BY StepEffect DEF LRUInv, BTBTypeOK
  <1>2. CASE theBTB' \in [Partition -> [SetIndex -> Seq(BTBEntry)]] /\ SameEntries
    <2>1. ASSUME NEW p \in Partition, NEW s \in SetIndex
          PROVE  /\ DOMAIN theBTB'[p][s] = DOMAIN theBTB[p][s]
                 /\ \A w \in DOMAIN theBTB[p][s] :
                      /\ theBTB'[p][s][w].lru = theBTB[p][s][w].lru
                      /\ theBTB[p][s][w].lru \in Nat
      <3>1. theBTB'[p][s] \in Seq(BTBEntry)
        BY <1>2
      <3>2. DOMAIN theBTB'[p][s] = 1..Len(theBTB'[p][s])
        BY <3>1, LenProperties
      <3> QED
        BY ZenonT(30), <1>1, <1>2, <3>2, SetType DEF SameEntries, BTBEntry
    <2> QED
      BY <1>1, <2>1 DEF HeadIsLRU, StampsPast
  <1>3. ASSUME NEW target \in Target \cup {0}, NEW taken \in BOOLEAN,
               TraceUpdate(target, taken), resolving \in Ip
        PROVE  (HeadIsLRU /\ StampsPast)'
    <2> DEFINE ip == resolving
               n == basic_btb_lru_counter
    <2>1. update_btb(ip, target, taken) /\ ip \in Ip /\ n' = n + 1
      BY <1>3 DEF TraceUpdate, update_btb
    <2>2. ASSUME NEW p \in Partition, NEW s \in SetIndex
          PROVE  /\ \A w \in DOMAIN theBTB[p][s] :
                      theBTB[p][s][w].lru \in Nat /\ theBTB[p][s][w].lru < n + 1
                 /\ \A v, w \in DOMAIN theBTB[p][s] :
                      v < w => theBTB[p][s][v].lru < theBTB[p][s][w].lru
      <3>1. \A w \in DOMAIN theBTB[p][s] :
              theBTB[p][s][w].lru \in Nat /\ theBTB[p][s][w].lru < n
        BY <1>1, SetType DEF BTBEntry, StampsPast
      <3> QED
        BY <1>1, <3>1 DEF HeadIsLRU
    <2>3. CASE UNCHANGED theBTB
      BY <2>1, <2>2, <2>3 DEF HeadIsLRU, StampsPast
    <2>4. ASSUME NEW p \in Partition, NEW new \in Seq(BTBEntry), NEW w \in Nat,
                 NEW e \in BTBEntry,
                 theBTB' = [theBTB EXCEPT ![p][Index[p][ip]] = new],
                 Shifted(ThisSet(p, ip), new, w, e), e.lru = n
          PROVE  (HeadIsLRU /\ StampsPast)'
      <3> DEFINE s == Index[p][ip]
                 old == theBTB[p][s]
      <3>1. s \in SetIndex
        BY <2>1, PartitionAssumption
      <3>2. /\ theBTB'[p][s] = new
            /\ \A q \in Partition, t \in SetIndex :
                 q # p \/ t # s => theBTB'[q][t] = theBTB[q][t]
        <4>1. theBTB' = [theBTB EXCEPT ![p][s] = new]
          BY <2>4
        <4> HIDE DEF s
        <4> QED
          BY ZenonT(30), <1>1, <3>1, <4>1, ReplaceSet DEF Replaces
      <3>3. /\ old \in Seq(BTBEntry)
            /\ DOMAIN old = 1..Len(old)
            /\ \A i \in 1..Len(old) : old[i].lru < n
            /\ \A i, j \in 1..Len(old) : i < j => old[i].lru < old[j].lru
        BY <1>1, <3>1, SetType DEF HeadIsLRU, StampsPast
      <3>4. Shifted(old, new, w, e)
        BY <2>4 DEF ThisSet
      <3>5. /\ \A i \in 1..Len(new) : new[i].lru < n + 1
            /\ \A i, j \in 1..Len(new) : i < j => new[i].lru < new[j].lru
        <4> HIDE DEF old, n
        <4> QED
          BY <1>1, <2>4, <3>3, <3>4, ShiftKeepsOrder DEF n
      <3>6. DOMAIN new = 1..Len(new)
        BY LenProperties
      <3>7. ASSUME NEW q \in Partition, NEW t \in SetIndex
            PROVE  /\ \A i \in DOMAIN theBTB'[q][t] : theBTB'[q][t][i].lru < n'
                   /\ \A i, j \in DOMAIN theBTB'[q][t] :
                        i < j => theBTB'[q][t][i].lru < theBTB'[q][t][j].lru
        <4>1. CASE q = p /\ t = s
          BY <2>1, <3>2, <3>5, <3>6, <4>1
        <4>2. CASE q # p \/ t # s
          BY <2>1, <2>2, <3>2, <4>2
        <4> QED
          BY <4>1, <4>2
      <3> QED
        BY <3>7 DEF HeadIsLRU, StampsPast
    <2> QED
      <3>1. UNCHANGED theBTB \/
              \E p \in Partition, new \in Seq(BTBEntry), w \in Nat, e \in BTBEntry :
                /\ theBTB' = [theBTB EXCEPT ![p][Index[p][ip]] = new]
                /\ Shifted(ThisSet(p, ip), new, w, e)
                /\ Stores(ip, target, p, w, e)
        BY <1>1, <2>1, UpdateEffect
      <3> QED
        BY <2>3, <2>4, <3>1 DEF Stores
  <1> QED
    BY <1>1, <1>2, <1>3, StepEffect

\* The empty BTB is in order.
LEMMA LRUInit == Init => LRUInv
  <1> SUFFICES ASSUME Init
               PROVE  HeadIsLRU /\ StampsPast /\ BTBTypeOK
    BY DEF LRUInv
  <1>1. \A p \in Partition, s \in SetIndex : DOMAIN theBTB[p][s] = {}
    BY DEF Init
  <1> QED
    BY <1>1, EmptySeq DEF Init, BTBTypeOK, HeadIsLRU, StampsPast

\* The entry at the head of each set is its least recently used one, so the
\* assert(0) of get_lru_value cannot be reached and evicting the head evicts
\* the LRU entry.
THEOREM LRUOrderKept == Spec => []HeadIsLRU
  <1>1. LRUInv => HeadIsLRU
    BY DEF LRUInv
  <1> QED
    BY <1>1, LRUInit, LRUStep, PTL DEF Spec

\* The value of a full set is a lower bound of its stamps.
LEMMA LRUValueIsLeast ==
    ASSUME LRUInv, NEW p \in Partition, NEW ip \in Ip
    PROVE  /\ Len(ThisSet(p, ip)) < Assoc[p] => get_lru_value(p, ip) = 0
           /\ \A w \in DOMAIN ThisSet(p, ip) : get_lru_value(p, ip) <= ThisSet(p, ip)[w].lru
  <1> DEFINE s == Index[p][ip]
             set == theBTB[p][s]
  <1>1. s \in SetIndex /\ set = ThisSet(p, ip)
    BY PartitionAssumption DEF ThisSet
  <1>2. /\ DOMAIN set = 1..Len(set)
        /\ Len(set) \in Nat
        /\ \A w \in DOMAIN set : set[w].lru \in Nat
    BY <1>1, SetType DEF LRUInv, BTBEntry
  <1>3. CASE Len(set) < Assoc[p]
    BY <1>1, <1>2, <1>3 DEF get_lru_value
  <1>4. CASE ~ (Len(set) < Assoc[p])
    <2>1. get_lru_value(p, ip) = set[1].lru
      BY <1>1, <1>4 DEF get_lru_value
    <2>2. ASSUME NEW w \in DOMAIN set
          PROVE  set[1].lru <= set[w].lru
      <3>1. 1 \in DOMAIN set /\ (w = 1 \/ 1 < w)
        BY <1>2
      <3>2. 1 < w => set[1].lru < set[w].lru
        BY <1>1, <3>1 DEF LRUInv, HeadIsLRU
      <3> HIDE DEF set
      <3> QED
        BY <1>2, <3>1, <3>2
    <2> QED
      BY <1>1, <1>4, <2>1, <2>2
  <1> QED
    BY <1>3, <1>4

\* Under that order the way at the head, which an insertion evicts, is the
\* least recently used of its set.
LEMMA EvictionStep ==
    LRUInv /\ [Next]_vars => [EvictsOldest]_vars
  <1> SUFFICES ASSUME LRUInv, [Next]_vars, mot_stats' # mot_stats,
                      NEW p \in Partition, NEW s \in SetIndex,
                      theBTB'[p][s] # theBTB[p][s], NEW q \in Partition
               PROVE  LET victim == Head(theBTB[p][s])
                          set == ThisSet(q, resolving)
                      IN  /\ Len(set) < Assoc[q] => victim.lru = 0
                          /\ \A w \in DOMAIN set : victim.lru <= set[w].lru
    BY DEF EvictsOldest
  <1> DEFINE ip == resolving
             v == get_lru_partition(ip)
  <1>1. BTBTypeOK
    BY DEF LRUInv
  <1>2. PICK target \in Target \cup {0}, taken \in BOOLEAN : TraceUpdate(target, taken)
    BY DEF Next, SpecPrediction, TracePrediction, btb_prediction, Cycle,
           dump_stt_write_stats, vars, statVars
  <1>3. ip \in Ip /\ InsertEvicting(v, ip, target)
    BY <1>1, <1>2
    DEF TraceUpdate, update_btb, UpdateMiss, UpdateHit, InsertFree, BTBTypeOK
  <1>4. v \in Partition /\ get_lru_value(v, ip) <= get_lru_value(q, ip)
    BY <1>1, <1>3, LRUPartitionIsLeast
  <1>5. p = v /\ s = Index[v][ip]
    BY <1>1, <1>3, <1>4 DEF InsertEvicting, BTBTypeOK
  <1>6. Head(theBTB[p][s]).lru = get_lru_value(v, ip)
    <2>1. ~ (Len(ThisSet(v, ip)) < Assoc[v])
      <3>1. Len(ThisSet(v, ip)) >= Assoc[v]
        BY <1>3 DEF InsertEvicting
      <3>2. Len(ThisSet(v, ip)) \in Nat /\ Assoc[v] \in Nat
        BY <1>1, <1>3, <1>4, PartitionAssumption, SetType DEF ThisSet
      <3> QED
        BY <3>1, <3>2
    <2> QED
      BY <1>5, <2>1 DEF get_lru_value, ThisSet
  <1>7. get_lru_value(v, ip) \in Nat /\ get_lru_value(q, ip) \in Nat
    BY <1>1, <1>3, <1>4, LRUValueIsNat
  <1>8. \A w \in DOMAIN ThisSet(q, ip) : ThisSet(q, ip)[w].lru \in Nat
    <2>1. Index[q][ip] \in SetIndex
      BY <1>3, PartitionAssumption
    <2> QED
      BY <1>1, <2>1, SetType DEF ThisSet, BTBEntry
  <1>9. /\ Len(ThisSet(q, ip)) < Assoc[q] => get_lru_value(q, ip) = 0
        /\ \A w \in DOMAIN ThisSet(q, ip) : get_lru_value(q, ip) <= ThisSet(q, ip)[w].lru
    BY <1>3, LRUValueIsLeast
  <1> HIDE DEF ip, v
  <1> QED
    BY <1>4, <1>6, <1>7, <1>8, <1>9 DEF ip

\* What an update evicts is the oldest entry it could have evicted.
THEOREM EvictionsOldest == Spec => VictimIsOldest
  BY LRUInit, LRUStep, EvictionStep, PTL DEF Spec, VictimIsOldest

-----------------------------------------------------------------------------
(* Lookups find what was stored. *)

\* An entry is in the set, and under the tag, of the branch that owns it.
OwnerFits ==
    \A p \in Partition, s \in SetIndex : \A w \in DOMAIN theBTB[p][s] :
        /\ Index[p][theBTB[p][s][w].owner] = s
        /\ theBTB[p][s][w].tag = Tag[p][theBTB[p][s][w].owner]

\* No entry is looked at before the one its owner looks for and mistaken for
\* it: of two entries, the one in the earlier partition is not one that
\* partition confuses with the other's owner.
NotHidden ==
    \A p, q \in Partition, s, t \in SetIndex :
        \A w \in DOMAIN theBTB[p][s], v \in DOMAIN theBTB[q][t] :
            p <= q /\ <<p, s, w>> # <<q, t, v>> =>
                ~ Alias(p, theBTB[p][s][w].owner, theBTB[q][t][v].owner)

OwnInv == BTBTypeOK /\ OwnerFits /\ NotHidden

\* A place of the BTB is a partition, a set and a way.
LEMMA PlaceType ==
    ASSUME BTBTypeOK, NEW x \in Places
    PROVE  \E p \in Partition, s \in SetIndex :
             \E w \in DOMAIN theBTB[p][s] : x = <<p, s, w>>
  BY DEF Places

\* What NotHidden means for a lookup.
LEMMA OwnerFindsEntry ==
    ASSUME OwnInv, NEW p \in Partition, NEW s \in SetIndex, NEW w \in DOMAIN theBTB[p][s]
    PROVE  LET ip == theBTB[p][s][w].owner
           IN  /\ Holders(ip) # {}
               /\ Home(ip) = p
               /\ Index[p][ip] = s
               /\ Min(Matches(p, ip)) = w
  <1> DEFINE ip == theBTB[p][s][w].owner
  <1>1. BTBTypeOK /\ OwnerFits /\ NotHidden
    BY DEF OwnInv
  <1>2. ip \in Ip /\ Index[p][ip] = s /\ theBTB[p][s][w].tag = Tag[p][ip]
    <2>1. theBTB[p][s][w] \in BTBEntry
      BY <1>1, SetType
    <2> QED
      BY <1>1, <2>1 DEF OwnerFits, BTBEntry
  <1>3. w \in Matches(p, ip)
    BY <1>2 DEF Matches, ThisSet
  <1>4. Holders(ip) # {}
    BY <1>3 DEF Holders
  <1>5. ASSUME NEW q \in Partition, NEW v \in Matches(q, ip), q <= p
        PROVE  q = p /\ v = w
    <2> DEFINE t == Index[q][ip]
               other == theBTB[q][t][v].owner
    <2>1. t \in SetIndex /\ v \in DOMAIN theBTB[q][t] /\ theBTB[q][t][v].tag = Tag[q][ip]
      BY ZenonT(30), <1>2, PartitionAssumption DEF Matches, ThisSet
    <2>2. Alias(q, other, ip)
      <3>1. Index[q][other] = t /\ theBTB[q][t][v].tag = Tag[q][other]
        BY <1>1, <2>1 DEF OwnerFits
      <3> QED
        BY ZenonT(30), <2>1, <3>1 DEF Alias
    <2>3. <<q, t, v>> = <<p, s, w>>
      <3> HIDE DEF t, ip
      <3> QED
        BY <1>1, <1>5, <2>1, <2>2 DEF NotHidden, ip
    <2> QED
      BY SMTT(30), <2>3
  <1>6. /\ Home(ip) \in Partition
        /\ Home(ip) <= p
        /\ Min(Matches(Home(ip), ip)) \in Matches(Home(ip), ip)
    <2> HIDE DEF ip
    <2> QED
      BY <1>1, <1>2, <1>3, <1>4, HomeIsFirst
  <1> QED
    BY SMTT(30), <1>2, <1>4, <1>5, <1>6

\* So each stored entry is the one its owner finds.
LEMMA NotHiddenSuffices ==
    OwnInv => OwnEntryFound
  <1> SUFFICES ASSUME OwnInv, NEW x \in Places
               PROVE  /\ Holders(EntryAt(x).owner) # {}
                      /\ x = <<Home(EntryAt(x).owner),
                               Index[Home(EntryAt(x).owner)][EntryAt(x).owner],
                               Min(Matches(Home(EntryAt(x).owner), EntryAt(x).owner))>>
    BY DEF OwnEntryFound
  <1>1. BTBTypeOK
    BY DEF OwnInv
  <1>2. PICK p \in Partition, s \in SetIndex : \E w \in DOMAIN theBTB[p][s] : x = <<p, s, w>>
    BY <1>1, PlaceType
  <1>3. PICK w \in DOMAIN theBTB[p][s] : x = <<p, s, w>>
    BY <1>2
  <1>4. EntryAt(x) = theBTB[p][s][w]
    BY <1>3 DEF EntryAt
  <1> QED
    BY <1>3, <1>4, OwnerFindsEntry

\* The entry an update stores hides no other entry and is hidden by none.
LEMMA StoredIsApart ==
    ASSUME OwnInv, NEW ip \in Ip, NEW target, NEW p \in Partition, NEW w, NEW e,
           Stores(ip, target, p, w, e)
    PROVE  /\ Index[p][e.owner] = Index[p][ip]
           /\ e.tag = Tag[p][e.owner]
           /\ \A q \in Partition, t \in SetIndex : \A v \in DOMAIN theBTB[q][t] :
                Holders(ip) = {} \/ <<q, t, v>> # <<p, Index[p][ip], w>> =>
                  /\ p <= q => ~ Alias(p, e.owner, theBTB[q][t][v].owner)
                  /\ q <= p => ~ Alias(q, theBTB[q][t][v].owner, e.owner)
  <1> DEFINE s == Index[p][ip]
  <1>1. BTBTypeOK /\ OwnerFits /\ NotHidden /\ s \in SetIndex
    BY PartitionAssumption DEF OwnInv
  <1>2. ASSUME NEW q \in Partition, NEW t \in SetIndex, NEW v \in DOMAIN theBTB[q][t],
               Alias(q, theBTB[q][t][v].owner, ip)
        PROVE  v \in Matches(q, ip) /\ t = Index[q][ip]
    <2>1. /\ Index[q][theBTB[q][t][v].owner] = t
          /\ theBTB[q][t][v].tag = Tag[q][theBTB[q][t][v].owner]
      BY <1>1 DEF OwnerFits
    <2> QED
      BY <1>2, <2>1 DEF Alias, Matches, ThisSet
  <1>3. \A q \in Partition, t \in SetIndex : \A v \in DOMAIN theBTB[q][t] :
          theBTB[q][t][v].owner \in Ip
    BY <1>1, SetType DEF BTBEntry
  <1>4. CASE Holders(ip) = {}
    <2>1. e.owner = ip /\ e.tag = Tag[p][ip]
      BY <1>4 DEF Stores
    <2>2. ASSUME NEW q \in Partition, NEW t \in SetIndex, NEW v \in DOMAIN theBTB[q][t]
          PROVE  ~ Alias(q, theBTB[q][t][v].owner, ip)
      BY <1>2, <1>4 DEF Holders
    <2>3. ASSUME NEW q \in Partition, NEW t \in SetIndex, NEW v \in DOMAIN theBTB[q][t],
                 p <= q, Alias(p, ip, theBTB[q][t][v].owner)
          PROVE  FALSE
      <3> DEFINE b == theBTB[q][t][v].owner
      <3>1. Alias(q, ip, b)
        <4>1. p = q \/ p < q
          BY <2>3, PartitionAssumption DEF Partition
        <4> HIDE DEF b
        <4> QED
          BY <4>1, <2>3, <1>3, AliasAssumption DEF b
      <3>2. Alias(q, b, ip)
        BY <3>1 DEF Alias
      <3> QED
        BY <2>2, <3>2
    <2> QED
      BY <2>1, <2>2, <2>3
  <1>5. CASE Holders(ip) # {}
    <2> DEFINE c == theBTB[p][s][w].owner
    <2>1. /\ p = Home(ip)
          /\ w \in DOMAIN theBTB[p][s]
          /\ theBTB[p][s][w].tag = Tag[p][ip]
          /\ e.tag = Tag[p][ip]
          /\ e.owner = ip \/ e.owner = c
      BY SMTT(30), <1>5 DEF Stores, Matches, ThisSet
    <2>2. Index[p][c] = Index[p][ip] /\ Tag[p][c] = Tag[p][ip]
      BY <1>1, <2>1 DEF OwnerFits
    <2>3. ASSUME NEW q \in Partition, NEW t \in SetIndex, NEW v \in DOMAIN theBTB[q][t],
                 <<q, t, v>> # <<p, s, w>>
          PROVE  /\ p <= q => ~ Alias(p, e.owner, theBTB[q][t][v].owner)
                 /\ q <= p => ~ Alias(q, theBTB[q][t][v].owner, e.owner)
      <3> DEFINE b == theBTB[q][t][v].owner
      <3>1. p <= q => ~ Alias(p, c, b)
        BY <1>1, <2>1, <2>3 DEF NotHidden
      <3>2. q <= p => ~ Alias(q, b, c)
        BY <1>1, <2>1, <2>3 DEF NotHidden
      <3>3. p <= q => ~ Alias(p, e.owner, b)
        BY <2>1, <2>2, <3>1 DEF Alias
      <3>4. q <= p => ~ Alias(q, b, e.owner)
        <4>1. CASE e.owner = c
          BY <3>2, <4>1
        <4>2. ASSUME e.owner = ip, q <= p, Alias(q, b, ip)
              PROVE  FALSE
          <5>1. Matches(q, ip) # {}
            BY <1>2, <4>2
          <5>2. p <= q
            BY <1>1, <1>5, <2>1, <5>1, HomeIsFirst
          <5>3. p = q
            BY <4>2, <5>2, PartitionAssumption DEF Partition
          <5>4. Alias(q, b, c)
            BY <2>2, <4>2, <5>3 DEF Alias
          <5> QED
            BY <3>2, <4>2, <5>4
        <4> QED
          BY <2>1, <4>1, <4>2
      <3> QED
        BY <3>3, <3>4
    <2>4. Index[p][e.owner] = Index[p][ip] /\ e.tag = Tag[p][e.owner]
      BY <2>1, <2>2
    <2> QED
      BY <1>5, <2>3, <2>4
  <1> QED
    BY <1>4, <1>5

\* Where update_BTB, having replaced way w of set s of partition p, took the
\* entry from that it left at way i of set t of partition q.
Origin(p, s, w, q, t, i) ==
    IF q = p /\ t = s THEN IF i < w THEN i ELSE i + 1 ELSE i

\* Every entry but the one stored, e at way k, was there before.
StoredApart(p, s, w, e, k) ==
    /\ k \in DOMAIN theBTB'[p][s]
    /\ theBTB'[p][s][k] = e
    /\ \A q \in Partition, t \in SetIndex : \A i \in DOMAIN theBTB'[q][t] :
         <<q, t, i>> # <<p, s, k>> =>
           /\ Origin(p, s, w, q, t, i) \in DOMAIN theBTB[q][t]
           /\ <<q, t, Origin(p, s, w, q, t, i)>> # <<p, s, w>>
           /\ theBTB'[q][t][i] = theBTB[q][t][Origin(p, s, w, q, t, i)]
    /\ \A q \in Partition, t \in SetIndex : \A i, j \in DOMAIN theBTB'[q][t] :
         i # j => Origin(p, s, w, q, t, i) # Origin(p, s, w, q, t, j)

\* After a set is rewritten, its new entry is at the last way and every other
\* entry of the BTB was at one place before.
LEMMA UpdatePlaces ==
    ASSUME BTBTypeOK, NEW p \in Partition, NEW s \in SetIndex,
           NEW new \in Seq(BTBEntry), NEW w \in Nat, NEW e \in BTBEntry,
           Replaces(p, s, new),
           Shifted(theBTB[p][s], new, w, e)
    PROVE  StoredApart(p, s, w, e, Len(new))
  <1> DEFINE old == theBTB[p][s]
             k == Len(new)
             from(i) == IF i < w THEN i ELSE i + 1
  <1>1. /\ theBTB'[p][s] = new
        /\ \A q \in Partition, t \in SetIndex :
             q # p \/ t # s => theBTB'[q][t] = theBTB[q][t]
    BY ReplaceSet
  <1>2. /\ k \in Nat \ {0}
        /\ DOMAIN new = 1..k
        /\ DOMAIN old = 1..Len(old)
        /\ new[k] = e
        /\ \A i \in 1..(k - 1) :
             from(i) \in DOMAIN old /\ from(i) # w /\ new[i] = old[from(i)]
    <2>1. Len(old) \in Nat /\ DOMAIN old = 1..Len(old) /\ DOMAIN new = 1..k
      BY SetType, LenProperties
    <2>2. Shifted(old, new, w, e)
      OBVIOUS
    <2> HIDE DEF old
    <2>3. /\ w \in 1..(Len(old) + 1)
          /\ k = IF w <= Len(old) THEN Len(old) ELSE Len(old) + 1
          /\ \A i \in 1..(k - 1) : new[i] = old[from(i)]
          /\ new[k] = e
      BY <2>2 DEF Shifted
    <2>4. k \in Nat \ {0}
      BY <2>1, <2>3
    <2>5. \A i \in 1..(k - 1) : from(i) \in 1..Len(old) /\ from(i) # w
      BY <2>1, <2>3
    <2> QED
      BY <2>1, <2>3, <2>4, <2>5
  <1>3. ASSUME NEW q \in Partition, NEW t \in SetIndex, NEW i \in DOMAIN theBTB'[q][t],
               <<q, t, i>> # <<p, s, k>>
        PROVE  /\ Origin(p, s, w, q, t, i) \in DOMAIN theBTB[q][t]
               /\ <<q, t, Origin(p, s, w, q, t, i)>> # <<p, s, w>>
               /\ theBTB'[q][t][i] = theBTB[q][t][Origin(p, s, w, q, t, i)]
    <2>1. CASE q = p /\ t = s
      <3>1. i \in 1..(k - 1) /\ Origin(p, s, w, q, t, i) = from(i)
        BY <1>1, <1>2, <1>3, <2>1 DEF Origin
      <3> HIDE DEF from, k
      <3> QED
        BY <1>1, <1>2, <2>1, <3>1
    <2>2. CASE q # p \/ t # s
      BY <1>1, <2>2 DEF Origin
    <2> QED
      BY <2>1, <2>2
  <1>4. ASSUME NEW q \in Partition, NEW t \in SetIndex,
               NEW i \in DOMAIN theBTB'[q][t], NEW j \in DOMAIN theBTB'[q][t], i # j
        PROVE  Origin(p, s, w, q, t, i) # Origin(p, s, w, q, t, j)
    <2>1. CASE q = p /\ t = s
      BY <1>1, <1>2, <1>4, <2>1 DEF Origin
    <2>2. CASE q # p \/ t # s
      BY <1>4, <2>2 DEF Origin
    <2> QED
      BY <2>1, <2>2
  <1> QED
    BY <1>1, <1>2, <1>3, <1>4 DEF StoredApart

\* Every step keeps each entry where its owner's lookup finds it, with no
\* other owner's entry of the same tag before it.
LEMMA OwnStep ==
    OwnInv /\ [Next]_vars => OwnInv'
  <1> SUFFICES ASSUME OwnInv, [Next]_vars
               PROVE  (OwnerFits /\ NotHidden)'
    BY BTBTypeStep DEF OwnInv
  <1>1. BTBTypeOK /\ OwnerFits /\ NotHidden
    BY DEF OwnInv
  <1>2. CASE theBTB' \in [Partition -> [SetIndex -> Seq(BTBEntry)]] /\ SameEntries
    <2>1. ASSUME NEW p \in Partition, NEW s \in SetIndex
          PROVE  /\ DOMAIN theBTB'[p][s] = DOMAIN theBTB[p][s]
                 /\ \A w \in DOMAIN theBTB[p][s] :
                      /\ theBTB'[p][s][w].owner = theBTB[p][s][w].owner
                      /\ theBTB'[p][s][w].tag = theBTB[p][s][w].tag
      <3>1. theBTB'[p][s] \in Seq(BTBEntry)
        BY <1>2
      <3>2. DOMAIN theBTB'[p][s] = 1..Len(theBTB'[p][s])
        BY <3>1, LenProperties
      <3> QED
        BY ZenonT(30), <1>1, <1>2, <3>2, SetType DEF SameEntries
    <2>2. OwnerFits'
      BY <1>1, <2>1 DEF OwnerFits
    <2>3. ASSUME NEW p \in Partition, NEW s \in SetIndex, NEW w \in DOMAIN theBTB'[p][s],
                 NEW q \in Partition, NEW t \in SetIndex, NEW v \in DOMAIN theBTB'[q][t],
                 p <= q, <<p, s, w>> # <<q, t, v>>
          PROVE  ~ Alias(p, theBTB'[p][s][w].owner, theBTB'[q][t][v].owner)
      <3>1. /\ w \in DOMAIN theBTB[p][s] /\ v \in DOMAIN theBTB[q][t]
            /\ theBTB'[p][s][w].owner = theBTB[p][s][w].owner
            /\ theBTB'[q][t][v].owner = theBTB[q][t][v].owner
        BY <2>1
      <3> QED
        BY <1>1, <2>3, <3>1 DEF NotHidden
    <2>4. NotHidden'
      BY <2>3 DEF NotHidden, Alias
    <2> QED
      BY <2>2, <2>4
  <1>3. ASSUME NEW target \in Target \cup {0}, NEW taken \in BOOLEAN,
               TraceUpdate(target, taken), resolving \in Ip
        PROVE  (OwnerFits /\ NotHidden)'
    <2> DEFINE ip == resolving
    <2>1. update_btb(ip, target, taken) /\ ip \in Ip
      BY <1>3 DEF TraceUpdate
    <2>2. CASE UNCHANGED theBTB
      <3>1. OwnerFits'
        BY <1>1, <2>2 DEF OwnerFits
      <3>2. NotHidden'
        BY <1>1, <2>2 DEF NotHidden, Alias
      <3> QED
        BY <3>1, <3>2
    <2>3. ASSUME NEW p \in Partition, NEW new \in Seq(BTBEntry), NEW w \in Nat,
                 NEW e \in BTBEntry,
                 theBTB' = [theBTB EXCEPT ![p][Index[p][ip]] = new],
                 Shifted(ThisSet(p, ip), new, w, e),
                 Stores(ip, target, p, w, e)
          PROVE  (OwnerFits /\ NotHidden)'
      <3> DEFINE s == Index[p][ip]
                 k == Len(new)
                 Was(q, t, i) == Origin(p, s, w, q, t, i)
      <3>1. s \in SetIndex /\ theBTB' = [theBTB EXCEPT ![p][s] = new]
                /\ Shifted(theBTB[p][s], new, w, e)
        BY <2>1, <2>3, PartitionAssumption DEF ThisSet
      <3>2. StoredApart(p, s, w, e, k)
        <4> HIDE DEF s, ip
        <4>1. s \in SetIndex /\ Replaces(p, s, new) /\ Shifted(theBTB[p][s], new, w, e)
          BY <3>1 DEF Replaces
        <4> QED
          BY <1>1, <4>1, UpdatePlaces
      <3>3. /\ Index[p][e.owner] = s
            /\ e.tag = Tag[p][e.owner]
            /\ \A q \in Partition, t \in SetIndex : \A v \in DOMAIN theBTB[q][t] :
                 <<q, t, v>> # <<p, s, w>> =>
                   /\ p <= q => ~ Alias(p, e.owner, theBTB[q][t][v].owner)
                   /\ q <= p => ~ Alias(q, theBTB[q][t][v].owner, e.owner)
        <4>0. OwnInv /\ ip \in Ip /\ Stores(ip, target, p, w, e)
          BY <2>1, <2>3
        <4> HIDE DEF ip, s, k
        <4>1. /\ Index[p][e.owner] = Index[p][ip]
              /\ e.tag = Tag[p][e.owner]
              /\ \A q \in Partition, t \in SetIndex : \A v \in DOMAIN theBTB[q][t] :
                   Holders(ip) = {} \/ <<q, t, v>> # <<p, Index[p][ip], w>> =>
                     /\ p <= q => ~ Alias(p, e.owner, theBTB[q][t][v].owner)
                     /\ q <= p => ~ Alias(q, theBTB[q][t][v].owner, e.owner)
          BY <4>0, StoredIsApart
        <4> QED
          BY <4>1 DEF s
      <3> HIDE DEF Was, k, s
      <3>4. ASSUME NEW q \in Partition, NEW t \in SetIndex, NEW i \in DOMAIN theBTB'[q][t]
            PROVE  /\ Index[q][theBTB'[q][t][i].owner] = t
                   /\ theBTB'[q][t][i].tag = Tag[q][theBTB'[q][t][i].owner]
        <4>1. CASE <<q, t, i>> = <<p, s, k>>
          BY <3>2, <3>3, <4>1 DEF StoredApart
        <4>2. CASE <<q, t, i>> # <<p, s, k>>
          BY <1>1, <3>2, <4>2 DEF OwnerFits, StoredApart
        <4> QED
          BY <4>1, <4>2
      <3>5. ASSUME NEW q \in Partition, NEW t \in SetIndex, NEW i \in DOMAIN theBTB'[q][t],
                   NEW r \in Partition, NEW u \in SetIndex, NEW j \in DOMAIN theBTB'[r][u],
                   q <= r, <<q, t, i>> # <<r, u, j>>
            PROVE  ~ Alias(q, theBTB'[q][t][i].owner, theBTB'[r][u][j].owner)
        <4>1. CASE <<q, t, i>> = <<p, s, k>>
          BY <3>2, <3>3, <3>5, <4>1 DEF StoredApart
        <4>2. CASE <<r, u, j>> = <<p, s, k>>
          BY <3>2, <3>3, <3>5, <4>2 DEF StoredApart
        <4>3. CASE <<q, t, i>> # <<p, s, k>> /\ <<r, u, j>> # <<p, s, k>>
          <5>1. <<q, t, Was(q, t, i)>> # <<r, u, Was(r, u, j)>>
            BY <3>2, <3>5 DEF StoredApart, Was
          <5> QED
            BY <1>1, <3>2, <3>5, <4>3, <5>1 DEF NotHidden, StoredApart, Was
        <4> QED
          BY <4>1, <4>2, <4>3
      <3> QED
        BY <3>4, <3>5 DEF OwnerFits, NotHidden, Alias
    <2>4. UNCHANGED theBTB \/
            \E p \in Partition, new \in Seq(BTBEntry), w \in Nat, e \in BTBEntry :
              /\ theBTB' = [theBTB EXCEPT ![p][Index[p][ip]] = new]
              /\ Shifted(ThisSet(p, ip), new, w, e)
              /\ Stores(ip, target, p, w, e)
      BY <1>1, <2>1, UpdateEffect
    <2> QED
      BY <2>2, <2>3, <2>4
  <1> QED
    BY <1>1, <1>2, <1>3, StepEffect

\* The empty BTB hides nothing.
LEMMA OwnInit == Init => OwnInv
  <1> SUFFICES ASSUME Init
               PROVE  BTBTypeOK /\ OwnerFits /\ NotHidden
    BY DEF OwnInv
  <1>1. \A p \in Partition, s \in SetIndex : DOMAIN theBTB[p][s] = {}
    BY DEF Init
  <1> QED
    BY <1>1, EmptySeq DEF Init, BTBTypeOK, OwnerFits, NotHidden

\* Whatever the partitions confuse, and whatever is inserted, rewritten and
\* evicted, a lookup of the branch an entry was stored for finds that entry,
\* provided a later partition confuses at least what an earlier one does.
THEOREM LookupsFindOwn == Spec => []OwnEntryFound
  BY OwnInit, OwnStep, NotHiddenSuffices, PTL DEF Spec

-----------------------------------------------------------------------------
(* The BTB as a map from branches to targets. *)

\* Each branch owns at most one entry, so Known is the target of any.
LEMMA OwnedTarget ==
    ASSUME OwnInv, NEW p \in Partition, NEW s \in SetIndex, NEW w \in DOMAIN theBTB[p][s]
    PROVE  /\ theBTB[p][s][w].owner \in Ip
           /\ Known[theBTB[p][s][w].owner] = theBTB[p][s][w].target_ip
           /\ theBTB[p][s][w].target_ip \in Target
  <1> DEFINE x == <<p, s, w>>
             ip == theBTB[p][s][w].owner
             y == CHOOSE z \in Places : EntryAt(z).owner = ip
  <1>1. BTBTypeOK /\ NotHidden
    BY DEF OwnInv
  <1>2. /\ x \in Places
        /\ EntryAt(x) = theBTB[p][s][w]
    <2> DEFINE Of(q, t) == {<<q, t, v>> : v \in DOMAIN theBTB[q][t]}
    <2>1. x \in Of(p, s)
      OBVIOUS
    <2>2. Places = UNION {Of(q, t) : q \in Partition, t \in SetIndex}
      BY DEF Places
    <2>3. x \in Places
      <3> HIDE DEF Of, x
      <3> QED
        BY <2>1, <2>2
    <2> QED
      BY <2>3 DEF EntryAt
  <1>3. ip \in Ip /\ theBTB[p][s][w].target_ip \in Target
    <2>1. theBTB[p][s][w] \in BTBEntry
      BY <1>1, SetType
    <2> QED
      BY <2>1 DEF BTBEntry
  <1>4. y \in Places /\ EntryAt(y).owner = ip
    BY <1>2
  <1>5. PICK q \in Partition, t \in SetIndex : \E v \in DOMAIN theBTB[q][t] : y = <<q, t, v>>
    <2> HIDE DEF y
    <2> QED
      BY <1>1, <1>4, PlaceType
  <1>6. PICK v \in DOMAIN theBTB[q][t] : y = <<q, t, v>>
    BY <1>5
  <1>7. theBTB[q][t][v].owner = ip
    <2> HIDE DEF y, ip
    <2> QED
      BY <1>4, <1>6 DEF EntryAt
  <1>8. y = x
    <2>1. \A r \in Partition : Alias(r, ip, ip)
      BY DEF Alias
    <2>2. p <= q \/ q <= p
      BY PartitionAssumption DEF Partition
    <2>3. <<q, t, v>> = <<p, s, w>>
      <3> HIDE DEF y
      <3> QED
        BY <1>1, <1>7, <2>1, <2>2 DEF NotHidden
    <2> HIDE DEF y
    <2> QED
      BY <1>6, <2>3
  <1>9. \E z \in Places : EntryAt(z).owner = ip
    BY <1>2
  <1>10. Known[ip] = EntryAt(y).target_ip
    BY <1>3, <1>9 DEF Known
  <1> QED
    <2> HIDE DEF y, ip
    <2> QED
      BY <1>2, <1>3, <1>8, <1>10 DEF ip

\* A branch is known exactly through the entries it owns.
LEMMA UnknownUnlessOwned ==
    ASSUME BTBTypeOK, NEW ip \in Ip
    PROVE  \/ Known[ip] = NONE
           \/ \E p \in Partition, s \in SetIndex : \E w \in DOMAIN theBTB[p][s] :
                theBTB[p][s][w].owner = ip
  <1>1. CASE \E x \in Places : EntryAt(x).owner = ip
    BY <1>1, PlaceType DEF EntryAt
  <1>2. CASE ~ \E x \in Places : EntryAt(x).owner = ip
    BY <1>2 DEF Known
  <1> QED
    BY <1>1, <1>2

\* Known, seen from the entries and seen from the branches.
KnownView ==
    /\ Known \in [Ip -> Target \cup {NONE}]
    /\ \A p \in Partition, s \in SetIndex : \A w \in DOMAIN theBTB[p][s] :
         Known[theBTB[p][s][w].owner] = theBTB[p][s][w].target_ip
    /\ \A ip \in Ip :
         \/ Known[ip] = NONE
         \/ \E p \in Partition, s \in SetIndex : \E w \in DOMAIN theBTB[p][s] :
              theBTB[p][s][w].owner = ip

\* Under that invariant the target map knows of an address exactly the target
\* that its entry stores.
LEMMA KnownIsViewed == OwnInv => KnownView
  <1> SUFFICES ASSUME OwnInv
               PROVE  KnownView
    OBVIOUS
  <1>1. \A ip \in Ip : Known[ip] \in Target \cup {NONE}
    BY OwnedTarget, UnknownUnlessOwned DEF OwnInv
  <1>2. Known \in [Ip -> Target \cup {NONE}]
    BY <1>1 DEF Known
  <1> QED
    BY <1>2, OwnedTarget, UnknownUnlessOwned DEF OwnInv, KnownView

\* A step that keeps every entry in its place keeps what is known.
LEMMA SameEntriesKnowTheSame ==
    ASSUME BTBTypeOK, BTBTypeOK', KnownView, KnownView', SameEntries
    PROVE  Known' = Known
  <1>1. ASSUME NEW p \in Partition, NEW s \in SetIndex
        PROVE  /\ DOMAIN theBTB'[p][s] = DOMAIN theBTB[p][s]
               /\ \A w \in DOMAIN theBTB[p][s] :
                    /\ theBTB'[p][s][w].owner = theBTB[p][s][w].owner
                    /\ theBTB'[p][s][w].target_ip = theBTB[p][s][w].target_ip
    <2>1. theBTB'[p][s] \in Seq(BTBEntry)
      BY DEF BTBTypeOK
    <2>2. DOMAIN theBTB'[p][s] = 1..Len(theBTB'[p][s])
      BY <2>1, LenProperties
    <2> QED
      BY SMTT(30), <2>2, SetType DEF SameEntries
  <1>2. ASSUME NEW ip \in Ip
        PROVE  Known'[ip] = Known[ip]
    <2>1. CASE \E p \in Partition, s \in SetIndex : \E w \in DOMAIN theBTB[p][s] :
                 theBTB[p][s][w].owner = ip
      <3>1. PICK p \in Partition, s \in SetIndex : \E w \in DOMAIN theBTB[p][s] :
              theBTB[p][s][w].owner = ip
        BY <2>1
      <3>2. PICK w \in DOMAIN theBTB[p][s] : theBTB[p][s][w].owner = ip
        BY <3>1
      <3>3. Known[ip] = theBTB[p][s][w].target_ip
        BY <3>2 DEF KnownView
      <3>4. Known'[ip] = theBTB'[p][s][w].target_ip
        BY <1>1, <3>2 DEF KnownView
      <3> QED
        BY <1>1, <3>3, <3>4
    <2>2. CASE ~ \E p \in Partition, s \in SetIndex : \E w \in DOMAIN theBTB[p][s] :
                   theBTB[p][s][w].owner = ip
      <3>1. Known[ip] = NONE
        BY <2>2 DEF KnownView
      <3>2. ~ \E p \in Partition, s \in SetIndex : \E w \in DOMAIN theBTB'[p][s] :
              theBTB'[p][s][w].owner = ip
        BY <1>1, <2>2
      <3>3. Known'[ip] = NONE
        BY <3>2 DEF KnownView
      <3> QED
        BY <3>1, <3>3
    <2> QED
      BY <2>1, <2>2
  <1> QED
    BY <1>2 DEF KnownView

\* An update that stores an entry teaches its owner's target, and at most
\* makes the BTB forget the branches whose entries it replaced.
LEMMA StoringLearns ==
    ASSUME KnownView, KnownView', NEW p \in Partition, NEW s \in SetIndex, NEW w, NEW k,
           NEW e \in BTBEntry, StoredApart(p, s, w, e, k)
    PROVE  TargetMap!Learn(e.owner, e.target_ip)
  <1>1. Known' \in [Ip -> Target \cup {NONE}]
    BY DEF KnownView
  <1>2. Known'[e.owner] = e.target_ip
    <2>1. k \in DOMAIN theBTB'[p][s] /\ theBTB'[p][s][k] = e
      BY DEF StoredApart
    <2> QED
      BY <2>1 DEF KnownView
  <1>3. ASSUME NEW j \in Ip \ {e.owner}
        PROVE  Known'[j] \in {Known[j], NONE}
    <2>1. CASE \E q \in Partition, t \in SetIndex : \E i \in DOMAIN theBTB'[q][t] :
                 theBTB'[q][t][i].owner = j
      <3>1. PICK q \in Partition, t \in SetIndex : \E i \in DOMAIN theBTB'[q][t] :
              theBTB'[q][t][i].owner = j
        BY <2>1
      <3>2. PICK i \in DOMAIN theBTB'[q][t] : theBTB'[q][t][i].owner = j
        BY <3>1
      <3> DEFINE v == Origin(p, s, w, q, t, i)
      <3>3. <<q, t, i>> # <<p, s, k>>
        BY <1>3, <3>2 DEF StoredApart
      <3>4. v \in DOMAIN theBTB[q][t] /\ theBTB'[q][t][i] = theBTB[q][t][v]
        BY <3>3 DEF StoredApart
      <3> HIDE DEF v
      <3>5. Known[j] = theBTB[q][t][v].target_ip
        BY <3>2, <3>4 DEF KnownView
      <3>6. Known'[j] = theBTB'[q][t][i].target_ip
        BY <3>2 DEF KnownView
      <3> QED
        BY <3>4, <3>5, <3>6
    <2>2. CASE ~ \E q \in Partition, t \in SetIndex : \E i \in DOMAIN theBTB'[q][t] :
                   theBTB'[q][t][i].owner = j
      BY <2>2 DEF KnownView
    <2> QED
      BY <2>1, <2>2
  <1> QED
    BY <1>1, <1>2, <1>3 DEF TargetMap!Learn

\* An update that puts an entry back with the owner and the target it had
\* changes nothing that is known.
LEMMA RestoringKnowsTheSame ==
    ASSUME OwnInv, OwnInv', NEW p \in Partition, NEW s \in SetIndex,
           NEW new \in Seq(BTBEntry), NEW w \in DOMAIN theBTB[p][s], NEW e \in BTBEntry,
           Replaces(p, s, new),
           Shifted(theBTB[p][s], new, w, e),
           e.owner = theBTB[p][s][w].owner,
           e.target_ip = theBTB[p][s][w].target_ip
    PROVE  Known' = Known
  <1> DEFINE old == theBTB[p][s]
             k == Len(new)
  <1>1. BTBTypeOK /\ BTBTypeOK' /\ KnownView
    BY KnownIsViewed DEF OwnInv
  <1>2. KnownView'
    BY KnownIsViewed, PTL
  <1>3. /\ theBTB'[p][s] = new
        /\ \A q \in Partition, t \in SetIndex :
             q # p \/ t # s => theBTB'[q][t] = theBTB[q][t]
    BY <1>1, ReplaceSet
  <1>4. /\ DOMAIN old = 1..Len(old) /\ Len(old) \in Nat
        /\ DOMAIN new = 1..k /\ k \in Nat
        /\ w \in 1..Len(old) /\ k = Len(old) /\ new[k] = e
        /\ \A i \in 1..(k - 1) : new[i] = old[IF i < w THEN i ELSE i + 1]
    <2>1. DOMAIN old = 1..Len(old) /\ Len(old) \in Nat
      BY <1>1, SetType
    <2>2. DOMAIN new = 1..k /\ k \in Nat
      BY LenProperties
    <2>3. /\ k = IF w <= Len(old) THEN Len(old) ELSE Len(old) + 1
          /\ new[k] = e
          /\ \A i \in 1..(k - 1) : new[i] = old[IF i < w THEN i ELSE i + 1]
      BY DEF Shifted
    <2>4. w \in 1..Len(old)
      BY <2>1
    <2> QED
      BY <2>1, <2>2, <2>3, <2>4
  <1>5. Known' \in [Ip -> Target \cup {NONE}] /\ Known \in [Ip -> Target \cup {NONE}]
    BY <1>1, <1>2 DEF KnownView
  <1>6. w \in Nat
    BY <1>4
  <1>7. StoredApart(p, s, w, e, k)
    BY <1>1, <1>6, UpdatePlaces
  <1>8. TargetMap!Learn(e.owner, e.target_ip)
    <2> HIDE DEF k
    <2> QED
      BY <1>1, <1>2, <1>7, StoringLearns
  <1>9. ASSUME NEW j \in Ip
        PROVE  Known'[j] = Known[j]
    <2>1. CASE j = e.owner
      <3>1. Known'[j] = e.target_ip
        BY <1>8, <2>1 DEF TargetMap!Learn
      <3>2. Known[j] = theBTB[p][s][w].target_ip
        BY <1>1, <2>1 DEF KnownView
      <3> QED
        BY <3>1, <3>2
    <2>2. CASE j # e.owner /\ Known[j] = NONE
      BY <1>8, <2>2 DEF TargetMap!Learn
    <2>3. CASE j # e.owner /\ Known[j] # NONE
      <3>1. PICK q \in Partition, t \in SetIndex : \E v \in DOMAIN theBTB[q][t] :
              theBTB[q][t][v].owner = j
        BY <1>1, <2>3 DEF KnownView
      <3>2. PICK v \in DOMAIN theBTB[q][t] : theBTB[q][t][v].owner = j
        BY <3>1
      <3>3. Known[j] = theBTB[q][t][v].target_ip
        BY <1>1, <3>2 DEF KnownView
      <3>4. \E i \in DOMAIN theBTB'[q][t] : theBTB'[q][t][i] = theBTB[q][t][v]
        <4>1. CASE q = p /\ t = s
          <5>1. v \in 1..k /\ v # w
            BY <1>4, <2>3, <3>2, <4>1
          <5> DEFINE i == IF v < w THEN v ELSE v - 1
          <5>2. i \in 1..(k - 1) /\ v = (IF i < w THEN i ELSE i + 1)
            BY <1>4, <5>1
          <5> HIDE DEF i, k, old
          <5>3. i \in DOMAIN new /\ new[i] = old[v]
            BY <1>4, <5>2
          <5> QED
            BY <1>3, <4>1, <5>3 DEF old
        <4>2. CASE q # p \/ t # s
          BY <1>3, <4>2
        <4> QED
          BY <4>1, <4>2
      <3>5. PICK i \in DOMAIN theBTB'[q][t] : theBTB'[q][t][i] = theBTB[q][t][v]
        BY <3>4
      <3>6. Known'[j] = theBTB'[q][t][i].target_ip
        BY <1>2, <3>2, <3>5 DEF KnownView
      <3> QED
        BY <3>3, <3>5, <3>6
    <2> QED
      BY <2>1, <2>2, <2>3
  <1> QED
    BY <1>5, <1>9

\* A taken update teaches its branch the target of the trace.
LEMMA TakenLearns ==
    ASSUME OwnInv, OwnInv', NEW target \in Target, TraceUpdate(target, TRUE)
    PROVE  resolving \in Ip /\ TargetMap!Learn(resolving, target)
  <1> DEFINE ip == resolving
  <1>1. BTBTypeOK /\ KnownView
    BY KnownIsViewed DEF OwnInv
  <1>2. KnownView'
    BY KnownIsViewed, PTL
  <1>3. /\ update_btb(ip, target, TRUE)
        /\ ip \in Ip
        /\ target \in Target \cup {0} /\ target # 0
    BY <1>1, RASAssumption DEF TraceUpdate, BTBTypeOK
  <1>4. PICK p \in Partition, new \in Seq(BTBEntry), w \in Nat, e \in BTBEntry :
          /\ theBTB' = [theBTB EXCEPT ![p][Index[p][ip]] = new]
          /\ Shifted(ThisSet(p, ip), new, w, e)
          /\ Stores(ip, target, p, w, e)
    <2> HIDE DEF ip
    <2> QED
      BY <1>1, <1>3, UpdateEffect
  <1> DEFINE s == Index[p][ip]
  <1>5. s \in SetIndex /\ Replaces(p, s, new) /\ Shifted(theBTB[p][s], new, w, e)
    BY <1>3, <1>4, PartitionAssumption DEF ThisSet, Replaces
  <1>6. e.owner = ip /\ e.target_ip = target
    BY <1>3, <1>4 DEF Stores
  <1> HIDE DEF s, ip
  <1>7. StoredApart(p, s, w, e, Len(new))
    BY <1>1, <1>5, UpdatePlaces
  <1>8. TargetMap!Learn(e.owner, e.target_ip)
    BY <1>1, <1>2, <1>5, <1>7, StoringLearns
  <1> QED
    BY <1>3, <1>6, <1>8 DEF ip

\* The update of a branch that was not taken changes nothing that is known.
LEMMA NotTakenKnowsTheSame ==
    ASSUME OwnInv, OwnInv', NEW taken \in BOOLEAN, TraceUpdate(0, taken)
    PROVE  Known' = Known
  <1> DEFINE ip == resolving
  <1>1. BTBTypeOK /\ BTBTypeOK' /\ KnownView
    BY KnownIsViewed DEF OwnInv
  <1>2. KnownView'
    BY KnownIsViewed, PTL
  <1>3. update_btb(ip, 0, taken) /\ ip \in Ip /\ 0 \in Target \cup {0} /\ 0 \notin Target
    BY <1>1, RASAssumption DEF TraceUpdate, BTBTypeOK
  <1>4. CASE UNCHANGED theBTB
    <2>1. SameEntries
      BY <1>4 DEF SameEntries
    <2> QED
      BY <1>1, <1>2, <2>1, SameEntriesKnowTheSame
  <1>5. ASSUME NEW p \in Partition, NEW new \in Seq(BTBEntry), NEW w \in Nat,
               NEW e \in BTBEntry,
               theBTB' = [theBTB EXCEPT ![p][Index[p][ip]] = new],
               Shifted(ThisSet(p, ip), new, w, e),
               Stores(ip, 0, p, w, e)
        PROVE  Known' = Known
    <2> DEFINE s == Index[p][ip]
    <2>1. s \in SetIndex /\ Replaces(p, s, new) /\ Shifted(theBTB[p][s], new, w, e)
      BY <1>3, <1>5, PartitionAssumption DEF ThisSet, Replaces
    <2>2. /\ w \in DOMAIN theBTB[p][s]
          /\ e.owner = theBTB[p][s][w].owner
          /\ e.target_ip = theBTB[p][s][w].target_ip
      BY <1>3, <1>5 DEF Stores, Matches, ThisSet
    <2> HIDE DEF s, ip
    <2> QED
      BY <2>1, <2>2, RestoringKnowsTheSame
  <1> HIDE DEF ip
  <1> QED
    BY <1>1, <1>3, <1>4, <1>5, UpdateEffect

\* Every step learns what the trace says of a taken branch, or leaves the map
\* alone.
LEMMA TargetMapStep ==
    OwnInv /\ OwnInv' /\ [Next]_vars
        => [LearnsFromTrace]_vars /\ [TargetMap!Next]_Known
  <1> SUFFICES ASSUME OwnInv, OwnInv', [Next]_vars
               PROVE  LearnsFromTrace /\ [TargetMap!Next]_Known
    OBVIOUS
  <1>1. BTBTypeOK /\ BTBTypeOK' /\ KnownView
    BY KnownIsViewed DEF OwnInv
  <1>2. KnownView'
    BY KnownIsViewed, PTL
  <1>3. CASE \E target \in Target : TraceUpdate(target, TRUE)
    <2>1. PICK target \in Target : TraceUpdate(target, TRUE)
      BY <1>3
    <2>2. resolving \in Ip /\ TargetMap!Learn(resolving, target)
      BY <2>1, TakenLearns
    <2> QED
      BY <2>1, <2>2 DEF LearnsFromTrace, TargetMap!Next
  <1>4. CASE ~ \E target \in Target : TraceUpdate(target, TRUE)
    <2>1. CASE SameEntries
      BY <1>1, <1>2, <1>4, <2>1, SameEntriesKnowTheSame DEF LearnsFromTrace
    <2>2. ASSUME NEW target \in Target \cup {0}, NEW taken \in BOOLEAN,
                 TraceUpdate(target, taken)
          PROVE  Known' = Known
      <3>1. target = 0
        <4>1. taken => target \in Target
          BY <2>2 DEF TraceUpdate
        <4>2. ~ taken => target = 0
          BY <2>2 DEF TraceUpdate
        <4> QED
          BY <1>4, <2>2, <4>1, <4>2
      <3> QED
        BY <2>2, <3>1, NotTakenKnowsTheSame
    <2> QED
      BY <1>1, <1>4, <2>1, <2>2, StepEffect DEF LearnsFromTrace
  <1> QED
    BY <1>3, <1>4

\* A lookup predicts what the target map knows.
LEMMA MapIsPredicted == OwnInv => PredictsKnown
  <1> SUFFICES ASSUME OwnInv, NEW ip \in Ip, Hits(ip),
                      get_BTBentry(Home(ip), ip).branch_type # "BRANCH_RETURN"
               PROVE  IF Known[ip] # NONE THEN Prediction(ip) = Known[ip]
                      ELSE \E j \in Ip : Alias(Home(ip), j, ip) /\ Prediction(ip) = Known[j]
    BY DEF PredictsKnown
  <1> DEFINE p == Home(ip)
             s == Index[p][ip]
             w == Min(Matches(p, ip))
             j == theBTB[p][s][w].owner
  <1>1. BTBTypeOK /\ OwnerFits /\ KnownView /\ OwnEntryFound
    BY KnownIsViewed, NotHiddenSuffices DEF OwnInv
  <1>2. p \in Partition /\ s \in SetIndex /\ w \in Matches(p, ip)
    BY <1>1, HomeIsFirst, PartitionAssumption DEF Hits
  <1>3. w \in DOMAIN theBTB[p][s] /\ theBTB[p][s][w].tag = Tag[p][ip]
    BY <1>2 DEF Matches, ThisSet
  <1>4. Prediction(ip) = theBTB[p][s][w].target_ip
    BY DEF Prediction, get_BTBentry, ThisSet
  <1>5. j \in Ip /\ Known[j] = theBTB[p][s][w].target_ip
    <2> HIDE DEF p, s, w
    <2> QED
      BY <1>1, <1>2, <1>3, OwnedTarget DEF KnownView
  <1>6. Alias(p, j, ip)
    <2>1. Index[p][j] = s /\ theBTB[p][s][w].tag = Tag[p][j]
      <3> HIDE DEF p, s, w
      <3> QED
        BY <1>1, <1>2, <1>3 DEF OwnerFits
    <2> QED
      BY <1>3, <2>1 DEF Alias
  <1>7. CASE Known[ip] = NONE
    BY <1>4, <1>5, <1>6, <1>7
  <1>8. CASE Known[ip] # NONE
    <2>1. PICK q \in Partition, t \in SetIndex : \E v \in DOMAIN theBTB[q][t] :
            theBTB[q][t][v].owner = ip
      BY <1>1, <1>8 DEF KnownView
    <2>2. PICK v \in DOMAIN theBTB[q][t] : theBTB[q][t][v].owner = ip
      BY <2>1
    <2>3. <<q, t, v>> \in Places /\ EntryAt(<<q, t, v>>) = theBTB[q][t][v]
      <3> DEFINE Of(r, u) == {<<r, u, i>> : i \in DOMAIN theBTB[r][u]}
      <3>1. <<q, t, v>> \in Of(q, t)
        OBVIOUS
      <3>2. Places = UNION {Of(r, u) : r \in Partition, u \in SetIndex}
        BY DEF Places
      <3>3. <<q, t, v>> \in Places
        <4> HIDE DEF Of
        <4> QED
          BY <3>1, <3>2
      <3> QED
        BY <3>3 DEF EntryAt
    <2>4. <<q, t, v>> = <<p, s, w>>
      BY <1>1, <2>2, <2>3 DEF OwnEntryFound
    <2>5. Known[ip] = theBTB[q][t][v].target_ip
      BY <1>1, <2>2 DEF KnownView
    <2>6. q = p /\ t = s /\ v = w
      <3> HIDE DEF p, s, w
      <3> QED
        BY <2>4
    <2> HIDE DEF p, s, w
    <2> QED
      BY <1>4, <1>8, <2>5, <2>6
  <1> QED
    BY <1>7, <1>8

\* The whole machinery of partitions, sets, tags, replacement, expiry and
\* speculative lookups implements a map from branches to targets that learns
\* one branch at a time, exactly what the trace says of it, may forget others
\* and predicts what it knows.
THEOREM ImplementsMap == Spec => ImplementsTargetMap
  <1>1. Init => OwnInv /\ TargetMap!Init
    <2> SUFFICES ASSUME Init PROVE OwnInv /\ TargetMap!Init
      OBVIOUS
    <2>1. OwnInv
      BY OwnInit
    <2>2. \A p \in Partition, s \in SetIndex : DOMAIN theBTB[p][s] = {}
      BY DEF Init
    <2>3. \A ip \in Ip : Known[ip] = NONE
      BY <2>1, <2>2, KnownIsViewed DEF KnownView
    <2> QED
      BY <2>1, <2>3 DEF TargetMap!Init, Known
  <1> QED
    BY <1>1, OwnStep, TargetMapStep, MapIsPredicted, PTL
    DEF Spec, ImplementsTargetMap, TargetMap!Spec

-----------------------------------------------------------------------------
(* Sums over the stored entries.                                           *)

\* A place is a way of a set of a partition.
WaysOf(btb, p, s) == {<<p, s, w>> : w \in DOMAIN btb[p][s]}
PlacesOf(btb) == UNION {WaysOf(btb, p, s) : p \in Partition, s \in SetIndex}

\* The places of the BTB, written set by set.
LEMMA PlacesAre == Places = PlacesOf(theBTB) /\ Places' = PlacesOf(theBTB')
  BY DEF Places, PlacesOf, WaysOf

\* A place, spelled out.
LEMMA PlaceIs ==
    \A btb : \A x : x \in PlacesOf(btb) <=> \E p \in Partition, s \in SetIndex :
                                              \E w \in DOMAIN btb[p][s] : x = <<p, s, w>>
  <1> SUFFICES ASSUME NEW btb, NEW x
               PROVE  x \in PlacesOf(btb) <=> \E p \in Partition, s \in SetIndex :
                                                \E w \in DOMAIN btb[p][s] : x = <<p, s, w>>
    OBVIOUS
  <1>1. x \in PlacesOf(btb) <=> \E p \in Partition, s \in SetIndex : x \in WaysOf(btb, p, s)
    BY DEF PlacesOf
  <1>2. \A p \in Partition, s \in SetIndex :
          x \in WaysOf(btb, p, s) <=> \E w \in DOMAIN btb[p][s] : x = <<p, s, w>>
    BY DEF WaysOf
  <1> QED
    BY <1>1, <1>2

\* There are finitely many.
LEMMA PlacesFinite ==
    ASSUME BTBTypeOK
    PROVE  IsFiniteSet(Places)
  <1> DEFINE S == Partition \X SetIndex
             Of(p, s) == WaysOf(theBTB, p, s)
             g == [z \in S |-> Of(z[1], z[2])]
             T == {g[z] : z \in S}
  <1>1. IsFiniteSet(S)
    <2>1. 0 \in Int /\ NUM_BTB_PARTITIONS - 1 \in Int /\ Partition = 0..(NUM_BTB_PARTITIONS - 1)
      BY PartitionAssumption DEF Partition
    <2>2. IsFiniteSet(Partition)
      BY <2>1, FS_Interval
    <2>3. IsFiniteSet(SetIndex)
      BY PartitionAssumption
    <2> QED
      BY <2>2, <2>3, FS_Product
  <1>2. IsFiniteSet(T)
    <2>1. DOMAIN g = S
      OBVIOUS
    <2> HIDE DEF g
    <2>2. IsFiniteSet({g[z] : z \in DOMAIN g})
      BY <1>1, <2>1, ImageFinite
    <2> QED
      BY <2>1, <2>2
  <1>3. ASSUME NEW p \in Partition, NEW s \in SetIndex PROVE IsFiniteSet(Of(p, s))
    <2> DEFINE h == [w \in DOMAIN theBTB[p][s] |-> <<p, s, w>>]
               l == Len(theBTB[p][s])
    <2>1. DOMAIN h = 1..l /\ 1 \in Int /\ l \in Int
      BY SetType
    <2>2. IsFiniteSet(DOMAIN h)
      <3> HIDE DEF l, h
      <3> QED
        BY <2>1, FS_Interval
    <2>3. Of(p, s) = {h[w] : w \in DOMAIN h}
      BY DEF WaysOf
    <2> HIDE DEF h, Of
    <2> QED
      BY <2>2, <2>3, ImageFinite
  <1>4. \A t \in T : IsFiniteSet(t)
    <2> HIDE DEF Of
    <2>1. ASSUME NEW z \in S PROVE IsFiniteSet(g[z])
      <3>1. z[1] \in Partition /\ z[2] \in SetIndex /\ g[z] = Of(z[1], z[2])
        OBVIOUS
      <3> HIDE DEF g
      <3> QED
        BY <1>3, <3>1
    <2> HIDE DEF g
    <2> QED
      BY <2>1
  <1>5. Places = UNION T
    <2>1. \A z \in S : g[z] = Of(z[1], z[2])
      OBVIOUS
    <2>2. \A p \in Partition, s \in SetIndex : <<p, s>> \in S /\ g[<<p, s>>] = Of(p, s)
      OBVIOUS
    <2>3. Places = UNION {Of(p, s) : p \in Partition, s \in SetIndex}
      BY PlacesAre DEF PlacesOf
    <2>4. {Of(p, s) : p \in Partition, s \in SetIndex} = T
      <3>1. ASSUME NEW p \in Partition, NEW s \in SetIndex PROVE Of(p, s) \in T
        BY <2>2
      <3>2. ASSUME NEW z \in S PROVE g[z] \in {Of(p, s) : p \in Partition, s \in SetIndex}
        <4>1. z[1] \in Partition /\ z[2] \in SetIndex
          OBVIOUS
        <4> HIDE DEF Of, g, S
        <4> QED
          BY <2>1, <4>1
      <3> HIDE DEF Of, g, S
      <3> QED
        BY <3>1, <3>2
    <2> HIDE DEF Of, g, S, T
    <2> QED
      BY <2>3, <2>4
  <1> HIDE DEF T
  <1> QED
    BY <1>2, <1>4, <1>5, FS_UNION

FinitePlaces == IsFiniteSet(Places)

\* So there are after a step.
LEMMA PlacesStayFinite == BTBTypeOK' => IsFiniteSet(Places')
  <1>1. BTBTypeOK => FinitePlaces
    BY PlacesFinite DEF FinitePlaces
  <1>2. BTBTypeOK' => FinitePlaces'
    BY <1>1, PTL
  <1> QED
    BY <1>2 DEF FinitePlaces

\* Where an update found the entry of a place that is not the one it stored.
OriginOf(p, s, w, x) == <<x[1], x[2], Origin(p, s, w, x[1], x[2], x[3])>>

\* Every entry that was stored, but the one that was replaced, still is.
LEMMA OriginOnto ==
    ASSUME BTBTypeOK, BTBTypeOK', NEW p \in Partition, NEW s \in SetIndex,
           NEW new \in Seq(BTBEntry), NEW w \in Nat, NEW e \in BTBEntry,
           Replaces(p, s, new),
           Shifted(theBTB[p][s], new, w, e),
           NEW y \in Places, y # <<p, s, w>>
    PROVE  \E x \in Places' : x # <<p, s, Len(new)>> /\ OriginOf(p, s, w, x) = y
  <1> DEFINE old == theBTB[p][s]
             m == Len(old)
             k == Len(new)
  <1>1. PICK q \in Partition, t \in SetIndex : \E v \in DOMAIN theBTB[q][t] : y = <<q, t, v>>
    BY PlacesAre, PlaceIs
  <1>2. PICK v \in DOMAIN theBTB[q][t] : y = <<q, t, v>>
    BY <1>1
  <1>3. /\ theBTB'[p][s] = new
        /\ \A r \in Partition, u \in SetIndex : r # p \/ u # s => theBTB'[r][u] = theBTB[r][u]
    BY ReplaceSet
  <1>4. CASE q = p /\ t = s
    <2> DEFINE i == IF v < w THEN v ELSE v - 1
    <2>1. DOMAIN new = 1..k /\ DOMAIN old = 1..m /\ m \in Nat /\ k \in Nat
      BY SetType, LenProperties
    <2>2. w \in 1..(m + 1) /\ k = IF w <= m THEN m ELSE m + 1
      BY DEF Shifted
    <2>3. v \in 1..m /\ v # w
      BY <1>2, <1>4, <2>1
    <2> HIDE DEF old, m, k
    <2>4. i \in 1..k /\ i # k /\ (IF i < w THEN i ELSE i + 1) = v
      BY <2>1, <2>2, <2>3
    <2> HIDE DEF i
    <2> DEFINE x == <<p, s, i>>
    <2>5. x # <<p, s, k>>
      BY <2>4
    <2>6. x \in Places'
      <3>1. i \in DOMAIN theBTB'[p][s]
        BY <1>3, <2>1, <2>4
      <3>2. x \in PlacesOf(theBTB')
        BY <3>1, PlaceIs
      <3> QED
        BY <3>2, PlacesAre
    <2>7. OriginOf(p, s, w, x) = y
      BY <1>2, <1>4, <2>4 DEF OriginOf, Origin
    <2> HIDE DEF x
    <2> QED
      BY <2>5, <2>6, <2>7 DEF k
  <1>5. CASE ~(q = p /\ t = s)
    <2>1. y # <<p, s, k>>
      BY <1>2, <1>5
    <2>2. y \in Places'
      <3>1. v \in DOMAIN theBTB'[q][t]
        BY <1>3, <1>5
      <3>2. y \in PlacesOf(theBTB')
        BY <1>2, <3>1, PlaceIs
      <3> QED
        BY <3>2, PlacesAre
    <2>3. OriginOf(p, s, w, y) = y
      BY <1>2, <1>5 DEF OriginOf, Origin
    <2> QED
      BY <2>1, <2>2, <2>3
  <1> QED
    BY <1>4, <1>5

\* The origins are places, are not the one that was replaced, and differ.
LEMMA OriginFits ==
    ASSUME NEW p \in Partition, NEW s \in SetIndex, NEW w \in Nat, NEW e, NEW k,
           StoredApart(p, s, w, e, k)
    PROVE  /\ <<p, s, k>> \in Places'
           /\ \A x \in Places' : x # <<p, s, k>> =>
                OriginOf(p, s, w, x) \in Places /\ OriginOf(p, s, w, x) # <<p, s, w>>
           /\ \A x, y \in Places' : x # y => OriginOf(p, s, w, x) # OriginOf(p, s, w, y)
  <1>1. <<p, s, k>> \in Places'
    <2>1. k \in DOMAIN theBTB'[p][s]
      BY DEF StoredApart
    <2>2. <<p, s, k>> \in PlacesOf(theBTB')
      BY <2>1, PlaceIs
    <2> QED
      BY <2>2, PlacesAre
  <1>2. ASSUME NEW x \in Places', x # <<p, s, k>>
        PROVE  OriginOf(p, s, w, x) \in Places /\ OriginOf(p, s, w, x) # <<p, s, w>>
    <2>1. PICK q \in Partition, t \in SetIndex : \E i \in DOMAIN theBTB'[q][t] : x = <<q, t, i>>
      BY PlacesAre, PlaceIs
    <2>2. PICK i \in DOMAIN theBTB'[q][t] : x = <<q, t, i>>
      BY <2>1
    <2> DEFINE v == Origin(p, s, w, q, t, i)
    <2>3. v \in DOMAIN theBTB[q][t] /\ <<q, t, v>> # <<p, s, w>>
      BY <1>2, <2>2 DEF StoredApart
    <2>4. OriginOf(p, s, w, x) = <<q, t, v>>
      BY <2>2 DEF OriginOf
    <2> HIDE DEF v
    <2>5. <<q, t, v>> \in PlacesOf(theBTB)
      BY <2>3, PlaceIs
    <2> QED
      BY <2>3, <2>4, <2>5, PlacesAre
  <1>3. ASSUME NEW x \in Places', NEW y \in Places', x # y
        PROVE  OriginOf(p, s, w, x) # OriginOf(p, s, w, y)
    <2>1. PICK q \in Partition, t \in SetIndex : \E i \in DOMAIN theBTB'[q][t] : x = <<q, t, i>>
      BY PlacesAre, PlaceIs
    <2>2. PICK i \in DOMAIN theBTB'[q][t] : x = <<q, t, i>>
      BY <2>1
    <2>3. PICK r \in Partition, u \in SetIndex : \E j \in DOMAIN theBTB'[r][u] : y = <<r, u, j>>
      BY PlacesAre, PlaceIs
    <2>4. PICK j \in DOMAIN theBTB'[r][u] : y = <<r, u, j>>
      BY <2>3
    <2>5. /\ OriginOf(p, s, w, x) = <<q, t, Origin(p, s, w, q, t, i)>>
          /\ OriginOf(p, s, w, y) = <<r, u, Origin(p, s, w, r, u, j)>>
      BY <2>2, <2>4 DEF OriginOf
    <2>6. CASE q = r /\ t = u
      <3>1. i # j /\ j \in DOMAIN theBTB'[q][t]
        BY <1>3, <2>2, <2>4, <2>6
      <3>2. Origin(p, s, w, q, t, i) # Origin(p, s, w, q, t, j)
        BY <3>1 DEF StoredApart
      <3> QED
        BY <2>5, <2>6, <3>2
    <2>7. CASE ~(q = r /\ t = u)
      BY <2>5, <2>7
    <2> QED
      BY <2>6, <2>7
  <1> QED
    BY <1>1, <1>2, <1>3

\* What is counted of an entry, before and after an update.
CarriedOver(p, s, w, k, f, g) ==
    /\ DOMAIN f = Places
    /\ DOMAIN g = Places'
    /\ \A x \in Places : f[x] \in Int
    /\ \A x \in Places' : g[x] \in Int
    /\ \A x \in Places' : x # <<p, s, k>> => g[x] = f[OriginOf(p, s, w, x)]

\* A sum over the stored entries, before and after an update: it loses what
\* was replaced and gains what was stored.
LEMMA StoringSums ==
    ASSUME BTBTypeOK, BTBTypeOK', NEW p \in Partition, NEW s \in SetIndex,
           NEW new \in Seq(BTBEntry), NEW w \in Nat, NEW e \in BTBEntry,
           Replaces(p, s, new),
           Shifted(theBTB[p][s], new, w, e),
           NEW f, NEW g, CarriedOver(p, s, w, Len(new), f, g)
    PROVE  /\ <<p, s, Len(new)>> \in Places'
           /\ w \in DOMAIN theBTB[p][s] =>
                /\ <<p, s, w>> \in Places
                /\ SumFunction(g) + f[<<p, s, w>>] = SumFunction(f) + g[<<p, s, Len(new)>>]
           /\ w \notin DOMAIN theBTB[p][s] =>
                SumFunction(g) = SumFunction(f) + g[<<p, s, Len(new)>>]
  <1> DEFINE k == <<p, s, Len(new)>>
             o == <<p, s, w>>
             A == Places \ {o}
             h == [x \in Places' |-> OriginOf(p, s, w, x)]
  <1>0. /\ DOMAIN f = Places /\ DOMAIN g = Places'
        /\ \A x \in Places : f[x] \in Int
        /\ \A x \in Places' : g[x] \in Int
        /\ \A x \in Places' : x # k => g[x] = f[OriginOf(p, s, w, x)]
    BY DEF CarriedOver
  <1>1. StoredApart(p, s, w, e, Len(new))
    BY UpdatePlaces
  <1>2. /\ k \in Places'
        /\ \A x \in Places' : x # k => OriginOf(p, s, w, x) \in A
        /\ \A x, y \in Places' : x # y => OriginOf(p, s, w, x) # OriginOf(p, s, w, y)
    BY <1>1, OriginFits
  <1>3. \A y \in A : \E x \in Places' : x # k /\ OriginOf(p, s, w, x) = y
    BY OriginOnto
  <1>4. /\ \A x \in Places' \ {k} : h[x] \in A /\ g[x] = f[h[x]]
        /\ \A x, y \in Places' \ {k} : x # y => h[x] # h[y]
        /\ \A a \in A : \E x \in Places' \ {k} : h[x] = a
    <2>1. \A x \in Places' : h[x] = OriginOf(p, s, w, x)
      OBVIOUS
    <2> HIDE DEF h, A
    <2> QED
      BY <1>0, <1>2, <1>3, <2>1
  <1>5. IsFiniteSet(DOMAIN f)
    BY <1>0, PlacesFinite
  <1>6. IsFiniteSet(DOMAIN g)
    BY <1>0, PlacesStayFinite
  <1>7. w \in DOMAIN theBTB[p][s] <=> o \in Places
    <2>1. w \in DOMAIN theBTB[p][s] => o \in PlacesOf(theBTB)
      BY PlaceIs
    <2>2. o \in PlacesOf(theBTB) => w \in DOMAIN theBTB[p][s]
      <3>1. ASSUME o \in PlacesOf(theBTB) PROVE w \in DOMAIN theBTB[p][s]
        <4>1. PICK q \in Partition, t \in SetIndex : \E v \in DOMAIN theBTB[q][t] : o = <<q, t, v>>
          BY <3>1, PlaceIs
        <4> QED
          BY <4>1
      <3> QED
        BY <3>1
    <2> QED
      BY <2>1, <2>2, PlacesAre
  <1>8. A \in SUBSET DOMAIN f /\ k \in DOMAIN g
    BY <1>0, <1>2
  <1> HIDE DEF k, h, o, A
  <1>10. MovedBut(f, g, k, A, h)
    BY <1>0, <1>4, <1>5, <1>6, <1>8 DEF MovedBut
  <1>9. /\ A = DOMAIN f => SumFunction(g) = SumFunction(f) + g[k]
        /\ \A x \in DOMAIN f : A = DOMAIN f \ {x} => SumFunction(g) + f[x] = SumFunction(f) + g[k]
    BY <1>10, SumReplaced
  <1> QED
    BY <1>0, <1>2, <1>7, <1>9 DEF A, k, o

-----------------------------------------------------------------------------
(* The books. *)

\* No entry was written in the future.
WrittenPast ==
    \A p \in Partition, s \in SetIndex : \A w \in DOMAIN theBTB[p][s] :
        theBTB[p][s][w].write_timestamp <= current_core_cycle

StatTypeOK ==
    /\ BTB_writes \in Nat
    /\ sttram_refreshes \in Nat
    /\ sttram_evictions \in Nat
    /\ mot_stats \in [0..Len(LifetimeBounds) -> [0..4 -> Nat]]
    /\ dumps \in 0..2
    /\ expirations \in Nat
    /\ forgotten \in Nat

\* No branch is between its prediction and its update when the run ends.
ResolvedFirst == resolving # NONE => dumps = 0

BooksInv == LRUInv /\ WrittenPast /\ StatTypeOK /\ ResolvedFirst

\* The refreshes an entry would have needed are a number.
LEMMA AgeIsNat ==
    ASSUME BTBTypeOK, WrittenPast, NEW p \in Partition, NEW s \in SetIndex,
           NEW w \in DOMAIN theBTB[p][s]
    PROVE  /\ Lifetime(theBTB[p][s][w]) \in Nat
           /\ RefreshesOf(theBTB[p][s][w]) \in Nat
  <1> DEFINE e == theBTB[p][s][w]
             a == Lifetime(e)
  <1>1. e \in BTBEntry
    BY SetType
  <1>2. a \in Nat
    <2> DEFINE t == e.write_timestamp
    <2>1. t \in Nat /\ t <= current_core_cycle /\ current_core_cycle \in Nat
      BY <1>1 DEF BTBEntry, WrittenPast, BTBTypeOK
    <2>2. a = current_core_cycle - t
      BY DEF Lifetime
    <2> HIDE DEF t, a
    <2> QED
      BY <2>1, <2>2
  <1>3. a \div RETENTION_CYCLES \in Nat
    <2> HIDE DEF a
    <2> QED
      BY <1>2, PartitionAssumption, QuotientType
  <1> QED
    BY <1>2, <1>3 DEF RefreshesOf

\* The refreshes the stored entries would have needed.
Pending == [x \in Places |-> RefreshesOf(EntryAt(x))]

PendingOK ==
    /\ RefreshesStored = SumFunction(Pending)
    /\ DOMAIN Pending = Places
    /\ \A x \in Places : Pending[x] = RefreshesOf(EntryAt(x))
    /\ \A x \in Places : Pending[x] \in Nat
    /\ RefreshesStored \in Nat

\* The refreshes an entry has due since its last write are a number, and so
\* is their sum.
LEMMA PendingIsOK == BTBTypeOK /\ WrittenPast => PendingOK
  <1> SUFFICES ASSUME BTBTypeOK, WrittenPast
               PROVE  PendingOK
    OBVIOUS
  <1>1. RefreshesStored = SumFunction(Pending)
    BY DEF RefreshesStored, Pending
  <1>2. DOMAIN Pending = Places /\ \A x \in Places : Pending[x] = RefreshesOf(EntryAt(x))
    BY DEF Pending
  <1>3. ASSUME NEW x \in Places PROVE RefreshesOf(EntryAt(x)) \in Nat
    <2>1. PICK p \in Partition, s \in SetIndex : \E w \in DOMAIN theBTB[p][s] : x = <<p, s, w>>
      BY PlaceType
    <2>2. PICK w \in DOMAIN theBTB[p][s] : x = <<p, s, w>>
      BY <2>1
    <2>3. EntryAt(x) = theBTB[p][s][w]
      BY <2>2 DEF EntryAt
    <2> QED
      BY <2>3, AgeIsNat
  <1>4. IsFiniteSet(Places)
    BY PlacesFinite
  <1>5. SumFunction(Pending) \in Nat
    BY <1>2, <1>3, <1>4, SumType
  <1> QED
    BY <1>1, <1>2, <1>3, <1>5 DEF PendingOK

\* And after a step.
LEMMA PendingStaysOK == (BTBTypeOK /\ WrittenPast)' => PendingOK'
  BY PendingIsOK, PTL

\* A lifetime falls into one of the zones, a hit count into one of the
\* buckets, of the profile.
LEMMA ZoneExists ==
    ASSUME NEW l
    PROVE  LifetimeZone(l) \in 0..Len(LifetimeBounds)
  <1> DEFINE n == Len(LifetimeBounds)
             S == {i \in DOMAIN LifetimeBounds : l > LifetimeBounds[i]}
  <1>1. n \in Nat /\ DOMAIN LifetimeBounds = 1..n
    BY PartitionAssumption, LenProperties
  <1>2. S \in SUBSET (1..n)
    BY <1>1
  <1>3. LifetimeZone(l) = Cardinality(S)
    BY DEF LifetimeZone
  <1> HIDE DEF n, S
  <1>4. IsFiniteSet(1..n) /\ Cardinality(1..n) = n
    BY <1>1, FS_Interval
  <1>5. IsFiniteSet(S) /\ Cardinality(S) <= n
    BY <1>2, <1>4, FS_Subset
  <1>6. Cardinality(S) \in Nat
    BY <1>5, FS_CardinalityType
  <1> QED
    BY <1>1, <1>3, <1>5, <1>6 DEF n

\* Every number of hits falls into one of the five buckets of the profile.
LEMMA BucketExists ==
    ASSUME NEW h \in Nat
    PROVE  HitBucket(h) \in 0..4
  BY DEF HitBucket

\* One more eviction in a bucket of a zone.
LEMMA ProfileCounted ==
    ASSUME NEW Z, NEW B, NEW m \in [Z -> [B -> Nat]], NEW z \in Z, NEW b \in B
    PROVE  [m EXCEPT ![z][b] = @ + 1] \in [Z -> [B -> Nat]]
  <1> DEFINE row == [m[z] EXCEPT ![b] = @ + 1]
  <1>1. m[z] \in [B -> Nat]
    OBVIOUS
  <1>2. row \in [B -> Nat]
    BY <1>1
  <1>3. [m EXCEPT ![z][b] = @ + 1] = [m EXCEPT ![z] = row]
    OBVIOUS
  <1> HIDE DEF row
  <1>4. [m EXCEPT ![z] = row] \in [Z -> [B -> Nat]]
    BY <1>2
  <1> QED
    BY <1>3, <1>4

\* What an update does, set by set.
LEMMA UpdateStep ==
    ASSUME BTBTypeOK, NEW target \in Target \cup {0}, NEW taken \in BOOLEAN,
           TraceUpdate(target, taken), resolving \in Ip
    PROVE  \/ /\ UNCHANGED <<theBTB, sttram_refreshes, mot_stats, forgotten>>
              /\ BTB_writes' = BTB_writes + 1
           \/ \E p \in Partition, s \in SetIndex, new \in Seq(BTBEntry), w \in Nat, e \in BTBEntry :
                /\ Replaces(p, s, new)
                /\ Shifted(theBTB[p][s], new, w, e)
                /\ e.lru = basic_btb_lru_counter
                /\ e.write_timestamp = current_core_cycle
                /\ Booked(theBTB[p][s], w)
  <1> DEFINE Done == /\ UNCHANGED <<theBTB, sttram_refreshes, mot_stats, forgotten>>
                     /\ BTB_writes' = BTB_writes + 1
             ip == resolving
             Effect == \E p \in Partition, s \in SetIndex, new \in Seq(BTBEntry),
                          w \in Nat, e \in BTBEntry :
                         /\ Replaces(p, s, new)
                         /\ Shifted(theBTB[p][s], new, w, e)
                         /\ e.lru = basic_btb_lru_counter
                         /\ e.write_timestamp = current_core_cycle
                         /\ Booked(theBTB[p][s], w)
  <1>1. update_btb(ip, target, taken) /\ ip \in Ip
    BY DEF TraceUpdate
  <1>2. ASSUME NEW p \in Partition, NEW new \in Seq(BTBEntry), NEW w \in Nat, NEW e \in BTBEntry,
               theBTB' = [theBTB EXCEPT ![p][Index[p][ip]] = new],
               Shifted(ThisSet(p, ip), new, w, e),
               Stores(ip, target, p, w, e),
               Booked(ThisSet(p, ip), w)
        PROVE  Effect
    <2> DEFINE s == Index[p][ip]
    <2>1. s \in SetIndex /\ ThisSet(p, ip) = theBTB[p][s]
      BY <1>1, PartitionAssumption DEF ThisSet
    <2>2. Replaces(p, s, new)
      BY <1>2 DEF Replaces
    <2>3. e.lru = basic_btb_lru_counter /\ e.write_timestamp = current_core_cycle
      BY <1>2 DEF Stores
    <2>4. Shifted(theBTB[p][s], new, w, e) /\ Booked(theBTB[p][s], w)
      BY <1>2, <2>1
    <2> HIDE DEF s, ip
    <2> QED
      BY <2>1, <2>2, <2>3, <2>4
  <1>3. Done \/ \E p \in Partition, new \in Seq(BTBEntry), w \in Nat, e \in BTBEntry :
                  /\ theBTB' = [theBTB EXCEPT ![p][Index[p][ip]] = new]
                  /\ Shifted(ThisSet(p, ip), new, w, e)
                  /\ Stores(ip, target, p, w, e)
                  /\ Booked(ThisSet(p, ip), w)
    <2> HIDE DEF ip
    <2> QED
      BY <1>1, UpdateBooks
  <1> QED
    BY <1>2, <1>3

\* The entries written so far stay in the past.
LEMMA WrittenStep ==
    BTBTypeOK /\ BTBTypeOK' /\ WrittenPast /\ [Next]_vars => WrittenPast'
  <1> SUFFICES ASSUME BTBTypeOK, BTBTypeOK', WrittenPast, [Next]_vars
               PROVE  WrittenPast'
    OBVIOUS
  <1> DEFINE c == current_core_cycle
  <1>1. c \in Nat /\ c' \in {c, c + 1}
    BY StepEffect DEF BTBTypeOK
  <1>2. ASSUME NEW p \in Partition, NEW s \in SetIndex, NEW w \in DOMAIN theBTB[p][s]
        PROVE  theBTB[p][s][w].write_timestamp <= c'
    <2> DEFINE t == theBTB[p][s][w].write_timestamp
    <2>1. t \in Nat /\ t <= c
      BY SetType DEF BTBEntry, WrittenPast
    <2> HIDE DEF t, c
    <2>2. t <= c'
      BY <1>1, <2>1
    <2> QED
      BY <2>2 DEF t, c
  <1>3. CASE theBTB' \in [Partition -> [SetIndex -> Seq(BTBEntry)]] /\ SameEntries
    <2>1. ASSUME NEW p \in Partition, NEW s \in SetIndex
          PROVE  /\ DOMAIN theBTB'[p][s] = DOMAIN theBTB[p][s]
                 /\ \A w \in DOMAIN theBTB[p][s] :
                      theBTB'[p][s][w].write_timestamp = theBTB[p][s][w].write_timestamp
      <3>1. theBTB'[p][s] \in Seq(BTBEntry)
        BY <1>3
      <3>2. DOMAIN theBTB'[p][s] = 1..Len(theBTB'[p][s])
        BY <3>1, LenProperties
      <3> QED
        BY <1>3, <3>2, SetType DEF SameEntries
    <2> HIDE DEF c
    <2> QED
      BY <1>2, <2>1 DEF WrittenPast, c
  <1>4. ASSUME NEW target \in Target \cup {0}, NEW taken \in BOOLEAN,
               TraceUpdate(target, taken), resolving \in Ip
        PROVE  WrittenPast'
    <2>1. c' = c
      BY <1>4 DEF TraceUpdate, update_btb
    <2>2. CASE UNCHANGED theBTB
      BY <1>2, <2>2 DEF WrittenPast
    <2>3. ASSUME NEW p \in Partition, NEW s \in SetIndex, NEW new \in Seq(BTBEntry),
                 NEW w \in Nat, NEW e \in BTBEntry,
                 Replaces(p, s, new), Shifted(theBTB[p][s], new, w, e),
                 e.write_timestamp = c
          PROVE  WrittenPast'
      <3>1. StoredApart(p, s, w, e, Len(new))
        BY <2>3, UpdatePlaces
      <3>2. ASSUME NEW q \in Partition, NEW t \in SetIndex, NEW i \in DOMAIN theBTB'[q][t]
            PROVE  theBTB'[q][t][i].write_timestamp <= c'
        <4>1. CASE <<q, t, i>> = <<p, s, Len(new)>>
          <5>1. theBTB'[q][t][i] = e
            BY <3>1, <4>1 DEF StoredApart
          <5>2. c <= c'
            BY <1>1, <2>1
          <5> QED
            BY <2>3, <5>1, <5>2
        <4>2. CASE <<q, t, i>> # <<p, s, Len(new)>>
          BY <1>2, <3>1, <4>2 DEF StoredApart
        <4> QED
          BY <4>1, <4>2
      <3> QED
        BY <3>2 DEF WrittenPast
    <2> QED
      BY <1>4, <2>2, <2>3, UpdateStep
  <1> QED
    BY <1>3, <1>4, StepEffect

\* What a step does to the books: those of a prediction, of an update, of
\* the clock and of a dump.
LEMMA StatTypeStep ==
    BTBTypeOK /\ WrittenPast /\ StatTypeOK /\ ResolvedFirst /\ [Next]_vars
        => StatTypeOK' /\ ResolvedFirst'
  <1> SUFFICES ASSUME BTBTypeOK, WrittenPast, StatTypeOK, ResolvedFirst, [Next]_vars
               PROVE  StatTypeOK' /\ ResolvedFirst'
    OBVIOUS
  <1>1. ASSUME NEW ip \in Ip, SpecPrediction(ip) \/ TracePrediction(ip)
        PROVE  StatTypeOK' /\ ResolvedFirst'
    <2>1. /\ \E type \in Types : btb_prediction(ip, type)
          /\ dumps = 0
      <3>1. BranchType[ip] \in Types /\ "NOT_BRANCH" \in Types
        BY PartitionAssumption DEF Types
      <3> QED
        BY <1>1, <3>1 DEF SpecPrediction, TracePrediction, Running
    <2>2. /\ UNCHANGED <<BTB_writes, sttram_refreshes, mot_stats, dumps, expirations, forgotten>>
          /\ sttram_evictions' \in {sttram_evictions, sttram_evictions + 1}
      BY <2>1 DEF btb_prediction, PredictMiss, PredictExpired, PredictHit, refreshHistory
    <2> QED
      BY <2>1, <2>2 DEF StatTypeOK, ResolvedFirst
  <1>2. ASSUME NEW target \in Target \cup {0}, NEW taken \in BOOLEAN,
               TraceUpdate(target, taken)
        PROVE  StatTypeOK' /\ ResolvedFirst'
    <2>1. resolving \in Ip /\ resolving' = NONE
      BY <1>2 DEF TraceUpdate, BTBTypeOK
    <2>2. UNCHANGED <<dumps, sttram_evictions, expirations>>
      BY <1>2 DEF TraceUpdate, update_btb
    <2>3. /\ BTB_writes' \in Nat
          /\ sttram_refreshes' \in Nat
          /\ mot_stats' \in [0..Len(LifetimeBounds) -> [0..4 -> Nat]]
          /\ forgotten' \in Nat
      <3>1. CASE /\ UNCHANGED <<sttram_refreshes, mot_stats, forgotten>>
                 /\ BTB_writes' = BTB_writes + 1
        BY <3>1 DEF StatTypeOK
      <3>2. ASSUME NEW p \in Partition, NEW s \in SetIndex, NEW w \in Nat,
                   Booked(theBTB[p][s], w)
            PROVE  /\ BTB_writes' \in Nat
                   /\ sttram_refreshes' \in Nat
                   /\ mot_stats' \in [0..Len(LifetimeBounds) -> [0..4 -> Nat]]
                   /\ forgotten' \in Nat
        <4> DEFINE set == theBTB[p][s]
        <4>1. DOMAIN set = 1..Len(set) /\ \A v \in DOMAIN set : set[v] \in BTBEntry
          BY SetType
        <4>2. ASSUME NEW v \in 1..Len(set)
              PROVE  /\ RefreshesOf(set[v]) \in Nat
                     /\ LifetimeZone(Lifetime(set[v])) \in 0..Len(LifetimeBounds)
                     /\ HitBucket(set[v].hit_count) \in 0..4
          <5>1. RefreshesOf(set[v]) \in Nat
            BY <4>1, AgeIsNat
          <5>2. LifetimeZone(Lifetime(set[v])) \in 0..Len(LifetimeBounds)
            BY ZoneExists
          <5>3. set[v].hit_count \in Nat
            BY <4>1 DEF BTBEntry
          <5> QED
            BY <5>1, <5>2, <5>3, BucketExists
        <4> HIDE DEF set
        <4>3. CASE Inserted(set, w)
          BY <4>3 DEF Inserted, StatTypeOK
        <4>4. CASE Evicted(set, w)
          <5> DEFINE z == LifetimeZone(Lifetime(set[w]))
                     b == HitBucket(set[w].hit_count)
                     r == RefreshesOf(set[w])
          <5>1. w \in 1..Len(set)
            BY <4>4 DEF Evicted
          <5>2. r \in Nat /\ z \in 0..Len(LifetimeBounds) /\ b \in 0..4
            BY <4>2, <5>1
          <5>3. /\ BTB_writes' = BTB_writes + 1
                /\ sttram_refreshes' = sttram_refreshes + r
                /\ mot_stats' = [mot_stats EXCEPT ![z][b] = @ + 1]
                /\ forgotten' = forgotten
            BY <4>4 DEF Evicted
          <5> HIDE DEF z, b, r
          <5>4. mot_stats' \in [0..Len(LifetimeBounds) -> [0..4 -> Nat]]
            <6> DEFINE Z == 0..Len(LifetimeBounds)
                       B == 0..4
            <6>1. mot_stats \in [Z -> [B -> Nat]] /\ z \in Z /\ b \in B
              BY <5>2 DEF StatTypeOK
            <6>2. ASSUME NEW m, m = [mot_stats EXCEPT ![z][b] = @ + 1]
                  PROVE  m \in [Z -> [B -> Nat]]
              <7> HIDE DEF Z, B
              <7> QED
                BY <6>1, <6>2, ProfileCounted
            <6> HIDE DEF Z, B
            <6>3. mot_stats' \in [Z -> [B -> Nat]]
              BY <5>3, <6>2
            <6> QED
              BY <6>3 DEF Z, B
          <5> QED
            BY <5>2, <5>3, <5>4 DEF StatTypeOK
        <4>5. CASE Rewritten(set, w)
          <5>1. w \in 1..Len(set)
            BY <4>5 DEF Rewritten
          <5>2. RefreshesOf(set[w]) \in Nat
            BY <4>2, <5>1
          <5> QED
            BY SMTT(30), <4>5, <5>2 DEF Rewritten, StatTypeOK
        <4> QED
          <5>1. Booked(set, w)
            BY <3>2 DEF set
          <5> QED
            BY <4>3, <4>4, <4>5, <5>1 DEF Booked
      <3> QED
        BY <1>2, <2>1, <3>1, <3>2, UpdateStep
    <2> QED
      BY <2>1, <2>2, <2>3 DEF StatTypeOK, ResolvedFirst
  <1>3. CASE Cycle
    <2> DEFINE S == {x \in Places : /\ POLICY = "REFRESH"
                                    /\ (Lifetime(EntryAt(x)) + 1) % RETENTION_CYCLES = 0}
    <2>1. Cardinality(S) \in Nat
      <3>1. S \in SUBSET Places
        OBVIOUS
      <3> HIDE DEF S
      <3>2. IsFiniteSet(S)
        BY <3>1, PlacesFinite, FS_Subset
      <3> QED
        BY <3>2, FS_CardinalityType
    <2>2. expirations' = expirations + Cardinality(S)
      BY <1>3 DEF Cycle
    <2>3. UNCHANGED <<BTB_writes, sttram_refreshes, sttram_evictions, mot_stats, dumps, forgotten,
                      resolving>>
      BY <1>3 DEF Cycle, statVars
    <2> HIDE DEF S
    <2> QED
      BY <2>1, <2>2, <2>3 DEF StatTypeOK, ResolvedFirst
  <1>4. CASE dump_stt_write_stats
    <2>1. RefreshesStored \in Nat
      BY PendingIsOK DEF PendingOK
    <2>2. /\ resolving = NONE /\ resolving' = NONE /\ dumps < 2
          /\ dumps' = dumps + 1
          /\ sttram_refreshes' = sttram_refreshes + RefreshesStored
          /\ UNCHANGED <<BTB_writes, sttram_evictions, mot_stats, expirations, forgotten>>
      BY <1>4 DEF dump_stt_write_stats, refreshHistory
    <2> QED
      BY <2>1, <2>2 DEF StatTypeOK, ResolvedFirst
  <1>5. CASE UNCHANGED vars
    BY <1>5 DEF vars, statVars, refreshHistory, StatTypeOK, ResolvedFirst
  <1> QED
    BY <1>1, <1>2, <1>3, <1>4, <1>5 DEF Next

\* Every step keeps what the two accounts rest on: the ages in order, no
\* entry written in the future, counters that are numbers, and branches
\* resolved before they update.
LEMMA BooksStep == BooksInv /\ [Next]_vars => BooksInv'
  <1> SUFFICES ASSUME BooksInv, [Next]_vars
               PROVE  BooksInv'
    OBVIOUS
  <1>1. LRUInv /\ WrittenPast /\ StatTypeOK /\ ResolvedFirst
    BY DEF BooksInv
  <1>2. LRUInv'
    BY <1>1, LRUStep
  <1>3. BTBTypeOK /\ BTBTypeOK'
    BY <1>1, <1>2 DEF LRUInv
  <1>4. WrittenPast'
    BY <1>1, <1>3, WrittenStep
  <1>5. StatTypeOK' /\ ResolvedFirst'
    BY <1>1, <1>3, StatTypeStep
  <1> QED
    BY <1>2, <1>4, <1>5 DEF BooksInv

\* The empty BTB has it.
LEMMA BooksInit == Init => BooksInv
  <1> SUFFICES ASSUME Init
               PROVE  WrittenPast /\ StatTypeOK /\ ResolvedFirst
    BY LRUInit DEF BooksInv
  <1>1. \A p \in Partition, s \in SetIndex : DOMAIN theBTB[p][s] = {}
    BY DEF Init
  <1>2. WrittenPast
    BY <1>1 DEF WrittenPast
  <1> QED
    BY <1>2 DEF Init, StatTypeOK, ResolvedFirst

-----------------------------------------------------------------------------
(* The refreshes. *)

\* Entries that stay where they are leave the places as they were.
LEMMA SamePlaces ==
    ASSUME BTBTypeOK, BTBTypeOK', SameEntries
    PROVE  /\ Places' = Places
           /\ \A x \in Places :
                theBTB'[x[1]][x[2]][x[3]].write_timestamp
                  = theBTB[x[1]][x[2]][x[3]].write_timestamp
  <1>1. ASSUME NEW p \in Partition, NEW s \in SetIndex
        PROVE  /\ DOMAIN theBTB'[p][s] = DOMAIN theBTB[p][s]
               /\ \A w \in DOMAIN theBTB[p][s] :
                    theBTB'[p][s][w].write_timestamp = theBTB[p][s][w].write_timestamp
    <2>1. theBTB'[p][s] \in Seq(BTBEntry)
      BY DEF BTBTypeOK
    <2>2. DOMAIN theBTB'[p][s] = 1..Len(theBTB'[p][s])
      BY <2>1, LenProperties
    <2> QED
      BY <2>2, SetType DEF SameEntries
  <1>2. ASSUME NEW x PROVE x \in PlacesOf(theBTB') <=> x \in PlacesOf(theBTB)
    BY <1>1, PlaceIs
  <1>3. PlacesOf(theBTB') = PlacesOf(theBTB)
    BY <1>2
  <1>4. ASSUME NEW x \in Places
        PROVE  theBTB'[x[1]][x[2]][x[3]].write_timestamp
                 = theBTB[x[1]][x[2]][x[3]].write_timestamp
    <2>1. PICK p \in Partition, s \in SetIndex : \E w \in DOMAIN theBTB[p][s] : x = <<p, s, w>>
      BY PlaceType
    <2>2. PICK w \in DOMAIN theBTB[p][s] : x = <<p, s, w>>
      BY <2>1
    <2> QED
      BY <1>1, <2>2
  <1> QED
    BY <1>3, <1>4, PlacesAre

\* While the clock stands still, so do the refreshes of an entry.
LEMMA SameRefreshes ==
    ASSUME BTBTypeOK, BTBTypeOK', SameEntries, current_core_cycle' = current_core_cycle
    PROVE  RefreshesStored' = RefreshesStored
  <1> DEFINE r(t) == IF POLICY = "REFRESH" THEN (current_core_cycle - t) \div RETENTION_CYCLES ELSE 0
             f == [x \in Places |-> r(theBTB[x[1]][x[2]][x[3]].write_timestamp)]
             g == [x \in Places' |-> r(theBTB'[x[1]][x[2]][x[3]].write_timestamp)]
  <1>1. Pending = f
    BY DEF Pending, RefreshesOf, Lifetime, EntryAt
  <1>2. Pending' = g
    BY DEF Pending, RefreshesOf, Lifetime, EntryAt
  <1>3. g = f
    <2> HIDE DEF r
    <2> QED
      BY SamePlaces
  <1>4. RefreshesStored = SumFunction(Pending) /\ RefreshesStored' = SumFunction(Pending')
    BY DEF RefreshesStored, Pending
  <1> HIDE DEF f, g
  <1> QED
    BY <1>1, <1>2, <1>3, <1>4

\* An update takes the refreshes of what it replaces out of the sum, and
\* what it stores has needed none yet.
LEMMA StoringRefreshes ==
    ASSUME BTBTypeOK, BTBTypeOK', PendingOK, PendingOK', NEW p \in Partition, NEW s \in SetIndex,
           NEW new \in Seq(BTBEntry), NEW w \in Nat, NEW e \in BTBEntry,
           Replaces(p, s, new),
           Shifted(theBTB[p][s], new, w, e),
           e.write_timestamp = current_core_cycle,
           current_core_cycle' = current_core_cycle
    PROVE  /\ w \in DOMAIN theBTB[p][s] =>
                RefreshesStored' + RefreshesOf(theBTB[p][s][w]) = RefreshesStored
           /\ w \notin DOMAIN theBTB[p][s] => RefreshesStored' = RefreshesStored
  <1> DEFINE k == <<p, s, Len(new)>>
             f == Pending
             g == Pending'
  <1>1. /\ DOMAIN f = Places /\ DOMAIN g = Places'
        /\ \A x \in Places : f[x] = RefreshesOf(EntryAt(x))
        /\ \A x \in Places : f[x] \in Nat
        /\ \A x \in Places' : g[x] = RefreshesOf(EntryAt(x))'
        /\ \A x \in Places' : g[x] \in Nat
        /\ RefreshesStored = SumFunction(f) /\ RefreshesStored' = SumFunction(g)
        /\ RefreshesStored \in Nat /\ RefreshesStored' \in Nat
    BY DEF PendingOK
  <1>2. StoredApart(p, s, w, e, Len(new))
    BY UpdatePlaces
  <1>3. \A x : (RefreshesOf(EntryAt(x)))' = RefreshesOf(theBTB'[x[1]][x[2]][x[3]])
    BY DEF RefreshesOf, Lifetime, EntryAt
  <1>4. ASSUME NEW x \in Places', x # k
        PROVE  g[x] = f[OriginOf(p, s, w, x)]
    <2>1. PICK q \in Partition, t \in SetIndex : \E i \in DOMAIN theBTB'[q][t] : x = <<q, t, i>>
      BY PlacesAre, PlaceIs
    <2>2. PICK i \in DOMAIN theBTB'[q][t] : x = <<q, t, i>>
      BY <2>1
    <2> DEFINE v == Origin(p, s, w, q, t, i)
    <2>3. theBTB'[q][t][i] = theBTB[q][t][v]
      BY <1>2, <1>4, <2>2 DEF StoredApart
    <2>4. OriginOf(p, s, w, x) = <<q, t, v>> /\ OriginOf(p, s, w, x) \in Places
      <3>1. OriginOf(p, s, w, x) = <<q, t, v>>
        BY <2>2 DEF OriginOf
      <3>2. OriginOf(p, s, w, x) \in Places
        <4>1. \A y \in Places' : y # <<p, s, Len(new)>> => OriginOf(p, s, w, y) \in Places
          <5> DEFINE n == Len(new)
          <5>1. StoredApart(p, s, w, e, n)
            BY <1>2
          <5> HIDE DEF n
          <5>2. \A y \in Places' : y # <<p, s, n>> => OriginOf(p, s, w, y) \in Places
            BY <5>1, OriginFits
          <5> QED
            BY <5>2 DEF n
        <4> QED
          BY <1>4, <4>1
      <3> QED
        BY <3>1, <3>2
    <2>5. EntryAt(OriginOf(p, s, w, x)) = theBTB[q][t][v]
      <3> HIDE DEF v
      <3> QED
        BY <2>4 DEF EntryAt
    <2>6. g[x] = RefreshesOf(theBTB'[q][t][i])
      BY <1>1, <1>3, <2>2
    <2> HIDE DEF v, f, g
    <2> QED
      BY <1>1, <2>3, <2>4, <2>5, <2>6
  <1>5. /\ k \in Places'
        /\ w \in DOMAIN theBTB[p][s] =>
             /\ <<p, s, w>> \in Places
             /\ SumFunction(g) + f[<<p, s, w>>] = SumFunction(f) + g[k]
        /\ w \notin DOMAIN theBTB[p][s] =>
             SumFunction(g) = SumFunction(f) + g[k]
    <2>1. (\A x \in Places : f[x] \in Int) /\ \A x \in Places' : g[x] \in Int
      BY <1>1
    <2>2. DOMAIN f = Places /\ DOMAIN g = Places'
      BY <1>1
    <2>3. \A x \in Places' : x # <<p, s, Len(new)>> => g[x] = f[OriginOf(p, s, w, x)]
      BY <1>4
    <2>5. CarriedOver(p, s, w, Len(new), f, g)
      BY <2>1, <2>2, <2>3 DEF CarriedOver
    <2> HIDE DEF f, g
    <2>4. /\ <<p, s, Len(new)>> \in Places'
          /\ w \in DOMAIN theBTB[p][s] =>
               /\ <<p, s, w>> \in Places
               /\ SumFunction(g) + f[<<p, s, w>>] = SumFunction(f) + g[<<p, s, Len(new)>>]
          /\ w \notin DOMAIN theBTB[p][s] =>
               SumFunction(g) = SumFunction(f) + g[<<p, s, Len(new)>>]
      BY <2>5, StoringSums
    <2> QED
      BY <2>4
  <1>6. g[k] = 0
    <2>1. theBTB'[p][s][Len(new)] = e
      BY <1>2 DEF StoredApart
    <2>2. g[k] = RefreshesOf(e)
      BY <1>1, <1>3, <1>5, <2>1
    <2>3. current_core_cycle - e.write_timestamp = 0
      BY DEF BTBTypeOK
    <2>4. 0 \div RETENTION_CYCLES = 0
      BY QuotientType, PartitionAssumption
    <2> HIDE DEF g, k
    <2> QED
      BY <2>2, <2>3, <2>4 DEF RefreshesOf, Lifetime
  <1>7. ASSUME w \in DOMAIN theBTB[p][s]
        PROVE  RefreshesStored' + RefreshesOf(theBTB[p][s][w]) = RefreshesStored
    <2>1. f[<<p, s, w>>] = RefreshesOf(theBTB[p][s][w])
      BY <1>1, <1>5, <1>7 DEF EntryAt
    <2> HIDE DEF f, g
    <2> QED
      BY <1>1, <1>5, <1>6, <1>7, <2>1
  <1>8. ASSUME w \notin DOMAIN theBTB[p][s]
        PROVE  RefreshesStored' = RefreshesStored
    <2> HIDE DEF f, g
    <2> QED
      BY <1>1, <1>5, <1>6, <1>8
  <1> QED
    BY <1>7, <1>8

\* The clock adds one for each entry that completes a retention period.
LEMMA CycleRefreshes ==
    ASSUME BTBTypeOK, WrittenPast, PendingOK, PendingOK', Cycle
    PROVE  \E n \in Nat : /\ expirations' = expirations + n
                          /\ RefreshesStored' = RefreshesStored + n
  <1> DEFINE S == {x \in Places : /\ POLICY = "REFRESH"
                                  /\ (Lifetime(EntryAt(x)) + 1) % RETENTION_CYCLES = 0}
             f == Pending
             g == Pending'
  <1>1. /\ DOMAIN f = Places /\ DOMAIN g = Places'
        /\ \A x \in Places : f[x] = RefreshesOf(EntryAt(x))
        /\ \A x \in Places : f[x] \in Nat
        /\ \A x \in Places' : g[x] = RefreshesOf(EntryAt(x))'
        /\ RefreshesStored = SumFunction(f) /\ RefreshesStored' = SumFunction(g)
    BY DEF PendingOK
  <1>2. /\ theBTB' = theBTB /\ current_core_cycle' = current_core_cycle + 1
        /\ expirations' = expirations + Cardinality(S)
    BY DEF Cycle
  <1>3. Places' = Places
    BY <1>2, PlacesAre
  <1>4. IsFiniteSet(Places) /\ S \in SUBSET Places
    BY PlacesFinite
  <1>5. Cardinality(S) \in Nat
    <2> HIDE DEF S
    <2> QED
      BY <1>4, FS_Subset, FS_CardinalityType
  <1>6. ASSUME NEW x \in Places
        PROVE  g[x] = f[x] + (IF x \in S THEN 1 ELSE 0)
    <2> DEFINE l == Lifetime(EntryAt(x))
               b == POLICY = "REFRESH"
    <2>1. l \in Nat
      <3>1. PICK p \in Partition, s \in SetIndex : \E w \in DOMAIN theBTB[p][s] : x = <<p, s, w>>
        BY PlaceType
      <3>2. PICK w \in DOMAIN theBTB[p][s] : x = <<p, s, w>>
        BY <3>1
      <3>3. EntryAt(x) = theBTB[p][s][w]
        BY <3>2 DEF EntryAt
      <3> QED
        BY <3>3, AgeIsNat
    <2>2. Lifetime(EntryAt(x))' = l + 1
      <3> DEFINE t == EntryAt(x).write_timestamp
                 c == current_core_cycle
      <3>1. EntryAt(x)' = EntryAt(x)
        BY <1>2 DEF EntryAt
      <3>2. Lifetime(EntryAt(x))' = c' - t /\ l = c - t
        BY <3>1 DEF Lifetime
      <3>3. c \in Int /\ t \in Int /\ c' = c + 1
        <4>1. PICK p \in Partition, s \in SetIndex : \E w \in DOMAIN theBTB[p][s] : x = <<p, s, w>>
          BY PlaceType
        <4>2. PICK w \in DOMAIN theBTB[p][s] : x = <<p, s, w>>
          BY <4>1
        <4>3. t \in Nat
          BY <4>2, SetType DEF EntryAt, BTBEntry
        <4> QED
          BY <1>2, <4>3 DEF BTBTypeOK
      <3>4. (c + 1) - t = (c - t) + 1
        <4> HIDE DEF c, t
        <4> QED
          BY <3>3
      <3> QED
        BY <3>2, <3>3, <3>4
    <2>3. /\ f[x] = IF b THEN l \div RETENTION_CYCLES ELSE 0
          /\ g[x] = IF b THEN (l + 1) \div RETENTION_CYCLES ELSE 0
          /\ x \in S <=> b /\ (l + 1) % RETENTION_CYCLES = 0
      <3>1. f[x] = IF b THEN l \div RETENTION_CYCLES ELSE 0
        BY <1>1 DEF RefreshesOf
      <3>2. g[x] = RefreshesOf(EntryAt(x))'
        BY <1>1, <1>3
      <3>3. g[x] = IF b THEN Lifetime(EntryAt(x))' \div RETENTION_CYCLES ELSE 0
        BY <3>2 DEF RefreshesOf
      <3>4. x \in S <=> b /\ (l + 1) % RETENTION_CYCLES = 0
        OBVIOUS
      <3> QED
        BY <2>2, <3>1, <3>3, <3>4
    <2> HIDE DEF l, f, g, S
    <2>4. (l + 1) \div RETENTION_CYCLES
            = (l \div RETENTION_CYCLES) + (IF (l + 1) % RETENTION_CYCLES = 0 THEN 1 ELSE 0)
      BY <2>1, QuotientSteps, PartitionAssumption
    <2>5. f[x] \in Nat
      BY <1>1
    <2> QED
      BY <2>3, <2>4, <2>5
  <1>7. SumFunction(g) = SumFunction(f) + Cardinality(S)
    <2>1. /\ \A x \in Places : f[x] \in Int
          /\ \A x \in S : g[x] = f[x] + 1
          /\ \A x \in Places : x \notin S => g[x] = f[x]
      <3>1. S \in SUBSET Places
        BY <1>4
      <3> HIDE DEF f, g, S
      <3> QED
        BY <1>1, <1>6, <3>1
    <2>2. IsFiniteSet(DOMAIN f) /\ DOMAIN g = DOMAIN f /\ S \in SUBSET DOMAIN f
      BY <1>1, <1>3, <1>4
    <2>3. DOMAIN f = Places
      BY <1>1
    <2> HIDE DEF f, g, S
    <2> QED
      BY <2>1, <2>2, <2>3, SumBumped
  <1> HIDE DEF f, g, S
  <1> QED
    BY <1>1, <1>2, <1>5, <1>7

\* Every step keeps the refresh account balanced: what dump_stt_write_stats
\* would report changes by what time and evictions add, once each.
LEMMA ConservedStep ==
    BooksInv /\ BooksInv' /\ RefreshesConserved /\ [Next]_vars => RefreshesConserved'
  <1> SUFFICES ASSUME BooksInv, BooksInv', RefreshesConserved, [Next]_vars
               PROVE  RefreshesConserved'
    OBVIOUS
  <1> DEFINE R == RefreshesStored
  <1>1. /\ BTBTypeOK /\ WrittenPast /\ StatTypeOK /\ ResolvedFirst
        /\ BTBTypeOK' /\ WrittenPast'
    BY DEF BooksInv, LRUInv
  <1>2. PendingOK /\ PendingOK'
    BY <1>1, PendingIsOK, PendingStaysOK
  <1>3. R \in Nat /\ R' \in Nat
    BY <1>2 DEF PendingOK
  <1>4. sttram_refreshes \in Nat /\ forgotten \in Nat /\ expirations \in Nat /\ dumps \in 0..2
    BY <1>1 DEF StatTypeOK
  <1>11. sttram_refreshes + forgotten + R = expirations + dumps * R
    BY DEF RefreshesConserved
  <1>5. SUFFICES sttram_refreshes' + forgotten' + R' = expirations' + dumps' * R'
    BY DEF RefreshesConserved
  <1>6. ASSUME NEW ip \in Ip, SpecPrediction(ip) \/ TracePrediction(ip)
        PROVE  sttram_refreshes' + forgotten' + R' = expirations' + dumps' * R'
    <2>1. \E type \in Types : btb_prediction(ip, type)
      <3>1. BranchType[ip] \in Types /\ "NOT_BRANCH" \in Types
        BY PartitionAssumption DEF Types
      <3> QED
        BY <1>6, <3>1 DEF SpecPrediction, TracePrediction
    <2>2. UNCHANGED <<sttram_refreshes, dumps, expirations, forgotten, current_core_cycle>>
      BY <2>1 DEF btb_prediction, refreshHistory
    <2>3. R' = R
      BY <1>1, <2>1, <2>2, PredictionEffect, SameRefreshes
    <2> HIDE DEF R
    <2> QED
      BY <1>11, <2>2, <2>3
  <1>7. ASSUME NEW target \in Target \cup {0}, NEW taken \in BOOLEAN,
               TraceUpdate(target, taken)
        PROVE  sttram_refreshes' + forgotten' + R' = expirations' + dumps' * R'
    <2>1. resolving \in Ip /\ resolving # NONE
      BY <1>1, <1>7 DEF TraceUpdate, BTBTypeOK
    <2>2. dumps = 0 /\ UNCHANGED <<dumps, expirations, current_core_cycle>>
      BY <1>1, <1>7, <2>1 DEF TraceUpdate, update_btb, ResolvedFirst
    <2>3. /\ sttram_refreshes + forgotten + R = expirations
          /\ dumps' * R' = 0
      <3>1. \A n \in Nat : 0 * n = 0
        OBVIOUS
      <3> HIDE DEF R
      <3>2. dumps * R = 0 /\ dumps' * R' = 0
        BY <1>3, <2>2, <3>1
      <3>3. sttram_refreshes + forgotten + R = expirations + 0
        BY <1>11, <3>2
      <3> QED
        BY <1>4, <3>2, <3>3
    <2>4. SUFFICES sttram_refreshes' + forgotten' + R' = sttram_refreshes + forgotten + R
      <3> HIDE DEF R
      <3> QED
        BY <1>4, <2>2, <2>3
    <2>5. CASE UNCHANGED <<theBTB, sttram_refreshes, forgotten>>
      <3>1. SameEntries
        BY <2>5 DEF SameEntries
      <3>2. R' = R
        BY <1>1, <2>2, <3>1, SameRefreshes
      <3> HIDE DEF R
      <3> QED
        BY <2>5, <3>2
    <2>6. ASSUME NEW p \in Partition, NEW s \in SetIndex, NEW new \in Seq(BTBEntry),
                 NEW w \in Nat, NEW e \in BTBEntry,
                 Replaces(p, s, new), Shifted(theBTB[p][s], new, w, e),
                 e.write_timestamp = current_core_cycle,
                 Booked(theBTB[p][s], w)
          PROVE  sttram_refreshes' + forgotten' + R' = sttram_refreshes + forgotten + R
      <3> DEFINE set == theBTB[p][s]
                 r == RefreshesOf(set[w])
      <3>1. /\ w \in DOMAIN set => R' + r = R
            /\ w \notin DOMAIN set => R' = R
        BY <1>1, <1>2, <2>2, <2>6, StoringRefreshes
      <3>2. DOMAIN set = 1..Len(set) /\ Len(set) \in Nat
        BY <1>1, SetType
      <3>3. w \in DOMAIN set => r \in Nat
        BY <1>1, AgeIsNat
      <3>4. Inserted(set, w) \/ Evicted(set, w) \/ Rewritten(set, w)
        BY <2>6 DEF Booked
      <3>5. CASE Inserted(set, w)
        <4>1. w = Len(set) + 1 /\ UNCHANGED <<sttram_refreshes, forgotten>>
          BY <3>5 DEF Inserted
        <4>2. w \notin DOMAIN set
          <5> DEFINE l == Len(set)
          <5> HIDE DEF set, l
          <5>1. l \in Nat /\ w = l + 1 /\ DOMAIN set = 1..l
            BY <3>2, <4>1 DEF l
          <5> QED
            BY <5>1
        <4> HIDE DEF R
        <4> QED
          BY <3>1, <4>1, <4>2
      <3>6. CASE Evicted(set, w)
        <4>1. /\ w \in 1..Len(set)
              /\ sttram_refreshes' = sttram_refreshes + r
              /\ forgotten' = forgotten
          BY <3>6 DEF Evicted
        <4>2. r \in Nat /\ R' + r = R
          BY <3>1, <3>2, <3>3, <4>1
        <4>3. \A a, b, c, x \in Nat : (a + x) + b + c = a + b + (c + x)
          OBVIOUS
        <4> HIDE DEF R, r
        <4>4. (sttram_refreshes + r) + forgotten + R' = sttram_refreshes + forgotten + (R' + r)
          BY <1>3, <1>4, <4>2, <4>3
        <4> QED
          BY <4>1, <4>2, <4>4
      <3>7. CASE Rewritten(set, w)
        <4>1. /\ w \in 1..Len(set)
              /\ sttram_refreshes' = sttram_refreshes
              /\ forgotten' = forgotten + r
          BY <3>7 DEF Rewritten
        <4>2. r \in Nat /\ R' + r = R
          BY <3>1, <3>2, <3>3, <4>1
        <4>3. \A a, b, c, x \in Nat : a + (b + x) + c = a + b + (c + x)
          OBVIOUS
        <4> HIDE DEF R, r
        <4>4. sttram_refreshes + (forgotten + r) + R' = sttram_refreshes + forgotten + (R' + r)
          BY <1>3, <1>4, <4>2, <4>3
        <4> QED
          BY <4>1, <4>2, <4>4
      <3> QED
        BY <3>4, <3>5, <3>6, <3>7
    <2> HIDE DEF R
    <2> QED
      BY <1>1, <1>7, <2>1, <2>5, <2>6, UpdateStep
  <1>8. CASE Cycle
    <2>1. PICK n \in Nat : expirations' = expirations + n /\ R' = R + n
      BY <1>1, <1>2, <1>8, CycleRefreshes
    <2>2. dumps = 0 /\ UNCHANGED <<dumps, sttram_refreshes, forgotten>>
      BY <1>8 DEF Cycle, Running, statVars
    <2>3. dumps * R = 0 /\ dumps' * R' = 0
      <3>1. \A k \in Nat : 0 * k = 0
        OBVIOUS
      <3> HIDE DEF R
      <3> QED
        BY <1>3, <2>2, <3>1
    <2> HIDE DEF R
    <2> QED
      BY <1>3, <1>4, <1>11, <2>1, <2>2, <2>3
  <1>9. CASE dump_stt_write_stats
    <2>1. /\ UNCHANGED <<theBTB, current_core_cycle, forgotten, expirations>>
          /\ dumps' = dumps + 1 /\ dumps < 2
          /\ sttram_refreshes' = sttram_refreshes + R
      BY <1>9 DEF dump_stt_write_stats, refreshHistory
    <2>2. SameEntries
      BY <2>1 DEF SameEntries
    <2>3. R' = R
      BY <1>1, <2>1, <2>2, SameRefreshes
    <2> HIDE DEF R
    <2>4. dumps = 0 \/ dumps = 1
      BY <1>4, <2>1
    <2>5. CASE dumps = 0
      BY <1>3, <1>4, <1>11, <2>1, <2>3, <2>5
    <2>6. CASE dumps = 1
      BY <1>3, <1>4, <1>11, <2>1, <2>3, <2>6
    <2> QED
      BY <2>4, <2>5, <2>6
  <1>10. CASE UNCHANGED vars
    <2>1. UNCHANGED <<theBTB, current_core_cycle, forgotten, expirations, dumps, sttram_refreshes>>
      BY <1>10 DEF vars, statVars, refreshHistory
    <2>2. SameEntries
      BY <2>1 DEF SameEntries
    <2>3. R' = R
      BY <1>1, <2>1, <2>2, SameRefreshes
    <2> HIDE DEF R
    <2> QED
      BY <1>11, <2>1, <2>3
  <1> QED
    BY <1>6, <1>7, <1>8, <1>9, <1>10 DEF Next

\* The account of the empty BTB is balanced.
LEMMA ConservedInit == Init => RefreshesConserved
  <1> SUFFICES ASSUME Init
               PROVE  RefreshesConserved
    OBVIOUS
  <1>1. BTBTypeOK /\ WrittenPast
    BY BooksInit DEF BooksInv, LRUInv
  <1>2. PendingOK
    BY <1>1, PendingIsOK
  <1>3. \A p \in Partition, s \in SetIndex : DOMAIN theBTB[p][s] = {}
    BY DEF Init
  <1>4. Places = {}
    BY <1>3, PlaceIs, PlacesAre
  <1>5. SumFunction(Pending) = 0
    <2>1. DOMAIN Pending = {} /\ IsFiniteSet({})
      BY <1>2, <1>4, FS_EmptySet DEF PendingOK
    <2> QED
      BY <2>1, SumZero
  <1>6. RefreshesStored = 0
    BY <1>2, <1>5 DEF PendingOK
  <1> QED
    BY <1>6 DEF Init, RefreshesConserved

\* No retention period is lost and none is counted twice: each one an entry
\* lived through is in sttram_refreshes, was forgotten with the value an
\* update overwrote, or is still pending, and each dump adds what is pending.
THEOREM RefreshesAlwaysConserved == Spec => []RefreshesConserved
  BY BooksInit, BooksStep, ConservedInit, ConservedStep, PTL DEF Spec

-----------------------------------------------------------------------------
(* The profile of the evictions. *)

ProfileSum(m) == SumFunction([z \in DOMAIN m |-> SumFunction(m[z])])

\* n counts one eviction more than m, in bucket b of zone z.
OneMore(n, m, Z, B, z, b) ==
    /\ IsFiniteSet(Z) /\ IsFiniteSet(B)
    /\ m \in [Z -> [B -> Nat]]
    /\ z \in Z /\ b \in B
    /\ n = [m EXCEPT ![z][b] = @ + 1]

\* One more eviction in a bucket of a zone makes the total one larger.
LEMMA ProfileGrows ==
    ASSUME NEW Z, NEW B, NEW m, NEW n, NEW z, NEW b, OneMore(n, m, Z, B, z, b)
    PROVE  ProfileSum(n) = ProfileSum(m) + 1
  <1> DEFINE f == [y \in DOMAIN m |-> SumFunction(m[y])]
             g == [y \in DOMAIN n |-> SumFunction(n[y])]
             row == m[z]
             row2 == n[z]
  <1>0. /\ IsFiniteSet(Z) /\ IsFiniteSet(B)
        /\ m \in [Z -> [B -> Nat]]
        /\ z \in Z /\ b \in B
    BY DEF OneMore
  <1>1. /\ DOMAIN m = Z /\ DOMAIN n = Z
        /\ \A y \in Z : y # z => n[y] = m[y]
        /\ row \in [B -> Nat]
        /\ row2 = [row EXCEPT ![b] = @ + 1]
    BY DEF OneMore
  <1>2. n \in [Z -> [B -> Nat]]
    BY <1>0, ProfileCounted DEF OneMore
  <1>3. ASSUME NEW h \in [B -> Nat] PROVE SumFunction(h) \in Nat
    <2>1. IsFiniteSet(DOMAIN h) /\ \A x \in DOMAIN h : h[x] \in Nat
      BY <1>0
    <2> QED
      BY <2>1, SumType
  <1>4. SumFunction(row2) = SumFunction(row) + 1
    <2>1. /\ DOMAIN row = B /\ DOMAIN row2 = B
          /\ \A x \in B : row[x] \in Int /\ row2[x] \in Int
          /\ \A x \in B : x # b => row2[x] = row[x]
          /\ row2[b] - row[b] = 1
      <3>1. row2 \in [B -> Nat]
        BY <1>0, <1>2
      <3> HIDE DEF row, row2
      <3> QED
        BY <1>0, <1>1, <3>1
    <2> HIDE DEF row, row2
    <2>2. SumFunction(row2) = SumFunction(row) + (row2[b] - row[b])
      BY <1>0, <2>1, SumChanged
    <2> QED
      BY <2>1, <2>2
  <1>5. /\ DOMAIN f = Z /\ DOMAIN g = Z
        /\ \A y \in Z : f[y] \in Int /\ g[y] \in Int
        /\ \A y \in Z : y # z => g[y] = f[y]
        /\ g[z] - f[z] = 1
    <2>1. \A y \in Z : f[y] = SumFunction(m[y]) /\ g[y] = SumFunction(n[y])
      BY <1>1
    <2>2. \A y \in Z : m[y] \in [B -> Nat] /\ n[y] \in [B -> Nat]
      BY <1>0, <1>2
    <2>3. \A y \in Z : f[y] \in Nat /\ g[y] \in Nat
      BY <1>3, <2>1, <2>2
    <2>4. g[z] = f[z] + 1
      BY <1>0, <1>4, <2>1
    <2>5. DOMAIN f = Z /\ DOMAIN g = Z
      BY <1>0, <1>1
    <2> HIDE DEF f, g
    <2> QED
      BY <1>0, <1>1, <2>1, <2>3, <2>4, <2>5
  <1>6. ProfileSum(n) = SumFunction(g) /\ ProfileSum(m) = SumFunction(f)
    BY DEF ProfileSum
  <1> HIDE DEF f, g
  <1>7. SumFunction(g) = SumFunction(f) + (g[z] - f[z])
    BY <1>0, <1>5, SumChanged
  <1> QED
    BY <1>5, <1>6, <1>7

\* The number of stored entries, before and after an update.
LEMMA StoringCount ==
    ASSUME BTBTypeOK, BTBTypeOK', NEW p \in Partition, NEW s \in SetIndex,
           NEW new \in Seq(BTBEntry), NEW w \in Nat, NEW e \in BTBEntry,
           Replaces(p, s, new),
           Shifted(theBTB[p][s], new, w, e)
    PROVE  /\ w \in DOMAIN theBTB[p][s] => Stored' = Stored
           /\ w \notin DOMAIN theBTB[p][s] => Stored' = Stored + 1
           /\ Stored \in Nat /\ Stored' \in Nat
  <1> DEFINE f == [x \in Places |-> 1]
             g == [x \in Places' |-> 1]
  <1>1. IsFiniteSet(Places) /\ IsFiniteSet(Places')
    BY PlacesFinite, PlacesStayFinite
  <1>2. Stored = SumFunction(f) /\ Stored' = SumFunction(g)
    <2>1. Stored = Cardinality(Places) /\ Stored' = Cardinality(Places')
      BY DEF Stored
    <2> QED
      BY <1>1, <2>1, CountIsSum
  <1>3. Stored \in Nat /\ Stored' \in Nat
    BY <1>1, FS_CardinalityType DEF Stored
  <1>4. StoredApart(p, s, w, e, Len(new))
    BY UpdatePlaces
  <1>5. CarriedOver(p, s, w, Len(new), f, g)
    <2> DEFINE n == Len(new)
    <2>1. StoredApart(p, s, w, e, n)
      BY <1>4
    <2> HIDE DEF n
    <2>2. \A x \in Places' : x # <<p, s, n>> => OriginOf(p, s, w, x) \in Places
      BY <2>1, OriginFits
    <2>3. CarriedOver(p, s, w, n, f, g)
      BY <2>2 DEF CarriedOver
    <2> QED
      BY <2>3 DEF n
  <1>6. (\A x \in Places : f[x] = 1) /\ \A x \in Places' : g[x] = 1
    OBVIOUS
  <1> HIDE DEF f, g
  <1>7. /\ <<p, s, Len(new)>> \in Places'
        /\ w \in DOMAIN theBTB[p][s] =>
             /\ <<p, s, w>> \in Places
             /\ SumFunction(g) + f[<<p, s, w>>] = SumFunction(f) + g[<<p, s, Len(new)>>]
        /\ w \notin DOMAIN theBTB[p][s] =>
             SumFunction(g) = SumFunction(f) + g[<<p, s, Len(new)>>]
    BY <1>5, StoringSums
  <1>8. /\ w \in DOMAIN theBTB[p][s] => SumFunction(g) + 1 = SumFunction(f) + 1
        /\ w \notin DOMAIN theBTB[p][s] => SumFunction(g) = SumFunction(f) + 1
    BY <1>6, <1>7
  <1> QED
    BY <1>2, <1>3, <1>8

\* An update that stores an entry changes the BTB: no entry carries the
\* stamp of the one it stores.
LEMMA StoringChanges ==
    ASSUME LRUInv, NEW p \in Partition, NEW s \in SetIndex,
           NEW new \in Seq(BTBEntry), NEW w \in Nat, NEW e \in BTBEntry,
           Replaces(p, s, new),
           Shifted(theBTB[p][s], new, w, e),
           e.lru = basic_btb_lru_counter
    PROVE  theBTB' # theBTB
  <1> SUFFICES ASSUME theBTB' = theBTB PROVE FALSE
    OBVIOUS
  <1>1. BTBTypeOK /\ StampsPast
    BY DEF LRUInv
  <1>2. StoredApart(p, s, w, e, Len(new))
    BY <1>1, UpdatePlaces
  <1>3. e.lru < basic_btb_lru_counter
    BY <1>1, <1>2 DEF StoredApart, StampsPast
  <1> QED
    BY <1>1, <1>3 DEF BTBTypeOK

\* Every step but an insertion keeps the sum of the entries stored and the
\* entries profiled, and an insertion adds one to it.
LEMMA ProfileStep ==
    BooksInv /\ BooksInv' /\ [Next]_vars
        => Stored' + Profiled' = Stored + Profiled + (IF Inserting THEN 1 ELSE 0)
  <1> SUFFICES ASSUME BooksInv, BooksInv', [Next]_vars
               PROVE  Stored' + Profiled' = Stored + Profiled + (IF Inserting THEN 1 ELSE 0)
    OBVIOUS
  <1>1. /\ LRUInv /\ BTBTypeOK /\ BTBTypeOK' /\ StatTypeOK
    BY DEF BooksInv, LRUInv
  <1>2. Profiled = ProfileSum(mot_stats) /\ Profiled' = ProfileSum(mot_stats')
    BY DEF Profiled, ProfileSum
  <1>3. Stored \in Nat
    BY <1>1, PlacesFinite, FS_CardinalityType DEF Stored
  <1>4. Profiled \in Nat
    <2> DEFINE f == [z \in DOMAIN mot_stats |-> SumFunction(mot_stats[z])]
               Z == 0..Len(LifetimeBounds)
    <2>1. mot_stats \in [Z -> [0..4 -> Nat]]
      BY <1>1 DEF StatTypeOK
    <2>2. IsFiniteSet(Z) /\ IsFiniteSet(0..4)
      <3>1. Len(LifetimeBounds) \in Int /\ 0 \in Int /\ 4 \in Int
        BY PartitionAssumption, LenProperties
      <3> QED
        BY <3>1, FS_Interval
    <2>3. ASSUME NEW z \in Z PROVE SumFunction(mot_stats[z]) \in Nat
      <3> DEFINE h == mot_stats[z]
      <3>1. h \in [0..4 -> Nat]
        BY <2>1
      <3> HIDE DEF h
      <3>2. DOMAIN h = 0..4 /\ \A x \in DOMAIN h : h[x] \in Nat
        BY <3>1
      <3>3. SumFunction(h) \in Nat
        BY <2>2, <3>2, SumType
      <3> QED
        BY <3>3 DEF h
    <2>4. DOMAIN f = Z /\ \A z \in Z : f[z] \in Nat
      BY <2>1, <2>3
    <2>5. Profiled = SumFunction(f)
      BY DEF Profiled
    <2> HIDE DEF f, Z
    <2> QED
      BY <2>2, <2>4, <2>5, SumType
  <1>5. CASE Places' = Places /\ mot_stats' = mot_stats /\ ~Inserting
    <2>1. Stored' = Stored /\ Profiled' = Profiled
      BY <1>2, <1>5 DEF Stored
    <2> QED
      BY <1>3, <1>4, <1>5, <2>1
  <1>6. ASSUME NEW ip \in Ip, SpecPrediction(ip) \/ TracePrediction(ip)
        PROVE  Places' = Places /\ mot_stats' = mot_stats /\ ~Inserting
    <2>1. \E type \in Types : btb_prediction(ip, type)
      <3>1. BranchType[ip] \in Types /\ "NOT_BRANCH" \in Types
        BY PartitionAssumption DEF Types
      <3> QED
        BY <1>6, <3>1 DEF SpecPrediction, TracePrediction
    <2>2. UNCHANGED <<BTB_writes, mot_stats>>
      BY <2>1 DEF btb_prediction
    <2>3. Places' = Places
      BY <1>1, <2>1, PredictionEffect, SamePlaces
    <2> QED
      BY <2>2, <2>3 DEF Inserting
  <1>7. CASE Cycle \/ dump_stt_write_stats \/ UNCHANGED vars
    <2>1. UNCHANGED <<theBTB, mot_stats>>
      BY <1>7 DEF Cycle, dump_stt_write_stats, vars, statVars
    <2> QED
      BY <1>5, <2>1, PlacesAre DEF Inserting
  <1>8. ASSUME NEW target \in Target \cup {0}, NEW taken \in BOOLEAN,
               TraceUpdate(target, taken)
        PROVE  Stored' + Profiled' = Stored + Profiled + (IF Inserting THEN 1 ELSE 0)
    <2>1. resolving \in Ip
      BY <1>1, <1>8 DEF TraceUpdate, BTBTypeOK
    <2>2. CASE UNCHANGED <<theBTB, mot_stats>>
      BY <1>5, <2>2, PlacesAre DEF Inserting
    <2>3. ASSUME NEW p \in Partition, NEW s \in SetIndex, NEW new \in Seq(BTBEntry),
                 NEW w \in Nat, NEW e \in BTBEntry,
                 Replaces(p, s, new), Shifted(theBTB[p][s], new, w, e),
                 e.lru = basic_btb_lru_counter,
                 Booked(theBTB[p][s], w)
          PROVE  Stored' + Profiled' = Stored + Profiled + (IF Inserting THEN 1 ELSE 0)
      <3> DEFINE set == theBTB[p][s]
      <3>1. /\ w \in DOMAIN set => Stored' = Stored
            /\ w \notin DOMAIN set => Stored' = Stored + 1
        BY <1>1, <2>3, StoringCount
      <3>2. theBTB' # theBTB
        BY <1>1, <2>3, StoringChanges
      <3>3. DOMAIN set = 1..Len(set) /\ Len(set) \in Nat /\ \A v \in DOMAIN set : set[v] \in BTBEntry
        BY <1>1, SetType
      <3>4. Inserted(set, w) \/ Evicted(set, w) \/ Rewritten(set, w)
        BY <2>3 DEF Booked
      <3>5. BTB_writes \in Nat
        BY <1>1 DEF StatTypeOK
      <3> HIDE DEF set
      <3>6. CASE Inserted(set, w)
        <4> DEFINE l == Len(set)
        <4> HIDE DEF l
        <4>1. w = l + 1 /\ BTB_writes' = BTB_writes + 1 /\ mot_stats' = mot_stats
          BY <3>6 DEF Inserted, l
        <4>2. w \notin DOMAIN set
          <5>1. l \in Nat /\ DOMAIN set = 1..l
            BY <3>3 DEF l
          <5> QED
            BY <4>1, <5>1
        <4>3. Inserting
          BY <3>2, <3>5, <4>1 DEF Inserting
        <4>4. Profiled' = Profiled
          BY <1>2, <4>1
        <4>5. Stored' = Stored + 1
          BY <3>1, <4>2
        <4> QED
          BY <1>3, <1>4, <4>3, <4>4, <4>5
      <3>7. CASE Evicted(set, w)
        <4> DEFINE Z == 0..Len(LifetimeBounds)
                   B == 0..4
                   z == LifetimeZone(Lifetime(set[w]))
                   b == HitBucket(set[w].hit_count)
        <4>1. /\ w \in DOMAIN set
              /\ BTB_writes' = BTB_writes + 1
              /\ mot_stats' = [mot_stats EXCEPT ![z][b] = @ + 1]
          BY <3>3, <3>7 DEF Evicted
        <4>2. z \in Z /\ b \in B
          <5>1. set[w].hit_count \in Nat
            BY <3>3, <4>1 DEF BTBEntry
          <5> QED
            BY <5>1, ZoneExists, BucketExists
        <4>3. mot_stats \in [Z -> [B -> Nat]]
          BY <1>1 DEF StatTypeOK
        <4>4. IsFiniteSet(Z) /\ IsFiniteSet(B)
          <5>1. Len(LifetimeBounds) \in Int /\ 0 \in Int /\ 4 \in Int
            BY PartitionAssumption, LenProperties
          <5> QED
            BY <5>1, FS_Interval
        <4> HIDE DEF Z, B, z, b
        <4>5. ProfileSum(mot_stats') = ProfileSum(mot_stats) + 1
          <5>1. OneMore(mot_stats', mot_stats, Z, B, z, b)
            BY <4>1, <4>2, <4>3, <4>4 DEF OneMore
          <5> QED
            BY <5>1, ProfileGrows
        <4>6. Inserting
          BY <3>2, <3>5, <4>1 DEF Inserting
        <4>7. Profiled' = Profiled + 1
          BY <1>2, <4>5
        <4>8. Stored' = Stored
          BY <3>1, <4>1
        <4> QED
          BY <1>3, <1>4, <4>6, <4>7, <4>8
      <3>8. CASE Rewritten(set, w)
        <4>1. w \in DOMAIN set /\ BTB_writes' = BTB_writes /\ mot_stats' = mot_stats
          BY <3>3, <3>8 DEF Rewritten
        <4>2. ~Inserting
          BY <4>1 DEF Inserting
        <4>3. Profiled' = Profiled
          BY <1>2, <4>1
        <4>4. Stored' = Stored
          BY <3>1, <4>1
        <4> QED
          BY <1>3, <1>4, <4>2, <4>3, <4>4
      <3> QED
        BY <3>4, <3>6, <3>7, <3>8
    <2> QED
      BY <1>1, <1>8, <2>1, <2>2, <2>3, UpdateStep
  <1> QED
    BY <1>5, <1>6, <1>7, <1>8 DEF Next

\* What a set loses the profile gains: no insertion, eviction or rewrite
\* loses an entry or counts one twice.
THEOREM EvictionsAlwaysProfiled == Spec => EvictionsProfiled
  <1>1. BooksInv /\ BooksInv' /\ [Next]_vars
          => [Stored' + Profiled' = Stored + Profiled + (IF Inserting THEN 1 ELSE 0)]_vars
    BY ProfileStep
  <1> QED
    BY <1>1, BooksInit, BooksStep, PTL DEF Spec, EvictionsProfiled

-----------------------------------------------------------------------------
(* The return address stack of the BTB. *)

\* What a prediction does to the stack: it pushes the address if, having hit,
\* the entry is of a call or, having missed, the trace says it is one.
LEMMA PredictionPushes ==
    ASSUME NEW ip \in Ip, NEW type, btb_prediction(ip, type)
    PROVE  /\ Hits(ip) => PushIfCall(ip, get_BTBentry(Home(ip), ip).branch_type)
           /\ ~Hits(ip) => PushIfCall(ip, type)
  <1>1. PredictMiss(ip, type) \/ PredictExpired(ip, type) \/ PredictHit(ip)
    BY DEF btb_prediction
  <1>2. CASE PredictMiss(ip, type)
    BY <1>2 DEF PredictMiss, Hits
  <1>3. CASE PredictExpired(ip, type)
    BY <1>3 DEF PredictExpired, Hits
  <1>4. CASE PredictHit(ip)
    BY <1>4 DEF PredictHit
  <1> QED
    BY <1>1, <1>2, <1>3, <1>4

\* Every step of the BTB pushes, resolves a return or leaves the stack alone.
LEMMA StackSteps ==
    BTBTypeOK /\ [Next]_vars => [RASNext]_rasVars
  <1> SUFFICES ASSUME BTBTypeOK, [Next]_vars
               PROVE  RASNext \/ UNCHANGED rasVars
    OBVIOUS
  <1>1. ASSUME NEW ip \in Ip, NEW type, PushIfCall(ip, type)
        PROVE  RASNext \/ UNCHANGED rasVars
    BY <1>1 DEF PushIfCall, RASNext
  <1>2. ASSUME NEW ip \in Ip, SpecPrediction(ip) \/ TracePrediction(ip)
        PROVE  RASNext \/ UNCHANGED rasVars
    <2>1. \E type : btb_prediction(ip, type)
      BY <1>2 DEF SpecPrediction, TracePrediction
    <2>2. \E type : PushIfCall(ip, type)
      BY <2>1, PredictionPushes
    <2> QED
      BY <1>1, <2>2
  <1>3. ASSUME NEW target \in Target \cup {0}, NEW taken \in BOOLEAN,
               TraceUpdate(target, taken)
        PROVE  RASNext \/ UNCHANGED rasVars
    <2>1. CASE BranchType[resolving] = "BRANCH_RETURN"
      <3>1. "BRANCH_RETURN" \in AlwaysTakenTypes
        BY DEF AlwaysTakenTypes
      <3>2. target \in Target
        BY <1>3, <2>1, <3>1 DEF TraceUpdate
      <3> QED
        BY <1>3, <2>1, <3>2 DEF TraceUpdate, update_btb, RASNext
    <2>2. CASE BranchType[resolving] # "BRANCH_RETURN"
      BY <1>3, <2>2 DEF TraceUpdate, update_btb
    <2> QED
      BY <2>1, <2>2
  <1>4. CASE Cycle \/ dump_stt_write_stats \/ UNCHANGED vars
    BY <1>4 DEF Cycle, dump_stt_write_stats, vars, rasVars
  <1> QED
    BY <1>2, <1>3, <1>4 DEF Next

\* The stack of the BTB is a return address stack, so its circular buffer
\* implements a stack of fixed depth here, too.
THEOREM StackImplemented == Spec => []RASTypeOK /\ ImplementsShiftStack
  <1>1. Spec => RASSpec
    <2>1. Init => RASInit /\ BTBTypeOK
      BY BooksInit DEF Init, BooksInv, LRUInv
    <2> QED
      BY <2>1, BTBTypeStep, StackSteps, PTL DEF Spec, RASSpec
  <1> QED
    BY <1>1, RASTypeCorrect, RASImplementsShiftStack, PTL

CallTypeOK == calls \in Seq(Ip) /\ clean \in BOOLEAN

\* A sequence without its last element.
LEMMA FrontOf ==
    ASSUME NEW S, NEW c \in Seq(S), c # <<>>
    PROVE  /\ Front(c) \in Seq(S)
           /\ Len(Front(c)) = Len(c) - 1
           /\ \A i \in 1..(Len(c) - 1) : Front(c)[i] = c[i]
  <1> DEFINE m == Len(c)
  <1>1. m \in Nat \ {0}
    BY EmptySeq, LenProperties
  <1>2. \A i \in 1..m : c[i] \in S
    BY ElementOfSeq
  <1>3. Front(c) = SubSeq(c, 1, m - 1)
    BY DEF Front
  <1> HIDE DEF m
  <1>4. /\ 1 \in 1..(m + 1) /\ m - 1 \in (1 - 1)..m
    BY <1>1
  <1>5. /\ SubSeq(c, 1, m - 1) \in Seq(S)
        /\ Len(SubSeq(c, 1, m - 1)) = IF 1 <= m - 1 THEN (m - 1) - 1 + 1 ELSE 0
        /\ \A i \in 1..((m - 1) - 1 + 1) : SubSeq(c, 1, m - 1)[i] = c[1 + i - 1]
    BY <1>1, <1>2, <1>4, SubSeqProperties DEF m
  <1>6. Len(Front(c)) = m - 1
    BY <1>1, <1>3, <1>5
  <1>7. ASSUME NEW i \in 1..(m - 1) PROVE Front(c)[i] = c[i]
    <2>1. i \in 1..((m - 1) - 1 + 1) /\ 1 + i - 1 = i
      BY <1>1
    <2> QED
      BY <1>3, <1>5, <2>1
  <1> QED
    BY <1>3, <1>5, <1>6, <1>7 DEF m

\* Every step keeps the types of the call stack that the trace implies.
LEMMA CallTypeStep ==
    BTBTypeOK /\ CallTypeOK /\ [Next]_vars => CallTypeOK'
  <1> SUFFICES ASSUME BTBTypeOK, CallTypeOK, [Next]_vars
               PROVE  CallTypeOK'
    OBVIOUS
  <1>1. ASSUME NEW ip \in Ip, SpecPrediction(ip)
        PROVE  CallTypeOK'
    BY <1>1 DEF SpecPrediction, CallTypeOK
  <1>2. ASSUME NEW ip \in Ip, TracePrediction(ip)
        PROVE  CallTypeOK'
    <2>1. Append(calls, ip) \in Seq(Ip)
      BY AppendProperties DEF CallTypeOK
    <2> QED
      BY <1>2, <2>1 DEF TracePrediction, CallTypeOK
  <1>3. ASSUME NEW target \in Target \cup {0}, NEW taken \in BOOLEAN,
               TraceUpdate(target, taken)
        PROVE  CallTypeOK'
    <2>1. calls # <<>> => Front(calls) \in Seq(Ip)
      BY FrontOf DEF CallTypeOK
    <2>2. clean' = clean
      BY <1>3 DEF TraceUpdate, update_btb
    <2> QED
      BY <1>3, <2>1, <2>2 DEF TraceUpdate, CallTypeOK
  <1>4. CASE Cycle \/ dump_stt_write_stats \/ UNCHANGED vars
    BY <1>4 DEF Cycle, dump_stt_write_stats, vars, callHistory, CallTypeOK
  <1> QED
    BY <1>1, <1>2, <1>3, <1>4 DEF Next

\* All variables of the BTB, its statistics and its stack keep their types;
\* mot_stats is never indexed outside its zones and buckets.
THEOREM TypeCorrect == Spec => []TypeOK
  <1>1. Init => CallTypeOK
    BY EmptySeq DEF Init, CallTypeOK
  <1>2. BooksInv => BTBTypeOK
    BY DEF BooksInv, LRUInv
  <1>3. BooksInv /\ CallTypeOK /\ RASTypeOK => TypeOK
    BY DEF BooksInv, LRUInv, StatTypeOK, CallTypeOK, TypeOK
  <1> QED
    BY <1>1, <1>2, <1>3, BooksInit, BooksStep, CallTypeStep, StackImplemented, PTL DEF Spec

\* Besides what is on the stack: a clean run never had more calls pending
\* than the stack has slots.
WithinStack == clean => Len(calls) <= BASIC_BTB_RAS_SIZE

StackInv == RASTypeOK /\ BTBTypeOK /\ CallTypeOK /\ WithinStack /\ StackFollowsTrace

\* The stack holds the sequence c of calls, the last of them on top.
Holds(view, c) ==
    \A k \in Slot : view[k] = IF k < Len(c) THEN c[Len(c) - k] ELSE 0

\* A push keeps up with a call ...
LEMMA PushFollows ==
    ASSUME RASTypeOK, NEW ip \in Ip, push_basic_btb_ras(ip),
           NEW c \in Seq(Ip), Holds(StackView, c)
    PROVE  Holds(StackView', Append(c, ip))
  <1> DEFINE m == Len(c)
             d == Append(c, ip)
             v == StackView
  <1>1. m \in Nat
    BY LenProperties
  <1>2. /\ Len(d) = m + 1
        /\ \A i \in 1..m : d[i] = c[i]
        /\ d[m + 1] = ip
    BY AppendProperties
  <1>3. v' = [k \in Slot |-> IF k = 0 THEN ip ELSE v[k - 1]]
    BY PushStep DEF Stack!Push, Stack!Position, Slot
  <1>4. \A k \in Slot : v[k] = IF k < m THEN c[m - k] ELSE 0
    BY DEF Holds
  <1>5. \A k \in Slot : k \in Nat /\ (k # 0 => k - 1 \in Slot)
    BY RASAssumption DEF Slot
  <1> HIDE DEF m, d, v
  <1>6. ASSUME NEW k \in Slot
        PROVE  v'[k] = IF k < m + 1 THEN d[(m + 1) - k] ELSE 0
    <2>1. CASE k = 0
      <3>1. (m + 1) - 0 = m + 1 /\ 0 < m + 1
        BY <1>1
      <3> QED
        BY <1>2, <1>3, <2>1, <3>1
    <2>2. CASE k # 0
      <3>1. k \in Nat /\ k - 1 \in Slot /\ v'[k] = v[k - 1]
        BY <1>3, <1>5, <2>2
      <3>2. v[k - 1] = IF k - 1 < m THEN c[m - (k - 1)] ELSE 0
        BY <1>4, <3>1
      <3>3. CASE k < m + 1
        <4>1. k - 1 < m /\ m - (k - 1) = (m + 1) - k /\ (m + 1) - k \in 1..m
          BY <1>1, <2>2, <3>1, <3>3
        <4> QED
          BY <1>2, <3>1, <3>2, <3>3, <4>1
      <3>4. CASE ~(k < m + 1)
        <4>1. ~(k - 1 < m)
          BY <1>1, <3>1, <3>4
        <4> QED
          BY <3>1, <3>2, <3>4, <4>1
      <3> QED
        BY <3>3, <3>4
    <2> QED
      BY <2>1, <2>2
  <1>7. \A k \in Slot : v'[k] = IF k < Len(d) THEN d[Len(d) - k] ELSE 0
    BY <1>2, <1>6
  <1> QED
    BY <1>7 DEF Holds, d, v

\* ... and a pop with a return, unless the calls overflowed the stack.
LEMMA PopFollows ==
    ASSUME RASTypeOK, pop_basic_btb_ras,
           NEW c \in Seq(Ip), Len(c) <= BASIC_BTB_RAS_SIZE, Holds(StackView, c)
    PROVE  Holds(StackView', IF c # <<>> THEN Front(c) ELSE c)
  <1> DEFINE n == BASIC_BTB_RAS_SIZE
             m == Len(c)
             d == IF c # <<>> THEN Front(c) ELSE c
             v == StackView
  <1>1. m \in Nat /\ n \in Nat \ {0} /\ m <= n
    BY LenProperties, RASAssumption
  <1>2. CASE c # <<>>
    <2>1. /\ m # 0
          /\ Len(d) = m - 1
          /\ \A i \in 1..(m - 1) : d[i] = c[i]
      BY <1>2, FrontOf, EmptySeq
    <2>2. v' = [k \in Slot |-> IF k = n - 1 THEN 0 ELSE v[k + 1]]
      BY PopStep DEF Stack!Pop, Stack!Position, Slot
    <2>3. \A k \in Slot : v[k] = IF k < m THEN c[m - k] ELSE 0
      BY DEF Holds
    <2>4. \A k \in Slot : k \in Nat /\ k <= n - 1 /\ (k # n - 1 => k + 1 \in Slot)
      BY RASAssumption DEF Slot
    <2> HIDE DEF m, d, v, n
    <2>5. ASSUME NEW k \in Slot
          PROVE  v'[k] = IF k < m - 1 THEN d[(m - 1) - k] ELSE 0
      <3>1. CASE k = n - 1
        <4>1. ~(k < m - 1)
          BY <1>1, <3>1
        <4> QED
          BY <2>2, <3>1, <4>1
      <3>2. CASE k # n - 1
        <4>1. k \in Nat /\ k + 1 \in Slot /\ v'[k] = v[k + 1]
          BY <2>2, <2>4, <3>2
        <4>2. v[k + 1] = IF k + 1 < m THEN c[m - (k + 1)] ELSE 0
          BY <2>3, <4>1
        <4>3. CASE k < m - 1
          <5>1. k + 1 < m /\ m - (k + 1) = (m - 1) - k /\ (m - 1) - k \in 1..(m - 1)
            BY <1>1, <4>1, <4>3
          <5> QED
            BY <2>1, <4>1, <4>2, <4>3, <5>1
        <4>4. CASE ~(k < m - 1)
          <5>1. ~(k + 1 < m)
            BY <1>1, <4>1, <4>4
          <5> QED
            BY <4>1, <4>2, <4>4, <5>1
        <4> QED
          BY <4>3, <4>4
      <3> QED
        BY <3>1, <3>2
    <2>6. \A k \in Slot : v'[k] = IF k < Len(d) THEN d[Len(d) - k] ELSE 0
      BY <2>1, <2>5
    <2> QED
      BY <2>6 DEF Holds, d, v
  <1>3. CASE c = <<>>
    <2>1. m = 0 /\ d = c
      BY <1>3, EmptySeq
    <2>2. v' = [k \in Slot |-> IF k = n - 1 THEN 0 ELSE v[k + 1]]
      BY PopStep DEF Stack!Pop, Stack!Position, Slot
    <2>3. \A k \in Slot : k \in Nat /\ (k # n - 1 => k + 1 \in Slot)
      BY RASAssumption DEF Slot
    <2>4. \A k \in Slot : v[k] = 0
      <3>1. \A k \in Slot : ~(k < m)
        BY <2>1, <2>3
      <3> QED
        BY <3>1 DEF Holds
    <2> HIDE DEF v, n, d
    <2>5. \A k \in Slot : v'[k] = 0
      BY <2>2, <2>3, <2>4
    <2>6. \A k \in Slot : ~(k < Len(c))
      BY <2>1, <2>3
    <2>7. Holds(v', d)
      BY <2>1, <2>5, <2>6 DEF Holds
    <2> QED
      BY <2>7 DEF v, d
  <1> QED
    BY <1>2, <1>3

\* A call pushes on both stacks and a return pops both, so as long as the
\* depth stays within the buffer their tops agree.
LEMMA FollowingStep ==
    StackInv /\ [Next]_vars => WithinStack' /\ StackFollowsTrace'
  <1> SUFFICES ASSUME StackInv, [Next]_vars
               PROVE  WithinStack' /\ StackFollowsTrace'
    OBVIOUS
  <1>1. RASTypeOK /\ BTBTypeOK /\ CallTypeOK /\ WithinStack
    BY DEF StackInv
  <1>2. clean => Holds(StackView, calls) /\ Len(calls) <= BASIC_BTB_RAS_SIZE
    BY DEF StackInv, StackFollowsTrace, Holds, WithinStack
  <1>3. SUFFICES clean' => Len(calls') <= BASIC_BTB_RAS_SIZE /\ Holds(StackView', calls')
    BY DEF WithinStack, StackFollowsTrace, Holds
  <1>4. calls \in Seq(Ip)
    BY <1>1 DEF CallTypeOK
  <1>5. CASE UNCHANGED <<rasVars, calls>> /\ (clean' => clean)
    <2>1. StackView' = StackView
      BY <1>5 DEF StackView, rasVars
    <2> QED
      BY <1>2, <1>5, <2>1
  <1>6. ASSUME NEW ip \in Ip, SpecPrediction(ip), clean'
        PROVE  UNCHANGED <<rasVars, calls>> /\ clean
    <2>1. clean /\ ~HitsCall(ip) /\ btb_prediction(ip, "NOT_BRANCH") /\ calls' = calls
      BY <1>6 DEF SpecPrediction
    <2>2. "NOT_BRANCH" \notin CallTypes
      BY DEF CallTypes
    <2>3. Hits(ip) => get_BTBentry(Home(ip), ip).branch_type \notin CallTypes
      BY <2>1 DEF HitsCall
    <2>4. UNCHANGED rasVars
      BY <2>1, <2>2, <2>3, PredictionPushes DEF PushIfCall
    <2> QED
      BY <2>1, <2>4
  <1>7. ASSUME NEW ip \in Ip, TracePrediction(ip), clean'
        PROVE  Len(calls') <= BASIC_BTB_RAS_SIZE /\ Holds(StackView', calls')
    <2>1. /\ clean /\ btb_prediction(ip, BranchType[ip])
          /\ Len(calls') <= BASIC_BTB_RAS_SIZE
          /\ Hits(ip) => HitsCall(ip) = (BranchType[ip] \in CallTypes)
          /\ calls' = IF BranchType[ip] \in CallTypes THEN Append(calls, ip) ELSE calls
      BY <1>7 DEF TracePrediction
    <2>2. /\ Hits(ip) => PushIfCall(ip, get_BTBentry(Home(ip), ip).branch_type)
          /\ ~Hits(ip) => PushIfCall(ip, BranchType[ip])
      BY <2>1, PredictionPushes
    <2>3. CASE BranchType[ip] \in CallTypes
      <3>1. Hits(ip) => get_BTBentry(Home(ip), ip).branch_type \in CallTypes
        BY <2>1, <2>3 DEF HitsCall
      <3>2. push_basic_btb_ras(ip)
        BY <2>2, <2>3, <3>1 DEF PushIfCall
      <3>3. Holds(StackView', Append(calls, ip))
        BY <1>1, <1>2, <1>4, <2>1, <3>2, PushFollows
      <3> QED
        BY <2>1, <2>3, <3>3
    <2>4. CASE BranchType[ip] \notin CallTypes
      <3>1. Hits(ip) => get_BTBentry(Home(ip), ip).branch_type \notin CallTypes
        BY <2>1, <2>4 DEF HitsCall
      <3>2. UNCHANGED rasVars
        BY <2>2, <2>4, <3>1 DEF PushIfCall
      <3>3. StackView' = StackView
        BY <3>2 DEF StackView, rasVars
      <3> QED
        BY <1>2, <2>1, <2>4, <3>3
    <2> QED
      BY <2>3, <2>4
  <1>8. ASSUME NEW target \in Target \cup {0}, NEW taken \in BOOLEAN,
               TraceUpdate(target, taken), clean'
        PROVE  Len(calls') <= BASIC_BTB_RAS_SIZE /\ Holds(StackView', calls')
    <2>1. clean
      BY <1>8 DEF TraceUpdate, update_btb
    <2>2. CASE BranchType[resolving] = "BRANCH_RETURN"
      <3>1. pop_basic_btb_ras
        BY <1>8, <2>2 DEF TraceUpdate, update_btb, ResolveReturn
      <3>2. calls' = IF calls # <<>> THEN Front(calls) ELSE calls
        BY <1>8, <2>2 DEF TraceUpdate
      <3>3. Holds(StackView', IF calls # <<>> THEN Front(calls) ELSE calls)
        BY <1>1, <1>2, <1>4, <2>1, <3>1, PopFollows
      <3>4. Len(calls') <= BASIC_BTB_RAS_SIZE
        <4>1. Len(calls) \in Nat /\ Len(calls) <= BASIC_BTB_RAS_SIZE /\ BASIC_BTB_RAS_SIZE \in Nat
          BY <1>2, <1>4, <2>1, LenProperties, RASAssumption
        <4>2. calls # <<>> => Len(Front(calls)) = Len(calls) - 1
          BY <1>4, FrontOf
        <4>3. \A a, b \in Nat : a <= b => a - 1 <= b
          OBVIOUS
        <4> QED
          BY <3>2, <4>1, <4>2, <4>3
      <3> QED
        BY <3>2, <3>3, <3>4
    <2>3. CASE BranchType[resolving] # "BRANCH_RETURN"
      <3>1. UNCHANGED <<rasVars, calls>>
        BY <1>8, <2>3 DEF TraceUpdate, update_btb
      <3> QED
        BY <1>5, <1>8, <2>1, <3>1
    <2> QED
      BY <2>2, <2>3
  <1>9. CASE Cycle \/ dump_stt_write_stats \/ UNCHANGED vars
    <2>1. UNCHANGED <<rasVars, calls, clean>>
      BY <1>9 DEF Cycle, dump_stt_write_stats, vars, callHistory
    <2> QED
      BY <1>5, <2>1
  <1> QED
    BY <1>5, <1>6, <1>7, <1>8, <1>9 DEF Next

\* Both stacks start empty.
LEMMA FollowingInit == Init => StackFollowsTrace /\ WithinStack
  <1> SUFFICES ASSUME Init
               PROVE  StackFollowsTrace /\ WithinStack
    OBVIOUS
  <1>1. calls = <<>> /\ Len(calls) = 0
    BY EmptySeq DEF Init
  <1>2. \A k \in Slot : StackView[k] = 0 /\ ~(k < 0)
    <2>1. ASSUME NEW k \in Slot PROVE StackView[k] = 0 /\ ~(k < 0)
      <3>1. 0 \in Slot /\ k \in Nat
        BY RASAssumption DEF Slot
      <3>2. (0 - k) % BASIC_BTB_RAS_SIZE \in Slot
        BY RASAssumption, SlotBelowTop, <3>1 DEF Slot
      <3>3. StackView[k] = basic_btb_ras[(0 - k) % BASIC_BTB_RAS_SIZE]
        BY DEF Init, RASInit, StackView
      <3> QED
        BY <3>1, <3>2, <3>3 DEF Init, RASInit
    <2> QED
      BY <2>1
  <1> QED
    BY <1>1, <1>2, RASAssumption DEF StackFollowsTrace, WithinStack

\* Whatever hits, misses, expires or is confused with another address, the
\* stack holds the pending calls of the trace as long as the run is clean.
THEOREM StackAlwaysFollows == Spec => []StackFollowsTrace
  <1>1. Init => BTBTypeOK /\ CallTypeOK /\ StackFollowsTrace /\ WithinStack
    BY EmptySeq, BooksInit, FollowingInit DEF Init, CallTypeOK, BooksInv, LRUInv
  <1>2. StackInv /\ [Next]_vars => WithinStack' /\ StackFollowsTrace'
    BY FollowingStep
  <1>3. RASTypeOK /\ BTBTypeOK /\ CallTypeOK /\ WithinStack /\ StackFollowsTrace => StackInv
    BY DEF StackInv
  <1> QED
    BY <1>1, <1>2, <1>3, StackImplemented, BTBTypeStep, CallTypeStep, PTL DEF Spec
=============================================================================
