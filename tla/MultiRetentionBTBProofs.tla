----------------------- MODULE MultiRetentionBTBProofs -----------------------
(***************************************************************************)
(* What holds of the BTB with promotion for any partitions, sets, ways,    *)
(* tags and branches: the invariant of MultiRetentionBTB.tla.              *)
(***************************************************************************)
EXTENDS MultiRetentionBTB, BTBProofs, SequenceTheorems

-----------------------------------------------------------------------------
(* The operators of the model.                                             *)

\* The partitions, sets and ways are numbers, and the tables cover them.
LEMMA Sizes ==
    /\ NUM_BTB_PARTITIONS \in Nat /\ NUM_BTB_PARTITIONS > 0 /\ 0 \in Partition
    /\ Partition = 0..(NUM_BTB_PARTITIONS - 1) /\ NUM_BTB_PARTITIONS - 1 \in Nat
    /\ Partition \in SUBSET Nat
    /\ \A p \in Partition : Assoc[p] \in Nat /\ Assoc[p] > 0
    /\ Ip \in SUBSET Nat /\ Target \in SUBSET Nat /\ 0 \notin Target /\ NONE \notin Ip
    /\ \A ip \in Ip : BranchType[ip] \in Types
    /\ \A ip \in Ip, target \in Target : OffsetPartition[ip][target] \in Partition
  <1>1. NUM_BTB_PARTITIONS \in Nat /\ NUM_BTB_PARTITIONS > 0
    BY PartitionAssumption
  <1>2. /\ Partition = 0..(NUM_BTB_PARTITIONS - 1) /\ NUM_BTB_PARTITIONS - 1 \in Nat
        /\ Partition \in SUBSET Nat /\ 0 \in Partition
    BY <1>1 DEF Partition
  <1>3. \A p \in Partition : Assoc[p] \in Nat /\ Assoc[p] > 0
    BY PartitionAssumption
  <1> QED
    BY <1>1, <1>2, <1>3, PartitionAssumption, RASAssumption

\* The sets of a partition are four quarters: two for zone 1, one for zone 2
\* and one for zone 3.
LEMMA ZoneBounds ==
    ASSUME NEW p \in Partition
    PROVE  \E k \in Nat :
             /\ k > 0 /\ numSets[p] = 4 * k
             /\ ZoneBase(p, 1) = 0 /\ ZoneBase(p, 2) = 2 * k /\ ZoneBase(p, 3) = 3 * k
             /\ ZoneSize(p, 1) = 2 * k /\ ZoneSize(p, 2) = k /\ ZoneSize(p, 3) = k
  <1> DEFINE n == numSets[p]
             k == n \div 4
  <1>1. n \in Nat /\ n >= 4 /\ n % 4 = 0
    BY PartitionAssumption
  <1>2. /\ ZoneBase(p, 1) = 0 /\ ZoneBase(p, 2) = n \div 2 /\ ZoneBase(p, 3) = n \div 2 + n \div 4
        /\ ZoneSize(p, 1) = n \div 2 /\ ZoneSize(p, 2) = n \div 4 /\ ZoneSize(p, 3) = n \div 4
    BY DEF ZoneBase, ZoneSize
  <1> HIDE DEF n
  <1>3. k \in Nat /\ k > 0 /\ n = 4 * k /\ n \div 2 = 2 * k /\ 2 * k + k = 3 * k
    BY <1>1
  <1> QED
    BY <1>2, <1>3 DEF n

\* An index lies in its zone, and so in no other.
LEMMA IndexIn ==
    ASSUME NEW p \in Partition
    PROVE  /\ \A ip \in Ip, z \in Zone : index(p, ip, z) \in SetOf(p)
           /\ \A ip, jp \in Ip, z, y \in Zone : index(p, ip, z) = index(p, jp, y) => z = y
  <1>1. PICK k \in Nat :
             /\ k > 0 /\ numSets[p] = 4 * k
             /\ ZoneBase(p, 1) = 0 /\ ZoneBase(p, 2) = 2 * k /\ ZoneBase(p, 3) = 3 * k
             /\ ZoneSize(p, 1) = 2 * k /\ ZoneSize(p, 2) = k /\ ZoneSize(p, 3) = k
    BY ZoneBounds
  <1>2. \A x \in Nat, m \in Nat : m > 0 => x % m \in Nat /\ x % m < m
    OBVIOUS
  <1>3. ASSUME NEW ip \in Ip
        PROVE  /\ index(p, ip, 1) \in Nat /\ index(p, ip, 1) < 2 * k
               /\ index(p, ip, 2) \in Nat /\ index(p, ip, 2) >= 2 * k /\ index(p, ip, 2) < 3 * k
               /\ index(p, ip, 3) \in Nat /\ index(p, ip, 3) >= 3 * k /\ index(p, ip, 3) < 4 * k
    <2> DEFINE x == ip \div 4
    <2>1. ip \in Nat
      BY Sizes
    <2>2. x \in Nat
      BY <2>1
    <2>3. /\ index(p, ip, 1) = 0 + (x % (2 * k)) /\ index(p, ip, 2) = 2 * k + (x % k)
          /\ index(p, ip, 3) = 3 * k + (x % k)
      BY <1>1 DEF index
    <2> HIDE DEF x
    <2>4. 2 * k \in Nat /\ 2 * k > 0
      BY <1>1
    <2>5. /\ x % (2 * k) \in Nat /\ x % (2 * k) < 2 * k
          /\ x % k \in Nat /\ x % k < k
      BY <1>1, <1>2, <2>2, <2>4
    <2> DEFINE a == x % (2 * k)
               b == x % k
    <2>6. /\ a \in Nat /\ a < 2 * k /\ b \in Nat /\ b < k
          /\ index(p, ip, 1) = 0 + a /\ index(p, ip, 2) = 2 * k + b /\ index(p, ip, 3) = 3 * k + b
      BY <2>3, <2>5
    <2> HIDE DEF a, b
    <2> QED
      BY <2>6
  <1>4. Zone = {1, 2, 3}
    BY DEF Zone
  <1>5. SetOf(p) = 0..(4 * k - 1)
    BY <1>1 DEF SetOf
  <1>6. ASSUME NEW ip \in Ip, NEW z \in Zone PROVE index(p, ip, z) \in SetOf(p)
    <2>1. \A i \in Nat : i < 4 * k => i \in 0..(4 * k - 1)
      OBVIOUS
    <2>2. \A i \in Nat : i < 2 * k \/ i < 3 * k => i < 4 * k
      OBVIOUS
    <2>3. index(p, ip, z) \in Nat /\ index(p, ip, z) < 4 * k
      BY <1>3, <1>4, <2>2
    <2> QED
      BY <1>5, <2>1, <2>3
  <1>7. ASSUME NEW ip \in Ip, NEW jp \in Ip, NEW z \in Zone, NEW y \in Zone,
               index(p, ip, z) = index(p, jp, y)
        PROVE  z = y
    <2>1. \A i \in Nat : /\ ~(i < 2 * k /\ i >= 2 * k) /\ ~(i < 2 * k /\ i >= 3 * k)
                         /\ ~(i < 3 * k /\ i >= 3 * k)
      OBVIOUS
    <2> QED
      BY <1>3, <1>4, <1>7, <2>1
  <1> QED
    BY <1>6, <1>7

\* What is left of a set when the entry in position k has gone.
LEMMA Removed ==
    ASSUME NEW S, NEW t \in Seq(S), NEW k \in 1..Len(t)
    PROVE  /\ RemoveAt(t, k) \in Seq(S) /\ Len(RemoveAt(t, k)) = Len(t) - 1
           /\ \A w \in 1..(Len(t) - 1) : RemoveAt(t, k)[w] = IF w < k THEN t[w] ELSE t[w + 1]
  <1> DEFINE l == Len(t)
             a == SubSeq(t, 1, k - 1)
             b == SubSeq(t, k + 1, l)
  <1>1. l \in Nat /\ k \in Nat /\ 1 <= k /\ k <= l /\ \A i \in 1..l : t[i] \in S
    BY LenProperties, ElementOfSeq
  <1> HIDE DEF l
  <1>2. /\ k - 1 \in Int /\ k + 1 \in Int /\ l \in Int /\ 1 \in Int
        /\ \A i \in 1..(k - 1) : t[i] \in S /\ \A j \in (k + 1)..l : t[j] \in S
    BY <1>1
  <1>3. /\ a \in Seq(S) /\ Len(a) = (IF 1 <= k - 1 THEN (k - 1) - 1 + 1 ELSE 0)
        /\ \A i \in 1..((k - 1) - 1 + 1) : a[i] = t[1 + i - 1]
    BY <1>1, <1>2, SubSeqProperties
  <1>4. /\ b \in Seq(S) /\ Len(b) = (IF k + 1 <= l THEN l - (k + 1) + 1 ELSE 0)
        /\ \A i \in 1..(l - (k + 1) + 1) : b[i] = t[(k + 1) + i - 1]
    BY <1>1, <1>2, SubSeqProperties
  <1> HIDE DEF a, b
  <1>5. Len(a) = k - 1 /\ Len(b) = l - k
    BY <1>1, <1>3, <1>4
  <1>6. RemoveAt(t, k) = a \o b
    BY DEF RemoveAt, a, b, l
  <1>7. /\ a \o b \in Seq(S) /\ Len(a \o b) = Len(a) + Len(b)
        /\ \A i \in 1..(Len(a) + Len(b)) : (a \o b)[i] = IF i <= Len(a) THEN a[i] ELSE b[i - Len(a)]
    BY <1>3, <1>4, ConcatProperties
  <1>8. Len(a) + Len(b) = l - 1
    BY <1>1, <1>5
  <1>9. ASSUME NEW w \in 1..(l - 1)
        PROVE  (a \o b)[w] = IF w < k THEN t[w] ELSE t[w + 1]
    <2>1. (a \o b)[w] = IF w <= k - 1 THEN a[w] ELSE b[w - (k - 1)]
      BY <1>5, <1>7, <1>8
    <2>2. CASE w < k
      <3>1. w \in 1..((k - 1) - 1 + 1) /\ 1 + w - 1 = w /\ w <= k - 1
        BY <1>1, <2>2
      <3> QED
        BY <1>3, <2>1, <2>2, <3>1
    <2>3. CASE ~(w < k)
      <3>1. /\ w - (k - 1) \in 1..(l - (k + 1) + 1) /\ (k + 1) + (w - (k - 1)) - 1 = w + 1
            /\ ~(w <= k - 1)
        BY <1>1, <2>3
      <3> QED
        BY <1>4, <2>1, <2>3, <3>1
    <2> QED
      BY <2>2, <2>3
  <1> QED
    BY <1>6, <1>7, <1>8, <1>9 DEF l

-----------------------------------------------------------------------------
(* The invariant.                                                          *)

\* Branch ip wrote the entry in way w of set s of partition p last.
Owns(btb, ip, p, s, w) ==
    /\ p \in Partition /\ s \in SetOf(p) /\ w \in DOMAIN btb[p][s]
    /\ btb[p][s][w].owner = ip

\* An entry lies where a lookup of the branch that wrote it looks for it, and
\* wears a cell of its set.
WellPlaced(btb) ==
    \A p \in Partition : \A s \in SetOf(p) : \A w \in DOMAIN btb[p][s] :
        /\ btb[p][s][w].tag = Tag[p][btb[p][s][w].owner]
        /\ s = index(p, btb[p][s][w].owner, btb[p][s][w].zone_id)
        /\ btb[p][s][w].way_id \in Way(p)

\* A branch no other is confused with has one entry at most.
OnePlace(btb) ==
    \A ip \in Unconfused, p, q \in Partition : \A s \in SetOf(p), r \in SetOf(q) :
    \A w \in DOMAIN btb[p][s], v \in DOMAIN btb[q][r] :
        Owns(btb, ip, p, s, w) /\ Owns(btb, ip, q, r, v) => p = q /\ s = r /\ w = v

\* A set holds no more entries than it has ways.
WithinWays(btb) == \A p \in Partition : \A s \in SetOf(p) : Len(btb[p][s]) <= Assoc[p]

BTBInv ==
    /\ TypeOK
    /\ theBTB = [p \in Partition |-> theBTB[p]]
    /\ write_counts = [p \in Partition |-> write_counts[p]]
    /\ WithinWays(theBTB)
    /\ WellPlaced(theBTB)
    /\ OnePlace(theBTB)

-----------------------------------------------------------------------------
(* What the operations do to a set.                                        *)

\* The first n entries of u were in t, none of them in the ways out.
Old(u, n, t, out) ==
    \E g \in [1..n -> DOMAIN t \ out] :
        /\ \A v, w \in 1..n : g[v] = g[w] => v = w
        /\ \A w \in 1..n : u[w] = t[g[w]]

\* All entries of u were, or all but the last, which is the entry e.
Kept(u, t, out) == Old(u, Len(u), t, out)
AddedTo(u, t, out, e) == Len(u) > 0 /\ u[Len(u)] = e /\ Old(u, Len(u) - 1, t, out)

\* A set keeps all entries if nothing happens to it,
LEMMA SameKept ==
    ASSUME NEW S, NEW t \in Seq(S)
    PROVE  Kept(t, t, {})
  <1> DEFINE g == [w \in 1..Len(t) |-> w]
  <1>1. DOMAIN t = 1..Len(t)
    BY LenProperties
  <1>2. g \in [1..Len(t) -> DOMAIN t \ {}]
    BY <1>1
  <1>3. /\ \A v, w \in 1..Len(t) : g[v] = g[w] => v = w
        /\ \A w \in 1..Len(t) : t[w] = t[g[w]]
    OBVIOUS
  <1> QED
    BY <1>2, <1>3 DEF Kept, Old

\* all but the one that is erased,
LEMMA RemovedKept ==
    ASSUME NEW S, NEW t \in Seq(S), NEW k \in 1..Len(t)
    PROVE  Kept(RemoveAt(t, k), t, {k})
  <1> DEFINE l == Len(t)
             u == RemoveAt(t, k)
             g == [w \in 1..(l - 1) |-> IF w < k THEN w ELSE w + 1]
  <1>1. /\ l \in Nat /\ DOMAIN t = 1..l /\ Len(u) = l - 1 /\ k \in 1..l
        /\ \A w \in 1..(l - 1) : u[w] = IF w < k THEN t[w] ELSE t[w + 1]
    BY LenProperties, Removed
  <1> HIDE DEF l, u
  <1>2. ASSUME NEW w \in 1..(l - 1)
        PROVE  (IF w < k THEN w ELSE w + 1) \in (1..l) \ {k}
    BY <1>1
  <1>3. g \in [1..(l - 1) -> (1..l) \ {k}]
    BY <1>2
  <1>4. \A v, w \in 1..(l - 1) : g[v] = g[w] => v = w
    BY <1>1
  <1>5. \A w \in 1..(l - 1) : u[w] = t[g[w]]
    BY <1>1
  <1> HIDE DEF g
  <1>6. Old(u, l - 1, t, {k})
    BY <1>1, <1>3, <1>4, <1>5 DEF Old
  <1> QED
    BY <1>1, <1>6 DEF Kept, u

\* all but the oldest when one is added and there is no way left,
LEMMA AppendedAdded ==
    ASSUME NEW S, NEW t \in Seq(S), NEW e \in S, NEW ways \in Nat, ways > 0, Len(t) <= ways
    PROVE  LET u == Append(IF Len(t) >= ways THEN Tail(t) ELSE t, e)
           IN  u \in Seq(S) /\ Len(u) <= ways /\ AddedTo(u, t, {}, e)
  <1> DEFINE l == Len(t)
             rest == IF l >= ways THEN Tail(t) ELSE t
             d == IF l >= ways THEN 1 ELSE 0
             u == Append(rest, e)
             g == [w \in 1..(l - d) |-> w + d]
  <1>1. l \in Nat /\ DOMAIN t = 1..l /\ l <= ways
    BY LenProperties
  <1>2. rest \in Seq(S) /\ Len(rest) = l - d /\ \A w \in 1..(l - d) : rest[w] = t[w + d]
    <2>1. CASE l >= ways
      <3>1. t # <<>> /\ d = 1
        BY <1>1, <2>1, EmptySeq
      <3> QED
        BY <2>1, <3>1, HeadTailProperties
    <2>2. CASE ~(l >= ways)
      <3>1. d = 0 /\ rest = t /\ l - 0 = l
        BY <1>1, <2>2
      <3>2. \A w \in 1..l : w + 0 = w
        OBVIOUS
      <3> HIDE DEF d, rest, l
      <3> QED
        BY <3>1, <3>2 DEF l
    <2> QED
      BY <2>1, <2>2
  <1>3. d \in Nat /\ d <= l /\ l - d \in Nat /\ (l - d) + 1 <= ways
    BY <1>1
  <1> HIDE DEF l, d, rest
  <1>4. /\ u \in Seq(S) /\ Len(u) = (l - d) + 1 /\ u[(l - d) + 1] = e
        /\ \A w \in 1..(l - d) : u[w] = rest[w]
    BY <1>2, AppendProperties
  <1> HIDE DEF u
  <1>5. g \in [1..(l - d) -> (1..l) \ {}]
    <2>1. \A w \in 1..(l - d) : w + d \in 1..l
      BY <1>1, <1>3
    <2> QED
      BY <2>1
  <1>6. \A v, w \in 1..(l - d) : g[v] = g[w] => v = w
    BY <1>3
  <1>7. \A w \in 1..(l - d) : u[w] = t[g[w]]
    BY <1>2, <1>4
  <1> HIDE DEF g
  <1>8. Len(u) - 1 = l - d /\ Len(u) > 0 /\ Len(u) <= ways
    BY <1>3, <1>4
  <1>9. Old(u, Len(u) - 1, t, {})
    BY SMTT(30), <1>1, <1>5, <1>6, <1>7, <1>8 DEF Old
  <1>10. AddedTo(u, t, {}, e)
    BY <1>4, <1>8, <1>9 DEF AddedTo
  <1> QED
    BY <1>4, <1>8, <1>10 DEF u, rest, l

\* and all but the one that is written anew.
LEMMA RewrittenAdded ==
    ASSUME NEW S, NEW t \in Seq(S), NEW k \in 1..Len(t), NEW e \in S
    PROVE  LET u == Append(RemoveAt(t, k), e)
           IN  u \in Seq(S) /\ Len(u) = Len(t) /\ AddedTo(u, t, {k}, e)
  <1> DEFINE l == Len(t)
             rest == RemoveAt(t, k)
             u == Append(rest, e)
  <1>1. l \in Nat /\ rest \in Seq(S) /\ Len(rest) = l - 1 /\ k \in 1..l
    BY LenProperties, Removed
  <1>2. Kept(rest, t, {k})
    BY RemovedKept
  <1> HIDE DEF l, rest
  <1>3. /\ u \in Seq(S) /\ Len(u) = (l - 1) + 1 /\ u[(l - 1) + 1] = e
        /\ \A w \in 1..(l - 1) : u[w] = rest[w]
    BY <1>1, AppendProperties
  <1> HIDE DEF u
  <1>4. Len(u) = l /\ l > 0 /\ (l - 1) + 1 = l
    BY <1>1, <1>3
  <1>5. Old(u, l - 1, t, {k})
    BY SMTT(30), <1>1, <1>2, <1>3 DEF Kept, Old
  <1> QED
    BY <1>3, <1>4, <1>5 DEF AddedTo, u, rest, l

-----------------------------------------------------------------------------
(* Lookups.                                                                *)

\* What a lookup that finds an entry has found.
LEMMA HomeFacts ==
    ASSUME BTBInv, NEW ip \in Ip, Holders(ip) # {}
    PROVE  /\ Home(ip) \in Partition /\ HomeZone(ip) \in Zone
           /\ index(Home(ip), ip, HomeZone(ip)) \in SetOf(Home(ip))
           /\ HomeWay(ip) \in 1..Len(ThisSet(Home(ip), ip, HomeZone(ip)))
           /\ ThisSet(Home(ip), ip, HomeZone(ip)) \in Seq(BTBEntry)
           /\ get_BTBentry(ip) \in BTBEntry /\ get_BTBentry(ip).tag = Tag[Home(ip)][ip]
           /\ \A q \in Partition, z \in Zone : q < Home(ip) => Matches(q, ip, z) = {}
           /\ \A z \in Zone : z < HomeZone(ip) => Matches(Home(ip), ip, z) = {}
  <1> DEFINE p == Home(ip)
             z == HomeZone(ip)
             t == ThisSet(p, ip, z)
  <1>1. p \in Partition /\ ZonesWith(p, ip) # {} /\ \A q \in Partition : q < p => ZonesWith(q, ip) = {}
    <2>1. Holders(ip) \in SUBSET Partition /\ Holders(ip) \in SUBSET Nat
      BY Sizes DEF Holders
    <2>2. p \in Holders(ip) /\ \A q \in Holders(ip) : p <= q
      BY <2>1, MinIn DEF Home
    <2> HIDE DEF p
    <2>3. \A q \in Partition : q < p => q \notin Holders(ip)
      <3>1. \A q \in Partition : q \in Nat /\ p \in Nat
        BY <2>1, <2>2, Sizes
      <3> QED
        BY <2>2, <3>1
    <2> QED
      BY <2>2, <2>3 DEF Holders
  <1>2. z \in Zone /\ Matches(p, ip, z) # {} /\ \A y \in Zone : y < z => Matches(p, ip, y) = {}
    <2>1. ZonesWith(p, ip) \in SUBSET Zone /\ ZonesWith(p, ip) \in SUBSET Nat
      BY DEF ZonesWith, Zone
    <2>2. z \in ZonesWith(p, ip) /\ \A y \in ZonesWith(p, ip) : z <= y
      BY <1>1, <2>1, MinIn DEF HomeZone
    <2> HIDE DEF p, z
    <2>3. \A y \in Zone : y < z => y \notin ZonesWith(p, ip)
      <3>1. \A y \in Zone : y \in Nat /\ z \in Nat
        BY <2>1, <2>2 DEF Zone
      <3> QED
        BY <2>2, <3>1
    <2> QED
      BY <2>2, <2>3 DEF ZonesWith
  <1>3. index(p, ip, z) \in SetOf(p)
    BY <1>1, <1>2, IndexIn
  <1>4. t \in Seq(BTBEntry) /\ DOMAIN t = 1..Len(t) /\ Len(t) \in Nat
    <2>1. t \in Seq(BTBEntry)
      BY <1>1, <1>3 DEF BTBInv, TypeOK, ThisSet
    <2> QED
      BY <2>1, LenProperties
  <1>5. HomeWay(ip) \in Matches(p, ip, z)
    <2>1. Matches(p, ip, z) \in SUBSET Nat
      BY <1>4 DEF Matches
    <2> QED
      BY <1>2, <2>1, MinIn DEF HomeWay
  <1>6. HomeWay(ip) \in 1..Len(t) /\ get_BTBentry(ip).tag = Tag[p][ip]
    BY <1>4, <1>5 DEF Matches, get_BTBentry
  <1>7. get_BTBentry(ip) \in BTBEntry
    BY <1>4, <1>6, ElementOfSeq DEF get_BTBentry
  <1>8. \A q \in Partition, y \in Zone : q < p => Matches(q, ip, y) = {}
    BY <1>1 DEF ZonesWith
  <1> QED
    BY <1>1, <1>2, <1>3, <1>4, <1>6, <1>7, <1>8

\* The partition an insertion goes to is one of them.
LEMMA LruPartitionIn ==
    ASSUME BTBInv, NEW ip \in Ip, NEW start \in Partition
    PROVE  get_lru_partition(start, ip) \in Partition
  <1> DEFINE P == start..(NUM_BTB_PARTITIONS - 1)
             v(p) == get_lru_value(p, ip)
             V == {v(p) : p \in P}
  <1>1. P \in SUBSET Partition /\ P \in SUBSET Nat /\ start \in P
    BY Sizes
  <1>2. ASSUME NEW p \in Partition PROVE v(p) \in Nat
    <2> DEFINE t == ThisSet(p, ip, 1)
    <2>1. index(p, ip, 1) \in SetOf(p)
      BY IndexIn DEF Zone
    <2>2. t \in Seq(BTBEntry)
      BY <2>1 DEF BTBInv, TypeOK, ThisSet
    <2>3. CASE Len(t) < Assoc[p]
      BY <2>3 DEF get_lru_value
    <2>4. CASE ~(Len(t) < Assoc[p])
      <3>1. t # <<>>
        BY <2>2, <2>4, EmptySeq, Sizes
      <3>2. Head(t) \in BTBEntry
        BY <2>2, <3>1, HeadTailProperties
      <3> QED
        BY <2>4, <3>2 DEF get_lru_value, BTBEntry
    <2> QED
      BY <2>3, <2>4
  <1>3. V \in SUBSET Nat /\ V # {}
    BY <1>1, <1>2
  <1>4. Min(V) \in V /\ \A x \in V : Min(V) <= x
    BY <1>3, MinIn
  <1> HIDE DEF P, v
  <1> DEFINE Q == {p \in P : v(p) = Min(V)}
  <1>5. Q \in SUBSET Nat /\ Q # {}
    BY <1>1, <1>4
  <1>6. Min(Q) \in Q /\ \A q \in Q : Min(Q) <= q
    BY <1>5, MinIn
  <1> DEFINE p == Min(Q)
  <1>7. p \in P /\ v(p) = Min(V)
    BY <1>6
  <1>8. \A q \in P : v(p) < v(q) \/ (v(p) = v(q) /\ p <= q)
    <2> TAKE q \in P
    <2>1. v(q) \in V /\ v(q) \in Nat /\ v(p) \in Nat /\ v(p) <= v(q)
      BY <1>1, <1>2, <1>4, <1>7
    <2>2. CASE v(q) = v(p)
      BY <1>6, <1>7, <2>2
    <2>3. CASE v(q) # v(p)
      BY <2>1, <2>3
    <2> QED
      BY <2>2, <2>3
  <1> HIDE DEF p
  <1>9. get_lru_partition(start, ip) \in P
    BY <1>7, <1>8 DEF get_lru_partition, P, v
  <1> QED
    BY <1>1, <1>9

-----------------------------------------------------------------------------
(* The taken update.                                                       *)

\* The entry that an update of ip takes away, if there is one, and its way.
Gone(ip) == IF Holders(ip) = {} THEN {} ELSE {FoundAt(ip)}
GoneFrom(ip, p, s) == {w \in DOMAIN theBTB[p][s] : <<p, s, w>> \in Gone(ip)}

\* The entry e comes last in its set, and nothing else is new anywhere.
Stores(ip, target, p, e) ==
    LET s == index(p, ip, e.zone_id)
    IN  /\ p \in Partition /\ e \in BTBEntry
        /\ e.owner = ip /\ e.target_ip = target /\ e.tag = Tag[p][ip]
        /\ e.lru = basic_btb_lru_counter /\ e.way_id \in Way(p)
        /\ AddedTo(theBTB'[p][s], theBTB[p][s], GoneFrom(ip, p, s), e)
        /\ theBTB' = [q \in Partition |-> theBTB'[q]]
        /\ \A q \in Partition : \A r \in SetOf(q) :
             /\ theBTB'[q] \in [SetOf(q) -> Seq(BTBEntry)]
             /\ Len(theBTB'[q][r]) <= Assoc[q]
             /\ q # p \/ r # s => Kept(theBTB'[q][r], theBTB[q][r], GoneFrom(ip, q, r))

\* The entry of ip lies in the zone it has been promoted to, and what it was
\* promoted from was the first a lookup found.
Advances(ip, p, e) ==
    Holders(ip) # {} =>
      /\ p = Home(ip)
      /\ e.zone_id = IF HomeZone(ip) = 3 THEN 3 ELSE HomeZone(ip) + 1

\* What is gone from a set.
LEMMA GoneIs ==
    ASSUME BTBInv, NEW ip \in Ip, NEW q \in Partition, NEW r \in SetOf(q)
    PROVE  GoneFrom(ip, q, r) =
             IF Holders(ip) # {} /\ q = Home(ip) /\ r = index(Home(ip), ip, HomeZone(ip))
             THEN {HomeWay(ip)} ELSE {}
  <1>1. CASE Holders(ip) = {}
    BY <1>1 DEF GoneFrom, Gone
  <1>2. CASE Holders(ip) # {}
    <2> DEFINE p == Home(ip)
               s == index(Home(ip), ip, HomeZone(ip))
               k == HomeWay(ip)
    <2>1. k \in DOMAIN theBTB[p][s]
      <3>1. /\ k \in 1..Len(ThisSet(Home(ip), ip, HomeZone(ip)))
            /\ ThisSet(Home(ip), ip, HomeZone(ip)) \in Seq(BTBEntry)
        BY <1>2, HomeFacts
      <3> QED
        BY <3>1, LenProperties DEF ThisSet
    <2>2. Gone(ip) = {<<p, s, k>>}
      BY <1>2 DEF Gone, FoundAt
    <2> HIDE DEF p, s, k
    <2>3. GoneFrom(ip, q, r) = IF q = p /\ r = s THEN {k} ELSE {}
      BY <2>1, <2>2 DEF GoneFrom
    <2> QED
      BY <1>2, <2>3 DEF p, s, k
  <1> QED
    BY <1>1, <1>2

\* What is stored in the sets, in the words of the invariant.
LEMMA SetFacts ==
    ASSUME BTBInv, NEW p \in Partition
    PROVE  /\ theBTB[p] \in [SetOf(p) -> Seq(BTBEntry)] /\ DOMAIN theBTB = Partition
           /\ Assoc[p] \in Nat /\ Assoc[p] > 0
           /\ \A s \in SetOf(p) : /\ theBTB[p][s] \in Seq(BTBEntry) /\ Len(theBTB[p][s]) <= Assoc[p]
                                  /\ DOMAIN theBTB[p][s] = 1..Len(theBTB[p][s])
                                  /\ Len(theBTB[p][s]) \in Nat
                                  /\ Kept(theBTB[p][s], theBTB[p][s], {})
  <1>1. theBTB[p] \in [SetOf(p) -> Seq(BTBEntry)] /\ DOMAIN theBTB = Partition
    BY DEF BTBInv, TypeOK
  <1>2. Assoc[p] \in Nat /\ Assoc[p] > 0
    BY Sizes
  <1>3. ASSUME NEW s \in SetOf(p)
        PROVE  /\ theBTB[p][s] \in Seq(BTBEntry) /\ Len(theBTB[p][s]) <= Assoc[p]
               /\ DOMAIN theBTB[p][s] = 1..Len(theBTB[p][s])
               /\ Len(theBTB[p][s]) \in Nat
               /\ Kept(theBTB[p][s], theBTB[p][s], {})
    <2>1. theBTB[p][s] \in Seq(BTBEntry)
      BY <1>1
    <2>2. Len(theBTB[p][s]) <= Assoc[p]
      BY DEF BTBInv, WithinWays
    <2> QED
      BY <2>1, <2>2, LenProperties, SameKept
  <1> QED
    BY <1>1, <1>2, <1>3

\* The cell that insert_entry writes is one of its set: an entry's way is that
\* of the one it replaced, or the number of entries there were.
LEMMA FreeWayIn ==
    ASSUME BTBInv, NEW p \in Partition, NEW s \in SetOf(p)
    PROVE  FreeWay(p, s) \in Way(p) /\ FreeWay(p, s) \in Nat
  <1> DEFINE t == theBTB[p][s]
             l == Len(t)
             n == Assoc[p]
  <1>1. t \in Seq(BTBEntry) /\ n \in Nat /\ n > 0 /\ l \in Nat /\ DOMAIN t = 1..l
    BY SetFacts
  <1>2. Way(p) = 0..(n - 1)
    BY DEF Way
  <1>3. CASE l >= n
    <2>1. 1 \in DOMAIN t
      <3> HIDE DEF l, n
      <3> QED
        BY <1>1, <1>3
    <2>2. t # <<>> /\ Head(t) = t[1]
      BY <2>1
    <2>3. t[1].way_id \in Way(p)
      BY <2>1 DEF BTBInv, WellPlaced
    <2>4. FreeWay(p, s) = t[1].way_id
      BY <1>3, <2>2 DEF FreeWay
    <2>5. \A i \in Way(p) : i \in Nat
      BY <1>2
    <2> QED
      BY <2>3, <2>4, <2>5
  <1>4. CASE ~(l >= n)
    <2>1. FreeWay(p, s) = l
      BY <1>4 DEF FreeWay
    <2> HIDE DEF l, n
    <2>2. l \in 0..(n - 1)
      BY <1>1, <1>4
    <2> QED
      BY <1>1, <1>2, <2>1, <2>2
  <1> QED
    BY <1>3, <1>4

\* The entry that insert_entry writes, and the set it writes it to.
LEMMA InsertedFacts ==
    ASSUME BTBInv, NEW p \in Partition, NEW ip \in Ip, NEW target \in Target, NEW zone \in Zone
    PROVE  \E e \in BTBEntry :
             /\ e.owner = ip /\ e.target_ip = target /\ e.tag = Tag[p][ip]
             /\ e.lru = basic_btb_lru_counter /\ e.zone_id = zone
             /\ e.way_id \in Way(p) /\ e.way_id = FreeWay(p, index(p, ip, zone))
             /\ Inserted(p, ip, target, zone) \in Seq(BTBEntry)
             /\ Len(Inserted(p, ip, target, zone)) <= Assoc[p]
             /\ AddedTo(Inserted(p, ip, target, zone), theBTB[p][index(p, ip, zone)], {}, e)
  <1> DEFINE s == index(p, ip, zone)
             t == theBTB[p][s]
             e == [tag |-> Tag[p][ip], target_ip |-> target,
                   branch_type |-> BranchType[ip], lru |-> basic_btb_lru_counter,
                   way_id |-> FreeWay(p, s), zone_id |-> zone,
                   owner |-> ip]
  <1>1. s \in SetOf(p)
    BY IndexIn
  <1>2. t \in Seq(BTBEntry) /\ Len(t) <= Assoc[p] /\ Assoc[p] \in Nat /\ Assoc[p] > 0
        /\ Len(t) \in Nat
    BY <1>1, SetFacts
  <1>3. FreeWay(p, s) \in Way(p) /\ FreeWay(p, s) \in Nat
    BY <1>1, FreeWayIn
  <1>4. e \in BTBEntry
    <2>1. Tag[p][ip] \in UNION {{Tag[q][jp] : jp \in Ip} : q \in Partition}
      OBVIOUS
    <2>2. BranchType[ip] \in Types /\ basic_btb_lru_counter \in Nat
      BY Sizes DEF BTBInv, TypeOK
    <2> QED
      BY <1>3, <2>1, <2>2 DEF BTBEntry
  <1>5. Inserted(p, ip, target, zone) = Append(IF Len(t) >= Assoc[p] THEN Tail(t) ELSE t, e)
    BY DEF Inserted
  <1>6. /\ e.owner = ip /\ e.target_ip = target /\ e.tag = Tag[p][ip]
        /\ e.lru = basic_btb_lru_counter /\ e.zone_id = zone
        /\ e.way_id \in Way(p) /\ e.way_id = FreeWay(p, s)
    BY <1>3
  <1> HIDE DEF e, t
  <1>7. /\ Inserted(p, ip, target, zone) \in Seq(BTBEntry)
        /\ Len(Inserted(p, ip, target, zone)) <= Assoc[p]
        /\ AddedTo(Inserted(p, ip, target, zone), t, {}, e)
    BY <1>2, <1>4, <1>5, AppendedAdded
  <1> QED
    BY <1>4, <1>6, <1>7 DEF t

\* A branch that misses is stored in zone 1.
LEMMA MissStores ==
    ASSUME BTBInv, NEW ip \in Ip, NEW target \in Target, UpdateMiss(ip, target)
    PROVE  \E p, e : Stores(ip, target, p, e) /\ Advances(ip, p, e) /\ e.zone_id = 1
                     /\ \A q \in Partition : \A r \in SetOf(q) :
                          q # p \/ r # index(p, ip, 1) => theBTB'[q][r] = theBTB[q][r]
  <1> DEFINE p == get_lru_partition(smallest_offset_partition_id(ip, target), ip)
             s == index(p, ip, 1)
             u == Inserted(p, ip, target, 1)
  <1>1. Holders(ip) = {} /\ theBTB' = [theBTB EXCEPT ![p][s] = u]
    BY DEF UpdateMiss
  <1>2. p \in Partition
    <2>1. smallest_offset_partition_id(ip, target) \in Partition
      BY Sizes DEF smallest_offset_partition_id
    <2> QED
      BY <2>1, LruPartitionIn
  <1> HIDE DEF p
  <1>3. 1 \in Zone /\ s \in SetOf(p)
    BY <1>2, IndexIn DEF Zone
  <1>4. PICK e \in BTBEntry :
             /\ e.owner = ip /\ e.target_ip = target /\ e.tag = Tag[p][ip]
             /\ e.lru = basic_btb_lru_counter /\ e.zone_id = 1 /\ e.way_id \in Way(p)
             /\ u \in Seq(BTBEntry) /\ Len(u) <= Assoc[p]
             /\ AddedTo(u, theBTB[p][s], {}, e)
    BY <1>2, <1>3, InsertedFacts
  <1> HIDE DEF u
  <1>5. \A q \in Partition : \A r \in SetOf(q) :
          /\ theBTB'[q] \in [SetOf(q) -> Seq(BTBEntry)]
          /\ theBTB'[q][r] = IF q = p /\ r = s THEN u ELSE theBTB[q][r]
    BY <1>1, <1>2, <1>3, <1>4, SetFacts
  <1>6. theBTB' = [q \in Partition |-> theBTB'[q]]
    BY <1>1 DEF BTBInv
  <1>7. \A q \in Partition : \A r \in SetOf(q) : GoneFrom(ip, q, r) = {}
    BY <1>1, GoneIs
  <1>8. Stores(ip, target, p, e)
    <2>1. ASSUME NEW q \in Partition, NEW r \in SetOf(q)
          PROVE  /\ Len(theBTB'[q][r]) <= Assoc[q]
                 /\ q # p \/ r # s => Kept(theBTB'[q][r], theBTB[q][r], GoneFrom(ip, q, r))
      <3>1. CASE q = p /\ r = s
        BY <1>4, <1>5, <3>1
      <3>2. CASE ~(q = p /\ r = s)
        <4>1. theBTB'[q][r] = theBTB[q][r] /\ GoneFrom(ip, q, r) = {}
          BY <1>5, <1>7, <3>2
        <4> QED
          BY <4>1, SetFacts
      <3> QED
        BY <3>1, <3>2
    <2>2. AddedTo(theBTB'[p][s], theBTB[p][s], GoneFrom(ip, p, s), e)
      BY <1>2, <1>3, <1>4, <1>5, <1>7
    <2> QED
      BY <1>2, <1>4, <1>5, <1>6, <2>1, <2>2 DEF Stores
  <1>9. Advances(ip, p, e)
    BY <1>1 DEF Advances
  <1> QED
    BY <1>4, <1>5, <1>8, <1>9

\* A branch that hits below zone 3 is stored in the next zone.
LEMMA PromoteStores ==
    ASSUME BTBInv, NEW ip \in Ip, NEW target \in Target, Promote(ip, target)
    PROVE  \E p, e : Stores(ip, target, p, e) /\ Advances(ip, p, e)
  <1> DEFINE p == Home(ip)
             zone == HomeZone(ip)
             r == index(p, ip, zone)
             s == index(p, ip, zone + 1)
             k == HomeWay(ip)
             u == Inserted(p, ip, target, zone + 1)
             t == theBTB[p][r]
  <1>1. Holders(ip) # {} /\ zone < 3
        /\ theBTB' = [theBTB EXCEPT ![p][r] = RemoveAt(@, k), ![p][s] = u]
    BY DEF Promote
  <1>2. /\ p \in Partition /\ zone \in Zone /\ r \in SetOf(p) /\ k \in 1..Len(t)
        /\ t \in Seq(BTBEntry)
    BY <1>1, HomeFacts DEF ThisSet
  <1> HIDE DEF p, zone, k
  <1>3. zone + 1 \in Zone /\ zone # zone + 1 /\ zone # 3
    BY <1>1, <1>2 DEF Zone
  <1>4. s \in SetOf(p) /\ r # s
    BY <1>2, <1>3, IndexIn
  <1>5. PICK e \in BTBEntry :
             /\ e.owner = ip /\ e.target_ip = target /\ e.tag = Tag[p][ip]
             /\ e.lru = basic_btb_lru_counter /\ e.zone_id = zone + 1 /\ e.way_id \in Way(p)
             /\ u \in Seq(BTBEntry) /\ Len(u) <= Assoc[p]
             /\ AddedTo(u, theBTB[p][s], {}, e)
    BY <1>2, <1>3, InsertedFacts
  <1> DEFINE v == RemoveAt(t, k)
  <1>6. v \in Seq(BTBEntry) /\ Len(v) = Len(t) - 1 /\ Kept(v, t, {k})
    BY <1>2, Removed, RemovedKept
  <1> HIDE DEF u
  <1>7. theBTB' = [theBTB EXCEPT ![p] = [theBTB[p] EXCEPT ![r] = v, ![s] = u]]
    BY <1>1, <1>2, SetFacts
  <1> HIDE DEF v, r, s
  <1>8. \A q \in Partition : \A x \in SetOf(q) :
          /\ theBTB'[q] \in [SetOf(q) -> Seq(BTBEntry)]
          /\ theBTB'[q][x] = IF q = p /\ x = s THEN u
                             ELSE IF q = p /\ x = r THEN v ELSE theBTB[q][x]
    BY <1>2, <1>4, <1>5, <1>6, <1>7, SetFacts
  <1>9. theBTB' = [q \in Partition |-> theBTB'[q]]
    BY <1>7 DEF BTBInv
  <1>10. \A q \in Partition : \A x \in SetOf(q) :
           GoneFrom(ip, q, x) = IF q = p /\ x = r THEN {k} ELSE {}
    BY <1>1, GoneIs DEF p, zone, r, k
  <1>11. Stores(ip, target, p, e)
    <2>1. ASSUME NEW q \in Partition, NEW x \in SetOf(q)
          PROVE  /\ Len(theBTB'[q][x]) <= Assoc[q]
                 /\ q # p \/ x # s => Kept(theBTB'[q][x], theBTB[q][x], GoneFrom(ip, q, x))
      <3>1. CASE q = p /\ x = s
        BY <1>5, <1>8, <3>1
      <3>2. CASE q = p /\ x = r
        <4>1. Len(v) <= Assoc[q]
          <5>1. Len(t) \in Nat /\ Len(t) <= Assoc[p] /\ Assoc[p] \in Nat
            BY <1>2, SetFacts
          <5> QED
            BY <1>6, <3>2, <5>1
        <4>2. theBTB'[q][x] = v /\ GoneFrom(ip, q, x) = {k} /\ theBTB[q][x] = t
          BY <1>4, <1>8, <1>10, <3>2
        <4> QED
          BY <1>6, <4>1, <4>2
      <3>3. CASE ~(q = p /\ (x = s \/ x = r))
        BY <1>8, <1>10, <3>3, SetFacts
      <3> QED
        BY <3>1, <3>2, <3>3
    <2>2. AddedTo(theBTB'[p][s], theBTB[p][s], GoneFrom(ip, p, s), e)
      BY <1>2, <1>4, <1>5, <1>8, <1>10
    <2>3. s = index(p, ip, e.zone_id)
      BY <1>5 DEF s
    <2> QED
      BY <1>2, <1>5, <1>8, <1>9, <2>1, <2>2, <2>3 DEF Stores
  <1>12. Advances(ip, p, e)
    BY <1>3, <1>5 DEF Advances, p, zone
  <1> QED
    BY <1>11, <1>12

\* A branch that hits in zone 3 is stored where it was.
LEMMA RewriteStores ==
    ASSUME BTBInv, NEW ip \in Ip, NEW target \in Target, RewriteInPlace(ip, target)
    PROVE  \E p, e : Stores(ip, target, p, e) /\ Advances(ip, p, e)
  <1> DEFINE p == Home(ip)
             s == index(p, ip, 3)
             k == HomeWay(ip)
             t == theBTB[p][s]
             e == [get_BTBentry(ip) EXCEPT
                     !.branch_type = BranchType[ip],
                     !.target_ip = IF target # 0 THEN target ELSE @,
                     !.lru = basic_btb_lru_counter,
                     !.owner = ip]
             u == Append(RemoveAt(t, k), e)
  <1>1. /\ Holders(ip) # {} /\ HomeZone(ip) = 3
        /\ theBTB' = [theBTB EXCEPT ![p][s] = Append(RemoveAt(@, k), e)]
    BY DEF RewriteInPlace
  <1>2. /\ p \in Partition /\ s \in SetOf(p) /\ k \in 1..Len(t) /\ t \in Seq(BTBEntry)
        /\ get_BTBentry(ip) \in BTBEntry /\ get_BTBentry(ip).tag = Tag[p][ip]
        /\ 3 \in Zone
    BY <1>1, HomeFacts DEF ThisSet
  <1>3. get_BTBentry(ip).zone_id = 3 /\ get_BTBentry(ip).way_id \in Way(p)
    <2>1. get_BTBentry(ip) = t[k] /\ k \in DOMAIN t
      BY <1>1, <1>2, LenProperties DEF get_BTBentry, ThisSet
    <2>2. /\ s = index(p, t[k].owner, t[k].zone_id) /\ t[k].owner \in Ip /\ t[k].zone_id \in Zone
          /\ t[k].way_id \in Way(p)
      BY <1>2, <2>1 DEF BTBInv, WellPlaced, BTBEntry
    <2> QED
      BY <1>2, <2>1, <2>2, IndexIn
  <1>4. /\ e \in BTBEntry /\ e.owner = ip /\ e.target_ip = target /\ e.tag = Tag[p][ip]
        /\ e.lru = basic_btb_lru_counter /\ e.zone_id = 3 /\ e.way_id \in Way(p)
    <2> DEFINE old == get_BTBentry(ip)
    <2>1. target # 0 /\ BranchType[ip] \in Types /\ basic_btb_lru_counter \in Nat
      BY Sizes DEF BTBInv, TypeOK
    <2>2. /\ old.tag \in UNION {{Tag[q][jp] : jp \in Ip} : q \in Partition}
          /\ old.way_id \in Way(p) /\ old.zone_id = 3 /\ old.tag = Tag[p][ip]
          /\ DOMAIN old = {"tag", "target_ip", "branch_type", "lru", "way_id", "zone_id", "owner"}
      BY <1>2, <1>3 DEF BTBEntry
    <2> HIDE DEF old
    <2>3. e = [old EXCEPT !.branch_type = BranchType[ip], !.target_ip = target,
                          !.lru = basic_btb_lru_counter, !.owner = ip]
      BY <2>1 DEF old
    <2>4. old \in BTBEntry
      BY <1>2 DEF old
    <2> HIDE DEF e
    <2>5. e \in BTBEntry
      BY <2>1, <2>3, <2>4 DEF BTBEntry
    <2>6. /\ e.owner = ip /\ e.target_ip = target /\ e.tag = old.tag
          /\ e.lru = basic_btb_lru_counter /\ e.zone_id = old.zone_id /\ e.way_id = old.way_id
      BY <2>2, <2>3
    <2> QED
      BY <2>2, <2>5, <2>6
  <1> HIDE DEF p, k, e
  <1>5. u \in Seq(BTBEntry) /\ Len(u) = Len(t) /\ AddedTo(u, t, {k}, e)
    BY <1>2, <1>4, RewrittenAdded
  <1>6. theBTB' = [theBTB EXCEPT ![p] = [theBTB[p] EXCEPT ![s] = u]]
    BY <1>1, <1>2, SetFacts
  <1> HIDE DEF u, s
  <1>7. \A q \in Partition : \A x \in SetOf(q) :
          /\ theBTB'[q] \in [SetOf(q) -> Seq(BTBEntry)]
          /\ theBTB'[q][x] = IF q = p /\ x = s THEN u ELSE theBTB[q][x]
    BY <1>2, <1>5, <1>6, SetFacts
  <1>8. theBTB' = [q \in Partition |-> theBTB'[q]]
    BY <1>6 DEF BTBInv
  <1>9. \A q \in Partition : \A x \in SetOf(q) :
          GoneFrom(ip, q, x) = IF q = p /\ x = s THEN {k} ELSE {}
    BY <1>1, GoneIs DEF p, s, k
  <1>10. Stores(ip, target, p, e)
    <2>1. \A q \in Partition : \A x \in SetOf(q) :
            /\ Len(theBTB'[q][x]) <= Assoc[q]
            /\ q # p \/ x # s => Kept(theBTB'[q][x], theBTB[q][x], GoneFrom(ip, q, x))
      BY <1>5, <1>7, <1>9, SetFacts
    <2>2. AddedTo(theBTB'[p][s], theBTB[p][s], GoneFrom(ip, p, s), e)
      BY <1>2, <1>5, <1>7, <1>9
    <2>3. s = index(p, ip, e.zone_id)
      BY <1>4 DEF s
    <2> QED
      BY <1>2, <1>4, <1>7, <1>8, <2>1, <2>2, <2>3 DEF Stores
  <1>11. Advances(ip, p, e)
    BY <1>1, <1>4 DEF Advances, p
  <1> QED
    BY <1>10, <1>11

-----------------------------------------------------------------------------
(* The invariant after a taken update.                                     *)

\* What a branch no other is confused with has written is what a lookup of it
\* finds.
LEMMA OwnedIsFound ==
    ASSUME BTBInv, NEW ip \in Unconfused,
           NEW q, NEW r, NEW w, Owns(theBTB, ip, q, r, w)
    PROVE  /\ Holders(ip) # {} /\ q = Home(ip)
           /\ r = index(Home(ip), ip, HomeZone(ip)) /\ w = HomeWay(ip)
           /\ w \in GoneFrom(ip, q, r)
  <1> DEFINE p == Home(ip)
             s == index(p, ip, HomeZone(ip))
             k == HomeWay(ip)
  <1>1. /\ q \in Partition /\ r \in SetOf(q) /\ w \in DOMAIN theBTB[q][r]
        /\ theBTB[q][r][w].owner = ip /\ ip \in Ip
    BY DEF Owns, Unconfused
  <1>2. theBTB[q][r][w] \in BTBEntry
    <2>1. theBTB[q][r] \in Seq(BTBEntry) /\ DOMAIN theBTB[q][r] = 1..Len(theBTB[q][r])
      BY <1>1, SetFacts
    <2> QED
      BY <1>1, <2>1, ElementOfSeq
  <1> DEFINE z == theBTB[q][r][w].zone_id
  <1>3. z \in Zone /\ theBTB[q][r][w].tag = Tag[q][ip] /\ r = index(q, ip, z)
    BY <1>1, <1>2 DEF BTBEntry, BTBInv, WellPlaced
  <1>4. Holders(ip) # {}
    <2>1. w \in Matches(q, ip, z)
      BY <1>1, <1>3 DEF Matches, ThisSet
    <2>2. z \in ZonesWith(q, ip)
      BY <1>3, <2>1 DEF ZonesWith
    <2> QED
      BY <1>1, <2>2 DEF Holders
  <1>5. /\ p \in Partition /\ s \in SetOf(p) /\ k \in DOMAIN theBTB[p][s]
        /\ theBTB[p][s][k].tag = Tag[p][ip] /\ theBTB[p][s][k] \in BTBEntry
    <2>1. /\ p \in Partition /\ s \in SetOf(p) /\ k \in 1..Len(theBTB[p][s])
          /\ theBTB[p][s] \in Seq(BTBEntry)
          /\ get_BTBentry(ip).tag = Tag[p][ip]
          /\ get_BTBentry(ip) \in BTBEntry
      BY <1>1, <1>4, HomeFacts DEF ThisSet
    <2>2. get_BTBentry(ip) = theBTB[p][s][k]
      BY DEF get_BTBentry, ThisSet
    <2> QED
      BY <2>1, <2>2, LenProperties
  <1> HIDE DEF p, s, k
  <1>6. theBTB[p][s][k].owner = ip
    <2>1. theBTB[p][s][k].owner \in Ip /\ theBTB[p][s][k].tag = Tag[p][theBTB[p][s][k].owner]
      BY <1>5 DEF BTBEntry, BTBInv, WellPlaced
    <2> QED
      BY <1>5, <2>1 DEF Unconfused
  <1>7. Owns(theBTB, ip, p, s, k)
    BY <1>5, <1>6 DEF Owns
  <1>8. q = p /\ r = s /\ w = k
    BY <1>1, <1>5, <1>7 DEF BTBInv, OnePlace
  <1>9. w \in GoneFrom(ip, q, r)
    BY <1>1, <1>4, <1>8, GoneIs DEF p, s, k
  <1> QED
    BY <1>4, <1>8, <1>9 DEF p, s, k

\* Where the entries of set r of partition q come from: one is that which was
\* stored, the first n were in the set before, and no two come from the same
\* place.
Origin(ip, p, e, q, r, n, g) ==
    LET u == theBTB'[q][r]
        here == q = p /\ r = index(p, ip, e.zone_id)
    IN  /\ DOMAIN u = 1..Len(u) /\ Len(u) \in Nat
        /\ IF here THEN n = Len(u) - 1 /\ Len(u) > 0 /\ u[Len(u)] = e ELSE n = Len(u)
        /\ \A v \in 1..n : /\ g[v] \in DOMAIN theBTB[q][r] \ GoneFrom(ip, q, r)
                           /\ u[v] = theBTB[q][r][g[v]]
        /\ \A v, w \in 1..n : g[v] = g[w] => v = w

\* Every set has such an origin.
LEMMA StoresOrigin ==
    ASSUME BTBInv, NEW ip, NEW target, NEW p, NEW e, Stores(ip, target, p, e),
           NEW q \in Partition, NEW r \in SetOf(q)
    PROVE  \E n, g : n \in Nat /\ Origin(ip, p, e, q, r, n, g)
  <1> DEFINE u == theBTB'[q][r]
             t == theBTB[q][r]
             out == GoneFrom(ip, q, r)
             s == index(p, ip, e.zone_id)
             l == Len(u)
  <1>1. l \in Nat /\ DOMAIN u = 1..l
    <2>1. u \in Seq(BTBEntry)
      BY DEF Stores
    <2> QED
      BY <2>1, LenProperties
  <1>2. CASE q = p /\ r = s
    <2>1. l > 0 /\ u[l] = e /\ Old(u, l - 1, t, out)
      BY <1>2 DEF Stores, AddedTo
    <2> HIDE DEF u, t, out, s, l
    <2>2. PICK g \in [1..(l - 1) -> DOMAIN t \ out] :
            /\ \A v, w \in 1..(l - 1) : g[v] = g[w] => v = w
            /\ \A w \in 1..(l - 1) : u[w] = t[g[w]]
      BY <2>1 DEF Old
    <2>3. l - 1 \in Nat
      BY <1>1, <2>1
    <2>4. \A v \in 1..(l - 1) : g[v] \in DOMAIN t \ out /\ u[v] = t[g[v]]
      BY <2>2
    <2> HIDE DEF Old
    <2>5. Origin(ip, p, e, q, r, l - 1, g)
      BY <1>1, <1>2, <2>1, <2>2, <2>4 DEF Origin, u, t, out, s, l
    <2> QED
      BY <2>3, <2>5
  <1>3. CASE ~(q = p /\ r = s)
    <2>1. Old(u, l, t, out)
      BY <1>3 DEF Stores, Kept
    <2> HIDE DEF u, t, out, s, l
    <2>2. PICK g \in [1..l -> DOMAIN t \ out] :
            /\ \A v, w \in 1..l : g[v] = g[w] => v = w
            /\ \A w \in 1..l : u[w] = t[g[w]]
      BY <2>1 DEF Old
    <2>3. \A v \in 1..l : g[v] \in DOMAIN t \ out /\ u[v] = t[g[v]]
      BY <2>2
    <2>4. l \in Nat /\ Origin(ip, p, e, q, r, l, g)
      BY <1>1, <1>3, <2>2, <2>3 DEF Origin, u, t, out, s, l
    <2> QED
      BY <2>4
  <1> QED
    BY <1>2, <1>3

\* An entry of another set, or that is not the last of its set, was stored
\* before, in a place of its own.
LEMMA StoresMoved ==
    ASSUME BTBInv, NEW ip, NEW target, NEW p, NEW e, Stores(ip, target, p, e),
           NEW q \in Partition, NEW r \in SetOf(q),
           NEW n \in Nat, NEW g, Origin(ip, p, e, q, r, n, g),
           NEW v \in DOMAIN theBTB'[q][r]
    PROVE  \/ /\ q = p /\ r = index(p, ip, e.zone_id) /\ v = Len(theBTB'[q][r])
              /\ theBTB'[q][r][v] = e
           \/ /\ v \in 1..n /\ g[v] \in DOMAIN theBTB[q][r] /\ g[v] \notin GoneFrom(ip, q, r)
              /\ theBTB'[q][r][v] = theBTB[q][r][g[v]]
  <1> DEFINE u == theBTB'[q][r]
             l == Len(u)
             here == q = p /\ r = index(p, ip, e.zone_id)
  <1>1. /\ DOMAIN u = 1..l /\ l \in Nat /\ here \in BOOLEAN
        /\ IF here THEN n = l - 1 /\ l > 0 /\ u[l] = e ELSE n = l
        /\ \A w \in 1..n : /\ g[w] \in DOMAIN theBTB[q][r] \ GoneFrom(ip, q, r)
                           /\ u[w] = theBTB[q][r][g[w]]
    BY DEF Origin
  <1> HIDE DEF u, l, here
  <1>2. v \in 1..n \/ (here /\ v = l)
    <2>1. v \in 1..l
      BY <1>1 DEF u
    <2> QED
      BY <1>1, <2>1
  <1> QED
    BY <1>1, <1>2 DEF u, l, here

\* The entries lie where lookups of their branches look for them.
LEMMA StoresPlaced ==
    ASSUME BTBInv, NEW ip, NEW target, NEW p, NEW e, Stores(ip, target, p, e)
    PROVE  WellPlaced(theBTB')
  <1> SUFFICES ASSUME NEW q \in Partition, NEW r \in SetOf(q), NEW v \in DOMAIN theBTB'[q][r]
               PROVE  /\ theBTB'[q][r][v].tag = Tag[q][theBTB'[q][r][v].owner]
                      /\ r = index(q, theBTB'[q][r][v].owner, theBTB'[q][r][v].zone_id)
                      /\ theBTB'[q][r][v].way_id \in Way(q)
    BY DEF WellPlaced
  <1>1. PICK n, g : n \in Nat /\ Origin(ip, p, e, q, r, n, g)
    BY StoresOrigin
  <1>2. CASE /\ q = p /\ r = index(p, ip, e.zone_id) /\ theBTB'[q][r][v] = e
    <2>1. e.owner = ip /\ e.tag = Tag[p][ip] /\ e.way_id \in Way(p)
      BY DEF Stores
    <2> QED
      BY <1>2, <2>1
  <1>3. CASE g[v] \in DOMAIN theBTB[q][r] /\ theBTB'[q][r][v] = theBTB[q][r][g[v]]
    BY <1>3 DEF BTBInv, WellPlaced
  <1> QED
    BY <1>1, <1>2, <1>3, StoresMoved

\* A branch no other is confused with still has one entry at most: the update
\* has taken away what it had, and moved no entry of another to two places.
LEMMA StoresOnce ==
    ASSUME BTBInv, NEW ip \in Ip, NEW target, NEW p, NEW e, Stores(ip, target, p, e)
    PROVE  OnePlace(theBTB')
  <1> DEFINE new(q, r, v) == q = p /\ r = index(p, ip, e.zone_id) /\ v = Len(theBTB'[q][r])
  <1> SUFFICES ASSUME NEW jp \in Unconfused, NEW q \in Partition, NEW y \in Partition,
                      NEW r \in SetOf(q), NEW x \in SetOf(y),
                      NEW v \in DOMAIN theBTB'[q][r], NEW w \in DOMAIN theBTB'[y][x],
                      Owns(theBTB', jp, q, r, v), Owns(theBTB', jp, y, x, w)
               PROVE  q = y /\ r = x /\ v = w
    BY DEF OnePlace
  <1>1. PICK n, g : n \in Nat /\ Origin(ip, p, e, q, r, n, g)
    BY StoresOrigin
  <1>2. PICK m, h : /\ m \in Nat /\ Origin(ip, p, e, y, x, m, h)
                    /\ q = y /\ r = x => m = n /\ h = g
    BY <1>1, StoresOrigin
  <1>3. \/ new(q, r, v) /\ theBTB'[q][r][v] = e
        \/ /\ v \in 1..n /\ g[v] \in DOMAIN theBTB[q][r] /\ g[v] \notin GoneFrom(ip, q, r)
           /\ theBTB'[q][r][v] = theBTB[q][r][g[v]]
    BY <1>1, StoresMoved
  <1>4. \/ new(y, x, w) /\ theBTB'[y][x][w] = e
        \/ /\ w \in 1..m /\ h[w] \in DOMAIN theBTB[y][x] /\ h[w] \notin GoneFrom(ip, y, x)
           /\ theBTB'[y][x][w] = theBTB[y][x][h[w]]
    BY <1>2, StoresMoved
  <1>5. theBTB'[q][r][v].owner = jp /\ theBTB'[y][x][w].owner = jp /\ e.owner = ip
    BY DEF Owns, Stores
  <1>6. CASE jp = ip
    <2>1. new(q, r, v)
      <3>1. ASSUME g[v] \in DOMAIN theBTB[q][r], theBTB'[q][r][v] = theBTB[q][r][g[v]]
            PROVE  g[v] \in GoneFrom(ip, q, r)
        <4>1. Owns(theBTB, ip, q, r, g[v])
          BY <1>5, <1>6, <3>1 DEF Owns
        <4> QED
          BY <1>6, <4>1, OwnedIsFound
      <3> QED
        BY <1>3, <3>1
    <2>2. new(y, x, w)
      <3>1. ASSUME h[w] \in DOMAIN theBTB[y][x], theBTB'[y][x][w] = theBTB[y][x][h[w]]
            PROVE  h[w] \in GoneFrom(ip, y, x)
        <4>1. Owns(theBTB, ip, y, x, h[w])
          BY <1>5, <1>6, <3>1 DEF Owns
        <4> QED
          BY <1>6, <4>1, OwnedIsFound
      <3> QED
        BY <1>4, <3>1
    <2> QED
      BY <2>1, <2>2
  <1>7. CASE jp # ip
    <2>1. /\ v \in 1..n /\ g[v] \in DOMAIN theBTB[q][r]
          /\ theBTB'[q][r][v] = theBTB[q][r][g[v]]
      BY <1>3, <1>5, <1>7
    <2>2. /\ w \in 1..m /\ h[w] \in DOMAIN theBTB[y][x]
          /\ theBTB'[y][x][w] = theBTB[y][x][h[w]]
      BY <1>4, <1>5, <1>7
    <2>3. Owns(theBTB, jp, q, r, g[v]) /\ Owns(theBTB, jp, y, x, h[w])
      BY <1>5, <2>1, <2>2 DEF Owns
    <2>4. q = y /\ r = x /\ g[v] = h[w]
      BY <2>1, <2>2, <2>3 DEF BTBInv, OnePlace
    <2>5. v \in 1..n /\ w \in 1..n /\ g[v] = g[w]
      BY <1>2, <2>1, <2>2, <2>4
    <2>6. \A i, j \in 1..n : g[i] = g[j] => i = j
      BY <1>1 DEF Origin
    <2> QED
      BY <2>4, <2>5, <2>6
  <1> QED
    BY <1>6, <1>7

\* Wearing a cell keeps the table of counters as it is.
LEMMA WearKeepsTable ==
    ASSUME BTBInv, NEW p \in Partition, NEW s \in SetOf(p), NEW w,
           write_counts' = [write_counts EXCEPT ![p][s][w] = @ + 1]
    PROVE  /\ write_counts' = [q \in Partition |-> write_counts'[q]]
           /\ \A q \in Partition : write_counts'[q] \in [SetOf(q) -> [Way(q) -> Nat]]
  <1> DEFINE f == write_counts[p][s]
             g == [f EXCEPT ![w] = @ + 1]
  <1>1. /\ \A q \in Partition : write_counts[q] \in [SetOf(q) -> [Way(q) -> Nat]]
        /\ DOMAIN write_counts = Partition /\ f \in [Way(p) -> Nat]
    BY DEF BTBInv, TypeOK
  <1>2. g \in [Way(p) -> Nat]
    <2> HIDE DEF f
    <2>1. CASE w \in Way(p)
      BY <1>1, <2>1
    <2>2. CASE w \notin Way(p)
      BY <1>1, <2>2
    <2> QED
      BY <2>1, <2>2
  <1>3. write_counts' = [write_counts EXCEPT ![p] = [write_counts[p] EXCEPT ![s] = g]]
    BY <1>1
  <1> HIDE DEF g
  <1> HIDE DEF f
  <1>4. ASSUME NEW q \in Partition PROVE write_counts'[q] \in [SetOf(q) -> [Way(q) -> Nat]]
    <2>1. CASE q = p
      <3>1. write_counts'[q] = [write_counts[p] EXCEPT ![s] = g]
        BY <1>1, <1>3, <2>1
      <3> QED
        BY <1>1, <1>2, <2>1, <3>1
    <2>2. CASE q # p
      BY <1>1, <1>3, <2>2
    <2> QED
      BY <2>1, <2>2
  <1> QED
    BY <1>3, <1>4 DEF BTBInv

\* A taken update writes one entry, wears one cell, and leaves the latency
\* of the zone it wrote to.
LEMMA TakenStores ==
    ASSUME BTBInv, NEW ip \in Ip, NEW target \in Target,
           \/ UpdateMiss(ip, target)
           \/ Promote(ip, target)
           \/ RewriteInPlace(ip, target)
    PROVE  /\ \E p, e : Stores(ip, target, p, e) /\ Advances(ip, p, e)
           /\ \E p \in Partition : \E s \in SetOf(p) : \E w :
                write_counts' = [write_counts EXCEPT ![p][s][w] = @ + 1]
           /\ btb_write_latency' \in {2, 3, 4}
           /\ BTB_writes' \in Nat /\ multi_ret_promotions' \in Nat
  <1>1. BTB_writes \in Nat /\ multi_ret_promotions \in Nat
    BY DEF BTBInv, TypeOK
  <1>2. Zone = {1, 2, 3}
    BY DEF Zone
  <1>3. CASE UpdateMiss(ip, target)
    <2> DEFINE p == get_lru_partition(smallest_offset_partition_id(ip, target), ip)
               s == index(p, ip, 1)
    <2>1. p \in Partition /\ s \in SetOf(p)
      <3>1. smallest_offset_partition_id(ip, target) \in Partition
        BY Sizes DEF smallest_offset_partition_id
      <3> QED
        BY <1>2, <3>1, LruPartitionIn, IndexIn
    <2>2. \E w : write_counts' = [write_counts EXCEPT ![p][s][w] = @ + 1]
      BY <1>3 DEF UpdateMiss, WearInsert
    <2>3. btb_write_latency' = 2 /\ BTB_writes' = BTB_writes + 1
          /\ multi_ret_promotions' = multi_ret_promotions
      BY <1>3 DEF UpdateMiss, WriteLatency
    <2> HIDE DEF p, s
    <2> QED
      <3>1. \E q, e : Stores(ip, target, q, e) /\ Advances(ip, q, e)
        BY <1>3, MissStores
      <3>2. BTB_writes' \in Nat /\ multi_ret_promotions' \in Nat /\ btb_write_latency' \in {2, 3, 4}
        BY <1>1, <2>3
      <3> QED
        BY <2>1, <2>2, <3>1, <3>2
  <1>4. CASE Promote(ip, target)
    <2> DEFINE p == Home(ip)
               zone == HomeZone(ip)
               s == index(p, ip, zone + 1)
    <2>1. p \in Partition /\ zone \in Zone /\ zone < 3
      BY <1>4, HomeFacts DEF Promote
    <2>2. \E w : write_counts' = [write_counts EXCEPT ![p][s][w] = @ + 1]
      BY <1>4 DEF Promote, WearInsert
    <2>3. btb_write_latency' = (zone + 1) + 1 /\ BTB_writes' = BTB_writes
          /\ multi_ret_promotions' = multi_ret_promotions + 1
      BY <1>4 DEF Promote, WriteLatency
    <2> HIDE DEF p, zone
    <2>4. zone + 1 \in Zone /\ (zone + 1) + 1 \in {2, 3, 4}
      BY <1>2, <2>1
    <2>5. s \in SetOf(p)
      BY <2>1, <2>4, IndexIn
    <2> HIDE DEF s
    <2> QED
      <3>1. \E q, e : Stores(ip, target, q, e) /\ Advances(ip, q, e)
        BY <1>4, PromoteStores
      <3>2. BTB_writes' \in Nat /\ multi_ret_promotions' \in Nat /\ btb_write_latency' \in {2, 3, 4}
        BY <1>1, <2>3, <2>4
      <3> QED
        BY <2>1, <2>2, <2>5, <3>1, <3>2
  <1>5. CASE RewriteInPlace(ip, target)
    <2> DEFINE p == Home(ip)
               s == index(p, ip, 3)
    <2>1. p \in Partition
      BY <1>5, HomeFacts DEF RewriteInPlace
    <2>2. s \in SetOf(p)
      BY <1>2, <2>1, IndexIn
    <2>3. \E w : write_counts' = [write_counts EXCEPT ![p][s][w] = @ + 1]
      BY <1>5 DEF RewriteInPlace
    <2>4. btb_write_latency' = 4 /\ BTB_writes' = BTB_writes
          /\ multi_ret_promotions' = multi_ret_promotions
      BY <1>5 DEF RewriteInPlace, WriteLatency
    <2> HIDE DEF p, s
    <2> QED
      BY <1>1, <1>5, <2>1, <2>2, <2>3, <2>4, RewriteStores
  <1> QED
    BY <1>3, <1>4, <1>5

\* Before anything has happened every set is empty.
LEMMA InitInv == Init => BTBInv
  <1> SUFFICES ASSUME Init PROVE BTBInv
    OBVIOUS
  <1>1. \A p \in Partition : theBTB[p] = [s \in SetOf(p) |-> <<>>]
    BY DEF Init
  <1>2. \A p \in Partition : \A s \in SetOf(p) :
          theBTB[p][s] = <<>> /\ Len(theBTB[p][s]) = 0 /\ DOMAIN theBTB[p][s] = {}
    <2>1. Len(<<>>) = 0 /\ DOMAIN <<>> = {}
      OBVIOUS
    <2> QED
      BY <1>1, <2>1
  <1>3. RASTypeOK
    BY RASAssumption DEF Init, RASInit, RASTypeOK, Slot, Tracker, MaxCallSize
  <1>4. \A p \in Partition :
          /\ theBTB[p] \in [SetOf(p) -> Seq(BTBEntry)]
          /\ write_counts[p] \in [SetOf(p) -> [Way(p) -> Nat]]
    <2>1. <<>> \in Seq(BTBEntry)
      OBVIOUS
    <2>2. ASSUME NEW p \in Partition
          PROVE  theBTB[p] \in [SetOf(p) -> Seq(BTBEntry)]
      <3>1. theBTB[p] = [s \in SetOf(p) |-> <<>>]
        BY <1>1
      <3> QED
        BY <2>1, <3>1
    <2>3. ASSUME NEW p \in Partition
          PROVE  write_counts[p] \in [SetOf(p) -> [Way(p) -> Nat]]
      <3>1. write_counts[p] = [s \in SetOf(p) |-> [w \in Way(p) |-> 0]]
        BY DEF Init
      <3>2. [w \in Way(p) |-> 0] \in [Way(p) -> Nat]
        OBVIOUS
      <3> QED
        BY <3>1, <3>2
    <2> QED
      BY <2>2, <2>3
  <1>5. TypeOK
    BY <1>3, <1>4 DEF Init, TypeOK
  <1>6. WithinWays(theBTB)
    BY <1>2, Sizes DEF WithinWays
  <1>7. WellPlaced(theBTB) /\ OnePlace(theBTB)
    BY <1>2 DEF WellPlaced, OnePlace
  <1>8. theBTB = [p \in Partition |-> theBTB[p]] /\ write_counts = [p \in Partition |-> write_counts[p]]
    BY DEF Init
  <1> QED
    BY <1>5, <1>6, <1>7, <1>8 DEF BTBInv

\* A prediction touches the stack and the hit counters only.
LEMMA PredictionPreserves ==
    ASSUME BTBInv, NEW ip \in Ip, NEW type, btb_prediction(ip, type),
           resolving' \in Ip \cup {NONE}, stalled' \in Nat
    PROVE  BTBInv'
  <1>1. /\ UNCHANGED <<theBTB, write_counts, basic_btb_lru_counter, btb_write_latency,
                       BTB_writes, multi_ret_promotions>>
        /\ TypeOK
    BY DEF btb_prediction, BTBInv
  <1>2. RASTypeOK'
    <2>1. [RASNext]_rasVars
      BY DEF btb_prediction, PredictMiss, PredictHit, PushIfCall, RASNext
    <2> QED
      BY <1>1, <2>1, RASTypeStep DEF TypeOK
  <1>3. zone_hits' \in [Zone -> Nat]
    <2>1. zone_hits \in [Zone -> Nat]
      BY <1>1 DEF TypeOK
    <2>2. CASE PredictMiss(ip, type)
      BY <2>1, <2>2 DEF PredictMiss
    <2>3. CASE PredictHit(ip)
      <3> DEFINE z == HomeZone(ip)
      <3>1. zone_hits' = [zone_hits EXCEPT ![z] = @ + 1]
        BY <2>3 DEF PredictHit
      <3>2. z \in Zone
        BY <2>3, HomeFacts DEF PredictHit
      <3> HIDE DEF z
      <3> QED
        BY <2>1, <3>1, <3>2
    <2> QED
      BY <2>2, <2>3 DEF btb_prediction
  <1>4. TypeOK'
    BY <1>1, <1>2, <1>3 DEF TypeOK
  <1>5. WithinWays(theBTB') /\ WellPlaced(theBTB') /\ OnePlace(theBTB')
    BY <1>1 DEF BTBInv
  <1>6. theBTB' = [p \in Partition |-> theBTB'[p]] /\ write_counts' = [p \in Partition |-> write_counts'[p]]
    BY <1>1 DEF BTBInv
  <1> QED
    BY <1>4, <1>5, <1>6 DEF BTBInv

\* What the trace says of a branch: where it jumped to, if it was taken.
LEMMA UpdateCases ==
    ASSUME BTBInv, NEW target \in Target \cup {0}, NEW taken \in BOOLEAN,
           TraceUpdate(target, taken)
    PROVE  /\ resolving \in Ip /\ [RASNext]_rasVars
           /\ \/ /\ ~taken
                 /\ UNCHANGED <<theBTB, write_counts, basic_btb_lru_counter, btb_write_latency,
                                BTB_writes, multi_ret_promotions>>
              \/ /\ taken /\ target \in Target
                 /\ \/ UpdateMiss(resolving, target)
                    \/ Promote(resolving, target)
                    \/ RewriteInPlace(resolving, target)
                 /\ basic_btb_lru_counter' = basic_btb_lru_counter + 1
  <1>1. resolving \in Ip
    BY DEF TraceUpdate, BTBInv, TypeOK
  <1>2. taken => target \in Target
    BY DEF TraceUpdate
  <1>3. [RASNext]_rasVars
    <2>1. CASE BranchType[resolving] = "BRANCH_RETURN"
      <3>1. taken
        BY <2>1 DEF TraceUpdate, AlwaysTakenTypes
      <3>2. ResolveReturn(target)
        BY <2>1 DEF TraceUpdate, update_btb
      <3> QED
        BY <1>2, <3>1, <3>2 DEF RASNext
    <2>2. CASE BranchType[resolving] # "BRANCH_RETURN"
      BY <2>2 DEF TraceUpdate, update_btb
    <2> QED
      BY <2>1, <2>2
  <1> QED
    BY <1>1, <1>2, <1>3 DEF TraceUpdate, update_btb

\* An update keeps the invariant: the entry that is written is well placed and
\* the only one of its branch.
LEMMA UpdatePreserves ==
    ASSUME BTBInv, NEW target \in Target \cup {0}, NEW taken \in BOOLEAN,
           TraceUpdate(target, taken)
    PROVE  BTBInv'
  <1> DEFINE ip == resolving
  <1>1. ip \in Ip /\ [RASNext]_rasVars /\ TypeOK
    BY UpdateCases DEF BTBInv
  <1>2. RASTypeOK' /\ resolving' \in Ip \cup {NONE} /\ zone_hits' \in [Zone -> Nat]
    BY <1>1, RASTypeStep DEF TypeOK, TraceUpdate, update_btb
  <1>3. CASE /\ ~taken
             /\ UNCHANGED <<theBTB, write_counts, basic_btb_lru_counter, btb_write_latency,
                            BTB_writes, multi_ret_promotions>>
    <2>1. stalled' \in Nat
      BY <1>1, <1>3 DEF TraceUpdate, TypeOK
    <2>2. TypeOK'
      BY <1>1, <1>2, <1>3, <2>1 DEF TypeOK
    <2>3. WithinWays(theBTB') /\ WellPlaced(theBTB') /\ OnePlace(theBTB')
      BY <1>3 DEF BTBInv
    <2>4. theBTB' = [p \in Partition |-> theBTB'[p]] /\ write_counts' = [p \in Partition |-> write_counts'[p]]
      BY <1>3 DEF BTBInv
    <2> QED
      BY <2>2, <2>3, <2>4 DEF BTBInv
  <1>4. CASE /\ taken /\ target \in Target
             /\ \/ UpdateMiss(ip, target)
                \/ Promote(ip, target)
                \/ RewriteInPlace(ip, target)
             /\ basic_btb_lru_counter' = basic_btb_lru_counter + 1
    <2>1. /\ \E p, e : Stores(ip, target, p, e) /\ Advances(ip, p, e)
          /\ \E p \in Partition : \E s \in SetOf(p) : \E w :
               write_counts' = [write_counts EXCEPT ![p][s][w] = @ + 1]
          /\ btb_write_latency' \in {2, 3, 4}
          /\ BTB_writes' \in Nat /\ multi_ret_promotions' \in Nat
      BY <1>1, <1>4, TakenStores
    <2>2. PICK p, e : Stores(ip, target, p, e)
      BY <2>1
    <2>3. /\ write_counts' = [q \in Partition |-> write_counts'[q]]
          /\ \A q \in Partition : write_counts'[q] \in [SetOf(q) -> [Way(q) -> Nat]]
      <3>1. PICK q \in Partition : \E r \in SetOf(q) : \E w :
              write_counts' = [write_counts EXCEPT ![q][r][w] = @ + 1]
        BY <2>1
      <3>2. PICK r \in SetOf(q) : \E w :
              write_counts' = [write_counts EXCEPT ![q][r][w] = @ + 1]
        BY <3>1
      <3>3. PICK w : write_counts' = [write_counts EXCEPT ![q][r][w] = @ + 1]
        BY <3>2
      <3> QED
        BY <3>3, WearKeepsTable
    <2>4. WellPlaced(theBTB') /\ OnePlace(theBTB')
      BY <1>1, <2>2, StoresPlaced, StoresOnce
    <2>5. /\ theBTB' = [q \in Partition |-> theBTB'[q]]
          /\ \A q \in Partition : \A r \in SetOf(q) : Len(theBTB'[q][r]) <= Assoc[q]
      BY <2>2 DEF Stores
    <2>6. ASSUME NEW q \in Partition PROVE theBTB'[q] \in [SetOf(q) -> Seq(BTBEntry)]
      <3>1. numSets[q] \in Nat /\ numSets[q] >= 4
        BY PartitionAssumption
      <3>2. 0 \in SetOf(q)
        BY <3>1 DEF SetOf
      <3> QED
        BY <2>2, <3>2 DEF Stores
    <2>7. stalled' \in Nat /\ basic_btb_lru_counter' \in Nat
      <3>1. /\ stalled \in Nat /\ basic_btb_lru_counter \in Nat
            /\ stalled' = stalled + btb_write_latency'
        BY <1>1, <1>4 DEF TraceUpdate, TypeOK
      <3> QED
        BY <1>4, <2>1, <3>1
    <2>8. DOMAIN theBTB' = Partition /\ DOMAIN write_counts' = Partition
      BY <2>3, <2>5
    <2>9. TypeOK'
      BY <1>2, <2>1, <2>3, <2>6, <2>7, <2>8 DEF TypeOK
    <2> QED
      BY <2>3, <2>4, <2>5, <2>9 DEF BTBInv, WithinWays
  <1> QED
    BY <1>3, <1>4, UpdateCases

\* The invariant is inductive.
LEMMA NextPreserves == BTBInv /\ [Next]_vars => BTBInv'
  <1> SUFFICES ASSUME BTBInv, [Next]_vars PROVE BTBInv'
    OBVIOUS
  <1>1. resolving \in Ip \cup {NONE} /\ stalled \in Nat
    BY DEF BTBInv, TypeOK
  <1>2. ASSUME NEW ip \in Ip, SpecPrediction(ip) PROVE BTBInv'
    BY <1>1, <1>2, PredictionPreserves DEF SpecPrediction
  <1>3. ASSUME NEW ip \in Ip, TracePrediction(ip) PROVE BTBInv'
    BY <1>1, <1>3, PredictionPreserves DEF TracePrediction
  <1>4. ASSUME NEW target \in Target \cup {0}, NEW taken \in BOOLEAN, TraceUpdate(target, taken)
        PROVE  BTBInv'
    BY <1>4, UpdatePreserves
  <1>5. CASE UNCHANGED vars
    <2>1. /\ UNCHANGED <<theBTB, write_counts, basic_btb_lru_counter, btb_write_latency,
                         BTB_writes, multi_ret_promotions, zone_hits, resolving, stalled>>
          /\ UNCHANGED rasVars
      BY <1>5 DEF vars
    <2>2. TypeOK'
      BY <2>1 DEF BTBInv, TypeOK, RASTypeOK, rasVars
    <2> QED
      BY <2>1, <2>2 DEF BTBInv
  <1> QED
    BY <1>2, <1>3, <1>4, <1>5 DEF Next

\* Whatever branches are predicted and updated, entries lie where lookups look
\* for them, no set overflows, and no branch that can be told from the others
\* has two entries.
THEOREM BTBInvariant == Spec => []BTBInv
  BY InitInv, NextPreserves, PTL DEF Spec

\* Every variable keeps its type.
THEOREM BTBTypeCorrect == Spec => []TypeOK
  <1>1. BTBInv => TypeOK
    BY DEF BTBInv
  <1> QED
    BY <1>1, BTBInvariant, PTL

-----------------------------------------------------------------------------
(* The refinement: a map of targets.                                       *)

\* Places and Known for any contents of the sets.
PlacesOf(btb) ==
    UNION {UNION {{<<p, s, w>> : w \in DOMAIN btb[p][s]} : s \in SetOf(p)} : p \in Partition}
OwnerAt(btb, x) == btb[x[1]][x[2]][x[3]].owner
KnownOf(btb) ==
    [ip \in Unconfused |->
       IF \E x \in PlacesOf(btb) : OwnerAt(btb, x) = ip
       THEN LET x == CHOOSE x \in PlacesOf(btb) : OwnerAt(btb, x) = ip
            IN  btb[x[1]][x[2]][x[3]].target_ip
       ELSE NONE]

\* They are those of the model for the sets of a state and of the next one.
LEMMA KnownIsOf == Known = KnownOf(theBTB) /\ Known' = KnownOf(theBTB')
  BY DEF Known, KnownOf, Places, PlacesOf, EntryAt, OwnerAt

\* A place is a partition, a set of it and a way in use.
LEMMA PlaceIs ==
    ASSUME NEW btb, NEW x
    PROVE  x \in PlacesOf(btb) <=>
             \E p \in Partition : \E s \in SetOf(p) : \E w \in DOMAIN btb[p][s] : x = <<p, s, w>>
  BY DEF PlacesOf

\* The target known of a branch is the one in its only entry,
LEMMA KnownIs ==
    ASSUME NEW btb, OnePlace(btb), NEW ip \in Unconfused,
           NEW p, NEW s, NEW w, Owns(btb, ip, p, s, w)
    PROVE  KnownOf(btb)[ip] = btb[p][s][w].target_ip
  <1>1. p \in Partition /\ s \in SetOf(p) /\ w \in DOMAIN btb[p][s] /\ btb[p][s][w].owner = ip
    BY DEF Owns
  <1>2. <<p, s, w>> \in PlacesOf(btb) /\ OwnerAt(btb, <<p, s, w>>) = ip
    BY <1>1, PlaceIs DEF OwnerAt
  <1> DEFINE x == CHOOSE x \in PlacesOf(btb) : OwnerAt(btb, x) = ip
  <1>3. x \in PlacesOf(btb) /\ OwnerAt(btb, x) = ip
    BY <1>2
  <1>4. KnownOf(btb)[ip] = btb[x[1]][x[2]][x[3]].target_ip
    BY <1>2 DEF KnownOf
  <1> HIDE DEF x
  <1>5. PICK q \in Partition : \E r \in SetOf(q) : \E v \in DOMAIN btb[q][r] : x = <<q, r, v>>
    BY <1>3, PlaceIs
  <1>6. PICK r \in SetOf(q) : \E v \in DOMAIN btb[q][r] : x = <<q, r, v>>
    BY <1>5
  <1>7. PICK v \in DOMAIN btb[q][r] : x = <<q, r, v>>
    BY <1>6
  <1>8. Owns(btb, ip, q, r, v)
    BY <1>3, <1>7 DEF Owns, OwnerAt
  <1>9. q = p /\ r = s /\ v = w
    BY <1>1, <1>8 DEF OnePlace
  <1> QED
    BY <1>4, <1>7, <1>9

\* and nothing is known of a branch without one.
LEMMA KnownNot ==
    ASSUME NEW btb, NEW ip \in Unconfused, ~ \E p, s, w : Owns(btb, ip, p, s, w)
    PROVE  KnownOf(btb)[ip] = NONE
  <1>1. ASSUME NEW x \in PlacesOf(btb), OwnerAt(btb, x) = ip PROVE FALSE
    <2>1. PICK q \in Partition : \E r \in SetOf(q) : \E v \in DOMAIN btb[q][r] : x = <<q, r, v>>
      BY PlaceIs
    <2>2. PICK r \in SetOf(q) : \E v \in DOMAIN btb[q][r] : x = <<q, r, v>>
      BY <2>1
    <2>3. PICK v \in DOMAIN btb[q][r] : x = <<q, r, v>>
      BY <2>2
    <2>4. Owns(btb, ip, q, r, v)
      BY <1>1, <2>3 DEF Owns, OwnerAt
    <2> QED
      BY <2>4
  <1> QED
    BY <1>1 DEF KnownOf

\* What is known of a branch is a target, or nothing.
LEMMA KnownType ==
    ASSUME BTBInv
    PROVE  Known \in [Unconfused -> Target \cup {NONE}]
  <1>1. ASSUME NEW ip \in Unconfused PROVE KnownOf(theBTB)[ip] \in Target \cup {NONE}
    <2>1. CASE \E p, s, w : Owns(theBTB, ip, p, s, w)
      <3>1. PICK p, s, w : Owns(theBTB, ip, p, s, w)
        BY <2>1
      <3>2. OnePlace(theBTB)
        BY DEF BTBInv
      <3>3. KnownOf(theBTB)[ip] = theBTB[p][s][w].target_ip
        BY <3>1, <3>2, KnownIs
      <3>4. p \in Partition /\ s \in SetOf(p) /\ w \in DOMAIN theBTB[p][s]
        BY <3>1 DEF Owns
      <3>5. theBTB[p][s] \in Seq(BTBEntry) /\ w \in 1..Len(theBTB[p][s])
        BY <3>4, SetFacts
      <3>6. theBTB[p][s][w] \in BTBEntry
        BY <3>5, ElementOfSeq
      <3> QED
        BY <3>3, <3>6 DEF BTBEntry
    <2>2. CASE ~ \E p, s, w : Owns(theBTB, ip, p, s, w)
      BY <2>2, KnownNot
    <2> QED
      BY <2>1, <2>2
  <1>2. Known = [ip \in Unconfused |-> KnownOf(theBTB)[ip]]
    BY KnownIsOf DEF KnownOf
  <1> QED
    BY <1>1, <1>2

\* A branch that the update is not of is known as before, or forgotten.
LEMMA OthersKeep ==
    ASSUME BTBInv, NEW ip \in Ip, NEW target, NEW p, NEW e, Stores(ip, target, p, e),
           NEW jp \in Unconfused, jp # ip
    PROVE  Known'[jp] \in {Known[jp], NONE}
  <1>1. CASE ~ \E q, r, v : Owns(theBTB', jp, q, r, v)
    BY <1>1, KnownNot, KnownIsOf
  <1>2. ASSUME NEW q, NEW r, NEW v, Owns(theBTB', jp, q, r, v)
        PROVE  Known'[jp] = Known[jp]
    <2>1. /\ q \in Partition /\ r \in SetOf(q) /\ v \in DOMAIN theBTB'[q][r]
          /\ theBTB'[q][r][v].owner = jp /\ e.owner = ip
      BY <1>2 DEF Owns, Stores
    <2>2. PICK n, g : n \in Nat /\ Origin(ip, p, e, q, r, n, g)
      BY <2>1, StoresOrigin
    <2>3. g[v] \in DOMAIN theBTB[q][r] /\ theBTB'[q][r][v] = theBTB[q][r][g[v]]
      BY <2>1, <2>2, StoresMoved
    <2>4. Owns(theBTB, jp, q, r, g[v])
      BY <2>1, <2>3 DEF Owns
    <2>5. OnePlace(theBTB) /\ OnePlace(theBTB')
      BY StoresOnce DEF BTBInv
    <2>6. KnownOf(theBTB)[jp] = theBTB[q][r][g[v]].target_ip
      BY <2>4, <2>5, KnownIs
    <2>7. KnownOf(theBTB')[jp] = theBTB'[q][r][v].target_ip
      BY <1>2, <2>5, KnownIs
    <2> QED
      BY <2>3, <2>6, <2>7, KnownIsOf
  <1> QED
    BY <1>1, <1>2

\* What an update says of its branch is what is known of it then.
LEMMA ResolvedKnown ==
    ASSUME BTBInv, NEW ip \in Unconfused, NEW target, NEW p, NEW e, Stores(ip, target, p, e)
    PROVE  Known'[ip] = target
  <1> DEFINE s == index(p, ip, e.zone_id)
             u == theBTB'[p][s]
  <1>1. /\ ip \in Ip /\ p \in Partition /\ e \in BTBEntry /\ e.owner = ip /\ e.target_ip = target
        /\ Len(u) > 0 /\ u[Len(u)] = e
    BY DEF Unconfused, Stores, AddedTo
  <1>2. s \in SetOf(p)
    BY <1>1, IndexIn DEF BTBEntry
  <1>3. u \in Seq(BTBEntry)
    BY <1>1, <1>2 DEF Stores
  <1>4. Len(u) \in DOMAIN u
    BY <1>1, <1>3, LenProperties
  <1>5. Owns(theBTB', ip, p, s, Len(u))
    BY <1>1, <1>2, <1>4 DEF Owns
  <1>6. OnePlace(theBTB')
    BY <1>1, StoresOnce
  <1>7. KnownOf(theBTB')[ip] = u[Len(u)].target_ip
    BY <1>5, <1>6, KnownIs
  <1> QED
    BY <1>1, <1>7, KnownIsOf

\* A taken update of a branch that can be told from the others teaches its
\* target; one of another branch may displace what is known.
LEMMA TakenLearns ==
    ASSUME BTBInv, BTBInv', resolving \in Ip, NEW target \in Target,
           NEW p, NEW e, Stores(resolving, target, p, e)
    PROVE  IF resolving \in Unconfused THEN TargetMap!Learn(resolving, target)
           ELSE \A ip \in Unconfused : Known'[ip] \in {Known[ip], NONE}
  <1>1. CASE resolving \in Unconfused
    <2>1. Known'[resolving] = target
      BY <1>1, ResolvedKnown
    <2>2. \A jp \in Unconfused \ {resolving} : Known'[jp] \in {Known[jp], NONE}
      BY OthersKeep
    <2>3. Known' \in [Unconfused -> Target \cup {NONE}]
      <3>1. (Known \in [Unconfused -> Target \cup {NONE}])'
        BY KnownType, PTL
      <3> QED
        BY <3>1
    <2>4. TargetMap!Learn(resolving, target)
      BY <1>1, <2>1, <2>2, <2>3 DEF TargetMap!Learn
    <2> QED
      BY <1>1, <2>4
  <1>2. CASE resolving \notin Unconfused
    <2>1. \A jp \in Unconfused : Known'[jp] \in {Known[jp], NONE}
      BY <1>2, OthersKeep
    <2> QED
      BY <1>2, <2>1
  <1> QED
    BY <1>1, <1>2

\* Every step learns what the trace says of a taken branch, or changes
\* nothing that is known.
LEMMA NextLearns ==
    ASSUME BTBInv, BTBInv', [Next]_vars
    PROVE  LearnsFromTrace
  <1>1. UNCHANGED theBTB => Known' = Known
    BY KnownIsOf
  <1>2. CASE \E target \in Target : TraceUpdate(target, TRUE)
    <2>1. PICK target \in Target : TraceUpdate(target, TRUE)
      BY <1>2
    <2>2. /\ resolving \in Ip
          /\ \/ UpdateMiss(resolving, target)
             \/ Promote(resolving, target)
             \/ RewriteInPlace(resolving, target)
      BY <2>1, UpdateCases
    <2>3. \E p, e : Stores(resolving, target, p, e) /\ Advances(resolving, p, e)
      BY <2>2, TakenStores
    <2>4. PICK p, e : Stores(resolving, target, p, e)
      BY <2>3
    <2>5. IF resolving \in Unconfused THEN TargetMap!Learn(resolving, target)
          ELSE \A ip \in Unconfused : Known'[ip] \in {Known[ip], NONE}
      BY <2>2, <2>4, TakenLearns
    <2> QED
      BY <1>2, <2>1, <2>5 DEF LearnsFromTrace
  <1>3. CASE ~ \E target \in Target : TraceUpdate(target, TRUE)
    <2>1. ASSUME NEW target \in Target \cup {0}, NEW taken \in BOOLEAN, TraceUpdate(target, taken)
          PROVE  UNCHANGED theBTB
      <3>1. CASE taken
        <4>1. target \in Target
          BY <2>1, <3>1, UpdateCases
        <4> QED
          BY <1>3, <2>1, <3>1, <4>1
      <3>2. CASE ~ taken
        BY <2>1, <3>2, UpdateCases
      <3> QED
        BY <3>1, <3>2
    <2>2. ASSUME NEW ip \in Ip, SpecPrediction(ip) \/ TracePrediction(ip)
          PROVE  UNCHANGED theBTB
      BY <2>2 DEF SpecPrediction, TracePrediction, btb_prediction
    <2>3. UNCHANGED theBTB
      BY <2>1, <2>2 DEF Next, vars
    <2> QED
      BY <1>1, <1>3, <2>3 DEF LearnsFromTrace
  <1> QED
    BY <1>2, <1>3

\* A lookup of a branch that can be told from the others finds its own entry,
\* and predicts what is known of it.
LEMMA MapIsPredicted == BTBInv => PredictsKnown
  <1> SUFFICES ASSUME BTBInv, NEW ip \in Unconfused, Holders(ip) # {}
               PROVE  get_BTBentry(ip).target_ip = Known[ip]
    BY DEF PredictsKnown
  <1> DEFINE p == Home(ip)
             s == index(p, ip, HomeZone(ip))
             w == HomeWay(ip)
             e == theBTB[p][s][w]
  <1>1. ip \in Ip
    BY DEF Unconfused
  <1>2. /\ p \in Partition /\ s \in SetOf(p) /\ theBTB[p][s] \in Seq(BTBEntry)
        /\ w \in 1..Len(theBTB[p][s]) /\ e \in BTBEntry /\ e.tag = Tag[p][ip]
        /\ get_BTBentry(ip) = e
    BY <1>1, HomeFacts DEF get_BTBentry, ThisSet
  <1> HIDE DEF p, s, w
  <1>3. w \in DOMAIN theBTB[p][s]
    BY <1>2, LenProperties
  <1>4. e.owner \in Ip /\ e.tag = Tag[p][e.owner]
    BY <1>2, <1>3 DEF BTBInv, WellPlaced, BTBEntry
  <1>5. e.owner = ip
    BY <1>2, <1>4 DEF Unconfused
  <1>6. Owns(theBTB, ip, p, s, w) /\ OnePlace(theBTB)
    BY <1>2, <1>3, <1>5 DEF Owns, BTBInv
  <1>7. KnownOf(theBTB)[ip] = e.target_ip
    BY <1>6, KnownIs
  <1> QED
    BY <1>2, <1>7, KnownIsOf

\* Promotion between zones, eviction and the choice of partition keep the BTB
\* a map to the target each branch jumped to last, for every branch whose tags
\* differ from those of all others: it learns what the trace says, and a
\* lookup predicts what it knows.
THEOREM TargetMapImplemented == Spec => ImplementsTargetMap
  <1>1. Init => TargetMap!Init
    <2> SUFFICES ASSUME Init PROVE TargetMap!Init
      OBVIOUS
    <2>1. \A p \in Partition : \A s \in SetOf(p) : DOMAIN theBTB[p][s] = {}
      <3>1. DOMAIN <<>> = {}
        OBVIOUS
      <3>2. \A p \in Partition : theBTB[p] = [s \in SetOf(p) |-> <<>>]
        BY DEF Init
      <3> QED
        BY <3>1, <3>2
    <2>2. \A ip \in Unconfused : KnownOf(theBTB)[ip] = NONE
      BY <2>1, KnownNot DEF Owns
    <2>3. Known = [ip \in Unconfused |-> KnownOf(theBTB)[ip]]
      BY KnownIsOf DEF KnownOf
    <2> QED
      BY <2>2, <2>3 DEF TargetMap!Init
  <1> QED
    BY <1>1, BTBInvariant, NextLearns, MapIsPredicted, PTL DEF Spec, ImplementsTargetMap

-----------------------------------------------------------------------------
(* The entry written last.                                                 *)

\* The sets have one way, as in every shipped partition.
OneWay == \A p \in Partition : Assoc[p] = 1

\* A lookup of ip sees zone z of partition q before zone y of partition p.
Before(q, z, p, y) == q < p \/ (q = p /\ z < y)

\* A branch has the latest entry, in a set a lookup of it comes to before any
\* other that holds its tag.
LatestStored ==
    \E ip \in Ip, p \in Partition, zone \in Zone :
        /\ Len(theBTB[p][index(p, ip, zone)]) = 1
        /\ theBTB[p][index(p, ip, zone)][1].owner = ip
        /\ theBTB[p][index(p, ip, zone)][1].tag = Tag[p][ip]
        /\ theBTB[p][index(p, ip, zone)][1].lru + 1 = basic_btb_lru_counter
        /\ \A q \in Partition, z \in Zone : Before(q, z, p, zone) => Matches(q, ip, z) = {}

\* That is where the lookup ends.
LEMMA StoredIsFound ==
    BTBInv /\ LatestStored => LatestFound
  <1> SUFFICES ASSUME BTBInv, LatestStored PROVE LatestFound
    OBVIOUS
  <1>1. PICK ip \in Ip, p \in Partition, zone \in Zone :
          /\ Len(theBTB[p][index(p, ip, zone)]) = 1
          /\ theBTB[p][index(p, ip, zone)][1].owner = ip
          /\ theBTB[p][index(p, ip, zone)][1].tag = Tag[p][ip]
          /\ theBTB[p][index(p, ip, zone)][1].lru + 1 = basic_btb_lru_counter
          /\ \A q \in Partition, z \in Zone : Before(q, z, p, zone) => Matches(q, ip, z) = {}
    BY DEF LatestStored
  <1> DEFINE s == index(p, ip, zone)
             t == theBTB[p][s]
  <1>2. s \in SetOf(p) /\ DOMAIN t = {1}
    <2>1. s \in SetOf(p)
      BY IndexIn
    <2>2. DOMAIN t = 1..Len(t)
      BY <2>1, SetFacts
    <2> QED
      BY <1>1, <2>1, <2>2
  <1>3. Matches(p, ip, zone) = {1}
    BY <1>1, <1>2 DEF Matches, ThisSet
  <1>4. zone \in ZonesWith(p, ip) /\ p \in Holders(ip)
    BY <1>3 DEF ZonesWith, Holders
  <1>5. Home(ip) = p
    <2>1. ASSUME NEW q \in Holders(ip) PROVE p <= q
      <3>1. q \in Partition /\ q \in Nat /\ p \in Nat /\ ZonesWith(q, ip) # {}
        BY Sizes DEF Holders
      <3>2. ~ (q < p)
        BY <1>1, <3>1 DEF Before, ZonesWith
      <3> QED
        BY <3>1, <3>2
    <2>2. Holders(ip) \in SUBSET Nat
      BY Sizes DEF Holders
    <2> QED
      BY <1>4, <2>1, <2>2, MinIs DEF Home
  <1>6. HomeZone(ip) = zone
    <2>1. ASSUME NEW z \in ZonesWith(p, ip) PROVE zone <= z
      <3>1. z \in Zone /\ z \in Nat /\ zone \in Nat /\ Matches(p, ip, z) # {}
        BY DEF ZonesWith, Zone
      <3>2. ~ (z < zone)
        BY <1>1, <3>1 DEF Before
      <3> QED
        BY <3>1, <3>2
    <2>2. ZonesWith(p, ip) \in SUBSET Nat
      BY DEF ZonesWith, Zone
    <2> QED
      BY <1>4, <1>5, <2>1, <2>2, MinIs DEF HomeZone
  <1>7. HomeWay(ip) = 1
    <2>1. {1} \in SUBSET Nat /\ 1 \in {1} /\ \A y \in {1} : 1 <= y
      OBVIOUS
    <2>2. Min({1}) = 1
      BY <2>1, MinIs
    <2> QED
      BY <1>3, <1>5, <1>6, <2>2 DEF HomeWay
  <1>8. <<p, s, 1>> = FoundAt(ip) /\ Holders(ip) # {}
    BY <1>4, <1>5, <1>6, <1>7 DEF FoundAt
  <1>9. <<p, s, 1>> \in Places
    BY <1>2 DEF Places
  <1>10. EntryAt(<<p, s, 1>>).owner = ip /\ EntryAt(<<p, s, 1>>).lru + 1 = basic_btb_lru_counter
    BY <1>1 DEF EntryAt
  <1> QED
    BY <1>8, <1>9, <1>10 DEF LatestFound

\* What was in a set before an update and matched, or what is in it after and
\* matches, is the same entry.
LEMMA MatchedBefore ==
    ASSUME BTBInv, NEW ip \in Ip, NEW target, NEW p, NEW e, Stores(ip, target, p, e),
           NEW q \in Partition, NEW z \in Zone, q # p \/ z # e.zone_id,
           Matches(q, ip, z)' # {}
    PROVE  \E w \in Matches(q, ip, z) : w \notin GoneFrom(ip, q, index(q, ip, z))
  <1> DEFINE r == index(q, ip, z)
  <1>1. p \in Partition /\ e \in BTBEntry /\ r \in SetOf(q)
    BY IndexIn DEF Stores
  <1>2. PICK v \in DOMAIN theBTB'[q][r] : theBTB'[q][r][v].tag = Tag[q][ip]
    BY DEF Matches, ThisSet
  <1>3. q # p \/ r # index(p, ip, e.zone_id)
    <2>1. e.zone_id \in Zone
      BY <1>1 DEF BTBEntry
    <2> QED
      BY <1>1, <2>1, IndexIn
  <1>4. PICK n, g : n \in Nat /\ Origin(ip, p, e, q, r, n, g)
    BY <1>1, StoresOrigin
  <1>5. /\ g[v] \in DOMAIN theBTB[q][r] /\ g[v] \notin GoneFrom(ip, q, r)
        /\ theBTB'[q][r][v] = theBTB[q][r][g[v]]
    BY <1>1, <1>3, <1>4, StoresMoved
  <1>6. g[v] \in Matches(q, ip, z)
    BY <1>2, <1>5 DEF Matches, ThisSet
  <1> QED
    BY <1>5, <1>6

\* With one way, what an update writes is what a lookup then finds: what a
\* promotion leaves behind in the zone below is an empty set.
LEMMA StoresLatest ==
    ASSUME BTBInv, OneWay, NEW ip \in Ip, NEW target, NEW p, NEW e,
           Stores(ip, target, p, e), Advances(ip, p, e),
           basic_btb_lru_counter' = basic_btb_lru_counter + 1
    PROVE  LatestStored'
  <1> DEFINE zone == e.zone_id
             s == index(p, ip, zone)
             u == theBTB'[p][s]
  <1>1. /\ p \in Partition /\ e \in BTBEntry /\ e.owner = ip /\ e.tag = Tag[p][ip]
        /\ e.lru = basic_btb_lru_counter /\ Len(u) > 0 /\ u[Len(u)] = e
    BY DEF Stores, AddedTo
  <1>2. zone \in Zone /\ s \in SetOf(p)
    <2>1. zone \in Zone
      BY <1>1 DEF BTBEntry
    <2> QED
      BY <1>1, <2>1, IndexIn
  <1>3. Len(u) = 1
    <2>1. u \in Seq(BTBEntry) /\ Len(u) <= Assoc[p] /\ Assoc[p] = 1
      BY <1>1, <1>2 DEF Stores, OneWay
    <2> DEFINE l == Len(u)
    <2>2. l \in Nat /\ l <= 1 /\ l > 0
      BY <1>1, <2>1, LenProperties
    <2> HIDE DEF l
    <2>3. l = 1
      BY <2>2
    <2> QED
      BY <2>3 DEF l
  <1>4. ASSUME NEW q \in Partition, NEW z \in Zone, Before(q, z, p, zone),
               Matches(q, ip, z)' # {}
        PROVE  FALSE
    <2>1. q # p \/ z # zone
      <3>1. q \in Nat /\ p \in Nat /\ z \in Nat /\ zone \in Nat
        BY <1>1, <1>2, Sizes DEF Zone
      <3> HIDE DEF zone
      <3> QED
        BY <1>4, <3>1 DEF Before
    <2>2. PICK w \in Matches(q, ip, z) : w \notin GoneFrom(ip, q, index(q, ip, z))
      BY <1>4, <2>1, MatchedBefore
    <2>3. Holders(ip) # {}
      BY <2>2 DEF Holders, ZonesWith
    <2>4. p = Home(ip) /\ HomeZone(ip) \in Zone
          /\ zone = IF HomeZone(ip) = 3 THEN 3 ELSE HomeZone(ip) + 1
      BY <2>3, HomeFacts DEF Advances
    <2>5. ~ (q < p) /\ ~ (q = p /\ z < HomeZone(ip))
      BY <2>2, <2>3, <2>4, HomeFacts
    <2> DEFINE y == HomeZone(ip)
    <2> HIDE DEF y, zone
    <2>6. q = p /\ z = y
      <3>1. q = p /\ z < zone
        BY <1>4, <2>5 DEF Before
      <3>2. y \in 1..3 /\ z \in 1..3 /\ zone = IF y = 3 THEN 3 ELSE y + 1
        BY <2>4 DEF Zone, y
      <3>3. ~ (z < y)
        BY <2>5, <3>1 DEF y
      <3> QED
        BY <3>1, <3>2, <3>3
    <2>7. GoneFrom(ip, q, index(q, ip, z)) = {HomeWay(ip)}
      <3>1. index(q, ip, z) \in SetOf(q)
        BY IndexIn
      <3> QED
        BY <2>3, <2>4, <2>6, <3>1, GoneIs DEF y
    <2>8. w \in 1..1 /\ HomeWay(ip) \in 1..1
      <3> DEFINE r == index(q, ip, z)
      <3>1. r \in SetOf(q)
        BY IndexIn
      <3>2. /\ DOMAIN theBTB[q][r] = 1..Len(theBTB[q][r]) /\ Len(theBTB[q][r]) \in Nat
            /\ Len(theBTB[q][r]) <= 1
        BY <3>1, SetFacts DEF OneWay
      <3>3. w \in DOMAIN theBTB[q][r]
        BY <2>2 DEF Matches, ThisSet
      <3>4. HomeWay(ip) \in 1..Len(theBTB[q][r])
        BY <2>3, <2>4, <2>6, HomeFacts DEF ThisSet, y
      <3> DEFINE l == Len(theBTB[q][r])
      <3>5. \A i \in 1..l : i \in 1..1
        <4>1. l \in Nat /\ l <= 1
          BY <3>2
        <4> HIDE DEF l
        <4> QED
          BY <4>1
      <3> QED
        BY <3>2, <3>3, <3>4, <3>5
    <2> QED
      BY <2>2, <2>7, <2>8
  <1>5. /\ u[1].owner = ip /\ u[1].tag = Tag[p][ip]
        /\ u[1].lru + 1 = basic_btb_lru_counter'
    BY <1>1, <1>3
  <1> QED
    BY <1>1, <1>2, <1>3, <1>4, <1>5 DEF LatestStored

\* No entry of another branch, and no older one of its own, hides the entry
\* that the latest taken update wrote: a lookup of its branch ends at it,
\* whatever partition and zone it is in, if the sets have one way.
THEOREM LatestAlwaysFound == OneWay => (Spec => []LatestFound)
  <1> SUFFICES ASSUME OneWay PROVE Spec => []LatestFound
    OBVIOUS
  <1>1. Init => LatestFound
    BY DEF Init, LatestFound
  <1>2. ASSUME BTBInv, BTBInv', [Next]_vars, LatestFound PROVE LatestFound'
    <2>1. CASE UNCHANGED <<theBTB, basic_btb_lru_counter>>
      <3>1. Places' = Places /\ \A x : EntryAt(x)' = EntryAt(x)
        BY <2>1 DEF Places, EntryAt
      <3>2. \A q, ip, z : Matches(q, ip, z)' = Matches(q, ip, z)
        BY <2>1 DEF Matches, ThisSet
      <3>3. \A q, ip : ZonesWith(q, ip)' = ZonesWith(q, ip)
        BY <3>2 DEF ZonesWith
      <3>4. \A ip : Holders(ip)' = Holders(ip)
        BY <3>3 DEF Holders
      <3>5. \A ip : Home(ip)' = Home(ip)
        BY <3>4 DEF Home
      <3>6. \A ip : HomeZone(ip)' = HomeZone(ip)
        BY <3>3, <3>5 DEF HomeZone
      <3>7. \A ip : HomeWay(ip)' = HomeWay(ip)
        BY <3>2, <3>5, <3>6 DEF HomeWay
      <3>8. \A ip : FoundAt(ip)' = FoundAt(ip)
        BY <3>5, <3>6, <3>7 DEF FoundAt
      <3> QED
        BY <1>2, <2>1, <3>1, <3>4, <3>8 DEF LatestFound
    <2>2. ASSUME NEW target \in Target \cup {0}, NEW taken \in BOOLEAN, TraceUpdate(target, taken)
          PROVE  LatestFound'
      <3>1. CASE /\ taken /\ target \in Target
                 /\ \/ UpdateMiss(resolving, target)
                    \/ Promote(resolving, target)
                    \/ RewriteInPlace(resolving, target)
                 /\ basic_btb_lru_counter' = basic_btb_lru_counter + 1
        <4>1. resolving \in Ip
          BY <1>2, <2>2, UpdateCases
        <4>2. \E p, e : Stores(resolving, target, p, e) /\ Advances(resolving, p, e)
          BY <1>2, <3>1, <4>1, TakenStores
        <4>3. LatestStored'
          BY <1>2, <3>1, <4>1, <4>2, StoresLatest
        <4>4. (BTBInv /\ LatestStored => LatestFound)'
          BY StoredIsFound, PTL
        <4> QED
          BY <1>2, <4>3, <4>4
      <3> QED
        BY <1>2, <2>1, <2>2, <3>1, UpdateCases
    <2>3. ASSUME NEW ip \in Ip, SpecPrediction(ip) \/ TracePrediction(ip)
          PROVE  UNCHANGED <<theBTB, basic_btb_lru_counter>>
      BY <2>3 DEF SpecPrediction, TracePrediction, btb_prediction
    <2>4. UNCHANGED vars => UNCHANGED <<theBTB, basic_btb_lru_counter>>
      BY DEF vars
    <2> QED
      BY <1>2, <2>1, <2>2, <2>3, <2>4 DEF Next
  <1> QED
    BY <1>1, <1>2, BTBInvariant, PTL DEF Spec

-----------------------------------------------------------------------------
(* What an insertion leaves alone.                                         *)

\* A set of zone 1 holds no promoted entry.
LEMMA NoneInZoneOne ==
    ASSUME BTBInv, NEW p \in Partition, NEW ip \in Ip, NEW w,
           w \in DOMAIN theBTB[p][index(p, ip, 1)]
    PROVE  ~ (theBTB[p][index(p, ip, 1)][w].zone_id > 1)
  <1> DEFINE s == index(p, ip, 1)
             entry == theBTB[p][s][w]
  <1>1. 1 \in Zone /\ s \in SetOf(p)
    BY IndexIn DEF Zone
  <1>2. entry \in BTBEntry
    <2>1. theBTB[p][s] \in Seq(BTBEntry) /\ w \in 1..Len(theBTB[p][s])
      BY <1>1, SetFacts
    <2> QED
      BY <2>1, ElementOfSeq
  <1>3. s = index(p, entry.owner, entry.zone_id)
    BY <1>1 DEF BTBInv, WellPlaced
  <1>4. entry.owner \in Ip /\ entry.zone_id \in Zone
    BY <1>2 DEF BTBEntry
  <1>5. entry.zone_id = 1
    BY <1>1, <1>3, <1>4, IndexIn
  <1> QED
    BY <1>5

\* So a set of zone 1 has no promoted entries to displace,
NonePromoted == \A p \in Partition, ip \in Ip : DOMAIN Promoted(p, index(p, ip, 1)) = {}

\* as the invariant says,
LEMMA PromotedInZoneOne == BTBInv => NonePromoted
  BY NoneInZoneOne DEF Promoted, NonePromoted

\* and an insertion changes no other set.
LEMMA InsertionKeeps ==
    ASSUME BTBInv, BTBInv', NEW ip \in Ip, NEW target \in Target, UpdateMiss(ip, target),
           NEW q \in Partition, NEW r \in SetOf(q)
    PROVE  Promoted(q, r)' = Promoted(q, r)
  <1>1. PICK p, e :
          /\ Stores(ip, target, p, e) /\ e.zone_id = 1
          /\ \A y \in Partition : \A x \in SetOf(y) :
               y # p \/ x # index(p, ip, 1) => theBTB'[y][x] = theBTB[y][x]
    BY MissStores
  <1>2. p \in Partition
    BY <1>1 DEF Stores
  <1>3. CASE q # p \/ r # index(p, ip, 1)
    <2>1. theBTB'[q][r] = theBTB[q][r]
      BY <1>1, <1>3
    <2> QED
      BY <2>1 DEF Promoted
  <1>4. CASE q = p /\ r = index(p, ip, 1)
    <2>1. DOMAIN Promoted(q, r) = {}
      BY <1>2, <1>4, PromotedInZoneOne DEF NonePromoted
    <2>2. (DOMAIN Promoted(q, r) = {})'
      <3>1. (BTBInv => NonePromoted)'
        BY PromotedInZoneOne, PTL
      <3> QED
        BY <1>2, <1>4, <3>1 DEF NonePromoted
    <2> QED
      BY <2>1, <2>2 DEF Promoted
  <1> QED
    BY <1>3, <1>4

\* A branch that is seen for the first time never displaces one that has been
\* promoted, whatever the partitions and however the addresses map to sets.
THEOREM PromotedNeverDisplaced == Spec => InsertionsKeepPromoted
  <1>1. ASSUME BTBInv, BTBInv', [Next]_vars, BTB_writes' # BTB_writes,
               NEW q \in Partition, NEW r \in SetOf(q)
        PROVE  Promoted(q, r)' = Promoted(q, r)
    <2>1. PICK target \in Target \cup {0}, taken \in BOOLEAN : TraceUpdate(target, taken)
      <3>1. ASSUME NEW ip \in Ip, SpecPrediction(ip) \/ TracePrediction(ip)
            PROVE  UNCHANGED BTB_writes
        BY <3>1 DEF SpecPrediction, TracePrediction, btb_prediction
      <3>2. UNCHANGED vars => UNCHANGED BTB_writes
        BY DEF vars
      <3> QED
        BY <1>1, <3>1, <3>2 DEF Next
    <2>2. resolving \in Ip /\ target \in Target /\ UpdateMiss(resolving, target)
      <3>1. Promote(resolving, target) \/ RewriteInPlace(resolving, target) => UNCHANGED BTB_writes
        BY DEF Promote, RewriteInPlace
      <3> QED
        BY <1>1, <2>1, <3>1, UpdateCases
    <2> QED
      BY <1>1, <2>2, InsertionKeeps
  <1>2. BTBInv /\ BTBInv' /\ [Next]_vars =>
          [BTB_writes' # BTB_writes =>
             \A p \in Partition : \A s \in SetOf(p) : Promoted(p, s)' = Promoted(p, s)]_vars
    BY <1>1
  <1> QED
    BY <1>2, BTBInvariant, PTL DEF Spec, InsertionsKeepPromoted

-----------------------------------------------------------------------------
(* Wear.                                                                   *)

\* The sets of a zone are sets of the partition, finitely many, and of no
\* other zone; an index in the zone is one of them.
LEMMA ZoneSetsFacts ==
    ASSUME NEW p \in Partition, NEW z \in Zone
    PROVE  /\ IsFiniteSet(ZoneSets(p, z)) /\ ZoneSets(p, z) \in SUBSET SetOf(p)
           /\ \A y \in Zone : \A s \in ZoneSets(p, z) : s \in ZoneSets(p, y) => y = z
           /\ \A ip \in Ip : index(p, ip, z) \in ZoneSets(p, z)
  <1>1. PICK k \in Nat :
             /\ k > 0 /\ numSets[p] = 4 * k
             /\ ZoneBase(p, 1) = 0 /\ ZoneBase(p, 2) = 2 * k /\ ZoneBase(p, 3) = 3 * k
             /\ ZoneSize(p, 1) = 2 * k /\ ZoneSize(p, 2) = k /\ ZoneSize(p, 3) = k
    BY ZoneBounds
  <1>2. Zone = {1, 2, 3} /\ SetOf(p) = 0..(4 * k - 1)
    BY <1>1 DEF Zone, SetOf
  <1> DEFINE b == ZoneBase(p, z)
             n == ZoneSize(p, z)
  <1>3. b \in Nat /\ n \in Nat /\ n > 0 /\ b + n <= 4 * k /\ ZoneSets(p, z) = b..(b + n - 1)
    BY <1>1, <1>2 DEF ZoneSets
  <1>4. \A ip \in Ip : index(p, ip, z) = b + ((ip \div 4) % n)
    BY DEF index
  <1> HIDE DEF b, n
  <1>5. IsFiniteSet(ZoneSets(p, z))
    <2>1. b \in Int /\ b + n - 1 \in Int
      BY <1>3
    <2> QED
      BY <1>3, <2>1, FS_Interval
  <1>6. ZoneSets(p, z) \in SUBSET SetOf(p)
    BY <1>2, <1>3
  <1>7. ASSUME NEW y \in Zone, NEW s \in ZoneSets(p, z), s \in ZoneSets(p, y) PROVE y = z
    <2>1. /\ ZoneSets(p, 1) = 0..(0 + 2 * k - 1) /\ ZoneSets(p, 2) = (2 * k)..(2 * k + k - 1)
          /\ ZoneSets(p, 3) = (3 * k)..(3 * k + k - 1)
      BY <1>1 DEF ZoneSets
    <2>2. \A i \in Int : /\ ~(i \in 0..(0 + 2 * k - 1) /\ i \in (2 * k)..(2 * k + k - 1))
                         /\ ~(i \in 0..(0 + 2 * k - 1) /\ i \in (3 * k)..(3 * k + k - 1))
                         /\ ~(i \in (2 * k)..(2 * k + k - 1) /\ i \in (3 * k)..(3 * k + k - 1))
      OBVIOUS
    <2>3. s \in Int
      BY <1>3
    <2> QED
      BY <1>2, <1>7, <2>1, <2>2, <2>3
  <1>8. ASSUME NEW ip \in Ip PROVE index(p, ip, z) \in ZoneSets(p, z)
    <2> DEFINE x == ip \div 4
               m == x % n
    <2>1. x \in Nat
      BY Sizes
    <2> HIDE DEF x
    <2>2. m \in Nat /\ m < n
      BY <1>3, <2>1
    <2> HIDE DEF m
    <2>3. b + m \in b..(b + n - 1)
      BY <1>3, <2>2
    <2> QED
      BY <1>3, <1>4, <2>3 DEF m, x
  <1> QED
    BY <1>5, <1>6, <1>7, <1>8

\* The wear of a set, and that of the sets of a zone of one partition.
SetWear(wc, p, s) == SumFunction(wc[p][s])
RowWear(wc, p, z) == SumFunction([s \in ZoneSets(p, z) |-> SetWear(wc, p, s)])
WearOf(wc, z) == SumFunction([p \in Partition |-> RowWear(wc, p, z)])

\* The counters of a table.
Counters(wc) == \A p \in Partition : wc[p] \in [SetOf(p) -> [Way(p) -> Nat]]

\* The wear of the model is that of its counters.
LEMMA WearIs ==
    \A z : ZoneWear(z) = WearOf(write_counts, z) /\ ZoneWear(z)' = WearOf(write_counts', z)
  BY DEF ZoneWear, WearOf, RowWear, SetWear

\* Wear is a number.
LEMMA WearType ==
    ASSUME NEW wc, Counters(wc), NEW z \in Zone
    PROVE  /\ \A p \in Partition : \A s \in SetOf(p) : SetWear(wc, p, s) \in Nat
           /\ \A p \in Partition : RowWear(wc, p, z) \in Nat
           /\ WearOf(wc, z) \in Nat
  <1>1. ASSUME NEW p \in Partition, NEW s \in SetOf(p) PROVE SetWear(wc, p, s) \in Nat
    <2> DEFINE f == wc[p][s]
    <2>1. f \in [Way(p) -> Nat]
      BY DEF Counters
    <2>2. Way(p) = 0..(Assoc[p] - 1) /\ 0 \in Int /\ Assoc[p] - 1 \in Int
      BY Sizes DEF Way
    <2>3. IsFiniteSet(Way(p))
      BY <2>2, FS_Interval
    <2> HIDE DEF f
    <2>4. SumFunction(f) \in Nat
      BY <2>1, <2>3, SumType
    <2> QED
      BY <2>4 DEF f, SetWear
  <1>2. ASSUME NEW p \in Partition PROVE RowWear(wc, p, z) \in Nat
    <2> DEFINE f == [s \in ZoneSets(p, z) |-> SetWear(wc, p, s)]
    <2>1. /\ DOMAIN f = ZoneSets(p, z) /\ IsFiniteSet(ZoneSets(p, z))
          /\ \A s \in ZoneSets(p, z) : f[s] \in Nat
      BY <1>1, ZoneSetsFacts
    <2> HIDE DEF f
    <2>2. SumFunction(f) \in Nat
      BY <2>1, SumType
    <2> QED
      BY <2>2 DEF f, RowWear
  <1>3. WearOf(wc, z) \in Nat
    <2> DEFINE f == [p \in Partition |-> RowWear(wc, p, z)]
    <2>1. IsFiniteSet(Partition)
      <3>1. 0 \in Int /\ NUM_BTB_PARTITIONS - 1 \in Int /\ Partition = 0..(NUM_BTB_PARTITIONS - 1)
        BY Sizes
      <3> QED
        BY <3>1, FS_Interval
    <2>2. DOMAIN f = Partition /\ \A p \in Partition : f[p] \in Nat
      BY <1>2
    <2> HIDE DEF f
    <2>3. SumFunction(f) \in Nat
      BY <2>1, <2>2, SumType
    <2> QED
      BY <2>3 DEF f, WearOf
  <1> QED
    BY <1>1, <1>2, <1>3

\* A write to a cell adds one to the wear of its zone and to no other.
LEMMA WearAdds ==
    ASSUME NEW wc, NEW wd, Counters(wc), Counters(wd),
           NEW p \in Partition, NEW zone \in Zone, NEW s \in ZoneSets(p, zone), NEW w \in Way(p),
           \A q \in Partition : \A r \in SetOf(q) :
             wd[q][r] = IF q = p /\ r = s THEN [wc[q][r] EXCEPT ![w] = wc[q][r][w] + 1] ELSE wc[q][r],
           NEW z \in Zone
    PROVE  WearOf(wd, z) = WearOf(wc, z) + (IF z = zone THEN 1 ELSE 0)
  <1>1. s \in SetOf(p)
    BY ZoneSetsFacts
  <1>2. ASSUME NEW q \in Partition, NEW r \in SetOf(q)
        PROVE  /\ q = p /\ r = s => SetWear(wd, q, r) = SetWear(wc, q, r) + 1
               /\ ~(q = p /\ r = s) => SetWear(wd, q, r) = SetWear(wc, q, r)
    <2>1. CASE q = p /\ r = s
      <3> DEFINE f == wc[q][r]
                 g == wd[q][r]
      <3>1. f \in [Way(p) -> Nat] /\ g = [f EXCEPT ![w] = f[w] + 1]
        BY <2>1 DEF Counters
      <3>2. IsFiniteSet(Way(p))
        <4>1. Way(p) = 0..(Assoc[p] - 1) /\ 0 \in Int /\ Assoc[p] - 1 \in Int
          BY Sizes DEF Way
        <4> QED
          BY <4>1, FS_Interval
      <3> HIDE DEF f, g
      <3>3. /\ DOMAIN f = Way(p) /\ DOMAIN g = Way(p)
            /\ \A x \in Way(p) : f[x] \in Nat /\ g[x] \in Nat /\ f[x] \in Int /\ g[x] \in Int
            /\ \A x \in Way(p) : x # w => g[x] = f[x]
        BY <3>1
      <3>4. g[w] = f[w] + 1
        BY <3>1
      <3>5. SumFunction(g) = SumFunction(f) + (g[w] - f[w])
        BY <3>2, <3>3, SumChanged
      <3>6. g[w] - f[w] = 1
        <4> DEFINE a == f[w]
        <4>1. a \in Nat
          BY <3>3
        <4> HIDE DEF a
        <4>2. (a + 1) - a = 1
          BY <4>1
        <4> QED
          BY <3>4, <4>2 DEF a
      <3> QED
        BY <2>1, <3>5, <3>6 DEF SetWear, f, g
    <2>2. CASE ~(q = p /\ r = s)
      BY <2>2 DEF SetWear
    <2> QED
      BY <2>1, <2>2
  <1>3. ASSUME NEW q \in Partition
        PROVE  /\ q = p /\ z = zone => RowWear(wd, q, z) = RowWear(wc, q, z) + 1
               /\ ~(q = p /\ z = zone) => RowWear(wd, q, z) = RowWear(wc, q, z)
    <2> DEFINE f == [r \in ZoneSets(q, z) |-> SetWear(wc, q, r)]
               g == [r \in ZoneSets(q, z) |-> SetWear(wd, q, r)]
    <2>1. /\ IsFiniteSet(ZoneSets(q, z)) /\ ZoneSets(q, z) \in SUBSET SetOf(q)
          /\ DOMAIN f = ZoneSets(q, z) /\ DOMAIN g = ZoneSets(q, z)
          /\ \A r \in ZoneSets(q, z) : f[r] \in Nat /\ g[r] \in Nat /\ f[r] \in Int /\ g[r] \in Int
      BY ZoneSetsFacts, WearType
    <2>2. RowWear(wc, q, z) = SumFunction(f) /\ RowWear(wd, q, z) = SumFunction(g)
      BY DEF RowWear
    <2>3. CASE q = p /\ z = zone
      <3>1. /\ s \in ZoneSets(q, z) /\ g[s] = f[s] + 1
            /\ \A r \in ZoneSets(q, z) : r # s => g[r] = f[r]
        BY <1>1, <1>2, <2>1, <2>3
      <3> HIDE DEF f, g
      <3>2. SumFunction(g) = SumFunction(f) + (g[s] - f[s])
        BY <2>1, <3>1, SumChanged
      <3>3. g[s] - f[s] = 1
        <4> DEFINE a == f[s]
        <4>1. a \in Nat
          BY <2>1, <3>1
        <4> HIDE DEF a
        <4>2. (a + 1) - a = 1
          BY <4>1
        <4> QED
          BY <3>1, <4>2 DEF a
      <3> QED
        BY <2>2, <2>3, <3>2, <3>3
    <2>4. CASE ~(q = p /\ z = zone)
      <3>1. ASSUME NEW r \in ZoneSets(q, z) PROVE SetWear(wd, q, r) = SetWear(wc, q, r)
        <4>1. ~(q = p /\ r = s)
          BY <2>4, ZoneSetsFacts
        <4> QED
          BY <1>2, <2>1, <4>1
      <3>2. g = f
        BY <3>1
      <3> QED
        BY <2>2, <2>4, <3>2
    <2> QED
      BY <2>3, <2>4
  <1> DEFINE f == [q \in Partition |-> RowWear(wc, q, z)]
             g == [q \in Partition |-> RowWear(wd, q, z)]
  <1>4. WearOf(wc, z) = SumFunction(f) /\ WearOf(wd, z) = SumFunction(g)
    BY DEF WearOf
  <1>5. IsFiniteSet(Partition)
    <2>1. 0 \in Int /\ NUM_BTB_PARTITIONS - 1 \in Int /\ Partition = 0..(NUM_BTB_PARTITIONS - 1)
      BY Sizes
    <2> QED
      BY <2>1, FS_Interval
  <1>6. CASE z = zone
    <2>1. /\ DOMAIN f = Partition /\ DOMAIN g = Partition
          /\ \A q \in Partition : f[q] \in Nat /\ g[q] \in Nat /\ f[q] \in Int /\ g[q] \in Int
          /\ g[p] = f[p] + 1 /\ \A q \in Partition : q # p => g[q] = f[q]
      BY <1>3, <1>6, WearType
    <2> HIDE DEF f, g
    <2>2. SumFunction(g) = SumFunction(f) + (g[p] - f[p])
      BY <1>5, <2>1, SumChanged
    <2>3. g[p] - f[p] = 1
      <3> DEFINE a == f[p]
      <3>1. a \in Nat
        BY <2>1
      <3> HIDE DEF a
      <3>2. (a + 1) - a = 1
        BY <3>1
      <3> QED
        BY <2>1, <3>2 DEF a
    <2> QED
      BY <1>4, <1>6, <2>2, <2>3
  <1>7. CASE z # zone
    <2>1. g = f
      BY <1>3, <1>7
    <2>2. WearOf(wc, z) \in Nat
      BY WearType
    <2> QED
      BY <1>4, <1>7, <2>1, <2>2
  <1> QED
    BY <1>6, <1>7

\* A taken update wears one cell of the zone whose latency it leaves behind.
LEMMA TakenWears ==
    ASSUME BTBInv, NEW ip \in Ip, NEW target \in Target,
           \/ UpdateMiss(ip, target)
           \/ Promote(ip, target)
           \/ RewriteInPlace(ip, target)
    PROVE  \E p \in Partition : \E zone \in Zone : \E w \in Way(p) :
             /\ write_counts' = [write_counts EXCEPT ![p][index(p, ip, zone)][w] = @ + 1]
             /\ btb_write_latency' = zone + 1
  <1>1. Zone = {1, 2, 3}
    BY DEF Zone
  <1>2. CASE UpdateMiss(ip, target)
    <2> DEFINE p == get_lru_partition(smallest_offset_partition_id(ip, target), ip)
               s == index(p, ip, 1)
    <2>1. p \in Partition
      <3>1. smallest_offset_partition_id(ip, target) \in Partition
        BY Sizes DEF smallest_offset_partition_id
      <3> QED
        BY <3>1, LruPartitionIn
    <2>2. /\ write_counts' = [write_counts EXCEPT ![p][s][FreeWay(p, s)] = @ + 1]
          /\ btb_write_latency' = 1 + 1
      BY <1>2 DEF UpdateMiss, WearInsert, WriteLatency
    <2> HIDE DEF p
    <2>3. FreeWay(p, s) \in Way(p) /\ 1 \in Zone
      BY <1>1, <2>1, IndexIn, FreeWayIn
    <2> QED
      BY <2>1, <2>2, <2>3
  <1>3. CASE Promote(ip, target)
    <2> DEFINE p == Home(ip)
               zone == HomeZone(ip) + 1
               s == index(p, ip, zone)
    <2>1. p \in Partition /\ HomeZone(ip) \in Zone /\ HomeZone(ip) < 3
      BY <1>3, HomeFacts DEF Promote
    <2>2. /\ write_counts' = [write_counts EXCEPT ![p][s][FreeWay(p, s)] = @ + 1]
          /\ btb_write_latency' = zone + 1
      BY <1>3 DEF Promote, WearInsert, WriteLatency
    <2>3. zone \in Zone
      BY <1>1, <2>1
    <2> HIDE DEF p, zone
    <2>4. FreeWay(p, s) \in Way(p)
      BY <2>1, <2>3, IndexIn, FreeWayIn
    <2> QED
      BY <2>1, <2>2, <2>3, <2>4
  <1>4. CASE RewriteInPlace(ip, target)
    <2> DEFINE p == Home(ip)
               s == index(p, ip, 3)
               w == get_BTBentry(ip).way_id
               entry == [get_BTBentry(ip) EXCEPT
                           !.branch_type = BranchType[ip],
                           !.target_ip = IF target # 0 THEN target ELSE @,
                           !.lru = basic_btb_lru_counter,
                           !.owner = ip]
    <2>1. /\ Holders(ip) # {} /\ HomeZone(ip) = 3 /\ btb_write_latency' = 3 + 1
          /\ write_counts' = [write_counts EXCEPT ![p][s][entry.way_id] = @ + 1]
      BY <1>4 DEF RewriteInPlace, WriteLatency
    <2>2. /\ p \in Partition /\ s \in SetOf(p) /\ 3 \in Zone
          /\ HomeWay(ip) \in DOMAIN theBTB[p][s]
          /\ get_BTBentry(ip) = theBTB[p][s][HomeWay(ip)] /\ get_BTBentry(ip) \in BTBEntry
      <3>1. /\ p \in Partition /\ s \in SetOf(p) /\ get_BTBentry(ip) \in BTBEntry
            /\ HomeWay(ip) \in 1..Len(theBTB[p][s])
        BY <2>1, HomeFacts DEF ThisSet
      <3>2. get_BTBentry(ip) = theBTB[p][s][HomeWay(ip)]
        BY <2>1 DEF get_BTBentry, ThisSet
      <3> QED
        BY <1>1, <3>1, <3>2, SetFacts
    <2>3. entry.way_id = w
      BY <2>2 DEF BTBEntry
    <2>4. w \in Way(p)
      BY <2>2 DEF BTBInv, WellPlaced
    <2> HIDE DEF p, w, entry
    <2> QED
      BY <2>1, <2>2, <2>3, <2>4
  <1> QED
    BY <1>2, <1>3, <1>4

\* What the counters of the model add up to.
TotalWear(wc) == SumFunction([zone \in Zone |-> WearOf(wc, zone)])
TotalCost(wc) == SumFunction([zone \in Zone |-> WriteLatency(zone) * WearOf(wc, zone)])

\* There are three zones.
LEMMA ZoneIsFinite == IsFiniteSet(Zone) /\ Zone \in SUBSET Nat
  <1>1. 1 \in Int /\ 3 \in Int /\ Zone = 1..3 /\ Zone \in SUBSET Nat
    BY DEF Zone
  <1>2. IsFiniteSet(1..3)
    BY <1>1, FS_Interval
  <1> QED
    BY <1>1, <1>2

\* A taken update adds one to the wear, and to its cost the latency it leaves
\* behind.
LEMMA TakenAdds ==
    ASSUME BTBInv, BTBInv', NEW ip \in Ip, NEW target \in Target,
           \/ UpdateMiss(ip, target)
           \/ Promote(ip, target)
           \/ RewriteInPlace(ip, target)
    PROVE  /\ TotalWear(write_counts') = TotalWear(write_counts) + 1
           /\ TotalCost(write_counts') = TotalCost(write_counts) + btb_write_latency'
  <1> DEFINE wc == write_counts
             wd == write_counts'
  <1>1. PICK p \in Partition : \E zone \in Zone : \E w \in Way(p) :
             /\ wd = [wc EXCEPT ![p][index(p, ip, zone)][w] = @ + 1]
             /\ btb_write_latency' = zone + 1
    BY TakenWears
  <1>2. PICK zone \in Zone : \E w \in Way(p) :
             /\ wd = [wc EXCEPT ![p][index(p, ip, zone)][w] = @ + 1]
             /\ btb_write_latency' = zone + 1
    BY <1>1
  <1>3. PICK w \in Way(p) :
             /\ wd = [wc EXCEPT ![p][index(p, ip, zone)][w] = @ + 1]
             /\ btb_write_latency' = zone + 1
    BY <1>2
  <1> DEFINE s == index(p, ip, zone)
  <1>4. s \in ZoneSets(p, zone) /\ s \in SetOf(p)
    BY ZoneSetsFacts
  <1>5. Counters(wc) /\ Counters(wd) /\ DOMAIN wc = Partition
    BY DEF BTBInv, TypeOK, Counters
  <1> HIDE DEF wc, wd, s
  <1>6. \A q \in Partition : \A r \in SetOf(q) :
          wd[q][r] = IF q = p /\ r = s THEN [wc[q][r] EXCEPT ![w] = wc[q][r][w] + 1] ELSE wc[q][r]
    <2>1. \A q \in Partition : DOMAIN wc[q] = SetOf(q)
      BY <1>5 DEF Counters
    <2>2. wd = [wc EXCEPT ![p] = [wc[p] EXCEPT ![s] = [wc[p][s] EXCEPT ![w] = wc[p][s][w] + 1]]]
      BY <1>3, <1>4, <1>5, <2>1 DEF s
    <2> QED
      BY <1>4, <1>5, <2>1, <2>2
  <1>7. \A z \in Zone : WearOf(wd, z) = WearOf(wc, z) + (IF z = zone THEN 1 ELSE 0)
    BY <1>4, <1>5, <1>6, WearAdds
  <1>8. \A z \in Zone : WearOf(wc, z) \in Nat /\ WearOf(wd, z) \in Nat
    BY <1>5, WearType
  <1>9. WearOf(wd, zone) = WearOf(wc, zone) + 1
        /\ \A z \in Zone : z # zone => WearOf(wd, z) = WearOf(wc, z)
    <2>1. \A z \in Zone : z # zone => WearOf(wd, z) = WearOf(wc, z) + 0
      BY <1>7
    <2>2. \A a \in Nat : a + 0 = a
      OBVIOUS
    <2> QED
      BY <1>7, <1>8, <2>1, <2>2
  <1>10. IsFiniteSet(Zone) /\ Zone \in SUBSET Nat
    BY ZoneIsFinite
  <1>11. TotalWear(wd) = TotalWear(wc) + 1
    <2> DEFINE f == [z \in Zone |-> WearOf(wc, z)]
               g == [z \in Zone |-> WearOf(wd, z)]
    <2>1. /\ DOMAIN f = Zone /\ DOMAIN g = Zone
          /\ \A z \in Zone : f[z] \in Int /\ g[z] \in Int /\ f[z] \in Nat
          /\ g[zone] = f[zone] + 1 /\ \A z \in Zone : z # zone => g[z] = f[z]
      BY <1>8, <1>9
    <2>2. TotalWear(wc) = SumFunction(f) /\ TotalWear(wd) = SumFunction(g)
      BY DEF TotalWear
    <2> HIDE DEF f, g
    <2>3. SumFunction(g) = SumFunction(f) + (g[zone] - f[zone])
      BY <1>10, <2>1, SumChanged
    <2>4. \A a \in Nat : (a + 1) - a = 1
      OBVIOUS
    <2> QED
      BY <2>1, <2>2, <2>3, <2>4
  <1>12. TotalCost(wd) = TotalCost(wc) + (zone + 1)
    <2> DEFINE f == [z \in Zone |-> WriteLatency(z) * WearOf(wc, z)]
               g == [z \in Zone |-> WriteLatency(z) * WearOf(wd, z)]
    <2>1. \A z \in Zone : WriteLatency(z) = z + 1 /\ WriteLatency(z) \in Nat
      BY <1>10 DEF WriteLatency
    <2>2. \A a \in Nat, b \in Nat : a * b \in Nat /\ a * (b + 1) = a * b + a
      OBVIOUS
    <2>3. /\ DOMAIN f = Zone /\ DOMAIN g = Zone
          /\ \A z \in Zone : z # zone => g[z] = f[z]
      BY <1>9
    <2>4. \A z \in Zone : f[z] \in Nat /\ g[z] \in Nat
      BY <1>8, <2>1, <2>2
    <2>5. g[zone] = f[zone] + (zone + 1)
      BY <1>8, <1>9, <2>1, <2>2
    <2>6. TotalCost(wc) = SumFunction(f) /\ TotalCost(wd) = SumFunction(g)
      BY DEF TotalCost
    <2> HIDE DEF f, g
    <2>7. \A z \in Zone : f[z] \in Int /\ g[z] \in Int
      BY <2>4
    <2>8. SumFunction(g) = SumFunction(f) + (g[zone] - f[zone])
      BY <1>10, <2>3, <2>7, SumChanged
    <2>9. \A a, b \in Nat : (a + b) - a = b
      OBVIOUS
    <2>10. zone + 1 \in Nat /\ f[zone] \in Nat
      BY <2>1, <2>4
    <2> QED
      BY <2>5, <2>6, <2>8, <2>9, <2>10
  <1> QED
    BY <1>3, <1>11, <1>12 DEF wc, wd

\* The two equations, in the words of the lemmas.
WearInv == /\ TotalWear(write_counts) = basic_btb_lru_counter
           /\ TotalCost(write_counts) = stalled

\* Before anything has been written nothing is worn.
LEMMA InitWear == Init => WearInv
  <1> SUFFICES ASSUME Init PROVE WearInv
    OBVIOUS
  <1>1. IsFiniteSet(Partition)
    <2>1. 0 \in Int /\ NUM_BTB_PARTITIONS - 1 \in Int /\ Partition = 0..(NUM_BTB_PARTITIONS - 1)
      BY Sizes
    <2> QED
      BY <2>1, FS_Interval
  <1>2. IsFiniteSet(Zone) /\ Zone \in SUBSET Nat
    BY ZoneIsFinite
  <1>3. ASSUME NEW p \in Partition, NEW s \in SetOf(p) PROVE SetWear(write_counts, p, s) = 0
    <2> DEFINE f == write_counts[p][s]
    <2>1. f = [w \in Way(p) |-> 0]
      BY DEF Init
    <2>2. IsFiniteSet(Way(p))
      <3>1. Way(p) = 0..(Assoc[p] - 1) /\ 0 \in Int /\ Assoc[p] - 1 \in Int
        BY Sizes DEF Way
      <3> QED
        BY <3>1, FS_Interval
    <2> HIDE DEF f
    <2>3. IsFiniteSet(DOMAIN f) /\ \A w \in DOMAIN f : f[w] = 0
      BY <2>1, <2>2
    <2>4. SumFunction(f) = 0
      BY <2>3, SumZero
    <2> QED
      BY <2>4 DEF SetWear, f
  <1>4. ASSUME NEW p \in Partition, NEW z \in Zone PROVE RowWear(write_counts, p, z) = 0
    <2> DEFINE f == [s \in ZoneSets(p, z) |-> SetWear(write_counts, p, s)]
    <2>1. IsFiniteSet(DOMAIN f) /\ \A s \in DOMAIN f : f[s] = 0
      BY <1>3, ZoneSetsFacts
    <2> HIDE DEF f
    <2>2. SumFunction(f) = 0
      BY <2>1, SumZero
    <2> QED
      BY <2>2 DEF RowWear, f
  <1>5. ASSUME NEW z \in Zone PROVE WearOf(write_counts, z) = 0
    <2> DEFINE f == [p \in Partition |-> RowWear(write_counts, p, z)]
    <2>1. IsFiniteSet(DOMAIN f) /\ \A p \in DOMAIN f : f[p] = 0
      BY <1>1, <1>4
    <2> HIDE DEF f
    <2>2. SumFunction(f) = 0
      BY <2>1, SumZero
    <2> QED
      BY <2>2 DEF WearOf, f
  <1>6. TotalWear(write_counts) = 0
    <2> DEFINE f == [z \in Zone |-> WearOf(write_counts, z)]
    <2>1. IsFiniteSet(DOMAIN f) /\ \A z \in DOMAIN f : f[z] = 0
      BY <1>2, <1>5
    <2> HIDE DEF f
    <2>2. SumFunction(f) = 0
      BY <2>1, SumZero
    <2> QED
      BY <2>2 DEF TotalWear, f
  <1>7. TotalCost(write_counts) = 0
    <2> DEFINE f == [z \in Zone |-> WriteLatency(z) * WearOf(write_counts, z)]
    <2>1. \A z \in Zone : WriteLatency(z) \in Nat
      BY <1>2 DEF WriteLatency
    <2>2. \A a \in Nat : a * 0 = 0
      OBVIOUS
    <2>3. IsFiniteSet(DOMAIN f) /\ \A z \in DOMAIN f : f[z] = 0
      BY <1>2, <1>5, <2>1, <2>2
    <2> HIDE DEF f
    <2>4. SumFunction(f) = 0
      BY <2>3, SumZero
    <2> QED
      BY <2>4 DEF TotalCost, f
  <1> QED
    BY <1>6, <1>7 DEF Init, WearInv

\* Every step that wears a cell counts it and is stalled for.
LEMMA NextWear == BTBInv /\ BTBInv' /\ WearInv /\ [Next]_vars => WearInv'
  <1> SUFFICES ASSUME BTBInv, BTBInv', WearInv, [Next]_vars PROVE WearInv'
    OBVIOUS
  <1>1. CASE UNCHANGED <<write_counts, basic_btb_lru_counter, stalled>>
    BY <1>1 DEF WearInv
  <1>2. ASSUME NEW ip \in Ip, SpecPrediction(ip) \/ TracePrediction(ip) PROVE WearInv'
    BY <1>1, <1>2 DEF SpecPrediction, TracePrediction, btb_prediction
  <1>3. ASSUME NEW target \in Target \cup {0}, NEW taken \in BOOLEAN, TraceUpdate(target, taken)
        PROVE  WearInv'
    <2>1. CASE ~taken
      BY <1>1, <1>3, <2>1 DEF TraceUpdate, update_btb
    <2>2. CASE taken
      <3>1. /\ resolving \in Ip /\ target \in Target
            /\ \/ UpdateMiss(resolving, target)
               \/ Promote(resolving, target)
               \/ RewriteInPlace(resolving, target)
            /\ basic_btb_lru_counter' = basic_btb_lru_counter + 1
        BY <1>3, <2>2, UpdateCases
      <3>2. stalled' = stalled + btb_write_latency'
        BY <1>3, <2>2 DEF TraceUpdate
      <3>3. /\ TotalWear(write_counts') = TotalWear(write_counts) + 1
            /\ TotalCost(write_counts') = TotalCost(write_counts) + btb_write_latency'
        BY <3>1, TakenAdds
      <3> QED
        BY <3>1, <3>2, <3>3 DEF WearInv
    <2> QED
      BY <2>1, <2>2
  <1>4. CASE UNCHANGED vars
    BY <1>1, <1>4 DEF vars
  <1> QED
    BY <1>2, <1>3, <1>4 DEF Next

\* The counters of the cells account for every taken update, and for every
\* cycle that the fetch was stalled.
THEOREM WearAlwaysEqual == Spec => []WearInv
  BY BTBInvariant, InitWear, NextWear, PTL DEF Spec

\* Every taken update wears exactly one cell, whatever zone and partition it
\* writes to.
THEOREM WearAlwaysAccounted == Spec => []WearAccounted
  <1>1. WearInv => WearAccounted
    BY WearIs DEF WearInv, WearAccounted, TotalWear
  <1> QED
    BY <1>1, WearAlwaysEqual, PTL

\* The cycles the fetch has stalled for are those of the cells that were worn.
THEOREM WearAlwaysPaidFor == Spec => []WearPaidFor
  <1>1. WearInv => WearPaidFor
    BY WearIs DEF WearInv, WearPaidFor, TotalCost
  <1> QED
    BY <1>1, WearAlwaysEqual, PTL
=============================================================================
