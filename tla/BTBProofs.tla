------------------------------- MODULE BTBProofs -------------------------------
(***************************************************************************)
(* What the proofs about both BTBs rest on: minima; sums of counters; and  *)
(* the return address stack, whose circular buffer implements a stack of   *)
(* fixed depth for every size of the buffer and of the size table.         *)
(*                                                                         *)
(* The recursion of SumFunction is over the subsets of a finite domain;    *)
(* the inductions are by a smallest counterexample.                        *)
(***************************************************************************)
EXTENDS ReturnAddressStack, SequencesExt, FiniteSetTheorems, WellFoundedInduction, TLAPS

-----------------------------------------------------------------------------
(* Minima and induction. *)

\* A nonempty set of numbers has a minimum.
LEMMA MinIn ==
    ASSUME NEW S \in SUBSET Nat, S # {}
    PROVE  Min(S) \in S /\ \A y \in S : Min(S) <= y
  <1>1. PICK x \in S : \A y \in S : ~ (<<y, x>> \in OpToRel(<, Nat))
    BY NatLessThanWellFounded, WFMin
  <1>2. ASSUME NEW y \in S PROVE x <= y
    <2>1. x \in Nat /\ y \in Nat
      OBVIOUS
    <2>2. ~ (y < x)
      BY <1>1, <2>1 DEF OpToRel
    <2> QED
      BY <2>1, <2>2
  <1> QED
    BY <1>2 DEF Min

\* It is the only lower bound in the set.
LEMMA MinIs ==
    ASSUME NEW S \in SUBSET Nat, NEW x \in S, \A y \in S : x <= y
    PROVE  Min(S) = x
  <1>1. Min(S) \in S /\ Min(S) <= x /\ x <= Min(S)
    BY MinIn
  <1>2. Min(S) \in Nat /\ x \in Nat
    BY <1>1
  <1> QED
    BY <1>1, <1>2

\* A set of numbers that has 0 and the successor of each of its elements has
\* all of them.
LEMMA AllNumbers ==
    ASSUME NEW X \in SUBSET Nat, 0 \in X, \A n \in X : n + 1 \in X
    PROVE  X = Nat
  <1> DEFINE Y == Nat \ X
  <1> SUFFICES ASSUME Y # {} PROVE FALSE
    OBVIOUS
  <1>1. PICK x \in Y : \A y \in Y : ~ (<<y, x>> \in OpToRel(<, Nat))
    BY NatLessThanWellFounded, WFMin
  <1>2. x \in Nat /\ x # 0 /\ x \notin X
    OBVIOUS
  <1>3. x - 1 \in Nat /\ x - 1 < x /\ (x - 1) + 1 = x
    BY <1>2
  <1>4. x - 1 \notin X
    BY <1>2, <1>3
  <1> QED
    BY <1>1, <1>2, <1>3, <1>4 DEF OpToRel

\* A set of subsets of a finite set that has every subset whose proper
\* subsets it has, has them all.
LEMMA AllSubsets ==
    ASSUME NEW D, IsFiniteSet(D), NEW X \in SUBSET (SUBSET D),
           \A s \in SUBSET D : (\A t \in SUBSET s : t # s => t \in X) => s \in X
    PROVE  \A s \in SUBSET D : s \in X
  <1> DEFINE Y == (SUBSET D) \ X
             C == {Cardinality(s) : s \in Y}
  <1> SUFFICES ASSUME Y # {} PROVE FALSE
    OBVIOUS
  <1>1. \A s \in SUBSET D : IsFiniteSet(s) /\ Cardinality(s) \in Nat
    BY FS_Subset, FS_CardinalityType
  <1>2. C \in SUBSET Nat /\ C # {}
    BY <1>1
  <1> HIDE DEF C
  <1> DEFINE n == Min(C)
  <1>3. n \in C /\ \A m \in C : n <= m
    BY <1>2, MinIn
  <1> HIDE DEF n
  <1>4. PICK s \in Y : n = Cardinality(s)
    BY <1>3 DEF C
  <1>5. ASSUME NEW t \in SUBSET s, t # s PROVE t \in X
    <2>1. t \in SUBSET D /\ s \in SUBSET D /\ IsFiniteSet(s)
      BY <1>1
    <2>2. Cardinality(t) \in Nat /\ n \in Nat /\ Cardinality(t) <= n /\ Cardinality(t) # n
      BY <1>1, <1>4, <1>5, <2>1, FS_Subset
    <2>3. ~ (n <= Cardinality(t))
      BY <2>2
    <2>4. Cardinality(t) \notin C
      BY <1>3, <2>3
    <2> QED
      BY <2>1, <2>4 DEF C
  <1> QED
    BY <1>4, <1>5

\* What a function does to a finite set is finite.
LEMMA ImageFinite ==
    ASSUME NEW g, IsFiniteSet(DOMAIN g)
    PROVE  IsFiniteSet({g[x] : x \in DOMAIN g})
  <1> DEFINE T == {g[x] : x \in DOMAIN g}
             h == [x \in DOMAIN g |-> g[x]]
  <1>1. h \in Surjection(DOMAIN g, T)
    BY DEF Surjection
  <1> HIDE DEF h, T
  <1>2. IsFiniteSet(T)
    BY <1>1, FS_Surjection
  <1> QED
    BY <1>2 DEF T

-----------------------------------------------------------------------------
(* Sums. *)

\* SumFunction takes the elements of the domain out one by one.
First(s) == CHOOSE x \in s : TRUE
Totals(f) ==
    CHOOSE it : it = [s \in SUBSET DOMAIN f |->
                        IF s = {} THEN 0
                        ELSE f[CHOOSE x \in s : TRUE] + it[s \ {CHOOSE x \in s : TRUE}]]

\* The library's sum of a function is the recursive total that removes its
\* first index one at a time.
LEMMA SumIsTotal == \A f : SumFunction(f) = Totals(f)[DOMAIN f]
  BY DEF SumFunction, SumFunctionOnSet, FoldFunctionOnSet, MapThenFoldSet, Totals

\* The index a total takes first is one of those that are left.
LEMMA FirstIn == \A s : s # {} => First(s) \in s
  BY DEF First

\* There is such a function for a finite domain.
LEMMA TotalsExist ==
    ASSUME NEW f, IsFiniteSet(DOMAIN f)
    PROVE  \A s \in SUBSET DOMAIN f :
             Totals(f)[s] = IF s = {} THEN 0 ELSE f[First(s)] + Totals(f)[s \ {First(s)}]
  <1> DEFINE D == DOMAIN f
             small(n) == {s \in SUBSET D : Cardinality(s) <= n}
             step(it, s) == IF s = {} THEN 0 ELSE f[First(s)] + it[s \ {First(s)}]
             X == {n \in Nat : \E it : \A s \in small(n) : it[s] = step(it, s)}
  <1>1. \A s \in SUBSET D : IsFiniteSet(s) /\ Cardinality(s) \in Nat /\ (Cardinality(s) = 0 <=> s = {})
    BY FS_Subset, FS_CardinalityType, FS_EmptySet
  <1>2. 0 \in X
    <2> DEFINE it == [s \in {{}} |-> 0]
    <2>1. \A s \in small(0) : s = {}
      BY <1>1
    <2>2. \A s \in small(0) : it[s] = step(it, s)
      BY <2>1
    <2> QED
      BY <2>2
  <1>3. ASSUME NEW n \in X PROVE n + 1 \in X
    <2>1. PICK it : \A s \in small(n) : it[s] = step(it, s)
      BY <1>3
    <2> DEFINE new == [s \in small(n + 1) |-> step(it, s)]
    <2>2. ASSUME NEW s \in small(n + 1), s # {}
          PROVE  s \ {First(s)} \in small(n) /\ s \ {First(s)} \in small(n + 1)
      <3>1. s \in SUBSET D /\ IsFiniteSet(s) /\ First(s) \in s /\ Cardinality(s) <= n + 1
        BY <1>1, <2>2, FirstIn
      <3>2. Cardinality(s \ {First(s)}) = Cardinality(s) - 1 /\ Cardinality(s) \in Nat
        BY <1>1, <3>1, FS_RemoveElement
      <3>3. s \ {First(s)} \in SUBSET D
        BY <3>1
      <3> QED
        BY <3>1, <3>2, <3>3
    <2>3. ASSUME NEW s \in small(n + 1) PROVE new[s] = step(new, s)
      <3>1. CASE s = {}
        BY <3>1
      <3>2. CASE s # {}
        <4> DEFINE r == s \ {First(s)}
        <4>1. r \in small(n) /\ r \in small(n + 1)
          BY <2>2, <3>2
        <4> HIDE DEF r, small, step
        <4>2. new[r] = it[r]
          BY <2>1, <4>1
        <4> HIDE DEF new
        <4>3. step(new, s) = step(it, s)
          BY <3>2, <4>2 DEF step, r
        <4> QED
          BY <4>3 DEF new
      <3> QED
        BY <3>1, <3>2
    <2> HIDE DEF new, small, step
    <2>4. \E jt : \A s \in small(n + 1) : jt[s] = step(jt, s)
      BY <2>3
    <2> QED
      BY <2>4
  <1> HIDE DEF X
  <1>4. X = Nat
    <2>1. X \in SUBSET Nat
      BY DEF X
    <2> QED
      BY <1>2, <1>3, <2>1, AllNumbers
  <1>5. Cardinality(D) \in X
    BY <1>1, <1>4
  <1>6. SUBSET D = small(Cardinality(D))
    BY FS_Subset
  <1>7. PICK it : \A s \in SUBSET D : it[s] = step(it, s)
    BY <1>5, <1>6 DEF X
  <1> DEFINE F(jt) == [s \in SUBSET D |-> step(jt, s)]
             new == [s \in SUBSET D |-> it[s]]
  <1>8. new = F(new)
    <2>1. ASSUME NEW s \in SUBSET D PROVE it[s] = step(new, s)
      <3>1. s # {} => s \ {First(s)} \in SUBSET D
        BY FirstIn
      <3> QED
        BY <1>7, <3>1
    <2> QED
      BY <2>1
  <1>9. Totals(f) = F(Totals(f))
    <2>1. \A jt : F(jt) = [s \in SUBSET DOMAIN f |->
                        IF s = {} THEN 0
                        ELSE f[CHOOSE x \in s : TRUE] + jt[s \ {CHOOSE x \in s : TRUE}]]
      BY DEF First
    <2> HIDE DEF F, new, D, step
    <2>2. Totals(f) = CHOOSE jt : jt = F(jt)
      BY <2>1 DEF Totals
    <2> QED
      BY <1>8, <2>2
  <1>10. ASSUME NEW s \in SUBSET D PROVE Totals(f)[s] = step(Totals(f), s)
    <2>1. F(Totals(f))[s] = step(Totals(f), s)
      OBVIOUS
    <2> HIDE DEF F, step
    <2> QED
      BY <1>9, <2>1
  <1> QED
    BY <1>10

\* The sum over any subset does not depend on the order.
LEMMA TotalSplit ==
    ASSUME NEW f, IsFiniteSet(DOMAIN f), \A x \in DOMAIN f : f[x] \in Int
    PROVE  /\ Totals(f)[{}] = 0
           /\ \A s \in SUBSET DOMAIN f : Totals(f)[s] \in Int
           /\ \A s \in SUBSET DOMAIN f : \A x \in s : Totals(f)[s] = f[x] + Totals(f)[s \ {x}]
  <1> DEFINE D == DOMAIN f
             T == Totals(f)
             X == {s \in SUBSET D : T[s] \in Int /\ \A x \in s : T[s] = f[x] + T[s \ {x}]}
  <1>1. \A s \in SUBSET D : T[s] = IF s = {} THEN 0 ELSE f[First(s)] + T[s \ {First(s)}]
    BY TotalsExist
  <1>2. T[{}] = 0
    BY <1>1
  <1> HIDE DEF T
  <1>3. ASSUME NEW s \in SUBSET D, \A t \in SUBSET s : t # s => t \in X
        PROVE  s \in X
    <2>1. CASE s = {}
      BY <1>2, <2>1
    <2>2. CASE s # {}
      <3> DEFINE y == First(s)
                 r == s \ {y}
      <3>1. y \in s
        BY <2>2, FirstIn
      <3>2. T[s] = f[y] + T[r]
        BY <1>1, <2>2
      <3> HIDE DEF y
      <3>3. r \in SUBSET s /\ r # s
        BY <3>1
      <3>4. r \in X
        BY <1>3, <3>3
      <3>5. f[y] \in Int /\ T[r] \in Int
        BY <3>1, <3>4
      <3>6. T[s] \in Int
        BY <3>2, <3>5
      <3>7. ASSUME NEW x \in s PROVE T[s] = f[x] + T[s \ {x}]
        <4>1. CASE x = y
          BY <3>2, <4>1
        <4>2. CASE x # y
          <5> DEFINE u == s \ {x}
                     v == u \ {y}
          <5>1. u \in SUBSET s /\ u # s /\ y \in u /\ x \in r /\ r \ {x} = v /\ v \in SUBSET s /\ v # s
            BY <3>1, <4>2
          <5>2. u \in X /\ v \in X
            BY <1>3, <5>1
          <5>3. T[u] = f[y] + T[v]
            BY <5>1, <5>2
          <5>4. T[r] = f[x] + T[v]
            BY <3>4, <5>1
          <5>5. f[x] \in Int /\ T[v] \in Int /\ T[u] \in Int
            BY <5>2
          <5> DEFINE a == f[x]
                     b == f[y]
                     c == T[v]
          <5>6. a \in Int /\ b \in Int /\ c \in Int
            BY <3>5, <5>5
          <5> HIDE DEF a, b, c
          <5>7. b + (a + c) = a + (b + c)
            BY <5>6
          <5> QED
            BY <3>2, <5>3, <5>4, <5>7 DEF a, b, c
        <4> QED
          BY <4>1, <4>2
      <3> QED
        BY <3>6, <3>7
    <2> QED
      BY <2>1, <2>2
  <1>4. X \in SUBSET (SUBSET D)
    OBVIOUS
  <1> HIDE DEF X
  <1>5. \A s \in SUBSET D : s \in X
    BY <1>3, <1>4, AllSubsets
  <1> QED
    BY <1>2, <1>5 DEF X, T

\* Functions that agree on a set have the same sum over it.
LEMMA TotalsAgree ==
    ASSUME NEW f, NEW g, IsFiniteSet(DOMAIN f), IsFiniteSet(DOMAIN g),
           NEW D, D \in SUBSET DOMAIN f, D \in SUBSET DOMAIN g,
           \A x \in D : f[x] = g[x]
    PROVE  Totals(f)[D] = Totals(g)[D]
  <1> DEFINE T == Totals(f)
             U == Totals(g)
             X == {s \in SUBSET D : T[s] = U[s]}
  <1>1. /\ \A s \in SUBSET D : T[s] = IF s = {} THEN 0 ELSE f[First(s)] + T[s \ {First(s)}]
        /\ \A s \in SUBSET D : U[s] = IF s = {} THEN 0 ELSE g[First(s)] + U[s \ {First(s)}]
    <2>1. D \subseteq DOMAIN f /\ D \subseteq DOMAIN g
      OBVIOUS
    <2>2. \A s \in SUBSET DOMAIN f : T[s] = IF s = {} THEN 0 ELSE f[First(s)] + T[s \ {First(s)}]
      BY TotalsExist
    <2>3. \A s \in SUBSET DOMAIN g : U[s] = IF s = {} THEN 0 ELSE g[First(s)] + U[s \ {First(s)}]
      BY TotalsExist
    <2> HIDE DEF T, U
    <2> QED
      BY <2>1, <2>2, <2>3
  <1> HIDE DEF T, U
  <1>2. ASSUME NEW s \in SUBSET D, \A t \in SUBSET s : t # s => t \in X
        PROVE  s \in X
    <2>1. CASE s = {}
      BY <1>1, <2>1
    <2>2. CASE s # {}
      <3> DEFINE r == s \ {First(s)}
      <3>1. First(s) \in s
        BY <2>2, FirstIn
      <3>2. r \in SUBSET s /\ r # s
        BY <3>1
      <3>3. r \in X /\ f[First(s)] = g[First(s)]
        BY <1>2, <3>1, <3>2
      <3>4. T[s] = f[First(s)] + T[r] /\ U[s] = g[First(s)] + U[r]
        BY <1>1, <2>2
      <3> QED
        BY <3>3, <3>4
    <2> QED
      BY <2>1, <2>2
  <1>3. X \in SUBSET (SUBSET D) /\ IsFiniteSet(D)
    BY FS_Subset
  <1> HIDE DEF X
  <1>4. \A s \in SUBSET D : s \in X
    BY <1>2, <1>3, AllSubsets
  <1> QED
    BY <1>4 DEF X, T, U

\* A sum of finitely many numbers is a number.
LEMMA SumType ==
    ASSUME NEW f, IsFiniteSet(DOMAIN f), \A x \in DOMAIN f : f[x] \in Nat
    PROVE  SumFunction(f) \in Nat
  <1> DEFINE D == DOMAIN f
             T == Totals(f)
             X == {s \in SUBSET D : T[s] \in Nat}
  <1>1. \A s \in SUBSET D : T[s] = IF s = {} THEN 0 ELSE f[First(s)] + T[s \ {First(s)}]
    BY TotalsExist
  <1> HIDE DEF T
  <1>2. ASSUME NEW s \in SUBSET D, \A t \in SUBSET s : t # s => t \in X
        PROVE  s \in X
    <2>1. CASE s = {}
      <3>1. T[s] = 0 /\ 0 \in Nat
        BY <1>1, <2>1
      <3> QED
        BY <3>1
    <2>2. CASE s # {}
      <3> DEFINE r == s \ {First(s)}
      <3>1. First(s) \in s
        BY <2>2, FirstIn
      <3>2. r \in SUBSET s /\ r # s
        BY <3>1
      <3>3. T[r] \in Nat /\ f[First(s)] \in Nat
        BY <1>2, <3>1, <3>2
      <3>4. T[s] = f[First(s)] + T[r]
        BY <1>1, <2>2
      <3>5. \A a, b \in Nat : a + b \in Nat
        OBVIOUS
      <3> HIDE DEF r
      <3> QED
        BY <3>3, <3>4, <3>5
    <2> QED
      BY <2>1, <2>2
  <1>3. X \in SUBSET (SUBSET D)
    OBVIOUS
  <1> HIDE DEF X
  <1>4. \A s \in SUBSET D : s \in X
    BY <1>2, <1>3, AllSubsets
  <1> QED
    BY <1>4, SumIsTotal DEF X, T

\* Where one summand changes, the sum changes by as much.
LEMMA SumChanged ==
    ASSUME NEW f, NEW g, NEW k, IsFiniteSet(DOMAIN f), DOMAIN g = DOMAIN f, k \in DOMAIN f,
           \A x \in DOMAIN f : f[x] \in Int /\ g[x] \in Int,
           \A x \in DOMAIN f : x # k => g[x] = f[x]
    PROVE  SumFunction(g) = SumFunction(f) + (g[k] - f[k])
  <1> DEFINE D == DOMAIN f
             r == D \ {k}
  <1>1. /\ Totals(f)[D] = f[k] + Totals(f)[r] /\ Totals(f)[r] \in Int
        /\ Totals(g)[D] = g[k] + Totals(g)[r] /\ Totals(g)[r] \in Int
    <2>1. ASSUME NEW h, DOMAIN h = D, \A x \in D : h[x] \in Int
          PROVE  Totals(h)[D] = h[k] + Totals(h)[r] /\ Totals(h)[r] \in Int
      <3>1. D \in SUBSET D /\ r \in SUBSET D
        OBVIOUS
      <3>2. /\ \A s \in SUBSET DOMAIN h : Totals(h)[s] \in Int
            /\ \A s \in SUBSET DOMAIN h : \A x \in s : Totals(h)[s] = h[x] + Totals(h)[s \ {x}]
        BY <2>1, TotalSplit
      <3> QED
        BY <2>1, <3>1, <3>2
    <2> QED
      BY <2>1
  <1>2. Totals(f)[r] = Totals(g)[r]
    <2>1. r \in SUBSET DOMAIN f /\ r \in SUBSET DOMAIN g /\ \A x \in r : f[x] = g[x]
      OBVIOUS
    <2> HIDE DEF r
    <2> QED
      BY <2>1, TotalsAgree
  <1> DEFINE a == f[k]
             b == g[k]
             c == Totals(f)[r]
  <1>3. a \in Int /\ b \in Int /\ c \in Int
    BY <1>1
  <1>4. SumFunction(f) = a + c /\ SumFunction(g) = b + c
    BY <1>1, <1>2, SumIsTotal
  <1> HIDE DEF a, b, c
  <1>5. b + c = (a + c) + (b - a)
    BY <1>3
  <1> QED
    BY <1>4, <1>5 DEF a, b

\* A sum of nothing is nothing.
LEMMA SumZero ==
    ASSUME NEW f, IsFiniteSet(DOMAIN f), \A x \in DOMAIN f : f[x] = 0
    PROVE  SumFunction(f) = 0
  <1> DEFINE D == DOMAIN f
             T == Totals(f)
             X == {s \in SUBSET D : T[s] = 0}
  <1>1. \A s \in SUBSET D : T[s] = IF s = {} THEN 0 ELSE f[First(s)] + T[s \ {First(s)}]
    BY TotalsExist
  <1> HIDE DEF T
  <1>2. ASSUME NEW s \in SUBSET D, \A t \in SUBSET s : t # s => t \in X
        PROVE  s \in X
    <2>1. CASE s = {}
      BY <1>1, <2>1
    <2>2. CASE s # {}
      <3> DEFINE r == s \ {First(s)}
      <3>1. First(s) \in s
        BY <2>2, FirstIn
      <3>2. r \in SUBSET s /\ r # s
        BY <3>1
      <3>3. T[r] = 0 /\ f[First(s)] = 0
        BY <1>2, <3>1, <3>2
      <3>4. T[s] = f[First(s)] + T[r]
        BY <1>1, <2>2
      <3> QED
        BY <3>3, <3>4
    <2> QED
      BY <2>1, <2>2
  <1>3. X \in SUBSET (SUBSET D)
    OBVIOUS
  <1> HIDE DEF X
  <1>4. \A s \in SUBSET D : s \in X
    BY <1>2, <1>3, AllSubsets
  <1> QED
    BY <1>4, SumIsTotal DEF X, T

\* A sum does not depend on where its summands are: h says where each of
\* those over B is found in A.
LEMMA TotalMoved ==
    ASSUME NEW f, NEW g, IsFiniteSet(DOMAIN f), IsFiniteSet(DOMAIN g),
           \A x \in DOMAIN f : f[x] \in Int, \A x \in DOMAIN g : g[x] \in Int,
           NEW A \in SUBSET DOMAIN f, NEW B \in SUBSET DOMAIN g, NEW h,
           \A x \in B : h[x] \in A /\ g[x] = f[h[x]],
           \A x, y \in B : x # y => h[x] # h[y],
           \A a \in A : \E x \in B : h[x] = a
    PROVE  Totals(g)[B] = Totals(f)[A]
  <1> DEFINE im(s) == {h[x] : x \in s}
             T == Totals(f)
             U == Totals(g)
             X == {s \in SUBSET B : U[s] = T[im(s)]}
  <1>1. /\ T[{}] = 0 /\ \A s \in SUBSET DOMAIN f : \A x \in s : T[s] = f[x] + T[s \ {x}]
        /\ U[{}] = 0 /\ \A s \in SUBSET DOMAIN g : \A x \in s : U[s] = g[x] + U[s \ {x}]
    BY TotalSplit
  <1> HIDE DEF T, U
  <1>2. ASSUME NEW s \in SUBSET B, \A t \in SUBSET s : t # s => t \in X
        PROVE  s \in X
    <2>1. CASE s = {}
      <3>1. im(s) = {}
        BY <2>1
      <3> QED
        BY <1>1, <2>1, <3>1
    <2>2. CASE s # {}
      <3>1. PICK y \in s : TRUE
        BY <2>2
      <3> DEFINE r == s \ {y}
      <3>2. r \in SUBSET s /\ r # s /\ r \in SUBSET B
        BY <3>1
      <3>3. U[r] = T[im(r)]
        BY <1>2, <3>2
      <3>4. U[s] = g[y] + U[r]
        BY <1>1
      <3>5. im(s) \in SUBSET A /\ h[y] \in im(s) /\ im(s) \ {h[y]} = im(r)
        <4>1. \A x \in s : x \in B
          OBVIOUS
        <4>2. \A x \in r : h[x] # h[y]
          BY <4>1
        <4> QED
          BY <4>1, <4>2
      <3> HIDE DEF im, r
      <3>6. im(s) \in SUBSET DOMAIN f
        BY <3>5
      <3>7. T[im(s)] = f[h[y]] + T[im(r)]
        BY <1>1, <3>5, <3>6
      <3>8. g[y] = f[h[y]]
        OBVIOUS
      <3> QED
        BY <3>3, <3>4, <3>7, <3>8
    <2> QED
      BY <2>1, <2>2
  <1>3. X \in SUBSET (SUBSET B) /\ IsFiniteSet(B)
    BY FS_Subset
  <1> HIDE DEF X
  <1>4. \A s \in SUBSET B : s \in X
    BY <1>2, <1>3, AllSubsets
  <1>5. U[B] = T[im(B)]
    BY <1>4 DEF X
  <1>6. im(B) = A
    OBVIOUS
  <1> QED
    BY <1>5, <1>6 DEF T, U

\* Where one is added to some of the summands, the sum grows by their number.
LEMMA SumBumped ==
    ASSUME NEW f, NEW g, NEW S, IsFiniteSet(DOMAIN f), DOMAIN g = DOMAIN f,
           S \in SUBSET DOMAIN f,
           \A x \in DOMAIN f : f[x] \in Int,
           \A x \in S : g[x] = f[x] + 1,
           \A x \in DOMAIN f : x \notin S => g[x] = f[x]
    PROVE  SumFunction(g) = SumFunction(f) + Cardinality(S)
  <1> DEFINE D == DOMAIN f
             T == Totals(f)
             U == Totals(g)
             X == {s \in SUBSET D : U[s] = T[s] + Cardinality(s \cap S)}
  <1>1. \A x \in D : g[x] \in Int
    <2> TAKE x \in D
    <2>1. f[x] \in Int /\ (g[x] = f[x] + 1 \/ g[x] = f[x])
      OBVIOUS
    <2> QED
      BY <2>1
  <1>2. /\ T[{}] = 0 /\ \A s \in SUBSET D : T[s] \in Int
        /\ \A s \in SUBSET D : \A x \in s : T[s] = f[x] + T[s \ {x}]
    BY TotalSplit
  <1>3. /\ U[{}] = 0 /\ \A s \in SUBSET D : \A x \in s : U[s] = g[x] + U[s \ {x}]
    <2>1. IsFiniteSet(DOMAIN g) /\ \A x \in DOMAIN g : g[x] \in Int
      BY <1>1
    <2>2. /\ Totals(g)[{}] = 0
          /\ \A s \in SUBSET DOMAIN g : \A x \in s : Totals(g)[s] = g[x] + Totals(g)[s \ {x}]
      BY <2>1, TotalSplit
    <2> QED
      BY <2>2
  <1>4. \A s \in SUBSET D : IsFiniteSet(s \cap S) /\ Cardinality(s \cap S) \in Nat
    <2> TAKE s \in SUBSET D
    <2>1. IsFiniteSet(s \cap S)
      BY FS_Subset
    <2> QED
      BY <2>1, FS_CardinalityType
  <1> HIDE DEF T, U
  <1>5. ASSUME NEW s \in SUBSET D, \A t \in SUBSET s : t # s => t \in X
        PROVE  s \in X
    <2>1. CASE s = {}
      <3>1. Cardinality(s \cap S) = 0
        BY <2>1, FS_EmptySet
      <3> QED
        BY <1>2, <1>3, <2>1, <3>1
    <2>2. CASE s # {}
      <3>1. PICK y \in s : TRUE
        BY <2>2
      <3> DEFINE r == s \ {y}
                 c == Cardinality(r \cap S)
                 d == Cardinality(s \cap S)
                 a == f[y]
                 t == T[r]
      <3>2. r \in SUBSET s /\ r # s /\ r \in SUBSET D /\ y \in D
        BY <3>1
      <3>3. U[r] = t + c
        BY <1>5, <3>2
      <3>4. U[s] = g[y] + U[r] /\ T[s] = a + t
        BY <1>2, <1>3
      <3>5. a \in Int /\ t \in Int /\ c \in Nat
        BY <1>2, <1>4, <3>2
      <3>6. CASE y \in S
        <4>1. d = c + 1
          <5>1. s \cap S = (r \cap S) \cup {y} /\ y \notin r \cap S
            BY <3>6
          <5> QED
            BY <1>4, <3>2, <5>1, FS_AddElement
        <4>2. g[y] = a + 1
          BY <3>6
        <4> HIDE DEF a, t, c, d, r
        <4>3. (a + 1) + (t + c) = (a + t) + (c + 1)
          BY <3>5
        <4>4. U[s] = T[s] + d
          BY <3>3, <3>4, <4>1, <4>2, <4>3
        <4> QED
          BY <4>4 DEF d
      <3>7. CASE y \notin S
        <4>1. d = c
          <5>1. s \cap S = r \cap S
            BY <3>7
          <5> QED
            BY <5>1
        <4>2. g[y] = a
          BY <3>2, <3>7
        <4> HIDE DEF a, t, c, d, r
        <4>3. a + (t + c) = (a + t) + c
          BY <3>5
        <4>4. U[s] = T[s] + d
          BY <3>3, <3>4, <4>1, <4>2, <4>3
        <4> QED
          BY <4>4 DEF d
      <3> QED
        BY <3>6, <3>7
    <2> QED
      BY <2>1, <2>2
  <1>6. X \in SUBSET (SUBSET D)
    OBVIOUS
  <1> HIDE DEF X
  <1>7. \A s \in SUBSET D : s \in X
    BY <1>5, <1>6, AllSubsets
  <1>8. U[D] = T[D] + Cardinality(D \cap S)
    BY <1>7 DEF X
  <1>9. D \cap S = S
    OBVIOUS
  <1> QED
    BY <1>8, <1>9, SumIsTotal DEF T, U

\* The summands of f over A are those of g but for the one at k, moved by h.
MovedBut(f, g, k, A, h) ==
    /\ IsFiniteSet(DOMAIN f) /\ IsFiniteSet(DOMAIN g) /\ k \in DOMAIN g /\ A \in SUBSET DOMAIN f
    /\ \A x \in DOMAIN f : f[x] \in Int
    /\ \A x \in DOMAIN g : g[x] \in Int
    /\ \A x \in DOMAIN g \ {k} : h[x] \in A /\ g[x] = f[h[x]]
    /\ \A x, y \in DOMAIN g \ {k} : x # y => h[x] # h[y]
    /\ \A a \in A : \E x \in DOMAIN g \ {k} : h[x] = a

\* One summand is put in, and at most one taken out; the others are moved.
LEMMA SumReplaced ==
    ASSUME NEW f, NEW g, NEW k, NEW A, NEW h, MovedBut(f, g, k, A, h)
    PROVE  /\ A = DOMAIN f => SumFunction(g) = SumFunction(f) + g[k]
           /\ \A o \in DOMAIN f : A = DOMAIN f \ {o} => SumFunction(g) + f[o] = SumFunction(f) + g[k]
  <1> DEFINE B == DOMAIN g \ {k}
             a == Totals(f)[A]
             b == g[k]
  <1>7. /\ IsFiniteSet(DOMAIN f) /\ IsFiniteSet(DOMAIN g) /\ k \in DOMAIN g /\ A \in SUBSET DOMAIN f
        /\ \A x \in DOMAIN f : f[x] \in Int
        /\ \A x \in DOMAIN g : g[x] \in Int
    BY DEF MovedBut
  <1>1. Totals(g)[B] = a
    <2>1. B \in SUBSET DOMAIN g
      OBVIOUS
    <2>2. /\ \A x \in B : h[x] \in A /\ g[x] = f[h[x]]
          /\ \A x, y \in B : x # y => h[x] # h[y]
          /\ \A v \in A : \E x \in B : h[x] = v
      BY DEF MovedBut
    <2> HIDE DEF B
    <2> QED
      BY <1>7, <2>1, <2>2, TotalMoved
  <1>2. /\ \A s \in SUBSET DOMAIN f : Totals(f)[s] \in Int
        /\ \A s \in SUBSET DOMAIN f : \A x \in s : Totals(f)[s] = f[x] + Totals(f)[s \ {x}]
    BY <1>7, TotalSplit
  <1>3. SumFunction(g) = b + a
    <2>1. /\ Totals(g)[{}] = 0
          /\ \A s \in SUBSET DOMAIN g : Totals(g)[s] \in Int
          /\ \A s \in SUBSET DOMAIN g : \A x \in s : Totals(g)[s] = g[x] + Totals(g)[s \ {x}]
      BY <1>7, TotalSplit
    <2>2. Totals(g)[DOMAIN g] = g[k] + Totals(g)[B]
      BY <1>7, <2>1
    <2> QED
      BY <1>1, <2>2, SumIsTotal
  <1>4. a \in Int /\ b \in Int
    BY <1>2, <1>7
  <1>5. ASSUME A = DOMAIN f PROVE SumFunction(g) = SumFunction(f) + b
    <2>1. SumFunction(f) = a
      BY <1>5, SumIsTotal
    <2> HIDE DEF a, b
    <2>2. b + a = a + b
      BY <1>4
    <2> QED
      BY <1>3, <2>1, <2>2
  <1>6. ASSUME NEW o \in DOMAIN f, A = DOMAIN f \ {o}
        PROVE  SumFunction(g) + f[o] = SumFunction(f) + b
    <2> DEFINE c == f[o]
    <2>1. SumFunction(f) = c + a /\ c \in Int
      <3>1. Totals(f)[DOMAIN f] = f[o] + Totals(f)[DOMAIN f \ {o}]
        BY <1>2
      <3>2. f[o] \in Int
        BY <1>7
      <3> QED
        BY <1>6, <3>1, <3>2, SumIsTotal
    <2> HIDE DEF a, b, c
    <2>2. (b + a) + c = (c + a) + b
      BY <1>4, <2>1
    <2> QED
      BY <1>3, <2>1, <2>2 DEF c
  <1> QED
    BY <1>5, <1>6 DEF b

\* The number of elements of a set is a sum of ones.
LEMMA CountIsSum ==
    ASSUME NEW D, IsFiniteSet(D)
    PROVE  SumFunction([x \in D |-> 1]) = Cardinality(D)
  <1> DEFINE f == [x \in D |-> 0]
             g == [x \in D |-> 1]
  <1>1. /\ DOMAIN f = D /\ DOMAIN g = D /\ \A x \in D : f[x] = 0 /\ f[x] \in Int
        /\ \A x \in D : g[x] = f[x] + 1
    OBVIOUS
  <1>2. Cardinality(D) \in Nat
    BY FS_CardinalityType
  <1> HIDE DEF f, g
  <1>3. SumFunction(f) = 0
    BY <1>1, SumZero
  <1>4. SumFunction(g) = SumFunction(f) + Cardinality(D)
    BY <1>1, SumBumped
  <1>5. \A n \in Nat : 0 + n = n
    OBVIOUS
  <1>6. SumFunction(g) = Cardinality(D)
    BY <1>2, <1>3, <1>4, <1>5
  <1> QED
    BY <1>6 DEF g

\* Division with remainder.
LEMMA QuotientType ==
    ASSUME NEW l \in Nat, NEW r \in Nat \ {0}
    PROVE  l \div r \in Nat /\ 0 \div r = 0
  BY SMT

\* The quotient grows by one whenever the remainder comes back to 0.
LEMMA QuotientSteps ==
    ASSUME NEW l \in Nat, NEW r \in Nat \ {0}
    PROVE  (l + 1) \div r = (l \div r) + (IF (l + 1) % r = 0 THEN 1 ELSE 0)
  BY SMT

-----------------------------------------------------------------------------
(* The return address stack. *)

\* Arithmetic modulo a positive number, within one turn of the buffer.
LEMMA WithinOneTurn ==
    ASSUME NEW n \in Nat \ {0}, NEW a \in Int, -n < a, a < n
    PROVE  a % n = IF 0 <= a THEN a ELSE a + n
  <1>1. CASE 0 <= a
    BY <1>1, SMT
  <1>2. CASE a < 0
    BY <1>2, SMT
  <1> QED
    BY <1>1, <1>2

\* One push or pop keeps the index inside the buffer.
LEMMA SlotSteps ==
    ASSUME NEW s \in Slot
    PROVE  NextSlot(s) \in Slot /\ PreviousSlot(s) \in Slot
  BY RASAssumption DEF Slot, NextSlot, PreviousSlot

\* Every address and every learned size stays in its range: what a return
\* teaches is at most MaxCallSize, and empty slots hold 0.
LEMMA RASTypeStep ==
    RASTypeOK /\ [RASNext]_rasVars => RASTypeOK'
  <1> SUFFICES ASSUME RASTypeOK, [RASNext]_rasVars
               PROVE  RASTypeOK'
    OBVIOUS
  <1> USE DEF RASTypeOK
  <1>1. ASSUME NEW ip \in Ip, push_basic_btb_ras(ip)
        PROVE  RASTypeOK'
    BY <1>1, SlotSteps DEF push_basic_btb_ras
  <1>2. ASSUME NEW target \in Target, ResolveReturn(target)
        PROVE  RASTypeOK'
    <2> DEFINE call_ip == basic_btb_ras[basic_btb_ras_index]
               size == basic_btb_abs_addr_dist(call_ip, target)
    <2>1. call_ip \in Nat /\ target \in Nat
      <3>1. call_ip \in Ip \cup {0}
        OBVIOUS
      <3> HIDE DEF call_ip
      <3> QED
        BY <3>1, RASAssumption
    <2>2. size \in Nat /\ call_ip % BASIC_BTB_CALL_INSTR_SIZE_TRACKERS \in Tracker
      <3> HIDE DEF call_ip
      <3> QED
        BY <2>1, RASAssumption DEF basic_btb_abs_addr_dist, Tracker
    <2>3. basic_btb_ras' \in [Slot -> Ip \cup {0}] /\ basic_btb_ras_index' \in Slot
      BY <1>2, SlotSteps DEF ResolveReturn, pop_basic_btb_ras
    <2>4. basic_btb_call_instr_sizes' \in [Tracker -> 0..MaxCallSize]
      <3>1. basic_btb_call_instr_sizes' =
              IF size <= MaxCallSize
              THEN [basic_btb_call_instr_sizes EXCEPT
                      ![call_ip % BASIC_BTB_CALL_INSTR_SIZE_TRACKERS] = size]
              ELSE basic_btb_call_instr_sizes
        BY <1>2 DEF ResolveReturn, peek_basic_btb_ras, basic_btb_call_size_tracker_hash
      <3> HIDE DEF call_ip, size
      <3> QED
        BY <2>2, <3>1 DEF MaxCallSize
    <2> QED
      BY <2>3, <2>4
  <1>3. CASE UNCHANGED rasVars
    BY <1>3 DEF rasVars
  <1> QED
    BY <1>1, <1>2, <1>3 DEF RASNext

\* The return address stack of the predictors keeps its types: the pointer
\* stays on a slot and every stored address is one that a call pushed.
THEOREM RASTypeCorrect == RASSpec => []RASTypeOK
  <1>1. RASInit => RASTypeOK
    BY RASAssumption DEF RASInit, RASTypeOK, Slot, Tracker, MaxCallSize
  <1> QED
    BY <1>1, RASTypeStep, PTL DEF RASSpec

-----------------------------------------------------------------------------
\* The slot k positions below the top, without the remainder.
LEMMA SlotBelowTop ==
    ASSUME NEW i \in Slot, NEW k \in Slot
    PROVE  (i - k) % BASIC_BTB_RAS_SIZE
             = IF k <= i THEN i - k ELSE i - k + BASIC_BTB_RAS_SIZE
  <1>1. /\ BASIC_BTB_RAS_SIZE \in Nat \ {0}
        /\ i - k \in Int
        /\ -BASIC_BTB_RAS_SIZE < i - k
        /\ i - k < BASIC_BTB_RAS_SIZE
        /\ (0 <= i - k) = (k <= i)
    BY RASAssumption DEF Slot
  <1> QED
    BY <1>1, WithinOneTurn

\* A push moves every position of the view one down and puts the new address
\* on top, also when the index wraps around and overwrites the oldest call.
LEMMA PushStep ==
    ASSUME RASTypeOK, NEW ip \in Ip, push_basic_btb_ras(ip)
    PROVE  Stack!Push(ip)
  <1> DEFINE n == BASIC_BTB_RAS_SIZE
             i == basic_btb_ras_index
             j == NextSlot(i)
  <1>1. n \in Nat \ {0} /\ i \in Slot /\ j \in Slot
    BY RASAssumption, SlotSteps DEF RASTypeOK
  <1>2. /\ basic_btb_ras' = [basic_btb_ras EXCEPT ![j] = ip]
        /\ basic_btb_ras_index' = j
        /\ basic_btb_ras \in [Slot -> Ip \cup {0}]
    BY DEF push_basic_btb_ras, RASTypeOK
  <1>3. ASSUME NEW k \in Slot
        PROVE  basic_btb_ras'[(j - k) % n] = IF k = 0 THEN ip ELSE StackView[k - 1]
    <2>1. CASE k = 0
      BY <1>1, <1>2, <2>1, SlotBelowTop DEF Slot
    <2>2. CASE k # 0
      <3>1. k - 1 \in Slot
        BY <1>1, <2>2 DEF Slot
      <3>2. (j - k) % n = (i - (k - 1)) % n
        BY <1>1, <2>2, <3>1, SlotBelowTop DEF Slot, NextSlot
      <3>3. (j - k) % n \in Slot /\ (j - k) % n # j
        BY <1>1, <2>2, SlotBelowTop DEF Slot, NextSlot
      <3>4. basic_btb_ras'[(j - k) % n] = basic_btb_ras[(i - (k - 1)) % n]
        BY <1>2, <3>2, <3>3
      <3> QED
        BY <2>2, <3>1, <3>4 DEF StackView
    <2> QED
      BY <2>1, <2>2
  <1> QED
    BY <1>2, <1>3 DEF Stack!Push, Stack!Position, StackView, Slot

\* A pop moves every position one up; the slot it clears becomes the bottom.
LEMMA PopStep ==
    ASSUME RASTypeOK, pop_basic_btb_ras
    PROVE  Stack!Pop
  <1> DEFINE n == BASIC_BTB_RAS_SIZE
             i == basic_btb_ras_index
             j == PreviousSlot(i)
  <1>1. n \in Nat \ {0} /\ i \in Slot /\ j \in Slot
    BY RASAssumption, SlotSteps DEF RASTypeOK
  <1>2. /\ basic_btb_ras' = [basic_btb_ras EXCEPT ![i] = 0]
        /\ basic_btb_ras_index' = j
        /\ basic_btb_ras \in [Slot -> Ip \cup {0}]
    BY DEF pop_basic_btb_ras, RASTypeOK
  <1>3. ASSUME NEW k \in Slot
        PROVE  basic_btb_ras'[(j - k) % n] = IF k = n - 1 THEN 0 ELSE StackView[k + 1]
    <2>1. CASE k = n - 1
      <3>1. (j - k) % n = i
        BY <1>1, <2>1, SlotBelowTop DEF Slot, PreviousSlot
      <3> QED
        BY <1>1, <1>2, <2>1, <3>1
    <2>2. CASE k # n - 1
      <3>1. k + 1 \in Slot
        BY <1>1, <2>2 DEF Slot
      <3>2. (j - k) % n = (i - (k + 1)) % n
        BY <1>1, <2>2, <3>1, SlotBelowTop DEF Slot, PreviousSlot
      <3>3. (j - k) % n \in Slot /\ (j - k) % n # i
        BY <1>1, <2>2, SlotBelowTop DEF Slot, PreviousSlot
      <3>4. basic_btb_ras'[(j - k) % n] = basic_btb_ras[(i - (k + 1)) % n]
        BY <1>2, <3>2, <3>3
      <3> QED
        BY <2>2, <3>1, <3>4 DEF StackView
    <2> QED
      BY <2>1, <2>2
  <1> QED
    BY <1>2, <1>3 DEF Stack!Pop, Stack!Position, StackView, Slot

\* The return address stack of btb/ is a stack that forgets its oldest call:
\* overflow and underflow of the circular buffer never reorder, duplicate or
\* resurrect an address.
THEOREM RASImplementsShiftStack == RASSpec => ImplementsShiftStack
  <1>1. RASInit => Stack!Init
    BY RASAssumption, SlotBelowTop
    DEF RASInit, Stack!Init, Stack!Empty, Stack!Position, StackView, Slot
  <1>2. RASTypeOK /\ [RASNext]_rasVars => [Stack!Next]_StackView
    <2> SUFFICES ASSUME RASTypeOK, [RASNext]_rasVars
                 PROVE  Stack!Next \/ UNCHANGED StackView
      BY DEF Stack!Next
    <2>1. ASSUME NEW ip \in Ip, push_basic_btb_ras(ip)
          PROVE  Stack!Next
      BY <2>1, PushStep DEF Stack!Next
    <2>2. ASSUME NEW target \in Target, ResolveReturn(target)
          PROVE  Stack!Next
      BY <2>2, PopStep DEF ResolveReturn, Stack!Next
    <2>3. CASE UNCHANGED rasVars
      BY <2>3 DEF rasVars, StackView
    <2> QED
      BY <2>1, <2>2, <2>3 DEF RASNext
  <1> QED
    BY <1>1, <1>2, RASTypeCorrect, PTL DEF RASSpec, ImplementsShiftStack, Stack!Spec
=============================================================================
