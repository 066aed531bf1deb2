---------------------------- MODULE FrontEndProofs ----------------------------
(***************************************************************************)
(* What holds of the front end for every size of the buffers, every width  *)
(* and every latency: the invariant of FrontEnd.tla.                       *)
(***************************************************************************)
EXTENDS FrontEnd, SequenceTheorems, FiniteSetTheorems, WellFoundedInduction, TLAPS

-----------------------------------------------------------------------------
(* The invariant.                                                          *)

Fetching == [resolves : Resolution, line : Line, fetched : {"no", "inflight", "completed"}]
Decoding == [resolves : Resolution, wait : Wait]
Executes == [resolves : Resolution, executed : BOOLEAN]

\* The branches of a buffer that the fetch has been stalled for,
Waiting(buffer) == {k \in DOMAIN buffer : buffer[k].resolves # "none"}
Executing == {k \in DOMAIN ROB : ROB[k].resolves = "execute" /\ ~ROB[k].executed}

\* of which there is one, as the fetch does not run past it:
OnlyOne ==
    /\ \A a, b \in Waiting(IFETCH_BUFFER) : a = b
    /\ \A a, b \in Waiting(DECODE_BUFFER) : a = b
    /\ \A a, b \in Executing : a = b
    /\ Waiting(IFETCH_BUFFER) = {} \/ Waiting(DECODE_BUFFER) = {}
    /\ Waiting(IFETCH_BUFFER) = {} \/ Executing = {}
    /\ Waiting(DECODE_BUFFER) = {} \/ Executing = {}

\* fetch_resume_cycle is set when it has been resolved, and not before.
SingleStall ==
    /\ OnlyOne
    /\ Unresolved => fetch_stall
    /\ fetch_resume_cycle # NONE => fetch_stall /\ ~Unresolved
    /\ stage = "read" => ~fetch_stall

\* The loop of read_from_trace runs while there is room and width left.
ReadsWithinBounds ==
    /\ stage = "read" => Len(IFETCH_BUFFER) < IFETCH_SIZE /\ num_reads < FETCH_WIDTH
    /\ stage \notin {"read", "tick"} => num_reads = 0

FrontInv ==
    /\ TypeOK
    /\ RunsAheadWithinBuffer
    /\ ReadsWithinBounds
    /\ StallHasEnd
    /\ ~write_stalled => SingleStall

-----------------------------------------------------------------------------
(* The operators of the model.                                             *)

\* The sizes, the widths and the latencies are numbers.
LEMMA Sizes ==
    /\ IFETCH_SIZE \in Nat /\ IFETCH_SIZE > 0 /\ DECODE_SIZE \in Nat /\ DECODE_SIZE > 0
    /\ ROB_SIZE \in Nat /\ ROB_SIZE > 0
    /\ FETCH_WIDTH \in Nat /\ FETCH_WIDTH > 0 /\ DECODE_WIDTH \in Nat /\ DECODE_WIDTH > 0
    /\ RETIRE_WIDTH \in Nat /\ RETIRE_WIDTH > 0
    /\ DECODE_LATENCY \in Nat /\ BRANCH_MISPREDICT_PENALTY \in Nat
    /\ WriteLatencies \in SUBSET Nat
  BY FrontEndAssumption

\* A nonempty set of numbers that has a bound has a maximum.
LEMMA MaxIn ==
    ASSUME NEW n \in Nat, NEW S \in SUBSET (0..n), S # {}
    PROVE  Max(S) \in S
  <1> DEFINE T == {m \in 0..n : n - m \in S}
  <1>1. T \in SUBSET Nat /\ T # {}
    <2>1. PICK k \in S : TRUE
      OBVIOUS
    <2>2. n - k \in T
      BY <2>1
    <2>3. \A m \in T : m \in Nat
      OBVIOUS
    <2> HIDE DEF T
    <2> QED
      BY <2>2, <2>3
  <1>2. PICK x \in T : \A y \in T : ~ (<<y, x>> \in OpToRel(<, Nat))
    <2> HIDE DEF T
    <2> QED
      BY <1>1, NatLessThanWellFounded, WFMin
  <1>3. n - x \in S
    BY <1>2
  <1>4. ASSUME NEW k \in S PROVE n - x >= k
    <2>1. n - k \in T /\ n - k \in Nat /\ x \in Nat
      OBVIOUS
    <2>2. ~ (n - k < x)
      BY <1>2, <2>1 DEF OpToRel
    <2> QED
      BY <2>1, <2>2
  <1> QED
    BY <1>3, <1>4 DEF Max

\* What is left of a sequence when its first n elements have gone.
LEMMA Dropped ==
    ASSUME NEW S, NEW s \in Seq(S), NEW n \in 0..Len(s)
    PROVE  LET t == SubSeq(s, n + 1, Len(s))
           IN  /\ t \in Seq(S) /\ Len(t) = Len(s) - n /\ DOMAIN t = 1..(Len(s) - n)
               /\ \A k \in 1..(Len(s) - n) : t[k] = s[n + k]
  <1> DEFINE l == Len(s)
             t == SubSeq(s, n + 1, l)
  <1>1. l \in Nat /\ \A i \in 1..l : s[i] \in S
    BY LenProperties, ElementOfSeq
  <1> HIDE DEF l
  <1>2. n \in 0..l
    BY DEF l
  <1>3. n + 1 \in Int /\ l \in Int /\ \A i \in (n + 1)..l : s[i] \in S
    BY <1>1, <1>2
  <1>4. /\ t \in Seq(S)
        /\ Len(t) = IF n + 1 <= l THEN l - (n + 1) + 1 ELSE 0
        /\ \A i \in 1..(l - (n + 1) + 1) : t[i] = s[(n + 1) + i - 1]
    BY <1>3, SubSeqProperties
  <1> HIDE DEF t
  <1>5. Len(t) = l - n
    BY <1>1, <1>2, <1>4
  <1>6. DOMAIN t = 1..(l - n)
    BY <1>4, <1>5, LenProperties
  <1>7. \A k \in 1..(l - n) : t[k] = s[n + k]
    <2> TAKE k \in 1..(l - n)
    <2>1. l - (n + 1) + 1 = l - n /\ (n + 1) + k - 1 = n + k
      BY <1>1, <1>2
    <2> QED
      BY <1>4, <2>1
  <1> QED
    BY <1>4, <1>5, <1>6, <1>7 DEF t, l

\* A sequence of which n elements have been added.
LEMMA Extended ==
    ASSUME NEW S, NEW s \in Seq(S), NEW n \in Nat, NEW f \in [1..n -> S]
    PROVE  /\ s \o f \in Seq(S) /\ Len(s \o f) = Len(s) + n /\ DOMAIN (s \o f) = 1..(Len(s) + n)
           /\ \A k \in 1..Len(s) : (s \o f)[k] = s[k]
           /\ \A k \in 1..n : (s \o f)[Len(s) + k] = f[k]
  <1> DEFINE l == Len(s)
             t == s \o f
  <1>1. f \in Seq(S) /\ Len(f) = n /\ l \in Nat
    BY SeqDef, LenProperties
  <1>2. t \in Seq(S) /\ Len(t) = l + n
        /\ \A k \in 1..(l + n) : t[k] = IF k <= l THEN s[k] ELSE f[k - l]
    BY <1>1, ConcatProperties
  <1>3. DOMAIN t = 1..(l + n)
    BY <1>2, LenProperties
  <1> HIDE DEF l, t
  <1>4. \A k \in 1..l : t[k] = s[k]
    BY <1>1, <1>2
  <1>5. ASSUME NEW k \in 1..n PROVE t[l + k] = f[k]
    <2>1. l + k \in 1..(l + n) /\ ~(l + k <= l) /\ (l + k) - l = k
      BY <1>1
    <2> QED
      BY <1>2, <2>1
  <1> QED
    BY <1>2, <1>3, <1>4, <1>5 DEF l, t

\* The buffers, element by element.
LEMMA BufferFacts ==
    ASSUME TypeOK
    PROVE  /\ IFETCH_BUFFER \in Seq(Fetching) /\ Len(IFETCH_BUFFER) \in Nat
           /\ DOMAIN IFETCH_BUFFER = 1..Len(IFETCH_BUFFER)
           /\ \A k \in 1..Len(IFETCH_BUFFER) : IFETCH_BUFFER[k] \in Fetching
           /\ DECODE_BUFFER \in Seq(Decoding) /\ Len(DECODE_BUFFER) \in Nat
           /\ DOMAIN DECODE_BUFFER = 1..Len(DECODE_BUFFER)
           /\ \A k \in 1..Len(DECODE_BUFFER) : DECODE_BUFFER[k] \in Decoding
           /\ ROB \in Seq(Executes) /\ Len(ROB) \in Nat /\ DOMAIN ROB = 1..Len(ROB)
           /\ \A k \in 1..Len(ROB) : ROB[k] \in Executes
           /\ Len(IFETCH_BUFFER) <= IFETCH_SIZE /\ Len(DECODE_BUFFER) <= DECODE_SIZE
           /\ Len(ROB) <= ROB_SIZE
  <1>1. /\ IFETCH_BUFFER \in Seq(Fetching) /\ DECODE_BUFFER \in Seq(Decoding)
        /\ ROB \in Seq(Executes)
        /\ Len(IFETCH_BUFFER) <= IFETCH_SIZE /\ Len(DECODE_BUFFER) <= DECODE_SIZE
        /\ Len(ROB) <= ROB_SIZE
    BY DEF TypeOK, Fetching, Decoding, Executes
  <1> QED
    BY <1>1, LenProperties, ElementOfSeq

\* Whether a branch is unresolved, by the buffer it is in.
LEMMA UnresolvedIs ==
    Unresolved <=> \/ Waiting(IFETCH_BUFFER) # {} \/ Waiting(DECODE_BUFFER) # {}
                   \/ Executing # {}
  BY DEF Unresolved, InFlight, ToSet, Waiting, Executing

\* decode_and_dispatch moves no more than there are and the ROB has room for,
LEMMA DispatchedFacts ==
    ASSUME TypeOK
    PROVE  /\ Dispatched \in Nat /\ Dispatched <= Len(DECODE_BUFFER)
           /\ Len(ROB) + Dispatched <= ROB_SIZE
  <1> DEFINE S == {n \in 0..DECODE_WIDTH :
                     /\ n <= Len(DECODE_BUFFER)
                     /\ Len(ROB) + n <= ROB_SIZE
                     /\ \A k \in 1..n : ~warmup_complete \/ DECODE_BUFFER[k].wait = 0}
  <1>1. Len(DECODE_BUFFER) \in Nat /\ Len(ROB) \in Nat /\ Len(ROB) <= ROB_SIZE
        /\ DECODE_WIDTH \in Nat /\ DECODE_WIDTH > 0
    BY BufferFacts, Sizes
  <1>2. S \in SUBSET (0..DECODE_WIDTH)
    OBVIOUS
  <1>3. S # {}
    <2>1. 0 \in S
      BY <1>1
    <2> HIDE DEF S
    <2> QED
      BY <2>1
  <1>4. Max(S) \in S
    <2> HIDE DEF S
    <2> QED
      BY <1>1, <1>2, <1>3, MaxIn
  <1>5. Dispatched \in S
    BY <1>4 DEF Dispatched
  <1> QED
    BY <1>5

\* and fetch_instruction no more than are fetched and have room.
LEMMA PassedFacts ==
    ASSUME TypeOK, NEW buffer, Len(buffer) \in Nat
    PROVE  /\ Passed(buffer) \in Nat /\ Passed(buffer) <= Len(buffer)
           /\ Len(DECODE_BUFFER) + Passed(buffer) <= DECODE_SIZE
  <1> DEFINE S == {n \in 0..DECODE_WIDTH :
                     /\ n <= Len(buffer)
                     /\ Len(DECODE_BUFFER) + n <= DECODE_SIZE
                     /\ \A k \in 1..n : buffer[k].fetched = "completed"}
  <1>1. Len(DECODE_BUFFER) \in Nat /\ Len(DECODE_BUFFER) <= DECODE_SIZE
        /\ DECODE_WIDTH \in Nat /\ DECODE_WIDTH > 0
    BY BufferFacts, Sizes
  <1>2. S \in SUBSET (0..DECODE_WIDTH)
    OBVIOUS
  <1>3. S # {}
    <2>1. 0 \in S
      BY <1>1
    <2> HIDE DEF S
    <2> QED
      BY <2>1
  <1>4. Max(S) \in S
    <2> HIDE DEF S
    <2> QED
      BY <1>1, <1>2, <1>3, MaxIn
  <1>5. Passed(buffer) \in S
    BY <1>4 DEF Passed
  <1> QED
    BY <1>5

-----------------------------------------------------------------------------
(* What the stages do to the buffers.                                      *)

\* The oldest instructions leave the ROB, all of them executed.
LEMMA RetireEffect ==
    ASSUME TypeOK, NEW n, retire_rob(n)
    PROVE  /\ n \in Nat /\ n <= Len(ROB) /\ \A k \in 1..n : ROB[k].executed
           /\ ROB' \in Seq(Executes) /\ Len(ROB') = Len(ROB) - n /\ DOMAIN ROB' = 1..(Len(ROB) - n)
           /\ \A k \in 1..(Len(ROB) - n) : ROB'[k] = ROB[n + k]
  <1>1. ROB \in Seq(Executes) /\ Len(ROB) \in Nat
    BY BufferFacts
  <1>2. n \in 0..RETIRE_WIDTH /\ n <= Len(ROB) /\ \A k \in 1..n : ROB[k].executed
    BY DEF retire_rob, Retirable
  <1>3. n \in Nat /\ n \in 0..Len(ROB)
    BY <1>1, <1>2, Sizes
  <1>4. ROB' = SubSeq(ROB, n + 1, Len(ROB))
    BY DEF retire_rob
  <1> QED
    BY <1>1, <1>2, <1>3, <1>4, Dropped

\* An instruction of the ROB is executed.
LEMMA ExecutionEffect ==
    ASSUME TypeOK, NEW e, complete_execution(e)
    PROVE  /\ e \in 1..Len(ROB) /\ ~ROB[e].executed
           /\ ROB' \in Seq(Executes) /\ Len(ROB') = Len(ROB) /\ DOMAIN ROB' = 1..Len(ROB)
           /\ ROB'[e].executed /\ \A k \in 1..Len(ROB) : k # e => ROB'[k] = ROB[k]
  <1>1. /\ ROB \in Seq(Executes) /\ Len(ROB) \in Nat /\ DOMAIN ROB = 1..Len(ROB)
        /\ \A k \in 1..Len(ROB) : ROB[k] \in Executes
    BY BufferFacts
  <1> DEFINE x == [ROB[e] EXCEPT !.executed = TRUE]
  <1>2. e \in 1..Len(ROB) /\ ~ROB[e].executed /\ ROB' = [ROB EXCEPT ![e] = x]
    BY <1>1 DEF complete_execution
  <1>3. x \in Executes /\ x.executed
    BY <1>1, <1>2 DEF Executes
  <1> HIDE DEF x
  <1> QED
    BY <1>1, <1>2, <1>3, ExceptSeq, LenProperties

\* Instructions go from the decode buffer to the ROB, in order.
LEMMA DecodeEffect ==
    ASSUME TypeOK, decode_and_dispatch, NEW n, n = Dispatched
    PROVE  /\ n \in Nat /\ n <= Len(DECODE_BUFFER) /\ Len(ROB) + n <= ROB_SIZE
           /\ ROB' \in Seq(Executes) /\ Len(ROB') = Len(ROB) + n /\ DOMAIN ROB' = 1..(Len(ROB) + n)
           /\ \A k \in 1..Len(ROB) : ROB'[k] = ROB[k]
           /\ \A k \in 1..n : /\ ~ROB'[Len(ROB) + k].executed
                              /\ ROB'[Len(ROB) + k].resolves = "execute"
                                   <=> DECODE_BUFFER[k].resolves = "execute"
           /\ DECODE_BUFFER' \in Seq(Decoding) /\ Len(DECODE_BUFFER') = Len(DECODE_BUFFER) - n
           /\ DOMAIN DECODE_BUFFER' = 1..(Len(DECODE_BUFFER) - n)
           /\ \A k \in 1..(Len(DECODE_BUFFER) - n) :
                DECODE_BUFFER'[k].resolves = DECODE_BUFFER[n + k].resolves
  <1>1. /\ ROB \in Seq(Executes) /\ Len(ROB) \in Nat
        /\ Len(DECODE_BUFFER) \in Nat
        /\ \A k \in 1..Len(DECODE_BUFFER) : DECODE_BUFFER[k] \in Decoding
    BY BufferFacts
  <1>2. n \in Nat /\ n <= Len(DECODE_BUFFER) /\ Len(ROB) + n <= ROB_SIZE
    BY DispatchedFacts
  <1> DEFINE e(k) == [resolves |-> IF DECODE_BUFFER[k].resolves = "execute" THEN "execute"
                                   ELSE "none", executed |-> FALSE]
             f == [k \in 1..n |-> e(k)]
             g(j) == IF StartsDecoding(n + j)
                     THEN [DECODE_BUFFER[n + j] EXCEPT !.wait = DECODE_LATENCY + 1]
                     ELSE DECODE_BUFFER[n + j]
             m == Len(DECODE_BUFFER) - n
             s == [j \in 1..m |-> g(j)]
  <1>3. ROB' = ROB \o f /\ DECODE_BUFFER' = s
    BY DEF decode_and_dispatch
  <1>4. f \in [1..n -> Executes]
    BY DEF Executes, Resolution
  <1>5. \A k \in 1..n : ~f[k].executed
                        /\ (f[k].resolves = "execute" <=> DECODE_BUFFER[k].resolves = "execute")
    OBVIOUS
  <1>6. m \in Nat
    BY <1>1, <1>2
  <1>7. ASSUME NEW j \in 1..m
        PROVE  g(j) \in Decoding /\ g(j).resolves = DECODE_BUFFER[n + j].resolves
    <2>1. n + j \in 1..Len(DECODE_BUFFER)
      BY <1>1, <1>2
    <2>2. DECODE_BUFFER[n + j] \in Decoding
      BY <1>1, <2>1
    <2>3. DECODE_LATENCY + 1 \in Wait
      BY Sizes DEF Wait
    <2> QED
      BY <2>2, <2>3 DEF Decoding
  <1>8. s \in Seq(Decoding) /\ Len(s) = m /\ DOMAIN s = 1..m
        /\ \A j \in 1..m : s[j].resolves = DECODE_BUFFER[n + j].resolves
    <2> HIDE DEF m, g
    <2>1. s \in [1..m -> Decoding]
      BY <1>7
    <2> QED
      BY <1>6, <1>7, <2>1, SeqDef, LenProperties
  <1> HIDE DEF f, s
  <1>9. /\ ROB' \in Seq(Executes) /\ Len(ROB') = Len(ROB) + n /\ DOMAIN ROB' = 1..(Len(ROB) + n)
        /\ \A k \in 1..Len(ROB) : ROB'[k] = ROB[k]
        /\ \A k \in 1..n : ROB'[Len(ROB) + k] = f[k]
    BY <1>1, <1>2, <1>3, <1>4, Extended
  <1> QED
    BY <1>2, <1>3, <1>5, <1>8, <1>9

\* The lines that are asked for change what is fetched, and nothing else.
LEMMA RequestedFacts ==
    ASSUME TypeOK, NEW lines
    PROVE  /\ Requested(lines) \in Seq(Fetching) /\ Len(Requested(lines)) = Len(IFETCH_BUFFER)
           /\ \A k \in 1..Len(IFETCH_BUFFER) :
                Requested(lines)[k].resolves = IFETCH_BUFFER[k].resolves
  <1> DEFINE n == Len(IFETCH_BUFFER)
             s == Requested(lines)
  <1>1. /\ n \in Nat /\ DOMAIN IFETCH_BUFFER = 1..n
        /\ \A k \in 1..n : IFETCH_BUFFER[k] \in Fetching
    BY BufferFacts
  <1> HIDE DEF n
  <1>2. s \in [1..n -> Fetching] /\ \A k \in 1..n : s[k].resolves = IFETCH_BUFFER[k].resolves
    BY <1>1 DEF Requested, Fetching
  <1> HIDE DEF s
  <1>3. s \in Seq(Fetching) /\ Len(s) = n
    BY <1>1, <1>2, SeqDef, LenProperties
  <1> QED
    BY <1>2, <1>3 DEF s, n

\* Instructions go from the fetch buffer to the decode buffer, in order.
LEMMA FetchEffect ==
    ASSUME TypeOK, NEW accepted, fetch_instruction(accepted),
           NEW n, n = Passed(Requested(accepted))
    PROVE  /\ n \in Nat /\ n <= Len(IFETCH_BUFFER) /\ Len(DECODE_BUFFER) + n <= DECODE_SIZE
           /\ IFETCH_BUFFER' \in Seq(Fetching) /\ Len(IFETCH_BUFFER') = Len(IFETCH_BUFFER) - n
           /\ DOMAIN IFETCH_BUFFER' = 1..(Len(IFETCH_BUFFER) - n)
           /\ \A k \in 1..(Len(IFETCH_BUFFER) - n) :
                IFETCH_BUFFER'[k].resolves = IFETCH_BUFFER[n + k].resolves
           /\ DECODE_BUFFER' \in Seq(Decoding) /\ Len(DECODE_BUFFER') = Len(DECODE_BUFFER) + n
           /\ DOMAIN DECODE_BUFFER' = 1..(Len(DECODE_BUFFER) + n)
           /\ \A k \in 1..Len(DECODE_BUFFER) : DECODE_BUFFER'[k] = DECODE_BUFFER[k]
           /\ \A k \in 1..n :
                DECODE_BUFFER'[Len(DECODE_BUFFER) + k].resolves = IFETCH_BUFFER[k].resolves
  <1> DEFINE buffer == Requested(accepted)
             f == [k \in 1..n |-> [resolves |-> buffer[k].resolves, wait |-> NONE]]
  <1>1. /\ Len(IFETCH_BUFFER) \in Nat
        /\ DECODE_BUFFER \in Seq(Decoding) /\ Len(DECODE_BUFFER) \in Nat
    BY BufferFacts
  <1>2. /\ buffer \in Seq(Fetching) /\ Len(buffer) = Len(IFETCH_BUFFER)
        /\ \A k \in 1..Len(IFETCH_BUFFER) : buffer[k].resolves = IFETCH_BUFFER[k].resolves
    BY RequestedFacts
  <1>3. n \in Nat /\ n <= Len(IFETCH_BUFFER) /\ Len(DECODE_BUFFER) + n <= DECODE_SIZE
    BY <1>1, <1>2, PassedFacts
  <1>4. IFETCH_BUFFER' = SubSeq(buffer, n + 1, Len(buffer)) /\ DECODE_BUFFER' = DECODE_BUFFER \o f
    BY DEF fetch_instruction
  <1>5. f \in [1..n -> Decoding] /\ \A k \in 1..n : f[k].resolves = IFETCH_BUFFER[k].resolves
    <2>1. \A k \in 1..n : k \in 1..Len(IFETCH_BUFFER)
      BY <1>1, <1>3
    <2>2. \A k \in 1..n : buffer[k] \in Fetching
      BY <1>2, <2>1, ElementOfSeq
    <2>3. \A k \in 1..n : buffer[k].resolves \in Resolution
      BY <2>2 DEF Fetching
    <2> HIDE DEF buffer
    <2> QED
      BY <1>2, <2>1, <2>3 DEF Decoding, Wait
  <1> HIDE DEF buffer, f
  <1>6. /\ IFETCH_BUFFER' \in Seq(Fetching) /\ Len(IFETCH_BUFFER') = Len(IFETCH_BUFFER) - n
        /\ DOMAIN IFETCH_BUFFER' = 1..(Len(IFETCH_BUFFER) - n)
        /\ \A k \in 1..(Len(IFETCH_BUFFER) - n) : IFETCH_BUFFER'[k] = buffer[n + k]
    <2>1. n \in 0..Len(buffer)
      BY <1>1, <1>2, <1>3
    <2> QED
      BY SMTT(30), <1>2, <1>4, <2>1, Dropped
  <1>7. \A k \in 1..(Len(IFETCH_BUFFER) - n) : n + k \in 1..Len(IFETCH_BUFFER)
    BY <1>1, <1>3
  <1>8. /\ DECODE_BUFFER' \in Seq(Decoding) /\ Len(DECODE_BUFFER') = Len(DECODE_BUFFER) + n
        /\ DOMAIN DECODE_BUFFER' = 1..(Len(DECODE_BUFFER) + n)
        /\ \A k \in 1..Len(DECODE_BUFFER) : DECODE_BUFFER'[k] = DECODE_BUFFER[k]
        /\ \A k \in 1..n : DECODE_BUFFER'[Len(DECODE_BUFFER) + k] = f[k]
    <2>1. /\ DECODE_BUFFER \in Seq(Decoding) /\ n \in Nat /\ f \in [1..n -> Decoding]
          /\ DECODE_BUFFER' = DECODE_BUFFER \o f
      BY <1>1, <1>3, <1>4, <1>5
    <2>2. ASSUME NEW s \in Seq(Decoding), NEW m \in Nat, NEW g \in [1..m -> Decoding]
          PROVE  /\ s \o g \in Seq(Decoding) /\ Len(s \o g) = Len(s) + m
                 /\ DOMAIN (s \o g) = 1..(Len(s) + m)
                 /\ \A k \in 1..Len(s) : (s \o g)[k] = s[k]
                 /\ \A k \in 1..m : (s \o g)[Len(s) + k] = g[k]
      BY Extended
    <2> QED
      BY <2>1, <2>2
  <1> QED
    BY ZenonT(30), <1>2, <1>3, <1>5, <1>6, <1>7, <1>8

\* An instruction is read into the fetch buffer.
LEMMA ReadEffect ==
    ASSUME TypeOK, NEW line \in Line, NEW resolves \in Resolution, NEW stop,
           Read(line, resolves, stop), NEW n, n = Len(IFETCH_BUFFER)
    PROVE  /\ n \in Nat /\ IFETCH_BUFFER' \in Seq(Fetching) /\ Len(IFETCH_BUFFER') = n + 1
           /\ DOMAIN IFETCH_BUFFER' = 1..(n + 1)
           /\ \A k \in 1..n : IFETCH_BUFFER'[k] = IFETCH_BUFFER[k]
           /\ IFETCH_BUFFER'[n + 1].resolves = resolves
  <1> DEFINE x == [resolves |-> resolves, line |-> line, fetched |-> "no"]
  <1>1. IFETCH_BUFFER \in Seq(Fetching) /\ n \in Nat
    BY BufferFacts
  <1>2. x \in Fetching /\ x.resolves = resolves
    BY DEF Fetching
  <1>3. IFETCH_BUFFER' = Append(IFETCH_BUFFER, x)
    BY DEF Read
  <1> HIDE DEF x
  <1> QED
    BY <1>1, <1>2, <1>3, AppendProperties, LenProperties

\* The instruction cache answers, or a cycle passes: the branches stay.
LEMMA AnswerEffect ==
    ASSUME TypeOK, NEW line, complete_instr_fetch(line)
    PROVE  /\ IFETCH_BUFFER' \in Seq(Fetching) /\ Len(IFETCH_BUFFER') = Len(IFETCH_BUFFER)
           /\ DOMAIN IFETCH_BUFFER' = 1..Len(IFETCH_BUFFER)
           /\ \A k \in 1..Len(IFETCH_BUFFER) :
                IFETCH_BUFFER'[k].resolves = IFETCH_BUFFER[k].resolves
  <1> DEFINE n == Len(IFETCH_BUFFER)
             s == IFETCH_BUFFER'
  <1>1. /\ n \in Nat /\ DOMAIN IFETCH_BUFFER = 1..n
        /\ \A k \in 1..n : IFETCH_BUFFER[k] \in Fetching
    BY BufferFacts
  <1> HIDE DEF n
  <1>2. s \in [1..n -> Fetching] /\ \A k \in 1..n : s[k].resolves = IFETCH_BUFFER[k].resolves
    BY <1>1 DEF complete_instr_fetch, Fetching
  <1> HIDE DEF s
  <1>3. s \in Seq(Fetching) /\ Len(s) = n /\ DOMAIN s = 1..n
    BY <1>1, <1>2, SeqDef, LenProperties
  <1> QED
    BY <1>2, <1>3 DEF s, n

\* A cycle that passes changes no decode buffer entry's claim to resolve the
\* stall, and neither adds nor removes one.
LEMMA CycleEffect ==
    ASSUME TypeOK, CyclePasses
    PROVE  /\ DECODE_BUFFER' \in Seq(Decoding) /\ Len(DECODE_BUFFER') = Len(DECODE_BUFFER)
           /\ DOMAIN DECODE_BUFFER' = 1..Len(DECODE_BUFFER)
           /\ \A k \in 1..Len(DECODE_BUFFER) :
                DECODE_BUFFER'[k].resolves = DECODE_BUFFER[k].resolves
  <1> DEFINE n == Len(DECODE_BUFFER)
             s == DECODE_BUFFER'
  <1>1. /\ n \in Nat /\ DOMAIN DECODE_BUFFER = 1..n
        /\ \A k \in 1..n : DECODE_BUFFER[k] \in Decoding
    BY BufferFacts
  <1> HIDE DEF n
  <1>2. \A w \in Wait : Until(w) \in Wait
    BY DEF Until, Wait, NONE
  <1>3. s \in [1..n -> Decoding] /\ \A k \in 1..n : s[k].resolves = DECODE_BUFFER[k].resolves
    BY <1>1, <1>2 DEF CyclePasses, Decoding
  <1> HIDE DEF s
  <1>4. s \in Seq(Decoding) /\ Len(s) = n /\ DOMAIN s = 1..n
    BY <1>1, <1>3, SeqDef, LenProperties
  <1> QED
    BY <1>3, <1>4 DEF s, n

-----------------------------------------------------------------------------
(* The steps preserve the invariant.                                       *)

\* Whether a branch is unresolved after a step.
LEMMA UnresolvedNext ==
    Unresolved' <=> \/ Waiting(IFETCH_BUFFER)' # {} \/ Waiting(DECODE_BUFFER)' # {}
                    \/ Executing' # {}
  BY DEF Unresolved, InFlight, ToSet, Waiting, Executing

\* A step that leaves the branches where they are.
LEMMA BranchesStay ==
    ASSUME Waiting(IFETCH_BUFFER)' = Waiting(IFETCH_BUFFER),
           Waiting(DECODE_BUFFER)' = Waiting(DECODE_BUFFER), Executing' = Executing
    PROVE  (OnlyOne' <=> OnlyOne) /\ (Unresolved' <=> Unresolved)
  <1>1. Unresolved' <=> Unresolved
    BY UnresolvedIs, UnresolvedNext
  <1>2. OnlyOne' <=> OnlyOne
    BY DEF OnlyOne
  <1> QED
    BY <1>1, <1>2

\* The empty pipeline satisfies the invariant.
LEMMA InitInv == Init => FrontInv
  <1> SUFFICES ASSUME Init PROVE FrontInv
    OBVIOUS
  <1>1. /\ IFETCH_BUFFER = <<>> /\ DECODE_BUFFER = <<>> /\ ROB = <<>>
        /\ \A S : <<>> \in Seq(S) /\ Len(<<>>) = 0
    BY EmptySeq DEF Init
  <1>2. TypeOK
    <2>1. /\ IFETCH_BUFFER \in Seq(Fetching) /\ DECODE_BUFFER \in Seq(Decoding)
          /\ ROB \in Seq(Executes)
      BY <1>1
    <2>2. /\ Len(IFETCH_BUFFER) <= IFETCH_SIZE /\ Len(DECODE_BUFFER) <= DECODE_SIZE
          /\ Len(ROB) <= ROB_SIZE
      BY <1>1, Sizes
    <2>3. /\ stage \in Stage /\ IBUF_occupancy \in Nat /\ outstanding \subseteq Line
          /\ fetch_resume_cycle \in Wait /\ num_reads \in 0..FETCH_WIDTH
      BY Sizes DEF Init, Stage, Wait
    <2>4. /\ warmup_complete \in BOOLEAN /\ fetch_stall \in BOOLEAN
          /\ skip_next_cycle \in BOOLEAN /\ write_stalled \in BOOLEAN
      BY Zenon DEF Init
    <2> QED
      BY <2>1, <2>2, <2>3, <2>4 DEF TypeOK, Fetching, Decoding, Executes
  <1>3. Waiting(IFETCH_BUFFER) = {} /\ Waiting(DECODE_BUFFER) = {} /\ Executing = {}
    BY <1>1 DEF Waiting, Executing
  <1>4. SingleStall
    BY <1>3, UnresolvedIs DEF SingleStall, OnlyOne, Init
  <1>5. RunsAheadWithinBuffer /\ ReadsWithinBounds /\ StallHasEnd
    BY <1>1, Sizes DEF Init, RunsAheadWithinBuffer, ReadsWithinBounds, StallHasEnd
  <1> QED
    BY <1>2, <1>4, <1>5 DEF FrontInv

\* Of a step that changes nothing, or moves on to another part of the cycle,
LEMMA StagePreserves ==
    ASSUME FrontInv, UNCHANGED <<warmup_complete, bufferVars, IBUF_occupancy, outstanding>>,
           UNCHANGED <<fetch_stall, fetch_resume_cycle, write_stalled, num_reads>>,
           skip_next_cycle' \in BOOLEAN,
           \/ UNCHANGED stage
           \/ EndExecute \/ FrontIdle \/ StartReading
    PROVE  FrontInv'
  <1>1. /\ TypeOK /\ stage' \in Stage
        /\ UNCHANGED <<IFETCH_BUFFER, DECODE_BUFFER, ROB>>
    BY DEF FrontInv, TypeOK, bufferVars, EndExecute, FrontIdle, StartReading, Stage
  <1>2. TypeOK'
    BY <1>1 DEF TypeOK
  <1>3. /\ Waiting(IFETCH_BUFFER)' = Waiting(IFETCH_BUFFER)
        /\ Waiting(DECODE_BUFFER)' = Waiting(DECODE_BUFFER) /\ Executing' = Executing
    BY <1>1 DEF Waiting, Executing
  <1>4. (OnlyOne' <=> OnlyOne) /\ (Unresolved' <=> Unresolved)
    BY <1>3, BranchesStay
  <1>5. \/ UNCHANGED stage
        \/ stage' \in {"decode", "tick"} /\ stage \in {"execute", "front"}
        \/ stage = "front" /\ stage' = "read" /\ Len(IFETCH_BUFFER) < IFETCH_SIZE /\ ~fetch_stall
    BY DEF EndExecute, FrontIdle, StartReading, FrontRuns
  <1>6. RunsAheadWithinBuffer' /\ ReadsWithinBounds'
    BY <1>1, <1>5, Sizes DEF FrontInv, RunsAheadWithinBuffer, ReadsWithinBounds
  <1>7. StallHasEnd'
    BY <1>4 DEF FrontInv, StallHasEnd, NONE
  <1>8. (~write_stalled => SingleStall)'
    BY <1>4, <1>5 DEF FrontInv, SingleStall, NONE
  <1> QED
    BY <1>2, <1>6, <1>7, <1>8 DEF FrontInv

\* of instructions that retire,
LEMMA RetirePreserves ==
    ASSUME FrontInv, NEW n, retire_rob(n)
    PROVE  FrontInv'
  <1>1. /\ UNCHANGED <<warmup_complete, IFETCH_BUFFER, DECODE_BUFFER, IBUF_occupancy, outstanding>>
        /\ UNCHANGED <<fetch_stall, fetch_resume_cycle, write_stalled, num_reads, skip_next_cycle>>
        /\ stage = "retire" /\ stage' = "execute" /\ TypeOK
    BY DEF retire_rob, stallVars, readVars, FrontInv
  <1> DEFINE r == Len(ROB)
  <1>2. r \in Nat /\ r <= ROB_SIZE /\ DOMAIN ROB = 1..r
    BY <1>1, BufferFacts
  <1>3. /\ n \in Nat /\ n <= r /\ \A k \in 1..n : ROB[k].executed
        /\ ROB' \in Seq(Executes) /\ Len(ROB') = r - n /\ DOMAIN ROB' = 1..(r - n)
        /\ \A k \in 1..(r - n) : ROB'[k] = ROB[n + k]
    BY <1>1, RetireEffect
  <1> HIDE DEF r
  <1>4. TypeOK'
    <2>1. Len(ROB') <= ROB_SIZE
      BY <1>2, <1>3, Sizes
    <2> QED
      BY <1>1, <1>3, <2>1 DEF TypeOK, Stage, Executes
  <1>5. /\ Waiting(IFETCH_BUFFER)' = Waiting(IFETCH_BUFFER)
        /\ Waiting(DECODE_BUFFER)' = Waiting(DECODE_BUFFER)
    BY <1>1 DEF Waiting
  <1>6. \A k : k \in Executing' => n + k \in Executing /\ k \in Nat
    <2>1. \A k \in 1..(r - n) : n + k \in 1..r /\ k \in Nat
      BY <1>2, <1>3
    <2> QED
      BY <1>2, <1>3, <2>1 DEF Executing
  <1>7. \A k \in Executing : k - n \in Executing'
    <2> TAKE k \in Executing
    <2>1. k \in 1..r /\ ~ROB[k].executed
      BY <1>2 DEF Executing
    <2>2. k \notin 1..n
      BY <1>3, <2>1
    <2>3. k - n \in 1..(r - n) /\ n + (k - n) = k
      BY <1>2, <1>3, <2>1, <2>2
    <2> QED
      BY <1>3, <2>3 DEF Executing
  <1>8. Unresolved' <=> Unresolved
    BY <1>5, <1>6, <1>7, UnresolvedIs, UnresolvedNext
  <1>9. OnlyOne => OnlyOne'
    <2> SUFFICES ASSUME OnlyOne PROVE OnlyOne'
      OBVIOUS
    <2>1. ASSUME NEW a \in Executing', NEW b \in Executing' PROVE a = b
      <3>1. n + a = n + b /\ a \in Nat /\ b \in Nat
        BY <1>6 DEF OnlyOne
      <3> QED
        BY <1>3, <3>1
    <2>2. Executing = {} => Executing' = {}
      BY <1>6
    <2> QED
      BY <1>5, <2>1, <2>2 DEF OnlyOne
  <1>10. RunsAheadWithinBuffer' /\ ReadsWithinBounds'
    BY <1>1 DEF FrontInv, RunsAheadWithinBuffer, ReadsWithinBounds
  <1>11. StallHasEnd'
    BY <1>1, <1>8 DEF FrontInv, StallHasEnd, NONE
  <1>12. (~write_stalled => SingleStall)'
    BY <1>1, <1>8, <1>9 DEF FrontInv, SingleStall, NONE
  <1> QED
    BY <1>4, <1>10, <1>11, <1>12 DEF FrontInv

\* of an answer of the instruction cache,
LEMMA AnswerPreserves ==
    ASSUME FrontInv, NEW line, complete_instr_fetch(line)
    PROVE  FrontInv'
  <1>1. /\ UNCHANGED <<stage, warmup_complete, DECODE_BUFFER, ROB, IBUF_occupancy>>
        /\ UNCHANGED <<fetch_stall, fetch_resume_cycle, write_stalled, num_reads, skip_next_cycle>>
        /\ outstanding' \in SUBSET outstanding /\ TypeOK
    BY DEF complete_instr_fetch, stallVars, readVars, FrontInv
  <1>2. /\ IFETCH_BUFFER' \in Seq(Fetching) /\ Len(IFETCH_BUFFER') = Len(IFETCH_BUFFER)
        /\ DOMAIN IFETCH_BUFFER' = 1..Len(IFETCH_BUFFER)
        /\ DOMAIN IFETCH_BUFFER = 1..Len(IFETCH_BUFFER)
        /\ \A k \in 1..Len(IFETCH_BUFFER) :
             IFETCH_BUFFER'[k].resolves = IFETCH_BUFFER[k].resolves
    BY <1>1, AnswerEffect, BufferFacts
  <1>3. TypeOK'
    BY <1>1, <1>2 DEF TypeOK, Fetching
  <1>4. /\ Waiting(IFETCH_BUFFER)' = Waiting(IFETCH_BUFFER)
        /\ Waiting(DECODE_BUFFER)' = Waiting(DECODE_BUFFER) /\ Executing' = Executing
    BY <1>1, <1>2 DEF Waiting, Executing
  <1>5. (OnlyOne' <=> OnlyOne) /\ (Unresolved' <=> Unresolved)
    BY <1>4, BranchesStay
  <1>6. RunsAheadWithinBuffer' /\ ReadsWithinBounds'
    BY <1>1, <1>2 DEF FrontInv, RunsAheadWithinBuffer, ReadsWithinBounds
  <1>7. StallHasEnd'
    BY <1>1, <1>5 DEF FrontInv, StallHasEnd, NONE
  <1>8. (~write_stalled => SingleStall)'
    BY <1>1, <1>5 DEF FrontInv, SingleStall, NONE
  <1> QED
    BY <1>3, <1>6, <1>7, <1>8 DEF FrontInv

\* of a branch that is executed: the one that is waited for, if it is,
LEMMA ExecutionPreserves ==
    ASSUME FrontInv, NEW e, complete_execution(e)
    PROVE  FrontInv'
  <1>1. /\ UNCHANGED <<stage, warmup_complete, IFETCH_BUFFER, DECODE_BUFFER, IBUF_occupancy>>
        /\ UNCHANGED <<outstanding, fetch_stall, write_stalled, num_reads, skip_next_cycle>>
        /\ fetch_resume_cycle' = IF ROB[e].resolves = "execute"
                                 THEN BRANCH_MISPREDICT_PENALTY ELSE fetch_resume_cycle
        /\ TypeOK
    BY DEF complete_execution, readVars, FrontInv
  <1> DEFINE r == Len(ROB)
  <1>2. r \in Nat /\ r <= ROB_SIZE /\ DOMAIN ROB = 1..r
    BY <1>1, BufferFacts
  <1>3. /\ e \in 1..r /\ ~ROB[e].executed
        /\ ROB' \in Seq(Executes) /\ Len(ROB') = r /\ DOMAIN ROB' = 1..r
        /\ ROB'[e].executed /\ \A k \in 1..r : k # e => ROB'[k] = ROB[k]
    BY <1>1, ExecutionEffect
  <1> HIDE DEF r
  <1>4. fetch_resume_cycle' \in Wait
    BY <1>1, Sizes DEF TypeOK, Wait
  <1>5. TypeOK'
    BY <1>1, <1>2, <1>3, <1>4 DEF TypeOK, Executes
  <1>6. /\ Waiting(IFETCH_BUFFER)' = Waiting(IFETCH_BUFFER)
        /\ Waiting(DECODE_BUFFER)' = Waiting(DECODE_BUFFER)
    BY <1>1 DEF Waiting
  <1>7. Executing' = Executing \ {e} /\ (e \in Executing <=> ROB[e].resolves = "execute")
    BY <1>2, <1>3 DEF Executing
  <1>8. CASE ROB[e].resolves # "execute"
    <2>1. (OnlyOne' <=> OnlyOne) /\ (Unresolved' <=> Unresolved)
      <3>1. Executing' = Executing
        BY <1>7, <1>8
      <3> QED
        BY <1>6, <3>1, BranchesStay
    <2>2. fetch_resume_cycle' = fetch_resume_cycle
      BY <1>1, <1>8
    <2> QED
      BY <1>1, <1>5, <2>1, <2>2
      DEF FrontInv, SingleStall, StallHasEnd, ReadsWithinBounds, RunsAheadWithinBuffer, NONE
  <1>9. CASE ROB[e].resolves = "execute"
    <2>1. fetch_resume_cycle' \in Nat /\ fetch_resume_cycle' # NONE
      BY <1>1, <1>9, Sizes DEF NONE
    <2>2. StallHasEnd' /\ RunsAheadWithinBuffer' /\ ReadsWithinBounds'
      BY <1>1, <2>1 DEF FrontInv, StallHasEnd, ReadsWithinBounds, RunsAheadWithinBuffer, NONE
    <2>3. ASSUME ~write_stalled PROVE SingleStall'
      <3>1. SingleStall /\ e \in Executing
        BY <1>7, <1>9, <2>3 DEF FrontInv
      <3>2. /\ Waiting(IFETCH_BUFFER)' = {} /\ Waiting(DECODE_BUFFER)' = {} /\ Executing' = {}
        BY <1>6, <1>7, <3>1 DEF SingleStall, OnlyOne
      <3>3. ~Unresolved' /\ OnlyOne'
        BY <3>2, UnresolvedNext DEF OnlyOne
      <3>4. Unresolved
        BY <3>1, UnresolvedIs
      <3> QED
        BY <1>1, <3>1, <3>3, <3>4 DEF SingleStall
    <2> QED
      BY <1>1, <1>5, <2>2, <2>3 DEF FrontInv
  <1> QED
    BY <1>8, <1>9

\* of decoding: a branch goes on to the ROB, or is resolved,
LEMMA DecodePreserves ==
    ASSUME FrontInv, decode_and_dispatch
    PROVE  FrontInv'
  <1> DEFINE n == Dispatched
             r == Len(ROB)
             d == Len(DECODE_BUFFER)
             resolved == \E k \in 1..n : DECODE_BUFFER[k].resolves = "decode"
  <1>1. /\ UNCHANGED <<warmup_complete, IFETCH_BUFFER, IBUF_occupancy>>
        /\ UNCHANGED <<outstanding, fetch_stall, write_stalled, num_reads, skip_next_cycle>>
        /\ fetch_resume_cycle' = IF resolved THEN BRANCH_MISPREDICT_PENALTY
                                 ELSE fetch_resume_cycle
        /\ stage = "decode" /\ stage' = "fetch" /\ TypeOK
    BY DEF decode_and_dispatch, readVars, FrontInv
  <1>2. r \in Nat /\ d \in Nat /\ d <= DECODE_SIZE /\ DOMAIN ROB = 1..r
        /\ DOMAIN DECODE_BUFFER = 1..d
        /\ \A k \in 1..d : DECODE_BUFFER[k] \in Decoding
    BY <1>1, BufferFacts
  <1>3. /\ n \in Nat /\ n <= d /\ r + n <= ROB_SIZE
        /\ ROB' \in Seq(Executes) /\ Len(ROB') = r + n /\ DOMAIN ROB' = 1..(r + n)
        /\ \A k \in 1..r : ROB'[k] = ROB[k]
        /\ \A k \in 1..n : /\ ~ROB'[r + k].executed
                           /\ ROB'[r + k].resolves = "execute"
                                <=> DECODE_BUFFER[k].resolves = "execute"
        /\ DECODE_BUFFER' \in Seq(Decoding) /\ Len(DECODE_BUFFER') = d - n
        /\ DOMAIN DECODE_BUFFER' = 1..(d - n)
        /\ \A k \in 1..(d - n) : DECODE_BUFFER'[k].resolves = DECODE_BUFFER[n + k].resolves
    BY <1>1, DecodeEffect
  <1> HIDE DEF n, r, d
  <1>4. fetch_resume_cycle' \in Wait
    BY <1>1, Sizes DEF TypeOK, Wait
  <1>5. TypeOK'
    <2>1. Len(ROB') <= ROB_SIZE /\ Len(DECODE_BUFFER') <= DECODE_SIZE
      BY <1>2, <1>3, Sizes
    <2> QED
      BY <1>1, <1>3, <1>4, <2>1 DEF TypeOK, Stage, Executes, Decoding
  <1>6. Waiting(IFETCH_BUFFER)' = Waiting(IFETCH_BUFFER)
    BY <1>1 DEF Waiting
  <1>7. \A k : k \in Waiting(DECODE_BUFFER)' => n + k \in Waiting(DECODE_BUFFER) /\ k \in Nat /\ k >= 1
    <2>1. \A k \in 1..(d - n) : n + k \in 1..d /\ k \in Nat /\ k >= 1
      BY <1>2, <1>3
    <2> QED
      BY <1>2, <1>3, <2>1 DEF Waiting
  <1>8. \A k \in Executing' : \/ k \in Executing /\ k <= r
                              \/ /\ k > r /\ k - r \in 1..n /\ k - r \in Waiting(DECODE_BUFFER)
                                 /\ DECODE_BUFFER[k - r].resolves = "execute"
    <2> TAKE k \in Executing'
    <2>1. k \in 1..(r + n) /\ ROB'[k].resolves = "execute" /\ ~ROB'[k].executed
      BY <1>3 DEF Executing
    <2>2. CASE k <= r
      <3>1. k \in 1..r
        BY <1>2, <2>1, <2>2
      <3> QED
        BY <1>2, <1>3, <2>1, <2>2, <3>1 DEF Executing
    <2>3. CASE ~(k <= r)
      <3>1. k > r /\ k - r \in 1..n /\ r + (k - r) = k /\ k - r \in 1..d
        BY <1>2, <1>3, <2>1, <2>3
      <3>2. DECODE_BUFFER[k - r].resolves = "execute"
        BY <1>3, <2>1, <3>1
      <3> QED
        BY <1>2, <3>1, <3>2 DEF Waiting
    <2> QED
      BY <2>2, <2>3
  <1>9. ASSUME ~resolved PROVE Unresolved => Unresolved'
    <2>1. Executing # {} => Executing' # {}
      <3>1. \A k \in Executing : k \in Executing'
        <4>1. \A k \in 1..r : k \in 1..(r + n)
          BY <1>2, <1>3
        <4> QED
          BY <1>2, <1>3, <4>1 DEF Executing
      <3> QED
        BY <3>1
    <2>2. ASSUME NEW k \in Waiting(DECODE_BUFFER)
          PROVE  Waiting(DECODE_BUFFER)' # {} \/ Executing' # {}
      <3>1. k \in 1..d /\ DECODE_BUFFER[k].resolves # "none"
        BY <1>2, <2>2 DEF Waiting
      <3>2. CASE k <= n
        <4>1. k \in 1..n /\ r + k \in 1..(r + n)
          BY <1>2, <1>3, <3>1, <3>2
        <4>2. DECODE_BUFFER[k].resolves = "execute"
          <5>1. DECODE_BUFFER[k].resolves \in Resolution
            BY <1>2, <3>1 DEF Decoding
          <5> QED
            BY <1>9, <3>1, <4>1, <5>1 DEF Resolution
        <4>3. r + k \in Executing'
          BY <1>3, <4>1, <4>2 DEF Executing
        <4> QED
          BY <4>3
      <3>3. CASE ~(k <= n)
        <4>1. k - n \in 1..(d - n) /\ n + (k - n) = k
          BY <1>2, <1>3, <3>1, <3>3
        <4>2. k - n \in Waiting(DECODE_BUFFER)'
          BY <1>3, <3>1, <4>1 DEF Waiting
        <4> QED
          BY <4>2
      <3> QED
        BY <3>2, <3>3
    <2> QED
      BY <1>6, <2>1, <2>2, UnresolvedIs, UnresolvedNext
  <1>10. StallHasEnd' /\ RunsAheadWithinBuffer' /\ ReadsWithinBounds'
    <2>1. RunsAheadWithinBuffer' /\ ReadsWithinBounds'
      BY <1>1 DEF FrontInv, ReadsWithinBounds, RunsAheadWithinBuffer
    <2>2. CASE resolved
      BY <1>1, <2>1, <2>2, Sizes DEF StallHasEnd, NONE
    <2>3. CASE ~resolved
      <3>1. StallHasEnd
        BY DEF FrontInv
      <3>2. fetch_resume_cycle' = fetch_resume_cycle /\ (Unresolved => Unresolved')
        BY <1>1, <1>9, <2>3
      <3> QED
        BY <1>1, <2>1, <3>1, <3>2 DEF StallHasEnd, NONE
    <2> QED
      BY <2>1, <2>2, <2>3
  <1>11. ASSUME ~write_stalled PROVE SingleStall'
    <2>1. SingleStall /\ OnlyOne
      BY <1>11 DEF FrontInv, SingleStall
    <2>2. \A a, b \in Waiting(DECODE_BUFFER)' : a = b
      <3> SUFFICES ASSUME NEW a \in Waiting(DECODE_BUFFER)', NEW b \in Waiting(DECODE_BUFFER)'
                   PROVE  a = b
        OBVIOUS
      <3>1. n + a = n + b /\ a \in Nat /\ b \in Nat
        BY <1>7, <2>1 DEF OnlyOne
      <3> QED
        BY <1>3, <3>1
    <2>3. \A k \in Executing : k \in 1..r
      BY <1>2 DEF Executing
    <2>4. \A a, b \in Executing' : a = b
      <3> SUFFICES ASSUME NEW a \in Executing', NEW b \in Executing'
                   PROVE  a = b
        OBVIOUS
      <3>1. CASE Executing # {}
        <4>1. a \in Executing /\ b \in Executing
          BY <1>8, <2>1, <3>1 DEF OnlyOne
        <4> QED
          BY <2>1, <4>1 DEF OnlyOne
      <3>2. CASE Executing = {}
        <4>1. /\ a - r \in 1..n /\ a - r \in Waiting(DECODE_BUFFER)
              /\ b - r \in 1..n /\ b - r \in Waiting(DECODE_BUFFER)
              /\ a \in 1..(r + n) /\ b \in 1..(r + n)
          BY <1>3, <1>8, <3>2 DEF Executing
        <4>2. a - r = b - r
          BY <2>1, <4>1 DEF OnlyOne
        <4> QED
          BY <1>2, <1>3, <4>1, <4>2
      <3> QED
        BY <3>1, <3>2
    <2>5. Waiting(DECODE_BUFFER)' = {} \/ Executing' = {}
      <3> SUFFICES ASSUME NEW a \in Waiting(DECODE_BUFFER)', NEW b \in Executing' PROVE FALSE
        OBVIOUS
      <3>1. n + a \in Waiting(DECODE_BUFFER) /\ a \in Nat /\ a >= 1
        BY <1>7
      <3>2. b - r \in 1..n /\ b - r \in Waiting(DECODE_BUFFER)
        BY <1>8, <2>1, <3>1 DEF OnlyOne
      <3>3. n + a = b - r
        BY <2>1, <3>1, <3>2 DEF OnlyOne
      <3> QED
        BY <1>3, <3>1, <3>2, <3>3
    <2>6. /\ Waiting(IFETCH_BUFFER)' = {} \/ Waiting(DECODE_BUFFER)' = {}
          /\ Waiting(IFETCH_BUFFER)' = {} \/ Executing' = {}
      <3>1. Waiting(DECODE_BUFFER)' # {} => Waiting(DECODE_BUFFER) # {}
        BY <1>7
      <3>2. Executing' # {} => Executing # {} \/ Waiting(DECODE_BUFFER) # {}
        BY <1>8
      <3> QED
        BY <1>6, <2>1, <3>1, <3>2 DEF OnlyOne
    <2>7. OnlyOne'
      BY <1>6, <2>1, <2>2, <2>4, <2>5, <2>6 DEF OnlyOne
    <2>8. Unresolved' => Unresolved
      BY <1>6, <1>7, <1>8, UnresolvedIs, UnresolvedNext
    <2>9. CASE resolved
      <3>1. PICK k \in 1..n : DECODE_BUFFER[k].resolves = "decode"
        BY <2>9
      <3>2. k \in Waiting(DECODE_BUFFER)
        <4>1. k \in 1..d
          BY <1>2, <1>3
        <4> QED
          BY <1>2, <3>1, <4>1 DEF Waiting
      <3>3. Executing = {} /\ Waiting(IFETCH_BUFFER) = {}
        BY <2>1, <3>2 DEF OnlyOne
      <3>4. Executing' = {}
        <4> SUFFICES ASSUME NEW b \in Executing' PROVE FALSE
          OBVIOUS
        <4>1. b - r \in Waiting(DECODE_BUFFER) /\ DECODE_BUFFER[b - r].resolves = "execute"
          BY <1>8, <3>3
        <4>2. b - r = k
          BY <2>1, <3>2, <4>1 DEF OnlyOne
        <4> QED
          BY <3>1, <4>1, <4>2
      <3>5. Waiting(DECODE_BUFFER)' = {}
        <4> SUFFICES ASSUME NEW a \in Waiting(DECODE_BUFFER)' PROVE FALSE
          OBVIOUS
        <4>1. n + a \in Waiting(DECODE_BUFFER) /\ a \in Nat /\ a >= 1
          BY <1>7
        <4>2. n + a = k
          BY <2>1, <3>2, <4>1 DEF OnlyOne
        <4> QED
          BY <1>3, <4>1, <4>2
      <3>6. ~Unresolved' /\ Unresolved
        BY <1>6, <3>2, <3>3, <3>4, <3>5, UnresolvedIs, UnresolvedNext
      <3> QED
        BY <1>1, <2>1, <2>7, <3>6 DEF SingleStall
    <2>10. CASE ~resolved
      BY <1>1, <2>1, <2>7, <2>8, <2>10 DEF SingleStall, NONE
    <2> QED
      BY <2>9, <2>10
  <1> QED
    BY <1>1, <1>5, <1>10, <1>11 DEF FrontInv

\* of fetching: a branch goes on to be decoded, and the stall ends when its
\* resume cycle has come,
LEMMA FetchPreserves ==
    ASSUME FrontInv, NEW accepted \in SUBSET Line, fetch_instruction(accepted)
    PROVE  FrontInv'
  <1> DEFINE n == Passed(Requested(accepted))
             i == Len(IFETCH_BUFFER)
             d == Len(DECODE_BUFFER)
  <1>1. /\ UNCHANGED <<warmup_complete, ROB, write_stalled, num_reads, skip_next_cycle>>
        /\ stage = "fetch" /\ stage' = "front" /\ TypeOK
        /\ outstanding' = outstanding \cup accepted
        /\ IBUF_occupancy' = IF IBUF_occupancy > n THEN IBUF_occupancy - n ELSE 0
    BY DEF fetch_instruction, readVars, FrontInv
  <1>2. \/ /\ fetch_stall /\ fetch_resume_cycle = 0
           /\ ~fetch_stall' /\ fetch_resume_cycle' = NONE /\ fetch_stall' \in BOOLEAN
        \/ fetch_stall' = fetch_stall /\ fetch_resume_cycle' = fetch_resume_cycle
    BY DEF fetch_instruction, ReleaseStall
  <1>3. i \in Nat /\ d \in Nat /\ i <= IFETCH_SIZE /\ DOMAIN IFETCH_BUFFER = 1..i
        /\ DOMAIN DECODE_BUFFER = 1..d
    BY <1>1, BufferFacts
  <1>4. /\ n \in Nat /\ n <= i /\ d + n <= DECODE_SIZE
        /\ IFETCH_BUFFER' \in Seq(Fetching) /\ Len(IFETCH_BUFFER') = i - n
        /\ DOMAIN IFETCH_BUFFER' = 1..(i - n)
        /\ \A k \in 1..(i - n) : IFETCH_BUFFER'[k].resolves = IFETCH_BUFFER[n + k].resolves
        /\ DECODE_BUFFER' \in Seq(Decoding) /\ Len(DECODE_BUFFER') = d + n
        /\ DOMAIN DECODE_BUFFER' = 1..(d + n)
        /\ \A k \in 1..d : DECODE_BUFFER'[k] = DECODE_BUFFER[k]
        /\ \A k \in 1..n : DECODE_BUFFER'[d + k].resolves = IFETCH_BUFFER[k].resolves
    BY <1>1, FetchEffect
  <1> HIDE DEF n, i, d
  <1>5. TypeOK'
    <2>1. Len(IFETCH_BUFFER') <= IFETCH_SIZE /\ Len(DECODE_BUFFER') <= DECODE_SIZE
      BY <1>3, <1>4, Sizes
    <2>2. IBUF_occupancy' \in Nat
      <3>1. IBUF_occupancy \in Nat
        BY <1>1 DEF TypeOK
      <3> QED
        BY <1>1, <1>4, <3>1
    <2>3. fetch_stall' \in BOOLEAN /\ fetch_resume_cycle' \in Wait
      BY <1>1, <1>2 DEF TypeOK, Wait
    <2> QED
      BY <1>1, <1>4, <2>1, <2>2, <2>3 DEF TypeOK, Stage, Fetching, Decoding
  <1>6. Executing' = Executing
    BY <1>1 DEF Executing
  <1>7. \A k : k \in Waiting(IFETCH_BUFFER)' =>
                 n + k \in Waiting(IFETCH_BUFFER) /\ k \in Nat /\ k >= 1
    <2>1. \A k \in 1..(i - n) : n + k \in 1..i /\ k \in Nat /\ k >= 1
      BY <1>3, <1>4
    <2> QED
      BY <1>3, <1>4, <2>1 DEF Waiting
  <1>8. \A k \in Waiting(DECODE_BUFFER)' :
          \/ k \in Waiting(DECODE_BUFFER) /\ k <= d
          \/ k > d /\ k - d \in 1..n /\ k - d \in Waiting(IFETCH_BUFFER)
    <2> TAKE k \in Waiting(DECODE_BUFFER)'
    <2>1. k \in 1..(d + n) /\ DECODE_BUFFER'[k].resolves # "none"
      BY <1>4 DEF Waiting
    <2>2. CASE k <= d
      <3>1. k \in 1..d
        BY <1>3, <2>1, <2>2
      <3> QED
        BY <1>3, <1>4, <2>1, <2>2, <3>1 DEF Waiting
    <2>3. CASE ~(k <= d)
      <3>1. k > d /\ k - d \in 1..n /\ d + (k - d) = k /\ k - d \in 1..i
        BY <1>3, <1>4, <2>1, <2>3
      <3>2. IFETCH_BUFFER[k - d].resolves # "none"
        BY <1>4, <2>1, <3>1
      <3> QED
        BY <1>3, <3>1, <3>2 DEF Waiting
    <2> QED
      BY <2>2, <2>3
  <1>9. Unresolved' <=> Unresolved
    <2>1. \A k \in Waiting(DECODE_BUFFER) : k \in Waiting(DECODE_BUFFER)'
      <3>1. \A k \in 1..d : k \in 1..(d + n)
        BY <1>3, <1>4
      <3> QED
        BY <1>3, <1>4, <3>1 DEF Waiting
    <2>2. ASSUME NEW k \in Waiting(IFETCH_BUFFER)
          PROVE  Waiting(IFETCH_BUFFER)' # {} \/ Waiting(DECODE_BUFFER)' # {}
      <3>1. k \in 1..i /\ IFETCH_BUFFER[k].resolves # "none"
        BY <1>3, <2>2 DEF Waiting
      <3>2. CASE k <= n
        <4>1. k \in 1..n /\ d + k \in 1..(d + n)
          BY <1>3, <1>4, <3>1, <3>2
        <4>2. d + k \in Waiting(DECODE_BUFFER)'
          BY <1>4, <3>1, <4>1 DEF Waiting
        <4> QED
          BY <4>2
      <3>3. CASE ~(k <= n)
        <4>1. k - n \in 1..(i - n) /\ n + (k - n) = k
          BY <1>3, <1>4, <3>1, <3>3
        <4>2. k - n \in Waiting(IFETCH_BUFFER)'
          BY <1>4, <3>1, <4>1 DEF Waiting
        <4> QED
          BY <4>2
      <3> QED
        BY <3>2, <3>3
    <2>3. Unresolved' => Unresolved
      BY <1>6, <1>7, <1>8, UnresolvedIs, UnresolvedNext
    <2>4. Unresolved => Unresolved'
      BY <1>6, <2>1, <2>2, UnresolvedIs, UnresolvedNext
    <2> QED
      BY <2>3, <2>4
  <1>10. OnlyOne => OnlyOne'
    <2> SUFFICES ASSUME OnlyOne PROVE OnlyOne'
      OBVIOUS
    <2>1. \A a, b \in Waiting(IFETCH_BUFFER)' : a = b
      <3> SUFFICES ASSUME NEW a \in Waiting(IFETCH_BUFFER)', NEW b \in Waiting(IFETCH_BUFFER)'
                   PROVE  a = b
        OBVIOUS
      <3>1. n + a = n + b /\ a \in Nat /\ b \in Nat
        BY <1>7 DEF OnlyOne
      <3> QED
        BY <1>4, <3>1
    <2>2. \A a, b \in Waiting(DECODE_BUFFER)' : a = b
      <3> SUFFICES ASSUME NEW a \in Waiting(DECODE_BUFFER)', NEW b \in Waiting(DECODE_BUFFER)'
                   PROVE  a = b
        OBVIOUS
      <3>1. CASE Waiting(DECODE_BUFFER) # {}
        <4>1. a \in Waiting(DECODE_BUFFER) /\ b \in Waiting(DECODE_BUFFER)
          BY <1>8, <3>1 DEF OnlyOne
        <4> QED
          BY <4>1 DEF OnlyOne
      <3>2. CASE Waiting(DECODE_BUFFER) = {}
        <4>1. /\ a - d \in Waiting(IFETCH_BUFFER) /\ b - d \in Waiting(IFETCH_BUFFER)
              /\ a \in 1..(d + n) /\ b \in 1..(d + n)
          BY <1>4, <1>8, <3>2 DEF Waiting
        <4>2. a - d = b - d
          BY <4>1 DEF OnlyOne
        <4> QED
          BY <1>3, <1>4, <4>1, <4>2
      <3> QED
        BY <3>1, <3>2
    <2>3. Waiting(IFETCH_BUFFER)' = {} \/ Waiting(DECODE_BUFFER)' = {}
      <3> SUFFICES ASSUME NEW a \in Waiting(IFETCH_BUFFER)', NEW b \in Waiting(DECODE_BUFFER)'
                   PROVE FALSE
        OBVIOUS
      <3>1. n + a \in Waiting(IFETCH_BUFFER) /\ a \in Nat /\ a >= 1
        BY <1>7
      <3>2. b - d \in 1..n /\ b - d \in Waiting(IFETCH_BUFFER)
        BY <1>8, <3>1 DEF OnlyOne
      <3>3. n + a = b - d
        BY <3>1, <3>2 DEF OnlyOne
      <3> QED
        BY <1>4, <3>1, <3>2, <3>3
    <2>4. /\ Waiting(IFETCH_BUFFER)' = {} \/ Executing' = {}
          /\ Waiting(DECODE_BUFFER)' = {} \/ Executing' = {}
      <3>1. Waiting(IFETCH_BUFFER)' # {} => Waiting(IFETCH_BUFFER) # {}
        BY <1>7
      <3>2. Waiting(DECODE_BUFFER)' # {} => Waiting(DECODE_BUFFER) # {} \/ Waiting(IFETCH_BUFFER) # {}
        BY <1>8
      <3> QED
        BY <1>6, <3>1, <3>2 DEF OnlyOne
    <2> QED
      BY <1>6, <2>1, <2>2, <2>3, <2>4 DEF OnlyOne
  <1>11. RunsAheadWithinBuffer' /\ ReadsWithinBounds'
    <2>1. i <= IBUF_occupancy /\ IBUF_occupancy <= IFETCH_SIZE /\ IBUF_occupancy \in Nat
      BY <1>1 DEF FrontInv, RunsAheadWithinBuffer, TypeOK, i
    <2>2. i - n <= IBUF_occupancy' /\ IBUF_occupancy' <= IFETCH_SIZE
      BY <1>1, <1>3, <1>4, <2>1, Sizes
    <2> QED
      BY <1>1, <1>4, <2>2 DEF FrontInv, RunsAheadWithinBuffer, ReadsWithinBounds
  <1>12. StallHasEnd'
    BY <1>2, <1>9 DEF FrontInv, StallHasEnd, NONE
  <1>13. (~write_stalled => SingleStall)'
    <2> SUFFICES ASSUME ~write_stalled PROVE SingleStall'
      BY <1>1
    <2>1. SingleStall
      BY DEF FrontInv
    <2>2. OnlyOne' /\ stage' # "read"
      BY <1>1, <1>10, <2>1 DEF SingleStall
    <2>3. CASE fetch_stall' = fetch_stall /\ fetch_resume_cycle' = fetch_resume_cycle
      BY <1>9, <2>1, <2>2, <2>3 DEF SingleStall, NONE
    <2>4. CASE fetch_resume_cycle = 0 /\ fetch_resume_cycle' = NONE
      BY <1>9, <2>1, <2>2, <2>4 DEF SingleStall, NONE
    <2> QED
      BY <1>2, <2>3, <2>4
  <1> QED
    BY <1>5, <1>11, <1>12, <1>13 DEF FrontInv

\* of running ahead of a stalled fetch,
LEMMA PrefetchPreserves ==
    ASSUME FrontInv, NEW n \in 0..FETCH_WIDTH, spec_inst_prefetch(n)
    PROVE  FrontInv'
  <1>1. /\ UNCHANGED <<warmup_complete, IFETCH_BUFFER, DECODE_BUFFER, ROB, outstanding>>
        /\ UNCHANGED <<fetch_stall, fetch_resume_cycle, write_stalled, num_reads>>
        /\ stage = "front" /\ stage' = "tick" /\ TypeOK
        /\ IBUF_occupancy' = IBUF_occupancy + n /\ skip_next_cycle' \in BOOLEAN
    BY DEF spec_inst_prefetch, FrontRuns, bufferVars, stallVars, FrontInv
  <1>2. /\ n \in Nat /\ IBUF_occupancy \in Nat /\ Len(IFETCH_BUFFER) \in Nat
        /\ Len(IFETCH_BUFFER) <= IBUF_occupancy /\ IBUF_occupancy <= IFETCH_SIZE
        /\ IBUF_occupancy + n <= IFETCH_SIZE
    <2>1. n \in Nat /\ IBUF_occupancy \in Nat /\ Len(IFETCH_BUFFER) \in Nat
      BY <1>1, BufferFacts, Sizes DEF TypeOK
    <2>2. Len(IFETCH_BUFFER) <= IBUF_occupancy /\ IBUF_occupancy <= IFETCH_SIZE
      BY DEF FrontInv, RunsAheadWithinBuffer
    <2>3. IBUF_occupancy + n <= IFETCH_SIZE
      BY <2>1, <2>2 DEF spec_inst_prefetch, RunAhead
    <2> QED
      BY <2>1, <2>2, <2>3
  <1>3. TypeOK'
    BY <1>1, <1>2 DEF TypeOK, Stage
  <1>4. /\ Waiting(IFETCH_BUFFER)' = Waiting(IFETCH_BUFFER)
        /\ Waiting(DECODE_BUFFER)' = Waiting(DECODE_BUFFER) /\ Executing' = Executing
    BY <1>1 DEF Waiting, Executing
  <1>5. (OnlyOne' <=> OnlyOne) /\ (Unresolved' <=> Unresolved)
    BY <1>4, BranchesStay
  <1>6. RunsAheadWithinBuffer' /\ ReadsWithinBounds'
    <2>1. Len(IFETCH_BUFFER) <= IBUF_occupancy + n
      BY <1>2
    <2> QED
      BY <1>1, <1>2, <2>1 DEF RunsAheadWithinBuffer, ReadsWithinBounds
  <1>7. StallHasEnd'
    BY <1>1, <1>5 DEF FrontInv, StallHasEnd, NONE
  <1>8. (~write_stalled => SingleStall)'
    BY <1>1, <1>5 DEF FrontInv, SingleStall, NONE
  <1> QED
    BY <1>3, <1>6, <1>7, <1>8 DEF FrontInv

\* of the next cycle,
LEMMA CyclePreserves ==
    ASSUME FrontInv, CyclePasses, stage' \in {"retire", "tick"}
    PROVE  FrontInv'
  <1>1. /\ UNCHANGED <<IFETCH_BUFFER, ROB, IBUF_occupancy, outstanding, fetch_stall>>
        /\ UNCHANGED <<write_stalled, skip_next_cycle>>
        /\ stage = "tick" /\ num_reads' = 0 /\ TypeOK
        /\ fetch_resume_cycle' = Until(fetch_resume_cycle)
        /\ warmup_complete' \in {warmup_complete, TRUE}
    BY DEF CyclePasses, FrontInv
  <1>2. /\ DECODE_BUFFER' \in Seq(Decoding) /\ Len(DECODE_BUFFER') = Len(DECODE_BUFFER)
        /\ DOMAIN DECODE_BUFFER' = 1..Len(DECODE_BUFFER)
        /\ DOMAIN DECODE_BUFFER = 1..Len(DECODE_BUFFER)
        /\ \A k \in 1..Len(DECODE_BUFFER) :
             DECODE_BUFFER'[k].resolves = DECODE_BUFFER[k].resolves
    BY <1>1, CycleEffect, BufferFacts
  <1>3. fetch_resume_cycle' \in Wait /\ (fetch_resume_cycle' = NONE <=> fetch_resume_cycle = NONE)
    <2>1. fetch_resume_cycle \in Wait
      BY <1>1 DEF TypeOK
    <2> QED
      BY <1>1, <2>1 DEF Until, Wait, NONE
  <1>4. TypeOK'
    <2>1. warmup_complete' \in BOOLEAN
      BY <1>1 DEF TypeOK
    <2>2. num_reads' \in 0..FETCH_WIDTH
      BY <1>1, Sizes
    <2> QED
      BY <1>1, <1>2, <1>3, <2>1, <2>2 DEF TypeOK, Stage, Decoding
  <1>5. /\ Waiting(IFETCH_BUFFER)' = Waiting(IFETCH_BUFFER)
        /\ Waiting(DECODE_BUFFER)' = Waiting(DECODE_BUFFER) /\ Executing' = Executing
    BY <1>1, <1>2 DEF Waiting, Executing
  <1>6. (OnlyOne' <=> OnlyOne) /\ (Unresolved' <=> Unresolved)
    BY <1>5, BranchesStay
  <1>7. RunsAheadWithinBuffer' /\ ReadsWithinBounds'
    BY <1>1 DEF FrontInv, RunsAheadWithinBuffer, ReadsWithinBounds
  <1>8. StallHasEnd'
    BY <1>1, <1>3, <1>6 DEF FrontInv, StallHasEnd
  <1>9. (~write_stalled => SingleStall)'
    BY <1>1, <1>3, <1>6 DEF FrontInv, SingleStall
  <1> QED
    BY <1>4, <1>7, <1>8, <1>9 DEF FrontInv

\* and of an instruction that is read: where it goes,
LEMMA ReadKeeps ==
    ASSUME FrontInv, NEW line \in Line, NEW resolves \in Resolution, NEW stop,
           Read(line, resolves, stop)
    PROVE  /\ UNCHANGED <<warmup_complete, DECODE_BUFFER, ROB, outstanding>>
           /\ stage = "read" /\ stage' \in {"read", "tick"} /\ (stop => stage' = "tick")
           /\ fetch_stall' \in BOOLEAN /\ fetch_resume_cycle' \in Wait
              /\ skip_next_cycle' \in BOOLEAN /\ write_stalled' \in BOOLEAN => TypeOK'
           /\ RunsAheadWithinBuffer' /\ ReadsWithinBounds'
           /\ Waiting(IFETCH_BUFFER)' = IF resolves = "none" THEN Waiting(IFETCH_BUFFER)
                                        ELSE Waiting(IFETCH_BUFFER) \cup {Len(IFETCH_BUFFER) + 1}
           /\ Waiting(DECODE_BUFFER)' = Waiting(DECODE_BUFFER) /\ Executing' = Executing
  <1> DEFINE n == Len(IFETCH_BUFFER)
  <1>1. /\ UNCHANGED <<warmup_complete, DECODE_BUFFER, ROB, outstanding>>
        /\ stage = "read" /\ IBUF_occupancy' = Len(IFETCH_BUFFER') /\ num_reads' = num_reads + 1
        /\ stage' = IF stop \/ num_reads' >= FETCH_WIDTH \/ Len(IFETCH_BUFFER') = IFETCH_SIZE
                    THEN "tick" ELSE "read"
        /\ TypeOK
    BY DEF Read, FrontInv
  <1>2. n < IFETCH_SIZE /\ num_reads < FETCH_WIDTH /\ num_reads \in Nat
    BY <1>1 DEF FrontInv, ReadsWithinBounds, TypeOK
  <1>3. /\ n \in Nat /\ IFETCH_BUFFER' \in Seq(Fetching) /\ Len(IFETCH_BUFFER') = n + 1
        /\ DOMAIN IFETCH_BUFFER' = 1..(n + 1)
        /\ \A k \in 1..n : IFETCH_BUFFER'[k] = IFETCH_BUFFER[k]
        /\ IFETCH_BUFFER'[n + 1].resolves = resolves
    BY <1>1, ReadEffect
  <1>4. DOMAIN IFETCH_BUFFER = 1..n
    BY <1>1, BufferFacts
  <1> HIDE DEF n
  <1>5. n + 1 <= IFETCH_SIZE /\ num_reads + 1 \in 0..FETCH_WIDTH
    BY <1>2, <1>3, Sizes
  <1>6. stage' \in {"read", "tick"} /\ (stop => stage' = "tick")
        /\ (stage' = "read" => n + 1 # IFETCH_SIZE /\ ~(num_reads + 1 >= FETCH_WIDTH))
    BY <1>1, <1>3
  <1>7. ASSUME fetch_stall' \in BOOLEAN, fetch_resume_cycle' \in Wait,
               skip_next_cycle' \in BOOLEAN, write_stalled' \in BOOLEAN
        PROVE  TypeOK'
    <2>1. n + 1 \in Nat /\ stage' \in Stage
      BY <1>3, <1>6 DEF Stage
    <2> QED
      BY <1>1, <1>3, <1>5, <1>7, <2>1 DEF TypeOK, Fetching
  <1>8. RunsAheadWithinBuffer' /\ ReadsWithinBounds'
    <2>1. stage' = "read" => n + 1 < IFETCH_SIZE /\ num_reads + 1 < FETCH_WIDTH
      BY <1>2, <1>3, <1>5, <1>6, Sizes
    <2>2. n + 1 <= n + 1
      BY <1>3
    <2> QED
      BY <1>1, <1>3, <1>5, <1>6, <2>1, <2>2 DEF RunsAheadWithinBuffer, ReadsWithinBounds
  <1>9. Waiting(IFETCH_BUFFER)' = IF resolves = "none" THEN Waiting(IFETCH_BUFFER)
                                  ELSE Waiting(IFETCH_BUFFER) \cup {n + 1}
    <2>1. 1..(n + 1) = 1..n \cup {n + 1}
      BY <1>3
    <2> QED
      BY <1>3, <1>4, <2>1 DEF Waiting
  <1>10. Waiting(DECODE_BUFFER)' = Waiting(DECODE_BUFFER) /\ Executing' = Executing
    BY <1>1 DEF Waiting, Executing
  <1> QED
    BY <1>1, <1>6, <1>7, <1>8, <1>9, <1>10 DEF n

\* Reading an instruction that is no branch keeps the inductive invariant.
LEMMA ReadPreserves ==
    ASSUME FrontInv, NEW line \in Line, ReadOther(line)
    PROVE  FrontInv'
  <1>1. /\ Read(line, "none", FALSE) /\ TypeOK
        /\ UNCHANGED <<fetch_stall, fetch_resume_cycle, write_stalled, skip_next_cycle>>
    BY DEF ReadOther, stallVars, FrontInv
  <1>2. "none" \in Resolution
    BY DEF Resolution
  <1>3. /\ stage = "read" /\ TypeOK' /\ RunsAheadWithinBuffer' /\ ReadsWithinBounds'
        /\ Waiting(IFETCH_BUFFER)' = Waiting(IFETCH_BUFFER)
        /\ Waiting(DECODE_BUFFER)' = Waiting(DECODE_BUFFER) /\ Executing' = Executing
    BY <1>1, <1>2, ReadKeeps DEF TypeOK
  <1>4. (OnlyOne' <=> OnlyOne) /\ (Unresolved' <=> Unresolved)
    BY <1>3, BranchesStay
  <1>5. StallHasEnd'
    BY <1>1, <1>4 DEF FrontInv, StallHasEnd, NONE
  <1>6. (~write_stalled => SingleStall)'
    BY <1>1, <1>3, <1>4 DEF FrontInv, SingleStall, NONE
  <1> QED
    BY <1>3, <1>5, <1>6 DEF FrontInv

\* and what a branch does to the fetch.
LEMMA BranchPreserves ==
    ASSUME FrontInv, NEW line \in Line, NEW b \in Branch, ReadBranch(line, b)
    PROVE  FrontInv'
  <1> DEFINE stop == Suspect(b) \/ (b.prediction /\ ~Mispredicted(b))
  <1>1. /\ Read(line, Resolves(b), stop) /\ TypeOK
        /\ fetch_stall' = (fetch_stall \/ Suspect(b) \/ WriteStall(b))
        /\ fetch_resume_cycle' = IF WriteStall(b) THEN b.btb_write_latency ELSE fetch_resume_cycle
        /\ write_stalled' = (write_stalled \/ WriteStall(b))
        /\ skip_next_cycle' = (skip_next_cycle \/ (b.prediction /\ b.sequential))
    BY DEF ReadBranch, FrontInv
  <1>2. Resolves(b) \in Resolution /\ (Resolves(b) = "none" <=> ~Suspect(b))
    BY DEF Resolves, Resolution
  <1>3. WriteStall(b) => b.btb_write_latency \in Nat /\ b.btb_write_latency # NONE
    <2>1. b.btb_write_latency \in WriteLatencies
      BY DEF Branch
    <2>2. b.btb_write_latency \in Nat
      BY <2>1, Sizes
    <2> QED
      BY <2>2 DEF WriteStall, NONE
  <1>4. fetch_resume_cycle' \in Wait
    BY <1>1, <1>3 DEF TypeOK, Wait
  <1> HIDE DEF stop
  <1>5. /\ stage = "read" /\ stage' \in {"read", "tick"} /\ (stop => stage' = "tick")
        /\ TypeOK' /\ RunsAheadWithinBuffer' /\ ReadsWithinBounds'
        /\ Waiting(IFETCH_BUFFER)' = IF Resolves(b) = "none" THEN Waiting(IFETCH_BUFFER)
                                     ELSE Waiting(IFETCH_BUFFER) \cup {Len(IFETCH_BUFFER) + 1}
        /\ Waiting(DECODE_BUFFER)' = Waiting(DECODE_BUFFER) /\ Executing' = Executing
    <2>1. fetch_stall' \in BOOLEAN /\ skip_next_cycle' \in BOOLEAN /\ write_stalled' \in BOOLEAN
      BY <1>1, Zenon
    <2> QED
      BY <1>1, <1>2, <1>4, <2>1, ReadKeeps
  <1>6. Unresolved' <=> Unresolved \/ Suspect(b)
    BY <1>2, <1>5, UnresolvedIs, UnresolvedNext
  <1>7. StallHasEnd'
    BY <1>1, <1>3, <1>6 DEF FrontInv, StallHasEnd
  <1>8. (~write_stalled => SingleStall)'
    <2> SUFFICES ASSUME ~write_stalled' PROVE SingleStall'
      OBVIOUS
    <2>1. ~write_stalled /\ ~WriteStall(b)
      BY <1>1
    <2>2. SingleStall /\ ~fetch_stall /\ ~Unresolved /\ fetch_resume_cycle = NONE
      BY <1>5, <2>1 DEF FrontInv, SingleStall
    <2>3. /\ (fetch_stall' <=> Suspect(b)) /\ fetch_resume_cycle' = NONE
          /\ (Unresolved' <=> Suspect(b))
      BY <1>1, <1>6, <2>1, <2>2
    <2>4. stage' = "read" => ~fetch_stall'
      BY <1>5, <2>3 DEF stop
    <2>5. OnlyOne'
      BY <1>5, <2>2, UnresolvedIs DEF OnlyOne
    <2> QED
      BY <2>3, <2>4, <2>5 DEF SingleStall
  <1> QED
    BY <1>5, <1>7, <1>8 DEF FrontInv

\* Every step, and every stutter, keeps the invariant.
LEMMA NextPreserves ==
    ASSUME FrontInv, [Next]_vars
    PROVE  FrontInv'
  <1>0. TypeOK
    BY DEF FrontInv
  <1>1. CASE UNCHANGED vars
    <2>1. /\ UNCHANGED <<warmup_complete, bufferVars, IBUF_occupancy, outstanding>>
          /\ UNCHANGED <<fetch_stall, fetch_resume_cycle, write_stalled, num_reads>>
          /\ UNCHANGED stage /\ skip_next_cycle' = skip_next_cycle
      BY <1>1 DEF vars, stallVars, readVars
    <2> QED
      BY <1>0, <2>1, StagePreserves DEF TypeOK
  <1>2. ASSUME NEW n \in 0..RETIRE_WIDTH, retire_rob(n) PROVE FrontInv'
    BY <1>2, RetirePreserves
  <1>3. ASSUME NEW line \in Line, complete_instr_fetch(line) PROVE FrontInv'
    BY <1>3, AnswerPreserves
  <1>4. ASSUME NEW line \in Line, ReadOther(line) PROVE FrontInv'
    BY <1>4, ReadPreserves
  <1>5. ASSUME NEW k \in 1..ROB_SIZE, complete_execution(k) PROVE FrontInv'
    BY <1>5, ExecutionPreserves
  <1>6. CASE EndExecute
    <2>1. /\ UNCHANGED <<warmup_complete, bufferVars, IBUF_occupancy, outstanding>>
          /\ UNCHANGED <<fetch_stall, fetch_resume_cycle, write_stalled, num_reads>>
          /\ skip_next_cycle' = skip_next_cycle
      BY <1>6 DEF EndExecute, stallVars, readVars
    <2> QED
      BY <1>0, <1>6, <2>1, StagePreserves DEF TypeOK
  <1>7. CASE decode_and_dispatch
    BY <1>7, DecodePreserves
  <1>8. ASSUME NEW accepted \in SUBSET Line, fetch_instruction(accepted) PROVE FrontInv'
    BY <1>8, FetchPreserves
  <1>9. CASE FrontIdle
    <2>1. /\ UNCHANGED <<warmup_complete, bufferVars, IBUF_occupancy, outstanding>>
          /\ UNCHANGED <<fetch_stall, fetch_resume_cycle, write_stalled, num_reads>>
      BY <1>9 DEF FrontIdle, stallVars
    <2>2. skip_next_cycle' \in BOOLEAN
      BY <1>9, Zenon DEF FrontIdle
    <2> QED
      BY <1>9, <2>1, <2>2, StagePreserves
  <1>10. CASE StartReading
    <2>1. /\ UNCHANGED <<warmup_complete, bufferVars, IBUF_occupancy, outstanding>>
          /\ UNCHANGED <<fetch_stall, fetch_resume_cycle, write_stalled, num_reads>>
          /\ skip_next_cycle' = skip_next_cycle
      BY <1>10 DEF StartReading, stallVars, readVars
    <2> QED
      BY <1>0, <1>10, <2>1, StagePreserves DEF TypeOK
  <1>11. ASSUME NEW n \in 0..FETCH_WIDTH, spec_inst_prefetch(n) PROVE FrontInv'
    BY <1>11, PrefetchPreserves
  <1>12. ASSUME NEW line \in Line, NEW b \in Branch, ReadBranch(line, b) PROVE FrontInv'
    BY <1>12, BranchPreserves
  <1>13. CASE NextCycle \/ StalledCycle
    <2>1. CyclePasses /\ stage' \in {"retire", "tick"}
      BY <1>13 DEF NextCycle, StalledCycle, CyclePasses
    <2> QED
      BY <2>1, CyclePreserves
  <1> QED
    BY <1>1, <1>2, <1>3, <1>4, <1>5, <1>6, <1>7, <1>8, <1>9, <1>10, <1>11, <1>12, <1>13 DEF Next

-----------------------------------------------------------------------------
(* What holds in every state.                                              *)

\* FrontInv holds in every state of the front end.
THEOREM FrontInvariant == Spec => []FrontInv
  <1>1. Init => FrontInv
    BY InitInv
  <1>2. FrontInv /\ [Next]_vars => FrontInv'
    BY NextPreserves
  <1> QED
    BY <1>1, <1>2, PTL DEF Spec

\* The buffers of the front end stay within their sizes, and what they hold
\* has the shape of an ooo_model_instr.
THEOREM FrontTypeCorrect == Spec => []TypeOK
  <1>1. FrontInv => TypeOK
    BY DEF FrontInv
  <1> QED
    BY <1>1, FrontInvariant, PTL

\* A stalled fetch has its resume cycle set or a branch on its way that will
\* set it: fetch_stall is never left behind.
THEOREM StalledFetchHasEnd == Spec => []StallHasEnd
  <1>1. FrontInv => StallHasEnd
    BY DEF FrontInv
  <1> QED
    BY <1>1, FrontInvariant, PTL

\* As long as no BTB write has stalled the fetch, it stays stalled until the
\* mispredicted branch has been resolved.
THEOREM ResumesOnceResolved == Spec => []ResumesAfterResolving
  <1>1. FrontInv => ResumesAfterResolving
    BY DEF FrontInv, SingleStall, ResumesAfterResolving
  <1> QED
    BY <1>1, FrontInvariant, PTL

\* spec_inst_prefetch and read_from_trace keep IBUF_occupancy between what
\* the buffer holds and its size.
THEOREM PrefetchWithinBuffer == Spec => []RunsAheadWithinBuffer
  <1>1. FrontInv => RunsAheadWithinBuffer
    BY DEF FrontInv
  <1> QED
    BY <1>1, FrontInvariant, PTL
=============================================================================
