-------------------------------- MODULE Cache --------------------------------
(***************************************************************************)
(* The caches of one core (src/cache.cc, block.cc, base_replacement.cc):   *)
(* the first-level instruction and data caches over the second level.      *)
(* Each has a set-associative array, a read, a write and a prefetch queue  *)
(* and a table of misses in flight (MSHR).  A handler takes the head of a  *)
(* queue; a miss enters the MSHR and goes on to the level below, whose     *)
(* answer (return_data) makes the entry ready to be filled.  A packet that *)
(* is copied down keeps its fill level and the flags fill_l1i and          *)
(* fill_l1d, which say to whom the second level answers.                   *)
(*                                                                         *)
(* The core (fetches, loads, stores that retire), the prefetchers and the  *)
(* last-level cache are the environment.  Latencies are left out: a        *)
(* handler may run in any later cycle, and any ready miss may be filled.   *)
(* unwritten is history, which no action reads: the stores to lines that   *)
(* have not been written below L2C since, each by its line and by whether  *)
(* it joined the miss of a load.                                           *)
(***************************************************************************)
EXTENDS Integers, FiniteSets, SequencesExt

CONSTANTS
    FetchAddr, LoadAddr, StoreAddr,     \* addresses the core uses
    Line, LineOf,           \* blocks, and the one that holds an address
    SetIndex, SetOf,        \* SetOf[c][line]: get_set
    NUM_WAY, RQ_SIZE, WQ_SIZE, PQ_SIZE, MSHR_SIZE,      \* per cache
    Fetch, Load,            \* entries of the fetch buffer, of the load queue
    PrefetchOf,             \* PrefetchOf[c]: <<address, fill level>> the
                            \* prefetcher of c may ask for
    SwappedPage,            \* pages, as sets of lines, va_to_pa may evict
    NONE,
    MaxInFlight             \* bound: entries of queues and MSHRs beyond which
                            \* nothing new is asked for

L1I == "L1I"
L1D == "L1D"
L2C == "L2C"
CacheName == {L1I, L1D, L2C}
L1 == {L1I, L1D}

FILL_L1 == 1
FILL_L2 == 2
FILL_LLC == 4
fill_level == [c \in CacheName |-> IF c = L2C THEN FILL_L2 ELSE FILL_L1]

Addr == FetchAddr \cup LoadAddr \cup StoreAddr
Requester == Fetch \cup Load
CacheOf(r) == IF r \in Fetch THEN L1I ELSE L1D
Way(c) == 0..(NUM_WAY[c] - 1)

ASSUME CacheAssumption ==
    /\ LineOf \in [Addr -> Line]
    /\ \A c \in CacheName : SetOf[c] \in [Line -> SetIndex]
    /\ \A c \in CacheName : NUM_WAY[c] \in Nat \ {0} /\ MSHR_SIZE[c] \in Nat \ {0}
    /\ \A c \in CacheName : RQ_SIZE[c] \in Nat /\ WQ_SIZE[c] \in Nat /\ PQ_SIZE[c] \in Nat
    /\ RQ_SIZE[L2C] >= MSHR_SIZE[L1I] + MSHR_SIZE[L1D]
    /\ \A c \in CacheName : PrefetchOf[c] \subseteq Addr \X {FILL_L1, FILL_L2, FILL_LLC}
    /\ \A pf \in PrefetchOf[L1I] : pf[2] = FILL_L1
    /\ \A pf \in PrefetchOf[L2C] : pf[2] # FILL_L1
    /\ Fetch \cap Load = {}
    /\ IsFiniteSet(Line)
    /\ NONE \notin Addr \cup Line

VARIABLES
    block,      \* block[c][set][way]
    RQ, WQ, PQ, \* the queues of each cache
    MSHR,       \* MSHR[c][line]: the miss in flight, or NONE
    asked,      \* asked[r]: the address a fetch or a load waits for, or NONE
    unwritten   \* history

queues == <<RQ, WQ, PQ>>
vars == <<block, queues, MSHR, asked, unwritten>>

Type == {"LOAD", "RFO", "PREFETCH", "WRITEBACK"}

\* who: the requesters the answer completes (rob_index_depend_on_me and
\* lq_index_depend_on_me, with the packet's own).
Packet == [addr : Addr, type : Type, fill_level : {FILL_L1, FILL_L2, FILL_LLC},
           fill_l1i : BOOLEAN, fill_l1d : BOOLEAN, who : SUBSET Requester]
Miss == [addr : Addr, type : Type, fill_level : {FILL_L1, FILL_L2, FILL_LLC},
         fill_l1i : BOOLEAN, fill_l1d : BOOLEAN, who : SUBSET Requester,
         returned : BOOLEAN]
ASSUME NoMiss == NONE \notin Miss

\* A store that the caches have taken up.
StoreTaken == [line : Line, joined : BOOLEAN]

Block == [valid : BOOLEAN, line : Line \cup {NONE}, dirty : BOOLEAN, lru : Nat]

TypeOK ==
    /\ \A c \in CacheName, s \in SetIndex :
         /\ block[c][s] \in [Way(c) -> Block]
         /\ {block[c][s][w].lru : w \in Way(c)} = Way(c)
    /\ \A c \in CacheName :
         /\ RQ[c] \in Seq(Packet) /\ Len(RQ[c]) <= RQ_SIZE[c]
         /\ WQ[c] \in Seq(Packet) /\ Len(WQ[c]) <= WQ_SIZE[c]
         /\ PQ[c] \in Seq(Packet) /\ Len(PQ[c]) <= PQ_SIZE[c]
         /\ MSHR[c] \in [Line -> Miss \cup {NONE}]
         /\ Cardinality({l \in Line : MSHR[c][l] # NONE}) <= MSHR_SIZE[c]
    /\ asked \in [Requester -> Addr \cup {NONE}]
    /\ unwritten \subseteq StoreTaken

Init ==
    /\ block = [c \in CacheName |-> [s \in SetIndex |-> [w \in Way(c) |->
                 [valid |-> FALSE, line |-> NONE, dirty |-> FALSE, lru |-> w]]]]
    /\ RQ = [c \in CacheName |-> <<>>]
    /\ WQ = [c \in CacheName |-> <<>>]
    /\ PQ = [c \in CacheName |-> <<>>]
    /\ MSHR = [c \in CacheName |-> [l \in Line |-> NONE]]
    /\ asked = [r \in Requester |-> NONE]
    /\ unwritten = {}

-----------------------------------------------------------------------------
(* The array of a cache and its replacement.                               *)

LineIn(p) == LineOf[p.addr]
ThisSet(c, line) == block[c][SetOf[c][line]]

\* The ways that hold line; the first of them is the one check_hit returns.
Ways(c, line) ==
    {w \in Way(c) : ThisSet(c, line)[w].valid /\ ThisSet(c, line)[w].line = line}
Hit(c, line) == Ways(c, line) # {}
FirstOf(ways) == CHOOSE w \in ways : \A v \in ways : w <= v
check_hit(c, line) == FirstOf(Ways(c, line))

\* An invalid way if there is one, else the least recently used one.
lru_victim(c, line) ==
    LET set     == ThisSet(c, line)
        invalid == {w \in Way(c) : ~set[w].valid}
    IN  IF invalid # {} THEN FirstOf(invalid)
        ELSE CHOOSE w \in Way(c) : set[w].lru = NUM_WAY[c] - 1

Promote(set, way) ==
    [w \in DOMAIN set |->
       [set[w] EXCEPT !.lru = IF w = way THEN 0
                              ELSE IF set[w].lru < set[way].lru THEN @ + 1 ELSE @]]

\* Mutation: ways that are older than the one promoted age as well.
PromoteAll(set, way) ==
    [w \in DOMAIN set |-> [set[w] EXCEPT !.lru = IF w = way THEN 0 ELSE @ + 1]]

lru_update(set, way) == Promote(set, way)

\* A hit of a writeback leaves the replacement state alone.
update_replacement_state(set, way, type) ==
    IF type = "WRITEBACK" THEN set ELSE lru_update(set, way)

\* The set of c after line has taken the place of the victim.
fill_cache(c, line, dirty) ==
    LET way == lru_victim(c, line)
    IN  [lru_update(ThisSet(c, line), way) EXCEPT
           ![way].valid = TRUE, ![way].line = line, ![way].dirty = dirty]

-----------------------------------------------------------------------------
(* The queues and the table of misses.                                     *)

\* The write queue of L1D holds stores by address, the others lines.
SamePlace(c, p, q) == IF c = L1D THEN p.addr = q.addr ELSE LineIn(p) = LineIn(q)

\* What a request finds in the write queue of c is answered at once.
Forwards(c, p) == \E q \in Range(WQ[c]) : SamePlace(c, p, q)

\* Mutation: who waits for p is forgotten.
MergeFlagsOnly(q, p) ==
    [q EXCEPT !.fill_l1i = @ \/ p.fill_l1i, !.fill_l1d = @ \/ p.fill_l1d]

\* p joins the request q for the same line.
MergeFlags(q, p) ==
    [q EXCEPT !.who = @ \cup p.who,
              !.fill_l1i = @ \/ p.fill_l1i, !.fill_l1d = @ \/ p.fill_l1d]
MergeLevel(q, p) ==
    [MergeFlags(q, p) EXCEPT
       !.fill_level = IF p.fill_level < @ THEN p.fill_level ELSE @]

InQueue(queue, p) == \E q \in Range(queue) : LineIn(q) = LineIn(p)
Room(c, queue, size) == Len(queue[c]) < size[c]

\* Mutation: a read is not compared with the write queue.
add_rqOnly(c, p) ==
    IF InQueue(RQ[c], p)
    THEN [i \in DOMAIN RQ[c] |-> IF LineIn(RQ[c][i]) = LineIn(p)
                                 THEN MergeFlags(RQ[c][i], p) ELSE RQ[c][i]]
    ELSE IF Room(c, RQ, RQ_SIZE) THEN Append(RQ[c], p) ELSE RQ[c]

\* The read queue of c after add_rq; a full queue drops the request.
add_rq(c, p) ==
    IF Forwards(c, p) THEN RQ[c]
    ELSE IF InQueue(RQ[c], p)
         THEN [i \in DOMAIN RQ[c] |-> IF LineIn(RQ[c][i]) = LineIn(p)
                                      THEN MergeFlags(RQ[c][i], p) ELSE RQ[c][i]]
    ELSE IF Room(c, RQ, RQ_SIZE) THEN Append(RQ[c], p) ELSE RQ[c]

\* The prefetch queue of c after add_pq.
add_pq(c, p) ==
    IF Forwards(c, p) THEN PQ[c]
    ELSE IF InQueue(PQ[c], p)
         THEN [i \in DOMAIN PQ[c] |-> IF LineIn(PQ[c][i]) = LineIn(p)
                                      THEN MergeLevel(PQ[c][i], p) ELSE PQ[c][i]]
    ELSE IF Room(c, PQ, PQ_SIZE) THEN Append(PQ[c], p) ELSE PQ[c]

\* The write queue of c after add_wq.
add_wq(c, p) == IF Forwards(c, p) THEN WQ[c] ELSE Append(WQ[c], p)

\* MSHR tables m after return_data to c; without an entry the program stops.
return_data(m, c, line) ==
    IF m[c][line] = NONE THEN m ELSE [m EXCEPT ![c][line].returned = TRUE]

\* Mutation: a prefetch is not passed on.
DeliverDemand(m, c, p) ==
    IF c = L2C /\ p.fill_l1d /\ p.type # "PREFETCH"
    THEN return_data(m, L1D, LineIn(p)) ELSE m

\* m after c has passed p on to the caches its flags name.
Deliver(m, c, p) ==
    LET toL1I == IF p.fill_l1i THEN return_data(m, L1I, LineIn(p)) ELSE m
    IN  IF c # L2C \/ p.fill_level >= fill_level[c] THEN m
        ELSE IF p.fill_l1d THEN return_data(toL1I, L1D, LineIn(p)) ELSE toL1I

MSHRFull(c) == Cardinality({l \in Line : MSHR[c][l] # NONE}) >= MSHR_SIZE[c]
NewMiss(c, p) == MSHR[c][LineIn(p)] = NONE /\ ~MSHRFull(c)

AsMiss(p, returned) ==
    [addr |-> p.addr, type |-> p.type, fill_level |-> p.fill_level,
     fill_l1i |-> p.fill_l1i, fill_l1d |-> p.fill_l1d, who |-> p.who,
     returned |-> returned]

add_mshr(c, p) == [MSHR EXCEPT ![c][LineIn(p)] = AsMiss(p, FALSE)]

\* Mutation: the answer that has come for the prefetch is forgotten.
MergeMissAfresh(miss, p) ==
    IF miss.type = "PREFETCH" THEN AsMiss(p, FALSE) ELSE MergeLevel(miss, p)

\* A demand p meets the miss of its line in flight: the miss takes over its
\* level, flags and requesters, and is replaced by p if it was a prefetch.
MergeMiss(miss, p) ==
    IF miss.type = "PREFETCH" THEN AsMiss(p, miss.returned) ELSE MergeLevel(miss, p)

JoinMiss(c, p) == [MSHR EXCEPT ![c][LineIn(p)] = MergeMiss(@, p)]

\* What the level below is sent of a packet: requesters stay behind.
Below(p) == [p EXCEPT !.who = {}]

\* asked after p has reached PROCESSED.
Complete(p) == [r \in Requester |-> IF r \in p.who THEN NONE ELSE asked[r]]

-----------------------------------------------------------------------------
(* Write-backs.                                                            *)

writeback_packet(line) ==
    [addr |-> CHOOSE a \in Addr : LineOf[a] = line, type |-> "WRITEBACK",
     fill_level |-> FILL_L2, fill_l1i |-> FALSE, fill_l1d |-> FALSE, who |-> {}]

Victim(c, line) == ThisSet(c, line)[lru_victim(c, line)]

\* A dirty victim needs room in the write queue below (that of the
\* last-level cache has room sooner or later).
CanEvict(c, line) ==
    Victim(c, line).dirty /\ c \in L1 => Room(L2C, WQ, WQ_SIZE)

\* The line is dirty somewhere above the last-level cache, or will be once
\* the miss of a store is filled.
DirtyIn(c, line) ==
    \E s \in SetIndex, w \in Way(c) :
       block[c][s][w].valid /\ block[c][s][w].dirty /\ block[c][s][w].line = line
HeldDirty(line) ==
    \/ DirtyIn(L1D, line) \/ DirtyIn(L2C, line)
    \/ MSHR[L1D][line] # NONE /\ MSHR[L1D][line].type = "RFO"
    \/ \E p \in Range(WQ[L2C]) : LineIn(p) = line

\* What a victim of L2C that is dirty leaves unwritten.
WrittenBelow(c, victim) ==
    unwritten' = IF c = L2C /\ victim.dirty
                 THEN {s \in unwritten : s.line = victim.line => HeldDirty(s.line)'}
                 ELSE unwritten

\* The history after one more store to line.
Taken(line, joined) == unwritten \cup {[line |-> line, joined |-> joined]}

-----------------------------------------------------------------------------
(* handle_fill: a miss whose answer has come takes the place of a victim.  *)

\* RFO marks the line dirty; a store that joined the miss of a load does not.
DirtyFill(c, miss) == c = L1D /\ miss.type = "RFO"

\* Mutation: the victim is overwritten without regard to the queue below.
FillOverVictim(c, line) ==
    LET miss == MSHR[c][line]
    IN  /\ miss # NONE
        /\ miss.returned
        /\ block' = [block EXCEPT ![c][SetOf[c][line]] =
                       fill_cache(c, line, DirtyFill(c, miss))]
        /\ MSHR' = [Deliver(MSHR, c, miss) EXCEPT ![c][line] = NONE]
        /\ asked' = Complete(miss)
        /\ UNCHANGED <<queues, unwritten>>

handle_fill(c, line) ==
    LET miss   == MSHR[c][line]
        victim == Victim(c, line)
    IN  /\ miss # NONE
        /\ miss.returned
        /\ CanEvict(c, line)
        /\ WQ' = IF victim.dirty /\ c \in L1
                 THEN [WQ EXCEPT ![L2C] = add_wq(L2C, writeback_packet(victim.line))]
                 ELSE WQ
        /\ block' = [block EXCEPT ![c][SetOf[c][line]] =
                       fill_cache(c, line, DirtyFill(c, miss))]
        /\ MSHR' = [Deliver(MSHR, c, miss) EXCEPT ![c][line] = NONE]
        /\ asked' = Complete(miss)
        /\ UNCHANGED <<RQ, PQ>>
        /\ WrittenBelow(c, victim)

-----------------------------------------------------------------------------
(* handle_writeback: the head of the write queue.                          *)

WritebackHit(c) ==
    LET p    == Head(WQ[c])
        line == LineIn(p)
        way  == check_hit(c, line)
    IN  /\ Hit(c, line)
        /\ block' = [block EXCEPT ![c][SetOf[c][line]] =
                       [update_replacement_state(@, way, p.type) EXCEPT ![way].dirty = TRUE]]
        /\ WQ' = [WQ EXCEPT ![c] = Tail(@)]
        /\ unwritten' = Taken(line, FALSE)
        /\ UNCHANGED <<RQ, PQ, MSHR, asked>>

\* A store that misses in L1D asks L2C for the line, as a read.
RFOMiss(c) ==
    LET p == Head(WQ[c])
    IN  /\ c = L1D
        /\ ~Hit(c, LineIn(p))
        /\ NewMiss(c, p)
        /\ WQ' = [WQ EXCEPT ![c] = Tail(@)]
        /\ RQ' = [RQ EXCEPT ![L2C] = add_rq(L2C, Below(p))]
        /\ MSHR' = IF Forwards(L2C, p) THEN Deliver(add_mshr(c, p), L2C, p)
                                       ELSE add_mshr(c, p)
        /\ unwritten' = Taken(LineIn(p), FALSE)
        /\ UNCHANGED <<block, PQ, asked>>

\* A store whose line is on its way joins the miss, which takes over that it
\* is a store only if it was a prefetch: that of a load stays one.
RFOMerged(c) ==
    LET p    == Head(WQ[c])
        miss == MSHR[c][LineIn(p)]
    IN  /\ c = L1D
        /\ ~Hit(c, LineIn(p))
        /\ miss # NONE
        /\ WQ' = [WQ EXCEPT ![c] = Tail(@)]
        /\ MSHR' = JoinMiss(c, p)
        /\ unwritten' = Taken(LineIn(p), miss.type = "LOAD")
        /\ UNCHANGED <<block, RQ, PQ, asked>>

\* The other caches fill the line that is written back to them.
WritebackFill(c) ==
    LET line   == LineIn(Head(WQ[c]))
        victim == Victim(c, line)
    IN  /\ c # L1D
        /\ ~Hit(c, line)
        /\ CanEvict(c, line)
        /\ block' = [block EXCEPT ![c][SetOf[c][line]] = fill_cache(c, line, TRUE)]
        /\ WQ' = [WQ EXCEPT ![c] = Tail(@)]
        /\ UNCHANGED <<RQ, PQ, MSHR, asked>>
        /\ WrittenBelow(c, victim)

handle_writeback(c) ==
    /\ WQ[c] # <<>>
    /\ WritebackHit(c) \/ RFOMiss(c) \/ RFOMerged(c) \/ WritebackFill(c)

-----------------------------------------------------------------------------
(* handle_read: the head of the read queue.                                *)

ReadHit(c) ==
    LET p    == Head(RQ[c])
        line == LineIn(p)
    IN  /\ Hit(c, line)
        /\ block' = [block EXCEPT ![c][SetOf[c][line]] =
                       update_replacement_state(@, check_hit(c, line), p.type)]
        /\ asked' = Complete(p)
        /\ MSHR' = Deliver(MSHR, c, p)
        /\ RQ' = [RQ EXCEPT ![c] = Tail(@)]
        /\ UNCHANGED <<WQ, PQ, unwritten>>

ReadMiss(c) ==
    LET p == Head(RQ[c])
    IN  /\ ~Hit(c, LineIn(p))
        /\ NewMiss(c, p)
        /\ IF c \in L1
           THEN /\ RQ' = [RQ EXCEPT ![c] = Tail(@), ![L2C] = add_rq(L2C, Below(p))]
                /\ MSHR' = IF Forwards(L2C, p) THEN Deliver(add_mshr(c, p), L2C, p)
                                               ELSE add_mshr(c, p)
           ELSE /\ RQ' = [RQ EXCEPT ![c] = Tail(@)]
                /\ MSHR' = add_mshr(c, p)
        /\ UNCHANGED <<block, WQ, PQ, asked, unwritten>>

ReadMerged(c) ==
    LET p == Head(RQ[c])
    IN  /\ ~Hit(c, LineIn(p))
        /\ MSHR[c][LineIn(p)] # NONE
        /\ MSHR' = JoinMiss(c, p)
        /\ RQ' = [RQ EXCEPT ![c] = Tail(@)]
        /\ UNCHANGED <<block, WQ, PQ, asked, unwritten>>

handle_read(c) ==
    /\ RQ[c] # <<>>
    /\ ReadHit(c) \/ ReadMiss(c) \/ ReadMerged(c)

-----------------------------------------------------------------------------
(* handle_prefetch: the head of the prefetch queue.                        *)

PrefetchHit(c) ==
    LET p    == Head(PQ[c])
        line == LineIn(p)
    IN  /\ Hit(c, line)
        /\ block' = [block EXCEPT ![c][SetOf[c][line]] =
                       update_replacement_state(@, check_hit(c, line), p.type)]
        /\ MSHR' = Deliver(MSHR, c, p)
        /\ PQ' = [PQ EXCEPT ![c] = Tail(@)]
        /\ UNCHANGED <<RQ, WQ, asked, unwritten>>

\* A prefetch that is not meant for c itself passes through it.
PrefetchMiss(c) ==
    LET p == Head(PQ[c])
        m == IF p.fill_level <= fill_level[c] THEN add_mshr(c, p) ELSE MSHR
    IN  /\ ~Hit(c, LineIn(p))
        /\ NewMiss(c, p)
        /\ IF c \in L1
           THEN /\ Room(L2C, PQ, PQ_SIZE)
                /\ PQ' = [PQ EXCEPT ![c] = Tail(@), ![L2C] = add_pq(L2C, p)]
                /\ MSHR' = IF Forwards(L2C, p) THEN Deliver(m, L2C, p) ELSE m
           ELSE /\ PQ' = [PQ EXCEPT ![c] = Tail(@)]
                /\ MSHR' = m
        /\ UNCHANGED <<block, RQ, WQ, asked, unwritten>>

PrefetchMerged(c) ==
    LET p == Head(PQ[c])
    IN  /\ ~Hit(c, LineIn(p))
        /\ MSHR[c][LineIn(p)] # NONE
        /\ MSHR' = [MSHR EXCEPT ![c][LineIn(p)] = MergeLevel(@, p)]
        /\ PQ' = [PQ EXCEPT ![c] = Tail(@)]
        /\ UNCHANGED <<block, RQ, WQ, asked, unwritten>>

handle_prefetch(c) ==
    /\ PQ[c] # <<>>
    /\ PrefetchHit(c) \/ PrefetchMiss(c) \/ PrefetchMerged(c)

-----------------------------------------------------------------------------
(* The environment.                                                        *)

InFlightIn(c) == Len(RQ[c]) + Len(WQ[c]) + Len(PQ[c])
                 + Cardinality({l \in Line : MSHR[c][l] # NONE})
InFlight == InFlightIn(L1I) + InFlightIn(L1D) + InFlightIn(L2C)

\* fetch_instruction or execute_load asks for an address; a full read queue
\* makes it try again later.
Ask(r, addr) ==
    LET c == CacheOf(r)
        p == [addr |-> addr, type |-> "LOAD", fill_level |-> FILL_L1,
              fill_l1i |-> c = L1I, fill_l1d |-> c = L1D, who |-> {r}]
    IN  /\ InFlight < MaxInFlight
        /\ asked[r] = NONE
        /\ ~Forwards(c, p)
        /\ InQueue(RQ[c], p) \/ Room(c, RQ, RQ_SIZE)
        /\ RQ' = [RQ EXCEPT ![c] = add_rq(c, p)]
        /\ asked' = [asked EXCEPT ![r] = addr]
        /\ UNCHANGED <<block, WQ, PQ, MSHR, unwritten>>

\* retire_rob hands a store to L1D if its write queue has room.
Store(addr) ==
    LET p == [addr |-> addr, type |-> "RFO", fill_level |-> FILL_L1,
              fill_l1i |-> FALSE, fill_l1d |-> TRUE, who |-> {}]
    IN  /\ InFlight < MaxInFlight
        /\ Room(L1D, WQ, WQ_SIZE)
        /\ ~Forwards(L1D, p)
        /\ WQ' = [WQ EXCEPT ![L1D] = add_wq(L1D, p)]
        /\ UNCHANGED <<block, RQ, PQ, MSHR, asked, unwritten>>

\* prefetch_code_line for L1I, prefetch_line and kpc_prefetch_line for the
\* others: only a prefetch into the first level carries a flag.
prefetch_line(c, addr, level) ==
    LET p == [addr |-> addr, type |-> "PREFETCH", fill_level |-> level,
              fill_l1i |-> c = L1I, fill_l1d |-> c # L1I /\ level = FILL_L1,
              who |-> {}]
    IN  /\ InFlight < MaxInFlight
        /\ Room(c, PQ, PQ_SIZE)
        /\ ~Forwards(c, p)
        /\ PQ' = [PQ EXCEPT ![c] = add_pq(c, p)]
        /\ UNCHANGED <<block, RQ, WQ, MSHR, asked, unwritten>>

\* The last-level cache answers a miss of L2C.
MemoryAnswers(line) ==
    /\ MSHR[L2C][line] # NONE
    /\ ~MSHR[L2C][line].returned
    /\ MSHR' = return_data(MSHR, L2C, line)
    /\ UNCHANGED <<block, queues, asked, unwritten>>

\* va_to_pa gives the frame of a page to another page and invalidates its
\* lines, dirty or not.
SwapOut(page) ==
    /\ block' = [c \in CacheName |-> [s \in SetIndex |-> [w \in Way(c) |->
                   [block[c][s][w] EXCEPT !.valid = @ /\
                      ~\E l \in page : SetOf[c][l] = s /\ Hit(c, l) /\ w = check_hit(c, l)]]]]
    /\ unwritten' = {s \in unwritten : s.line \notin page}
    /\ UNCHANGED <<queues, MSHR, asked>>

operate(c) ==
    \/ \E line \in Line : handle_fill(c, line)
    \/ handle_writeback(c)
    \/ handle_read(c)
    \/ handle_prefetch(c)

Next ==
    \/ \E c \in CacheName : operate(c)
    \/ \E r \in Fetch, addr \in FetchAddr : Ask(r, addr)
    \/ \E r \in Load, addr \in LoadAddr : Ask(r, addr)
    \/ \E addr \in StoreAddr : Store(addr)
    \/ \E c \in CacheName : \E pf \in PrefetchOf[c] : prefetch_line(c, pf[1], pf[2])
    \/ \E line \in Line : MemoryAnswers(line)
    \/ \E page \in SwappedPage : SwapOut(page)

Handlers ==
    \/ \E c \in CacheName : operate(c)
    \/ \E line \in Line : MemoryAnswers(line)

\* main.cc runs every handler in every cycle, and the memory answers.
Fairness == WF_vars(Handlers)

Spec == Init /\ [][Next]_vars
FairSpec == Spec /\ Fairness

-----------------------------------------------------------------------------
(* Properties.                                                             *)

FlagFor(p, c) == IF c = L1I THEN p.fill_l1i ELSE p.fill_l1d

\* The requests that will make L2C answer the miss of line in c, a cache of
\* the first level.
RequestsBelow(c, line) ==
    LET Asks(p) == LineIn(p) = line /\ FlagFor(p, c) /\ p.fill_level = FILL_L1
    IN    Cardinality({i \in DOMAIN RQ[L2C] : Asks(RQ[L2C][i])})
        + Cardinality({i \in DOMAIN PQ[L2C] : Asks(PQ[L2C][i])})
        + (IF MSHR[L2C][line] # NONE /\ Asks(MSHR[L2C][line]) THEN 1 ELSE 0)

\* A miss of the first level that waits has exactly one request below it, in
\* a queue or in the MSHR of L2C, and a miss whose answer has come, or no
\* miss, has none: no answer is lost, however requests of two caches, for
\* reading, writing and prefetching, merge (handle_read, handle_prefetch,
\* add_rq and add_pq), and none comes unexpected (the assertion of
\* return_data).
OneRequestBelow ==
    \A c \in L1, line \in Line :
      RequestsBelow(c, line) =
        IF MSHR[c][line] # NONE /\ ~MSHR[c][line].returned THEN 1 ELSE 0

\* The part of it that the comment of handle_read promises for a line that
\* holds instructions and data: whoever meets the miss of the other "has to
\* wait", so that no miss is left without a request below it.
CollisionsLoseNoMiss ==
    \A c \in L1, line \in Line :
      MSHR[c][line] # NONE /\ ~MSHR[c][line].returned => RequestsBelow(c, line) > 0

\* A fetch or a load that waits is held by exactly one packet of its cache,
\* through every merge in the read queue and in the MSHR, and one that does
\* not wait by none: it is neither forgotten nor completed twice.
RequesterHeldOnce ==
    \A r \in Requester :
      LET c == CacheOf(r)
      IN    Cardinality({i \in DOMAIN RQ[c] : r \in RQ[c][i].who})
          + Cardinality({l \in Line : MSHR[c][l] # NONE /\ r \in MSHR[c][l].who})
          = IF asked[r] = NONE THEN 0 ELSE 1

StoreLines == {LineOf[addr] : addr \in StoreAddr}

\* Lines that L2C may be asked for while L1D holds them: code, what the
\* prefetcher of L2C asks for and what that of L1D passes on to L2C.
AskedForAside ==
    {LineOf[addr] : addr \in FetchAddr}
      \cup {LineOf[pf[1]] : pf \in PrefetchOf[L1I] \cup PrefetchOf[L2C]
                                 \cup {pf \in PrefetchOf[L1D] : pf[2] # FILL_L1}}

\* No set holds a line twice.  A read for a line that is being written back
\* is answered from the write queue, a write-back fills only a line that is
\* absent, and a line misses once at a time.  In L2C there are exceptions:
\* lines that are stored to and that L2C may be asked for aside, so that the
\* line can be on its way to it from below while L1D writes it back, and
\* those whose page is swapped out, since the way that held a line keeps its
\* dirty mark and is written back when the line may be on its way again.
NoTwoCopies ==
    \A c \in CacheName, line \in Line :
      \/ Cardinality(Ways(c, line)) <= 1
      \/ c = L2C /\ line \in StoreLines \cap (AskedForAside \cup UNION SwappedPage)

\* A line that was stored to is dirty in a cache, in the write queue of L2C
\* or in a miss of L1D until it has been written below L2C: no fill and no
\* eviction makes it clean on the way.  Stores that joined the miss of a load
\* are exempt: the code loses them, as that miss fills the line clean
\* (handle_writeback, handle_fill).
StoresKept == \A s \in unwritten : s.joined \/ HeldDirty(s.line)

\* No handler waits for another that waits for it: from any pile of merged
\* requests, full tables and queues and dirty victims, once the core and the
\* prefetchers ask for nothing more, every fetch and every load is answered.
Drains ==
    <>[][Handlers]_vars => <>[](\A r \in Requester : asked[r] = NONE)
=============================================================================
