------------------------------- MODULE FrontEnd -------------------------------
(***************************************************************************)
(* The in-order half of a core (src/ooo_cpu.cc) and the part of the main   *)
(* loop that drives it: what lets the fetch run and what holds it up.      *)
(*                                                                         *)
(* A cycle runs the stages backwards: retire, execute, decode, fetch, and  *)
(* then either read_from_trace, which takes instructions from the trace    *)
(* and predicts branches, or, while fetch_stall is set, only               *)
(* spec_inst_prefetch.  Two things stall the fetch: a branch that was      *)
(* mispredicted, until decode_and_dispatch or complete_execution resolves  *)
(* it, and the write of a taken branch to a BTB with a write latency.      *)
(* Both share the one pair fetch_stall, fetch_resume_cycle.                *)
(*                                                                         *)
(* Of an instruction the model keeps where a misprediction of it will be   *)
(* resolved (branch_mispredicted with branch_type and                      *)
(* resolve_cond_branch_in_decode) and how far it has come.  How long the   *)
(* instruction cache and the execution units take is left open.  A cycle   *)
(* number is kept as the number of cycles until then.  write_stalled is    *)
(* history: whether a BTB write has ever stalled the fetch.                *)
(***************************************************************************)
EXTENDS Integers, SequencesExt

CONSTANTS
    IFETCH_SIZE, DECODE_SIZE, ROB_SIZE,     \* sizes of the three buffers
    FETCH_WIDTH, DECODE_WIDTH, RETIRE_WIDTH,
    DECODE_LATENCY,
    BRANCH_MISPREDICT_PENALTY,
    WriteLatencies,     \* the values btb_write_latency takes; 0 for SRAM
    Line                \* cache lines instructions lie on

ASSUME FrontEndAssumption ==
    /\ {IFETCH_SIZE, DECODE_SIZE, ROB_SIZE} \subseteq Nat \ {0}
    /\ {FETCH_WIDTH, DECODE_WIDTH, RETIRE_WIDTH} \subseteq Nat \ {0}
    /\ DECODE_LATENCY \in Nat
    /\ BRANCH_MISPREDICT_PENALTY \in Nat
    /\ WriteLatencies \subseteq Nat /\ WriteLatencies # {}

NONE == -1      \* fetch_resume_cycle = 0, or an event_cycle not yet set

VARIABLES
    stage,                  \* the part of the cycle that runs next
    warmup_complete,
    IFETCH_BUFFER, DECODE_BUFFER, ROB,      \* oldest instruction first
    IBUF_occupancy,         \* IFETCH_BUFFER with what was prefetched beyond it
    outstanding,            \* lines the instruction cache was asked for
    fetch_stall,
    fetch_resume_cycle,
    num_reads,              \* instructions read in this cycle
    skip_next_cycle,
    write_stalled           \* history

bufferVars == <<IFETCH_BUFFER, DECODE_BUFFER, ROB>>
stallVars == <<fetch_stall, fetch_resume_cycle, write_stalled>>
readVars == <<num_reads, skip_next_cycle>>
vars == <<stage, warmup_complete, bufferVars, IBUF_occupancy, outstanding, stallVars, readVars>>

Stage == {"retire", "execute", "decode", "fetch", "front", "read", "tick"}
Resolution == {"none", "decode", "execute"}
Wait == {NONE} \cup Nat

TypeOK ==
    /\ stage \in Stage
    /\ warmup_complete \in BOOLEAN
    /\ IFETCH_BUFFER \in Seq([resolves : Resolution, line : Line,
                              fetched : {"no", "inflight", "completed"}])
    /\ Len(IFETCH_BUFFER) <= IFETCH_SIZE
    /\ DECODE_BUFFER \in Seq([resolves : Resolution, wait : Wait])
    /\ Len(DECODE_BUFFER) <= DECODE_SIZE
    /\ ROB \in Seq([resolves : Resolution, executed : BOOLEAN])
    /\ Len(ROB) <= ROB_SIZE
    /\ IBUF_occupancy \in Nat
    /\ outstanding \subseteq Line
    /\ fetch_stall \in BOOLEAN
    /\ fetch_resume_cycle \in Wait
    /\ num_reads \in 0..FETCH_WIDTH
    /\ skip_next_cycle \in BOOLEAN
    /\ write_stalled \in BOOLEAN

Init ==
    /\ stage = "retire"
    /\ warmup_complete = FALSE
    /\ IFETCH_BUFFER = <<>> /\ DECODE_BUFFER = <<>> /\ ROB = <<>>
    /\ IBUF_occupancy = 0
    /\ outstanding = {}
    /\ fetch_stall = FALSE
    /\ fetch_resume_cycle = NONE
    /\ num_reads = 0
    /\ skip_next_cycle = FALSE
    /\ write_stalled = FALSE

-----------------------------------------------------------------------------
(* retire_rob *)

\* The instructions at the head that have been executed, at most
\* RETIRE_WIDTH; a full write queue of the data cache may hold up the rest.
Retirable == {n \in 0..RETIRE_WIDTH : n <= Len(ROB) /\ \A k \in 1..n : ROB[k].executed}

retire_rob(n) ==
    /\ stage = "retire"
    /\ n \in Retirable
    /\ ROB' = SubSeq(ROB, n + 1, Len(ROB))
    /\ stage' = "execute"
    /\ UNCHANGED <<warmup_complete, IFETCH_BUFFER, DECODE_BUFFER, IBUF_occupancy,
                   outstanding, stallVars, readVars>>

-----------------------------------------------------------------------------
(* update_rob, as often as answers arrive *)

\* The instruction cache answers for a line.
complete_instr_fetch(line) ==
    /\ stage = "execute"
    /\ line \in outstanding
    /\ outstanding' = outstanding \ {line}
    /\ IFETCH_BUFFER' = [k \in DOMAIN IFETCH_BUFFER |->
         IF IFETCH_BUFFER[k].line = line
         THEN [IFETCH_BUFFER[k] EXCEPT !.fetched = "completed"] ELSE IFETCH_BUFFER[k]]
    /\ UNCHANGED <<stage, warmup_complete, DECODE_BUFFER, ROB, IBUF_occupancy, stallVars,
                   readVars>>

\* A mispredicted branch that is executed lets the fetch resume.
complete_execution(k) ==
    /\ stage = "execute"
    /\ k \in DOMAIN ROB
    /\ ~ROB[k].executed
    /\ ROB' = [ROB EXCEPT ![k].executed = TRUE]
    /\ fetch_resume_cycle' = IF ROB[k].resolves = "execute"
                             THEN BRANCH_MISPREDICT_PENALTY ELSE fetch_resume_cycle
    /\ UNCHANGED <<stage, warmup_complete, IFETCH_BUFFER, DECODE_BUFFER, IBUF_occupancy,
                   outstanding, fetch_stall, write_stalled, readVars>>

EndExecute ==
    /\ stage = "execute"
    /\ stage' = "decode"
    /\ UNCHANGED <<warmup_complete, bufferVars, IBUF_occupancy, outstanding, stallVars,
                   readVars>>

-----------------------------------------------------------------------------
(* decode_and_dispatch *)

\* Mutation: the room in the ROB is not looked at.
DispatchedBlindly ==
    Max({n \in 0..DECODE_WIDTH :
           /\ n <= Len(DECODE_BUFFER)
           /\ \A k \in 1..n : ~warmup_complete \/ DECODE_BUFFER[k].wait = 0})

\* How many instructions go from the decode buffer to the ROB.
Dispatched ==
    Max({n \in 0..DECODE_WIDTH :
           /\ n <= Len(DECODE_BUFFER)
           /\ Len(ROB) + n <= ROB_SIZE
           /\ \A k \in 1..n : ~warmup_complete \/ DECODE_BUFFER[k].wait = 0})

\* Of those that stay, the ones that start to be decoded: when the buffer is
\* full its head is also its tail, and the scan ends there.
StartsDecoding(k) ==
    /\ DECODE_BUFFER[k].wait = NONE
    /\ Dispatched = 0 /\ Len(DECODE_BUFFER) = DECODE_SIZE => k = 1
    /\ Cardinality({j \in (Dispatched + 1)..(k - 1) : DECODE_BUFFER[j].wait = NONE})
         < DECODE_WIDTH

\* Mutation: a branch resolved in decode does not let the fetch resume.
decode_without_resume ==
    LET n == Dispatched
    IN  /\ stage = "decode"
        /\ ROB' = ROB \o [k \in 1..n |->
             [resolves |-> IF DECODE_BUFFER[k].resolves = "execute" THEN "execute" ELSE "none",
              executed |-> FALSE]]
        /\ UNCHANGED fetch_resume_cycle
        /\ DECODE_BUFFER' = [j \in 1..(Len(DECODE_BUFFER) - n) |->
             IF StartsDecoding(n + j)
             THEN [DECODE_BUFFER[n + j] EXCEPT !.wait = DECODE_LATENCY + 1]
             ELSE DECODE_BUFFER[n + j]]
        /\ stage' = "fetch"
        /\ UNCHANGED <<warmup_complete, IFETCH_BUFFER, IBUF_occupancy, outstanding, fetch_stall,
                       write_stalled, readVars>>

decode_and_dispatch ==
    LET n == Dispatched
    IN  /\ stage = "decode"
        /\ ROB' = ROB \o [k \in 1..n |->
             [resolves |-> IF DECODE_BUFFER[k].resolves = "execute" THEN "execute" ELSE "none",
              executed |-> FALSE]]
        /\ fetch_resume_cycle' =
             IF \E k \in 1..n : DECODE_BUFFER[k].resolves = "decode"
             THEN BRANCH_MISPREDICT_PENALTY ELSE fetch_resume_cycle
        /\ DECODE_BUFFER' = [j \in 1..(Len(DECODE_BUFFER) - n) |->
             IF StartsDecoding(n + j)
             THEN [DECODE_BUFFER[n + j] EXCEPT !.wait = DECODE_LATENCY + 1]
             ELSE DECODE_BUFFER[n + j]]
        /\ stage' = "fetch"
        /\ UNCHANGED <<warmup_complete, IFETCH_BUFFER, IBUF_occupancy, outstanding, fetch_stall,
                       write_stalled, readVars>>

-----------------------------------------------------------------------------
(* fetch_instruction *)

\* Mutation: the resume cycle outlives the stall it ended.
ReleaseKeepingCycle ==
    /\ fetch_stall' = (fetch_stall /\ fetch_resume_cycle # 0)
    /\ UNCHANGED fetch_resume_cycle

ReleaseStall ==
    IF fetch_stall /\ fetch_resume_cycle = 0
    THEN fetch_stall' = FALSE /\ fetch_resume_cycle' = NONE
    ELSE UNCHANGED <<fetch_stall, fetch_resume_cycle>>

Wanted == {IFETCH_BUFFER[k].line :
             k \in {j \in DOMAIN IFETCH_BUFFER : IFETCH_BUFFER[j].fetched = "no"}}

\* A request marks every instruction of its line, fetched ones included.
Requested(lines) ==
    [k \in DOMAIN IFETCH_BUFFER |->
       IF IFETCH_BUFFER[k].line \in lines
       THEN [IFETCH_BUFFER[k] EXCEPT !.fetched = "inflight"] ELSE IFETCH_BUFFER[k]]

\* How many fetched instructions of a buffer go on to be decoded.
Passed(buffer) ==
    Max({n \in 0..DECODE_WIDTH :
           /\ n <= Len(buffer)
           /\ Len(DECODE_BUFFER) + n <= DECODE_SIZE
           /\ \A k \in 1..n : buffer[k].fetched = "completed"})

\* The instruction cache accepts the requests for some of the lines.
fetch_instruction(accepted) ==
    LET buffer == Requested(accepted)
        n      == Passed(buffer)
    IN  /\ stage = "fetch"
        /\ accepted \subseteq Wanted
        /\ ReleaseStall
        /\ outstanding' = outstanding \cup accepted
        /\ IFETCH_BUFFER' = SubSeq(buffer, n + 1, Len(buffer))
        /\ DECODE_BUFFER' = DECODE_BUFFER \o
             [k \in 1..n |-> [resolves |-> buffer[k].resolves, wait |-> NONE]]
        /\ IBUF_occupancy' = IF IBUF_occupancy > n THEN IBUF_occupancy - n ELSE 0
        /\ stage' = "front"
        /\ UNCHANGED <<warmup_complete, ROB, write_stalled, readVars>>

-----------------------------------------------------------------------------
(* main: what the front end does in this cycle *)

\* Neither function is called when the buffer is full, and both return at
\* once when skip_next_cycle is set.
FrontIdle ==
    /\ stage = "front"
    /\ Len(IFETCH_BUFFER) = IFETCH_SIZE \/ skip_next_cycle
    /\ skip_next_cycle' = (skip_next_cycle /\ Len(IFETCH_BUFFER) = IFETCH_SIZE)
    /\ stage' = "tick"
    /\ UNCHANGED <<warmup_complete, bufferVars, IBUF_occupancy, outstanding, stallVars,
                   num_reads>>

FrontRuns ==
    stage = "front" /\ Len(IFETCH_BUFFER) < IFETCH_SIZE /\ ~skip_next_cycle

StartReading ==
    /\ FrontRuns
    /\ ~fetch_stall
    /\ stage' = "read"
    /\ UNCHANGED <<warmup_complete, bufferVars, IBUF_occupancy, outstanding, stallVars,
                   readVars>>

\* Mutation: the loop does not look at the size of the buffer.
RunAheadUnbounded == 1..FETCH_WIDTH

\* How many addresses spec_inst_prefetch looks up: a branch predicted taken
\* ends the loop, and so do the width and the buffer.
RunAhead ==
    IF IBUF_occupancy >= IFETCH_SIZE THEN {0}
    ELSE {n \in 1..FETCH_WIDTH : IBUF_occupancy + n <= IFETCH_SIZE}

spec_inst_prefetch(n) ==
    /\ FrontRuns
    /\ fetch_stall
    /\ n \in RunAhead
    /\ IBUF_occupancy' = IBUF_occupancy + n
    /\ skip_next_cycle' \in IF n > 0 THEN BOOLEAN ELSE {FALSE}
    /\ stage' = "tick"
    /\ UNCHANGED <<warmup_complete, bufferVars, outstanding, stallVars, num_reads>>

-----------------------------------------------------------------------------
(* read_from_trace, one instruction of its loop at a time *)

\* What the trace says of a branch, what the BTB and the direction predictor
\* say, whether the BTB takes a second cycle, and the latency it leaves.
Branch ==
    {b \in [type : {"direct", "conditional", "other"}, taken : BOOLEAN, is_btb_hit : BOOLEAN,
            prediction : BOOLEAN, right_target : BOOLEAN, sequential : BOOLEAN,
            btb_write_latency : WriteLatencies] :
       /\ b.type = "direct" => b.taken
       /\ b.right_target \/ b.sequential => b.is_btb_hit
       /\ b.right_target => b.taken}

\* The predicted target, 0 unless the BTB has one and the direction
\* predictor uses it, differs from the target, 0 for a branch not taken.
Mispredicted(b) ==
    \/ b.taken /\ ~(b.prediction /\ b.right_target)
    \/ ~b.taken /\ b.prediction /\ b.is_btb_hit

\* A conditional branch the BTB does not know, predicted taken.
UnknownTaken(b) == ~b.is_btb_hit /\ b.type = "conditional" /\ b.prediction

\* After warmup the fetch stalls for such a branch until it is resolved.
Suspect(b) == warmup_complete /\ (Mispredicted(b) \/ UnknownTaken(b))

Resolves(b) ==
    IF ~Suspect(b) THEN "none"
    ELSE IF b.type = "direct" \/ (Mispredicted(b) /\ UnknownTaken(b)) THEN "decode"
    ELSE "execute"

WriteStall(b) == b.taken /\ b.btb_write_latency > 0

\* An instruction enters the buffer; the loop ends after it if stop holds,
\* the width is exhausted or the buffer is full.
Read(line, resolves, stop) ==
    /\ stage = "read"
    /\ IFETCH_BUFFER' = Append(IFETCH_BUFFER,
                          [resolves |-> resolves, line |-> line, fetched |-> "no"])
    /\ IBUF_occupancy' = Len(IFETCH_BUFFER')
    /\ num_reads' = num_reads + 1
    /\ stage' = IF stop \/ num_reads' >= FETCH_WIDTH \/ Len(IFETCH_BUFFER') = IFETCH_SIZE
                THEN "tick" ELSE "read"
    /\ UNCHANGED <<warmup_complete, DECODE_BUFFER, ROB, outstanding>>

ReadOther(line) ==
    /\ Read(line, "none", FALSE)
    /\ UNCHANGED <<stallVars, skip_next_cycle>>

ReadBranch(line, b) ==
    /\ Read(line, Resolves(b), Suspect(b) \/ (b.prediction /\ ~Mispredicted(b)))
    /\ fetch_stall' = (fetch_stall \/ Suspect(b) \/ WriteStall(b))
    /\ fetch_resume_cycle' = IF WriteStall(b) THEN b.btb_write_latency ELSE fetch_resume_cycle
    /\ write_stalled' = (write_stalled \/ WriteStall(b))
    /\ skip_next_cycle' = (skip_next_cycle \/ (b.prediction /\ b.sequential))

-----------------------------------------------------------------------------
(* The next cycle; at some point the warmup is over. *)

Until(wait) == IF wait > 0 THEN wait - 1 ELSE wait

CyclePasses ==
    /\ stage = "tick"
    /\ fetch_resume_cycle' = Until(fetch_resume_cycle)
    /\ DECODE_BUFFER' = [k \in DOMAIN DECODE_BUFFER |->
                           [DECODE_BUFFER[k] EXCEPT !.wait = Until(@)]]
    /\ num_reads' = 0
    /\ warmup_complete' \in {warmup_complete, TRUE}
    /\ UNCHANGED <<IFETCH_BUFFER, ROB, IBUF_occupancy, outstanding, fetch_stall, write_stalled,
                   skip_next_cycle>>

NextCycle == CyclePasses /\ stage' = "retire"

\* While the core waits for a page (stall_cycle), cycles pass without it.
StalledCycle == CyclePasses /\ UNCHANGED stage

Next ==
    \/ \E n \in 0..RETIRE_WIDTH : retire_rob(n)
    \/ \E line \in Line : complete_instr_fetch(line) \/ ReadOther(line)
    \/ \E k \in 1..ROB_SIZE : complete_execution(k)
    \/ EndExecute
    \/ decode_and_dispatch
    \/ \E accepted \in SUBSET Line : fetch_instruction(accepted)
    \/ FrontIdle
    \/ StartReading
    \/ \E n \in 0..FETCH_WIDTH : spec_inst_prefetch(n)
    \/ \E line \in Line, b \in Branch : ReadBranch(line, b)
    \/ NextCycle
    \/ StalledCycle

\* The simulation loop runs on; whatever the core waits for of the caches
\* and the execution units happens in one of the cycles.
Fairness ==
    /\ WF_vars(Next)
    /\ SF_vars(\E n \in 1..RETIRE_WIDTH : retire_rob(n))
    /\ SF_vars(complete_execution(1))
    /\ SF_vars(Wanted # {} /\ fetch_instruction(Wanted))
    /\ \A line \in Line : SF_vars(complete_instr_fetch(line))

Spec == Init /\ [][Next]_vars
FairSpec == Spec /\ Fairness

-----------------------------------------------------------------------------
(* Properties. *)

InFlight == ToSet(IFETCH_BUFFER) \cup ToSet(DECODE_BUFFER)

\* A branch is on its way that the fetch has been stalled for and that has
\* not been resolved.
Unresolved ==
    \/ \E entry \in InFlight : entry.resolves # "none"
    \/ \E entry \in ToSet(ROB) : entry.resolves = "execute" /\ ~entry.executed

\* A stalled fetch has an end in sight: its resume cycle is known, or a
\* branch that will set it is still in the pipeline.
StallHasEnd == fetch_stall /\ fetch_resume_cycle = NONE => Unresolved

\* Without BTB write stalls the fetch never runs past a branch it was
\* stalled for: it resumes once, after that branch has been resolved.
ResumesAfterResolving == ~write_stalled /\ Unresolved => fetch_stall

\* What spec_inst_prefetch runs ahead of the instructions that were read
\* stays within the buffer, and is forgotten by the next read.
RunsAheadWithinBuffer ==
    /\ Len(IFETCH_BUFFER) <= IBUF_occupancy /\ IBUF_occupancy <= IFETCH_SIZE
    /\ stage = "read" /\ num_reads > 0 => IBUF_occupancy = Len(IFETCH_BUFFER)

\* However branches, BTB writes and cache answers fall, every stall ends.
FetchResumes == fetch_stall ~> ~fetch_stall

\* The comment in fetch_instruction says "if we had a branch mispredict,
\* turn fetching back on after the branch mispredict penalty": the fetch
\* does not run while a branch it was stalled for is unresolved.
NoFetchPastMispredict == Unresolved => fetch_stall
=============================================================================
