---------------------------- MODULE DRAMController ----------------------------
(***************************************************************************)
(* One channel of the memory controller (src/dram_controller.cc).  Reads   *)
(* and writes wait in queues of their own.  The controller is in read mode *)
(* or, to drain the write queue, in write mode; in each cycle operate may  *)
(* change the mode, hands one waiting request to a bank and lets one       *)
(* finished access use the data bus.  A change of mode takes the requests  *)
(* of the other queue away from their banks.  Between two calls of operate *)
(* the last-level cache adds requests.                                     *)
(*                                                                         *)
(* A cycle number is kept as the number of cycles until then.  Cycles that *)
(* are past are told apart only by the order of the requests of a queue.   *)
(* transfer is history: the last use of the data bus.                      *)
(***************************************************************************)
EXTENDS Integers, FiniteSetsExt

CONSTANTS
    Address, Bank, Row,
    BankOf, RowOf,              \* dram_get_bank, dram_get_row
    DRAM_RQ_SIZE, DRAM_WQ_SIZE,
    DRAM_WRITE_HIGH_WM, DRAM_WRITE_LOW_WM,
    ACTIVATE,                   \* tRP + tRCD
    tCAS,
    DRAM_DBUS_RETURN_TIME, DRAM_DBUS_TURN_AROUND_TIME,
    RequestCycles,              \* event_cycle of a read that is added
    NONE,
    MaxRequests                 \* bound on the requests of the cache

Size == [RQ |-> DRAM_RQ_SIZE, WQ |-> DRAM_WQ_SIZE]
Queue == {"RQ", "WQ"}
Slot(q) == 0..(Size[q] - 1)

ASSUME DRAMAssumption ==
    /\ DRAM_RQ_SIZE \in Nat \ {0} /\ DRAM_WQ_SIZE \in Nat \ {0}
    /\ DRAM_WRITE_HIGH_WM \in 1..DRAM_WQ_SIZE
    /\ DRAM_WRITE_LOW_WM \in 0..DRAM_WRITE_HIGH_WM
    /\ {ACTIVATE, tCAS, DRAM_DBUS_RETURN_TIME, DRAM_DBUS_TURN_AROUND_TIME} \subseteq Nat
    /\ BankOf \in [Address -> Bank] /\ RowOf \in [Address -> Row]
    /\ RequestCycles \subseteq {c \in Int : c <= 0}
    /\ NONE \notin Address /\ NONE \notin Row /\ NONE \notin Int /\ NONE \notin Queue
    /\ MaxRequests \in Nat

VARIABLES
    stage,                  \* the part of the cycle that runs next
    all_warmup_complete,
    write_mode,
    queue,                  \* queue[q][slot]
    occupancy,
    next_schedule,          \* the next_schedule_ and next_process_ fields
    next_process,           \*   of each queue
    bank,                   \* bank_request
    scheduled,              \* scheduled_reads and scheduled_writes
    dbus_cycle_available,
    transfer,               \* history
    requests                \* for MaxRequests

bankVars == <<bank, scheduled>>
busVars == <<dbus_cycle_available, transfer>>
vars == <<stage, all_warmup_complete, write_mode, queue, occupancy, next_schedule,
          next_process, bankVars, busVars, requests>>

EMPTY == [address |-> NONE, scheduled |-> FALSE, event_cycle |-> 0]

Entry == [address : Address, scheduled : BOOLEAN, event_cycle : Int] \cup {EMPTY}

\* index is NONE where the code has SIZE, or 0 and a cycle never reached.
NEVER == [index |-> NONE, cycle |-> 0]

TypeOK ==
    /\ stage \in {"switch", "schedule", "process", "requests"}
    /\ all_warmup_complete \in BOOLEAN
    /\ write_mode \in BOOLEAN
    /\ DOMAIN queue = Queue
    /\ \A q \in Queue :
         /\ queue[q] \in [Slot(q) -> Entry]
         /\ occupancy[q] \in 0..Size[q]
         /\ next_schedule[q] \in [index : Slot(q), cycle : Nat] \cup {NEVER}
         /\ next_process[q] \in [index : Slot(q), cycle : Nat] \cup {NEVER}
         /\ scheduled[q] \in 0..Size[q]
    /\ bank \in [Bank -> [request_index : Nat \cup {NONE}, kind : Queue \cup {NONE},
                          cycle_available : Nat, open_row : Row \cup {NONE}]]
    /\ dbus_cycle_available \in Int
    /\ transfer \in [queue : Queue \cup {NONE}, ends : Int]
    /\ requests \in 0..MaxRequests

Init ==
    /\ stage = "switch"
    /\ all_warmup_complete = FALSE
    /\ write_mode = FALSE
    /\ queue = [q \in Queue |-> [s \in Slot(q) |-> EMPTY]]
    /\ occupancy = [q \in Queue |-> 0]
    /\ next_schedule = [q \in Queue |-> NEVER]
    /\ next_process = [q \in Queue |-> NEVER]
    /\ bank = [b \in Bank |-> [request_index |-> NONE, kind |-> NONE,
                               cycle_available |-> 0, open_row |-> NONE]]
    /\ scheduled = [q \in Queue |-> 0]
    /\ dbus_cycle_available = 0
    /\ transfer = [queue |-> NONE, ends |-> -DRAM_DBUS_TURN_AROUND_TIME]
    /\ requests = 0

-----------------------------------------------------------------------------
(* The requests of a queue. *)

Used(entries) == {s \in DOMAIN entries : entries[s].address # NONE}
Scheduled(entries) == {s \in DOMAIN entries : entries[s].scheduled}
Addresses(q) == {queue[q][s].address : s \in Used(queue[q])}

\* The first of the slots with the least event_cycle.
Earliest(entries, slots) ==
    CHOOSE s \in slots : \A t \in slots :
        \/ entries[s].event_cycle < entries[t].event_cycle
        \/ entries[s].event_cycle = entries[t].event_cycle /\ s <= t

NextAmong(entries, slots) ==
    IF slots = {} THEN NEVER
    ELSE LET s == Earliest(entries, slots)
         IN  [index |-> s, cycle |-> Max({0, entries[s].event_cycle})]

update_schedule_cycle(entries) == NextAmong(entries, Used(entries) \ Scheduled(entries))
update_process_cycle(entries) == NextAmong(entries, Scheduled(entries))

Due(next) == next.index # NONE /\ next.cycle = 0

\* The queue that operate works on.
Turn == IF write_mode THEN "WQ" ELSE "RQ"

BankOfSlot(q, s) == BankOf[queue[q][s].address]

-----------------------------------------------------------------------------
(* operate: the mode *)

\* Mutation: the banks stay busy with the requests taken away from them.
ResetKeepingBanks(q) ==
    /\ queue' = [queue EXCEPT ![q] = [s \in Slot(q) |->
         IF @[s].scheduled THEN [@[s] EXCEPT !.scheduled = FALSE, !.event_cycle = 0]
         ELSE @[s]]]
    /\ scheduled' = [scheduled EXCEPT ![q] = 0]
    /\ next_schedule' = [k \in Queue |-> update_schedule_cycle(queue'[k])]
    /\ next_process' = [k \in Queue |-> update_process_cycle(queue'[k])]
    /\ UNCHANGED bank

\* A request that has been scheduled waits again, as if it came now.  Its
\* bank is free; the row schedule opened counts as open if the column
\* access could have begun.
reset_remain_requests(q) ==
    LET banks == {BankOfSlot(q, s) : s \in Scheduled(queue[q])}
    IN  /\ queue' = [queue EXCEPT ![q] = [s \in Slot(q) |->
             IF @[s].scheduled THEN [@[s] EXCEPT !.scheduled = FALSE, !.event_cycle = 0]
             ELSE @[s]]]
        /\ bank' = [b \in Bank |->
             IF b \in banks
             THEN [request_index |-> NONE, kind |-> NONE, cycle_available |-> 0,
                   open_row |-> IF bank[b].cycle_available <= tCAS
                                THEN bank[b].open_row ELSE NONE]
             ELSE bank[b]]
        /\ scheduled' = [k \in Queue |->
             scheduled[k] - Cardinality({b \in banks : bank[b].kind = k})]
        /\ next_schedule' = [k \in Queue |-> update_schedule_cycle(queue'[k])]
        /\ next_process' = [k \in Queue |-> update_process_cycle(queue'[k])]

\* Mutation: idle cycles are not used to write.
StartWritingWhenFull == ~write_mode /\ occupancy["WQ"] >= DRAM_WRITE_HIGH_WM

StartWriting ==
    /\ ~write_mode
    /\ \/ occupancy["WQ"] >= DRAM_WRITE_HIGH_WM
       \/ occupancy["RQ"] = 0 /\ occupancy["WQ"] > 0

StopWriting ==
    /\ write_mode
    /\ \/ occupancy["WQ"] = 0
       \/ occupancy["RQ"] > 0 /\ occupancy["WQ"] < DRAM_WRITE_LOW_WM

\* Mutation: the data bus need not turn around to read again.
SwitchTurningOnce ==
    /\ stage = "switch"
    /\ StartWriting \/ StopWriting
    /\ write_mode' = ~write_mode
    /\ reset_remain_requests(Turn)
    /\ dbus_cycle_available' =
         dbus_cycle_available + (IF write_mode THEN 0 ELSE DRAM_DBUS_TURN_AROUND_TIME)
    /\ stage' = "schedule"
    /\ UNCHANGED <<all_warmup_complete, occupancy, transfer, requests>>

SwitchMode ==
    /\ stage = "switch"
    /\ StartWriting \/ StopWriting
    /\ write_mode' = ~write_mode
    /\ reset_remain_requests(Turn)
    /\ dbus_cycle_available' = dbus_cycle_available + DRAM_DBUS_TURN_AROUND_TIME
    /\ stage' = "schedule"
    /\ UNCHANGED <<all_warmup_complete, occupancy, transfer, requests>>

KeepMode ==
    /\ stage = "switch"
    /\ ~StartWriting /\ ~StopWriting
    /\ stage' = "schedule"
    /\ UNCHANGED <<all_warmup_complete, write_mode, queue, occupancy, next_schedule,
                   next_process, bankVars, busVars, requests>>

-----------------------------------------------------------------------------
(* operate: schedule *)

\* The requests whose bank is free, and those of them whose row is open.
Ready(q) ==
    {s \in Used(queue[q]) \ Scheduled(queue[q]) : bank[BankOfSlot(q, s)].request_index = NONE}
RowHits(q) ==
    {s \in Ready(q) : bank[BankOfSlot(q, s)].open_row = RowOf[queue[q][s].address]}

schedule(q) ==
    LET hit     == RowHits(q) # {}
        s       == Earliest(queue[q], IF hit THEN RowHits(q) ELSE Ready(q))
        LATENCY == IF hit THEN tCAS ELSE ACTIVATE + tCAS
    IN  /\ stage = "schedule"
        /\ q = Turn /\ Due(next_schedule[q]) /\ Ready(q) # {}
        /\ bank' = [bank EXCEPT ![BankOfSlot(q, s)] =
             [request_index |-> s, kind |-> q, cycle_available |-> LATENCY,
              open_row |-> RowOf[queue[q][s].address]]]
        /\ scheduled' = [scheduled EXCEPT ![q] = @ + 1]
        /\ queue' = [queue EXCEPT ![q][s].scheduled = TRUE, ![q][s].event_cycle = LATENCY]
        /\ next_schedule' = [next_schedule EXCEPT ![q] = update_schedule_cycle(queue'[q])]
        /\ next_process' = [next_process EXCEPT ![q] = update_process_cycle(queue'[q])]
        /\ stage' = "process"
        /\ UNCHANGED <<all_warmup_complete, write_mode, occupancy, busVars, requests>>

NothingToSchedule ==
    /\ stage = "schedule"
    /\ ~(Due(next_schedule[Turn]) /\ Ready(Turn) # {})
    /\ stage' = "process"
    /\ UNCHANGED <<all_warmup_complete, write_mode, queue, occupancy, next_schedule,
                   next_process, bankVars, busVars, requests>>

-----------------------------------------------------------------------------
(* operate: process *)

\* The access that process looks at is over.
Accessed(q) ==
    /\ Due(next_process[q])
    /\ bank[BankOfSlot(q, next_process[q].index)].cycle_available = 0

\* Mutation: what to process next is not looked for again.
TransferKeepingNext(q) ==
    LET s == next_process[q].index
    IN  /\ stage = "process"
        /\ q = Turn /\ Accessed(q) /\ dbus_cycle_available <= 0
        /\ dbus_cycle_available' = DRAM_DBUS_RETURN_TIME
        /\ transfer' = [queue |-> q, ends |-> DRAM_DBUS_RETURN_TIME]
        /\ bank' = [bank EXCEPT ![BankOfSlot(q, s)].request_index = NONE,
                                ![BankOfSlot(q, s)].kind = NONE]
        /\ scheduled' = [scheduled EXCEPT ![q] = @ - 1]
        /\ queue' = [queue EXCEPT ![q][s] = EMPTY]
        /\ occupancy' = [occupancy EXCEPT ![q] = @ - 1]
        /\ stage' = "requests"
        /\ UNCHANGED <<all_warmup_complete, write_mode, next_schedule, next_process, requests>>

\* Mutation: a served write is counted as a read.
TransferCountingReads(q) ==
    LET s == next_process[q].index
    IN  /\ stage = "process"
        /\ q = Turn /\ Accessed(q) /\ dbus_cycle_available <= 0
        /\ dbus_cycle_available' = DRAM_DBUS_RETURN_TIME
        /\ transfer' = [queue |-> q, ends |-> DRAM_DBUS_RETURN_TIME]
        /\ bank' = [bank EXCEPT ![BankOfSlot(q, s)].request_index = NONE,
                                ![BankOfSlot(q, s)].kind = NONE]
        /\ scheduled' = [scheduled EXCEPT !["RQ"] = @ - 1]
        /\ queue' = [queue EXCEPT ![q][s] = EMPTY]
        /\ occupancy' = [occupancy EXCEPT ![q] = @ - 1]
        /\ next_process' = [next_process EXCEPT ![q] = update_process_cycle(queue'[q])]
        /\ stage' = "requests"
        /\ UNCHANGED <<all_warmup_complete, write_mode, next_schedule, requests>>

\* The data goes over the bus, for a read to the cache (return_data).
Transfer(q) ==
    LET s == next_process[q].index
    IN  /\ stage = "process"
        /\ q = Turn /\ Accessed(q) /\ dbus_cycle_available <= 0
        /\ dbus_cycle_available' = DRAM_DBUS_RETURN_TIME
        /\ transfer' = [queue |-> q, ends |-> DRAM_DBUS_RETURN_TIME]
        /\ bank' = [bank EXCEPT ![BankOfSlot(q, s)].request_index = NONE,
                                ![BankOfSlot(q, s)].kind = NONE]
        /\ scheduled' = [scheduled EXCEPT ![q] = @ - 1]
        /\ queue' = [queue EXCEPT ![q][s] = EMPTY]
        /\ occupancy' = [occupancy EXCEPT ![q] = @ - 1]
        /\ next_process' = [next_process EXCEPT ![q] = update_process_cycle(queue'[q])]
        /\ stage' = "requests"
        /\ UNCHANGED <<all_warmup_complete, write_mode, next_schedule, requests>>

\* The bus is busy: the bank is not looked at again before it is free.
WaitForBus(q) ==
    /\ stage = "process"
    /\ q = Turn /\ Accessed(q) /\ dbus_cycle_available > 0
    /\ bank' = [bank EXCEPT ![BankOfSlot(q, next_process[q].index)].cycle_available =
                  dbus_cycle_available]
    /\ stage' = "requests"
    /\ UNCHANGED <<all_warmup_complete, write_mode, queue, occupancy, next_schedule,
                   next_process, scheduled, busVars, requests>>

NothingToProcess ==
    /\ stage = "process"
    /\ ~Accessed(Turn)
    /\ stage' = "requests"
    /\ UNCHANGED <<all_warmup_complete, write_mode, queue, occupancy, next_schedule,
                   next_process, bankVars, busVars, requests>>

-----------------------------------------------------------------------------
(* add_rq, add_wq *)

Enqueue(q, address, event_cycle) ==
    LET s == Min(Slot(q) \ Used(queue[q]))
    IN  /\ queue' = [queue EXCEPT ![q][s] =
             [address |-> address, scheduled |-> FALSE, event_cycle |-> event_cycle]]
        /\ occupancy' = [occupancy EXCEPT ![q] = @ + 1]
        /\ next_schedule' = [next_schedule EXCEPT ![q] = update_schedule_cycle(queue'[q])]

Answered == UNCHANGED <<queue, occupancy, next_schedule>>

\* The cache asks only while the queue has room, a read for an address at a
\* time.  It is answered at once before the warmup is over and from a write
\* that waits, and joins a read that waits.
add_rq(address, event_cycle) ==
    /\ stage = "requests"
    /\ requests < MaxRequests
    /\ occupancy["RQ"] < DRAM_RQ_SIZE
    /\ \/ /\ \/ ~all_warmup_complete
             \/ address \in Addresses("WQ") \cup Addresses("RQ")
          /\ Answered
       \/ /\ all_warmup_complete
          /\ address \notin Addresses("WQ") \cup Addresses("RQ")
          /\ Enqueue("RQ", address, event_cycle)
    /\ requests' = requests + 1
    /\ UNCHANGED <<stage, all_warmup_complete, write_mode, next_process, bankVars, busVars>>

add_wq(address) ==
    /\ stage = "requests"
    /\ requests < MaxRequests
    /\ occupancy["WQ"] < DRAM_WQ_SIZE
    /\ \/ /\ ~all_warmup_complete \/ address \in Addresses("WQ")
          /\ Answered
       \/ /\ all_warmup_complete
          /\ address \notin Addresses("WQ")
          /\ Enqueue("WQ", address, 0)
    /\ requests' = requests + 1
    /\ UNCHANGED <<stage, all_warmup_complete, write_mode, next_process, bankVars, busVars>>

-----------------------------------------------------------------------------
(* The next cycle. *)

Until(wait) == Max({0, wait - 1})

\* Past cycles are ranked, the latest as -1.
Aged(entries) ==
    LET past == {c \in {entries[s].event_cycle : s \in Used(entries)} : c <= 0}
    IN  [s \in DOMAIN entries |->
           IF entries[s].address = NONE THEN EMPTY
           ELSE [entries[s] EXCEPT !.event_cycle =
                   IF @ > 0 THEN @ - 1 ELSE -Cardinality({c \in past : c >= @})]]

\* How long ago the bus became free matters as far as turning around can
\* make up for it: the mode changes at most four times without a transfer
\* (no writes left, no reads left, a read comes, too many writes).
BusFloor == -4 * DRAM_DBUS_TURN_AROUND_TIME

NextCycle ==
    /\ stage = "requests"
    /\ queue' = [q \in Queue |-> Aged(queue[q])]
    /\ next_schedule' = [q \in Queue |-> [next_schedule[q] EXCEPT !.cycle = Until(@)]]
    /\ next_process' = [q \in Queue |-> [next_process[q] EXCEPT !.cycle = Until(@)]]
    /\ bank' = [b \in Bank |-> [bank[b] EXCEPT !.cycle_available = Until(@)]]
    /\ dbus_cycle_available' = Max({dbus_cycle_available - 1, BusFloor})
    /\ transfer' = [transfer EXCEPT !.ends = Max({@ - 1, -DRAM_DBUS_TURN_AROUND_TIME})]
    /\ all_warmup_complete' \in {all_warmup_complete, TRUE}
    /\ stage' = "switch"
    /\ UNCHANGED <<write_mode, occupancy, scheduled, requests>>

Next ==
    \/ SwitchMode \/ KeepMode
    \/ \E q \in Queue : schedule(q) \/ Transfer(q) \/ WaitForBus(q)
    \/ NothingToSchedule \/ NothingToProcess
    \/ \E address \in Address :
         add_wq(address) \/ \E event_cycle \in RequestCycles : add_rq(address, event_cycle)
    \/ NextCycle

Spec == Init /\ [][Next]_vars

\* operate is called in every cycle.
FairSpec == Spec /\ WF_vars(Next)

-----------------------------------------------------------------------------
(* Properties. *)

\* A bank works for a request if and only if the request is scheduled on
\* it, no two requests share one, and only the queue whose turn it is has
\* requests scheduled, as many as its counter says: the assertions of
\* process and reset_remain_requests hold.
BanksAgree ==
    /\ \A q \in Queue : \A s \in Scheduled(queue[q]) :
         LET b == BankOfSlot(q, s)
         IN  q = Turn /\ bank[b].request_index = s /\ bank[b].kind = q
    /\ \A b \in Bank : bank[b].request_index # NONE =>
         /\ bank[b].request_index \in Scheduled(queue[Turn])
         /\ BankOfSlot(Turn, bank[b].request_index) = b
    /\ \A q \in Queue :
         /\ scheduled[q] = Cardinality(Scheduled(queue[q]))
         /\ occupancy[q] = Cardinality(Used(queue[q]))

\* What is to be scheduled and processed next is looked up when the queues
\* change and used cycles later; it is never out of date.
NextUpToDate ==
    \A q \in Queue :
        /\ next_schedule[q] = update_schedule_cycle(queue[q])
        /\ next_process[q] = update_process_cycle(queue[q])

\* Transfers do not overlap, and between a read and a write the bus has the
\* time to turn around (inc/dram_controller.h:15).
BusTurnsAround ==
    [][\A q \in Queue : occupancy'[q] < occupancy[q] =>
         /\ transfer.ends <= 0
         /\ transfer.queue \in {q, NONE} \/ transfer.ends <= -DRAM_DBUS_TURN_AROUND_TIME]_vars

\* Once the cache makes no more requests, all those it has made are served,
\* whatever mode the controller is in and whoever was taken away from a bank.
RequestsServed == \A q \in Queue : occupancy[q] > 0 ~> occupancy[q] = 0
=============================================================================
