------------------------- MODULE ReturnAddressStack -------------------------
(***************************************************************************)
(* The return address stack every BTB of btb/ keeps: a circular buffer of  *)
(* call addresses (basic_btb_ras, basic_btb_ras_index) and a small hashed  *)
(* table of call instruction sizes (basic_btb_call_instr_sizes) that turns *)
(* a call address into the address the matching return jumps to.           *)
(*                                                                         *)
(* btb_prediction pushes and peeks, update_btb pops and recalibrates.      *)
(* Addresses are natural numbers, because the size table is learned from   *)
(* their differences; 0 marks an empty slot.                               *)
(***************************************************************************)
EXTENDS Integers

CONSTANTS
    BASIC_BTB_RAS_SIZE,                     \* slots of the circular buffer
    BASIC_BTB_CALL_INSTR_SIZE_TRACKERS,     \* entries of the size table
    Ip,                                     \* addresses of instructions
    Target                                  \* addresses branches jump to

ASSUME RASAssumption ==
    /\ BASIC_BTB_RAS_SIZE \in Nat \ {0}
    /\ BASIC_BTB_CALL_INSTR_SIZE_TRACKERS \in Nat \ {0}
    /\ Ip \subseteq Nat \ {0}
    /\ Target \subseteq Nat \ {0}

VARIABLES
    basic_btb_ras,
    basic_btb_ras_index,
    basic_btb_call_instr_sizes

rasVars == <<basic_btb_ras, basic_btb_ras_index, basic_btb_call_instr_sizes>>

Slot == 0..(BASIC_BTB_RAS_SIZE - 1)
Tracker == 0..(BASIC_BTB_CALL_INSTR_SIZE_TRACKERS - 1)

\* The largest distance between a call and its return target that is taken
\* for the size of the call instruction.
MaxCallSize == 10

RASTypeOK ==
    /\ basic_btb_ras \in [Slot -> Ip \cup {0}]
    /\ basic_btb_ras_index \in Slot
    /\ basic_btb_call_instr_sizes \in [Tracker -> 0..MaxCallSize]

RASInit ==
    /\ basic_btb_ras = [s \in Slot |-> 0]
    /\ basic_btb_ras_index = 0
    /\ basic_btb_call_instr_sizes = [h \in Tracker |-> 4]

-----------------------------------------------------------------------------
basic_btb_abs_addr_dist(addr1, addr2) ==
    IF addr1 > addr2 THEN addr1 - addr2 ELSE addr2 - addr1

basic_btb_call_size_tracker_hash(ip) == ip % BASIC_BTB_CALL_INSTR_SIZE_TRACKERS

\* Mutation: the index does not wrap around on an underflow.
PreviousSlotNoWrap(s) == s - 1

NextSlot(s) == IF s + 1 = BASIC_BTB_RAS_SIZE THEN 0 ELSE s + 1
PreviousSlot(s) == IF s = 0 THEN BASIC_BTB_RAS_SIZE - 1 ELSE s - 1

peek_basic_btb_ras == basic_btb_ras[basic_btb_ras_index]

\* The target btb_prediction gives for an entry of type BRANCH_RETURN.
PredictedReturn ==
    peek_basic_btb_ras
      + basic_btb_call_instr_sizes[basic_btb_call_size_tracker_hash(peek_basic_btb_ras)]

push_basic_btb_ras(ip) ==
    /\ basic_btb_ras_index' = NextSlot(basic_btb_ras_index)
    /\ basic_btb_ras' = [basic_btb_ras EXCEPT ![NextSlot(basic_btb_ras_index)] = ip]
    /\ UNCHANGED basic_btb_call_instr_sizes

\* Mutation: a pop moves the index and leaves the address in its slot.
PopKeepingSlot ==
    /\ basic_btb_ras_index' = PreviousSlot(basic_btb_ras_index)
    /\ UNCHANGED basic_btb_ras

pop_basic_btb_ras ==
    /\ basic_btb_ras' = [basic_btb_ras EXCEPT ![basic_btb_ras_index] = 0]
    /\ basic_btb_ras_index' = PreviousSlot(basic_btb_ras_index)

\* update_btb, the part for a resolved return to branch_target: the popped
\* address and the target may teach the size of the call instruction.
ResolveReturn(branch_target) ==
    LET call_ip == peek_basic_btb_ras
        size    == basic_btb_abs_addr_dist(call_ip, branch_target)
    IN  /\ pop_basic_btb_ras
        /\ basic_btb_call_instr_sizes' =
             IF size <= MaxCallSize
             THEN [basic_btb_call_instr_sizes EXCEPT
                     ![basic_btb_call_size_tracker_hash(call_ip)] = size]
             ELSE basic_btb_call_instr_sizes

-----------------------------------------------------------------------------
\* The stack on its own, with calls and returns in any order.
RASNext ==
    \/ \E ip \in Ip : push_basic_btb_ras(ip)
    \/ \E branch_target \in Target : ResolveReturn(branch_target)

RASSpec == RASInit /\ [][RASNext]_rasVars

-----------------------------------------------------------------------------
\* The circular buffer read from its top: position k is k slots behind the
\* index.
StackView ==
    [k \in Slot |-> basic_btb_ras[(basic_btb_ras_index - k) % BASIC_BTB_RAS_SIZE]]

Stack == INSTANCE ShiftStack
           WITH Depth <- BASIC_BTB_RAS_SIZE, stack <- StackView

\* Wrap-around is invisible: whatever the sequence of pushes and pops,
\* overflow and underflow included, the buffer and its index behave as a
\* stack of BASIC_BTB_RAS_SIZE positions that forgets its oldest call.
ImplementsShiftStack == Stack!Spec
=============================================================================
