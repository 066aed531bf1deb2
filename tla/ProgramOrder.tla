----------------------------- MODULE ProgramOrder -----------------------------
(***************************************************************************)
(* What a core promises to a program: its instructions take effect one     *)
(* after the other, and a load reads what the last store before it wrote.  *)
(* A store is known by the position of its instruction, so memory maps an  *)
(* address to the instruction that wrote it, or to 0.                      *)
(***************************************************************************)
EXTENDS Naturals, Sequences

CONSTANTS Address, Programs

VARIABLES program, retired, memory, read

vars == <<program, retired, memory, read>>

Init ==
    /\ program \in Programs
    /\ retired = 0
    /\ memory = [a \in Address |-> 0]
    /\ read = <<>>

\* The next instruction loads from its addresses, then stores to them.
Retire ==
    LET i == retired + 1
    IN  /\ i <= Len(program)
        /\ retired' = i
        /\ read' = Append(read, [j \in DOMAIN program[i].loads |-> memory[program[i].loads[j]]])
        /\ memory' = [a \in Address |->
                        IF \E j \in DOMAIN program[i].stores : program[i].stores[j] = a
                        THEN i ELSE memory[a]]
        /\ UNCHANGED program

Spec == Init /\ [][Retire]_vars
=============================================================================
