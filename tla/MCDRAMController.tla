--------------------------- MODULE MCDRAMController ---------------------------
(***************************************************************************)
(* Two banks, one of them with two rows; queues of two reads and two or    *)
(* three writes.                                                           *)
(***************************************************************************)
EXTENDS DRAMController, TLC

MCAddress == {"a", "b", "c"}
MCBankOf == "a" :> 0 @@ "b" :> 0 @@ "c" :> 1
MCRowOf == "a" :> 0 @@ "b" :> 1 @@ "c" :> 0
MCRequestCycles == {0, -1}
=============================================================================
