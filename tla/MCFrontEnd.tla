------------------------------ MODULE MCFrontEnd ------------------------------
(***************************************************************************)
(* Buffers of a few instructions, fetched two at a time, and BTBs that     *)
(* write at once (SRAM) or stall the fetch for two cycles.                 *)
(***************************************************************************)
EXTENDS FrontEnd

MCWriteLatencies == {0, 2}
MCLine == {"line"}
=============================================================================
