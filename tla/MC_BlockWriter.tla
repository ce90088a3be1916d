--------------------------- MODULE MC_BlockWriter ---------------------------
(* Inputs of the block writer runs: blocks of up to three packets,         *)
(* resize() arguments that are accepted, rejected as zero, rejected as too *)
(* long, or equal to the pending sizes, and payload sizes that are valid,  *)
(* zero, or changed in the middle of a block.                              *)
EXTENDS BlockWriter

MC_PayloadSizes == {0, 1, 2}
MC_SblenInputs  == {0, 1, 2}
MC_RblenInputs  == {0, 1, 2}

(* The duration runs: every 3-bit stream timestamp, one-packet blocks. *)
MC_AllTimestamps == 0 .. 7
=============================================================================
