--------------------------- MODULE MCDebugHistory ---------------------------
(* Small instances of DebugHistory for TLC.  Nothing in it tells the values of *)
(* a byte, or the states of a device, apart but by equality.                   *)
EXTENDS DebugHistory

DataSymmetry == Permutations(Bytes) \cup Permutations(Devices)
=============================================================================
