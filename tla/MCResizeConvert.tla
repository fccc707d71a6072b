---------------------------- MODULE MCResizeConvert ----------------------------
(***************************************************************************)
(* ResizeConvert for TLC: the Marks, the callers and the queues may each   *)
(* be permuted, since no definition tells one from another.                *)
(***************************************************************************)
EXTENDS ResizeConvert, TLC

DeviceSymmetry ==
  Permutations(Marks) \union Permutations(Callers) \union Permutations(Queues)
=============================================================================
