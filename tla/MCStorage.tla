----------------------------- MODULE MCStorage -----------------------------
(***************************************************************************)
(* Small instances of Storage for TLC: one content of two blocks.          *)
(***************************************************************************)
EXTENDS StorageInvariant, TLC

CONSTANTS p1, p2, s1, f1, k1

TwoBlocks == f1 :> 3
=============================================================================
