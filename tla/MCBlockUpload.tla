--------------------------- MODULE MCBlockUpload ---------------------------
(***************************************************************************)
(* Small instances of BlockUpload for TLC.                                 *)
(***************************************************************************)
EXTENDS BlockUploadInvariant, TLC

CONSTANTS p1, p2, p3, f1, k1

TwoProcs == {p1, p2}
ThreeProcs == {p1, p2, p3}

\* f1 has two blocks, the second one short.
OneSize == (f1 :> 3)

\* The points where a fault leaves nothing half-made behind.
SafeKills == Labels \ {"idle", "insert", "close", "copy", "purge", "flush"}
SafeRestarts == Labels \ {"copy", "purge", "flush"}
AllKills == Labels \ {"idle"}

Symmetry == Permutations(Procs)
=============================================================================
