---------------------------- MODULE MCBlobCommit ----------------------------
(***************************************************************************)
(* BlobCommit for TLC.                                                     *)
(***************************************************************************)
EXTENDS BlobCommit, TLC

Symmetry == Permutations(Chunks) \cup Permutations(Writers)
=============================================================================
