---------------------------- MODULE MCNamespace ----------------------------
(***************************************************************************)
(* Namespace for TLC: two names, and paths up to a bound.                  *)
(***************************************************************************)
EXTENDS Namespace, TLC

CONSTANTS a, b, MaxNode, MaxPath

MCNodeIds == 1..MaxNode
MCNames == {a, b}
MCManifests == {<<>>}
MCPaths == BoundedSeq(MCNames, MaxPath)
Symmetry == Permutations({a, b}) \cup Permutations(Procs)
=============================================================================
