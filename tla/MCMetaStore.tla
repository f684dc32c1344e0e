----------------------------- MODULE MCMetaStore -----------------------------
(***************************************************************************)
(* MetaStore with small tables for TLC: the root and a few nodes, enough   *)
(* versions for two of them to have a history with a gap, and manifests    *)
(* that differ in size.                                                    *)
(***************************************************************************)
EXTENDS MetaStore, TLC

CONSTANTS x, a, b, MaxNode, MaxVersion

MCNodeIds == 1..MaxNode
MCVersionIds == 1..MaxVersion
MCManifests == {<<>>, <<x>>}
MCNames == {a, b}
Symmetry == Permutations({a, b})
=============================================================================
