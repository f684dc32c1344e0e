--------------------------- MODULE MCVersionStream ---------------------------
(***************************************************************************)
(* VersionStream for TLC: one download beside one other request at a time. *)
(***************************************************************************)
EXTENDS VersionStream, TLC

CONSTANTS x, y, z, a, MaxNode, MaxVersion

MCNodeIds == 1..MaxNode
MCVersionIds == 1..MaxVersion
MCManifests == {<<>>, <<x, y>>, <<y, z>>}
=============================================================================
