--------------------------- MODULE MCContentStore ---------------------------
(***************************************************************************)
(* ContentStore for TLC: two requests in flight, two names, and manifests  *)
(* that are empty, share a chunk or do not, or of one chunk at most.       *)
(***************************************************************************)
EXTENDS ContentStore, TLC

CONSTANTS x, y, a, b, p1, MaxNode, MaxVersion

MCNodeIds == 1..MaxNode
MCVersionIds == 1..MaxVersion
MCManifests == {<<>>, <<x>>, <<x, y>>}
MCShortManifests == {<<>>, <<x>>}
MCNames == {a, b}
Symmetry == Permutations(MCNames) \cup Permutations(Procs)

\* RequestsEnd of one request, which stands for all: they are alike, and the
\* others are as free as it is. To watch both takes TLC twice the time.
WatchedEnds == RequestEnds(p1)
=============================================================================
