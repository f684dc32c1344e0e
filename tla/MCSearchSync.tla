---------------------------- MODULE MCSearchSync ----------------------------
(***************************************************************************)
(* SearchSync for TLC: two names that are indexed and one that is not, and *)
(* two contents, one at the cap and one above it, so that an update of the *)
(* index that works with a stale content shows as a document too many or   *)
(* too few.                                                                *)
(***************************************************************************)
EXTENDS SearchSync, TLC

CONSTANTS x, a, b, c, MaxNode, MaxVersion

MCNodeIds == 1..MaxNode
MCVersionIds == 1..MaxVersion
MCManifests == {<<>>, <<x>>}
MCNames == {a, b, c}
MCIndexable == {a, b}

\* Requests are alike, and so are a and b.
Symmetry == Permutations(Procs) \cup Permutations({a, b})

=============================================================================
