------------------------------ MODULE MCSearch ------------------------------
(***************************************************************************)
(* Search for TLC: up to three nodes below the root, in every arrangement  *)
(* their names allow, those out of reach below each other among them.      *)
(***************************************************************************)
EXTENDS Search, TLC

CONSTANTS a, b, MaxNode

MCNodeIds == 1 .. MaxNode
MCNames == {a, b}
MCManifests == {<<>>}
MCScopes == {<<>>, <<a>>, <<a, b>>}

Row(parent, name, isDir) ==
  [parent |-> parent, name |-> name, isDir |-> isDir, size |-> 0, modified |-> 1, current |-> NULL]

Root == ROOT_ID :> Row(NULL, RootName, TRUE)

\* The last node is a file, the others are collections.
Arrangements(ids) ==
  {[n \in ids |-> Row(parent[n], name[n], n < MaxNode)] :
     parent \in [ids -> (ids \cup {ROOT_ID}) \ {MaxNode}], name \in [ids -> MCNames]}

MCTables ==
  {[nodes |-> rows @@ Root, versions |-> [v \in {} |-> 0]] :
     rows \in {t \in UNION {Arrangements(ids) : ids \in SUBSET (2 .. MaxNode)} :
                 \A m, n \in DOMAIN t : t[m].parent = t[n].parent /\ t[m].name = t[n].name => m = n}}
=============================================================================
