------------------------------ MODULE NameTree ------------------------------
(***************************************************************************)
(* What a tree of names promises, without rows, ids of parents or walks: a *)
(* path names at most one resource, everything is in a collection that is  *)
(* there, a collection is only deleted empty, and a move takes the very    *)
(* same resources along and never a collection below itself.               *)
(*                                                                         *)
(* Namespace, one request at a time, implements this module.               *)
(***************************************************************************)
EXTENDS Naturals, Sequences

CONSTANTS
  Paths,   \* sequences of names; the root is <<>>
  Ids      \* identities of resources; one can be used again

VARIABLE tree   \* path -> [id, isDir]

Resource == [id : Ids, isDir : BOOLEAN]

ParentOf(path) == SubSeq(path, 1, Len(path) - 1)

\* At path or below it, and what is left of such a path.
Within(path, q) == Len(q) >= Len(path) /\ SubSeq(q, 1, Len(path)) = path
Rest(path, q) == SubSeq(q, Len(path) + 1, Len(q))

\* A free path in a collection.
Accepts(path) ==
  /\ path \notin DOMAIN tree
  /\ path # <<>>
  /\ ParentOf(path) \in DOMAIN tree
  /\ tree[ParentOf(path)].isDir

TreeInit == \E id \in Ids : tree = [q \in {<<>>} |-> [id |-> id, isDir |-> TRUE]]

\* At a path that accepts it.
Make(path, id, isDir) ==
  /\ \A q \in DOMAIN tree : tree[q].id # id
  /\ tree' = [q \in DOMAIN tree \cup {path} |->
                IF q = path THEN [id |-> id, isDir |-> isDir] ELSE tree[q]]

Remove(path) ==
  /\ path # <<>>
  /\ \A q \in DOMAIN tree : Within(path, q) => q = path
  /\ tree' = [q \in DOMAIN tree \ {path} |-> tree[q]]

Move(from, to) ==
  /\ from # <<>>
  /\ ~Within(from, to)
  /\ LET moved == {q \in DOMAIN tree : Within(from, q)} IN
     tree' = [q \in (DOMAIN tree \ moved) \cup {to \o Rest(from, r) : r \in moved} |->
                IF Within(to, q) THEN tree[from \o Rest(to, q)] ELSE tree[q]]

TreeNext ==
  /\ tree' # tree
  /\ \/ \E path \in Paths :
          /\ Accepts(path)
          /\ \/ \E id \in Ids, isDir \in BOOLEAN : Make(path, id, isDir)
             \/ \E from \in DOMAIN tree : Move(from, path)
     \/ \E path \in DOMAIN tree : Remove(path)

TreeSpec == TreeInit /\ [][TreeNext]_tree
=============================================================================
