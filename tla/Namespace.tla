------------------------------ MODULE Namespace ------------------------------
(***************************************************************************)
(* The requests on names: MKCOL, the opening half of PUT, DELETE of files  *)
(* and of collections, MOVE and the naming half of COPY, as DavFs carries  *)
(* them out over the table nodes (crates/vfs/src/davfs.rs, meta.rs).       *)
(*                                                                         *)
(* A path is resolved one segment at a time, up or down, and every segment *)
(* is a turn of the metadata mutex of its own; so is every check and every *)
(* change. What a request remembers of a node is the row it read then.     *)
(*                                                                         *)
(* The contents of files are the matter of ContentStore.                   *)
(***************************************************************************)
EXTENDS MetaStore, SequencesExt

CONSTANTS
  Procs,      \* bound: requests in flight at once
  Paths       \* paths in requests, as sequences of names; <<>> is the root

ASSUME PathsAreNames == Paths \subseteq Seq(Names)

VARIABLE req   \* what each process is doing

nameVars == <<nodes, versions, req>>

Kinds == {"mkcol", "put", "rmcol", "delete", "move", "copy"}

(* A request and its local variables.                                      *)
Request == [kind     : Kinds \cup {"none"},
            pc       : {"idle", "resolve", "parent", "ancestor", "target", "create",
                        "removeCheck", "remove", "removeDirCheck", "removeDir", "rename"},
            at       : NodeIds,                \* where the walk is
            atIsDir  : BOOLEAN,
            rest     : Seq(Names),             \* segments still to walk
            to       : Seq(Names),             \* the collection to make the name in
            name     : Names \cup {RootName}, \* the name to make
            src      : NodeIds \cup {NULL},    \* node to move or copy
            srcIsDir : BOOLEAN,
            dst      : NodeIds \cup {NULL}]    \* collection to move or copy it to

Idle == [kind |-> "none", pc |-> "idle", at |-> ROOT_ID, atIsDir |-> TRUE, rest |-> <<>>,
         to |-> <<>>, name |-> RootName, src |-> NULL, srcIsDir |-> FALSE, dst |-> NULL]

At(p, pc) == req[p].pc = pc
IsKind(p, kinds) == req[p].kind \in kinds
End(p) == req' = [req EXCEPT ![p] = Idle]

NameInit == MetaInit /\ req = [p \in Procs |-> Idle]

-----------------------------------------------------------------------------
(* Requests arrive                                                         *)

\* MKCOL and PUT resolve the parent of their path; split_last has refused the root.
Make(p, kind, to, name) ==
  /\ At(p, "idle")
  /\ req' = [req EXCEPT ![p].kind = kind, ![p].pc = "parent", ![p].rest = to, ![p].name = name]
  /\ UNCHANGED metaVars

\* The others resolve a whole path first. dav-server does not move or copy
\* a resource onto its own path.
Take(p, kind, from, to, name) ==
  /\ At(p, "idle")
  /\ from # Append(to, name)
  /\ req' = [req EXCEPT ![p].kind = kind, ![p].pc = "resolve", ![p].rest = from,
                        ![p].to = to, ![p].name = name]
  /\ UNCHANGED metaVars

-----------------------------------------------------------------------------
(* Walks                                                                   *)

\* lookup_path, one lookup_child. A segment that is not there ends the
\* request, by Fail(p), like every other error.
Walk(p) ==
  /\ At(p, "resolve") \/ At(p, "parent")
  /\ req[p].rest # <<>>
  /\ \E n \in DOMAIN nodes :
       /\ IsChild(n, req[p].at, Head(req[p].rest))
       /\ req' = [req EXCEPT ![p].at = n, ![p].atIsDir = nodes[n].isDir,
                             ![p].rest = Tail(@)]
  /\ UNCHANGED metaVars

\* The source of a MOVE or a COPY is found; now for the parent of its destination.
SourceFound(p) ==
  /\ At(p, "resolve") /\ req[p].rest = <<>>
  /\ IsKind(p, {"move", "copy"})
  /\ IsKind(p, {"move"}) => req[p].at # ROOT_ID
  /\ req' = [req EXCEPT ![p].pc = "parent", ![p].src = req[p].at, ![p].srcIsDir = req[p].atIsDir,
                        ![p].at = ROOT_ID, ![p].atIsDir = TRUE, ![p].rest = req[p].to,
                        ![p].to = <<>>]
  /\ UNCHANGED metaVars

\* The victim of a DELETE is found.
VictimFound(p) ==
  /\ At(p, "resolve") /\ req[p].rest = <<>>
  /\ \/ IsKind(p, {"rmcol"}) /\ req[p].at # ROOT_ID /\ req' = [req EXCEPT ![p].pc = "removeDirCheck"]
     \/ IsKind(p, {"delete"}) /\ req' = [req EXCEPT ![p].pc = "removeCheck"]
  /\ UNCHANGED metaVars

\* (mutant) a collection is moved or copied without a look at where it goes
ParentFound_Unchecked(p) ==
  /\ At(p, "parent") /\ req[p].rest = <<>>
  /\ req[p].atIsDir
  /\ req' = [req EXCEPT ![p].dst = req[p].at,
                        ![p].pc = IF IsKind(p, {"mkcol"}) THEN "create" ELSE "target"]
  /\ UNCHANGED metaVars

\* The collection to make a name in is found. A collection is not to go below itself.
ParentFound(p) ==
  /\ At(p, "parent") /\ req[p].rest = <<>>
  /\ req[p].atIsDir
  /\ req' = [req EXCEPT ![p].dst = req[p].at,
                        ![p].pc = IF IsKind(p, {"mkcol"}) THEN "create"
                                  ELSE IF req[p].srcIsDir THEN "ancestor" ELSE "target"]
  /\ UNCHANGED metaVars

\* (mutant) the walk up does not stop at the root
Ancestor_PastRoot(p) ==
  /\ At(p, "ancestor")
  /\ req[p].at # req[p].src
  /\ req[p].at \in DOMAIN nodes
  /\ req' = [req EXCEPT ![p].at = nodes[req[p].at].parent]
  /\ UNCHANGED metaVars

\* is_ancestor_or_self, one get_node. Its bound of 10 000 turns is Fail(p).
Ancestor(p) ==
  /\ At(p, "ancestor")
  /\ req[p].at # req[p].src
  /\ req[p].at \in DOMAIN nodes
  /\ LET parent == nodes[req[p].at].parent IN
     req' = IF parent = NULL
            THEN [req EXCEPT ![p].pc = "target"]
            ELSE [req EXCEPT ![p].at = parent]
  /\ UNCHANGED metaVars

-----------------------------------------------------------------------------
(* Changes                                                                 *)

\* lookup_child of the destination. What is there already decides:
\* PUT and COPY write into a file that is there, and a COPY of a collection
\* uses a collection that is there; a MOVE replaces a file.
Target(p) ==
  LET there == {n \in DOMAIN nodes : IsChild(n, req[p].dst, req[p].name)}
      move  == IsKind(p, {"move"})
  IN
  /\ At(p, "target")
  /\ \/ /\ there = {}
        /\ req' = [req EXCEPT ![p].pc = IF move THEN "rename" ELSE "create"]
     \/ \E n \in there :
          /\ nodes[n].isDir = (IsKind(p, {"copy"}) /\ req[p].srcIsDir)
          /\ IF move THEN req' = [req EXCEPT ![p].pc = "removeCheck", ![p].at = n] ELSE End(p)
  /\ UNCHANGED metaVars

\* create_dir, create_file: fails if the name was taken meanwhile.
Create(p, id, now) ==
  /\ At(p, "create")
  /\ InsertNode(id, req[p].dst, req[p].name,
                IsKind(p, {"mkcol"}) \/ req[p].srcIsDir, now)
  /\ End(p)

\* remove_file, for DELETE and for the file a MOVE replaces: get_node ...
RemoveCheck(p) ==
  /\ At(p, "removeCheck")
  /\ req[p].at \in DOMAIN nodes
  /\ ~nodes[req[p].at].isDir
  /\ req' = [req EXCEPT ![p].pc = "remove"]
  /\ UNCHANGED metaVars

\* ... and delete_node.
RemoveFile(p) ==
  /\ At(p, "remove")
  /\ DeleteNode(req[p].at)
  /\ IF IsKind(p, {"move"}) THEN req' = [req EXCEPT ![p].pc = "rename"] ELSE End(p)

\* remove_dir: get_node, and then emptiness and deletion in one statement.
RemoveDirCheck(p) ==
  /\ At(p, "removeDirCheck")
  /\ req[p].at \in DOMAIN nodes
  /\ nodes[req[p].at].isDir
  /\ req' = [req EXCEPT ![p].pc = "removeDir"]
  /\ UNCHANGED metaVars

\* (mutant) the statement does not check for children
RemoveCollection_Full(p) ==
  /\ At(p, "removeDir")
  /\ DeleteNode(req[p].at)
  /\ End(p)

RemoveCollection(p) ==
  /\ At(p, "removeDir")
  /\ RemoveDir(req[p].at)
  /\ End(p)

MoveNode(p) ==
  /\ At(p, "rename")
  /\ Rename(req[p].src, req[p].dst, req[p].name)
  /\ End(p)

\* An error, of a check or of the disk, ends a request where it is.
Fail(p) ==
  /\ ~At(p, "idle")
  /\ End(p)
  /\ UNCHANGED metaVars

Restart ==
  /\ req' = [p \in Procs |-> Idle]
  /\ UNCHANGED metaVars

-----------------------------------------------------------------------------

Arrive(p) ==
  \/ \E kind \in {"mkcol", "put"}, to \in Paths, name \in Names : Make(p, kind, to, name)
  \/ \E kind \in Kinds \ {"mkcol", "put"}, from \in Paths, to \in Paths, name \in Names :
       Take(p, kind, from, to, name)

Find(p) == Walk(p) \/ SourceFound(p) \/ VictimFound(p) \/ ParentFound(p) \/ Ancestor(p) \/ Target(p)

Change(p) ==
  \/ \E id \in NodeIds, now \in Times : Create(p, id, now)
  \/ RemoveCheck(p) \/ RemoveFile(p)
  \/ RemoveDirCheck(p) \/ RemoveCollection(p)
  \/ MoveNode(p)

NameNext ==
  \/ \E p \in Procs : Arrive(p) \/ Find(p) \/ Change(p) \/ Fail(p)
  \/ Restart

NameSpec == NameInit /\ [][NameNext]_nameVars

-----------------------------------------------------------------------------

NameTypeOK ==
  /\ MetaTypeOK
  /\ req \in [Procs -> Request]

\* Only a move of a collection below itself takes the tree apart.
OnlyMovesUproot ==
  [][TreeIsRooted /\ ~TreeIsRooted' =>
       \E p \in Procs : /\ At(p, "rename")
                      /\ req[p].src \in DOMAIN nodes
                      /\ req[p].dst \in Subtree(req[p].src)]_nameVars

\* "Overwriting a file deletes the destination node" (davfs.rs:868), which is
\* not the node that is being moved.
MovesSpareTheirSource ==
  \A p \in Procs : At(p, "remove") /\ IsKind(p, {"move"}) => req[p].at # req[p].src

\* One request at a time, all rows are below the root (TreeIsRooted) and are a
\* tree of names: path_of, for a node, is the path that leads to it.
PathTo[n \in DOMAIN nodes] ==
  IF n = ROOT_ID THEN <<>> ELSE Append(PathTo[nodes[n].parent], nodes[n].name)

Resources ==
  LET located == {<<PathTo[n], n>> : n \in DOMAIN nodes} IN
  [path \in {r[1] : r \in located} |->
     LET id == (CHOOSE r \in located : r[1] = path)[2]
     IN [id |-> id, isDir |-> nodes[id].isDir]]

TreePaths == BoundedSeq(Names, Cardinality(NodeIds) - 1)

Tree == INSTANCE NameTree WITH Paths <- TreePaths, Ids <- NodeIds, tree <- Resources

ImplementsNameTree == Tree!TreeSpec
=============================================================================
