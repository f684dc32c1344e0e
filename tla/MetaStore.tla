------------------------------ MODULE MetaStore ------------------------------
(***************************************************************************)
(* The metadata store (crates/vfs/src/meta.rs): the SQLite tables nodes,   *)
(* versions and version_chunks behind one mutex. Every method that takes   *)
(* the mutex once, or runs in one transaction, is one atomic action here.  *)
(*                                                                         *)
(* A table is a function from the ids of its rows to the rows. The rows of *)
(* version_chunks are the field `chunks` of the version they belong to:    *)
(* they are written and cascaded away with it. A manifest is the sequence  *)
(* of its chunk hashes, each chunk one unit long.                          *)
(***************************************************************************)
EXTENDS Integers, Sequences, FiniteSets, Functions

CONSTANTS
  NodeIds,      \* bound: row ids of nodes
  VersionIds,   \* bound: row ids of versions
  Names,        \* names of nodes other than the root
  Chunks,       \* hashes of chunks
  Manifests,    \* chunk lists a file can be given
  Times         \* values of the clock

ROOT_ID == 1
NULL == 0       \* SQL NULL in parent_id and in current_version_id
RootName == ""

ASSUME MetaConstants ==
  /\ NodeIds \subseteq Nat \ {NULL}
  /\ ROOT_ID \in NodeIds
  /\ VersionIds \subseteq Nat \ {NULL}
  /\ Manifests \subseteq Seq(Chunks)
  /\ <<>> \in Manifests
  /\ Times # {}

VARIABLES nodes, versions
metaVars == <<nodes, versions>>

NodeRow == [parent : NodeIds \cup {NULL}, name : Names \cup {RootName}, isDir : BOOLEAN,
            size : Nat, modified : Times, current : VersionIds \cup {NULL}]

VersionRow == [node : NodeIds, number : Nat \ {0}, chunks : Manifests]

-----------------------------------------------------------------------------
(* Reading the tables *)

\* MAX + 1: what SQLite gives the next row of a table without AUTOINCREMENT,
\* so that the id of a deleted newest row is used again.
NextRowId(S) == {n \in {k + 1 : k \in S \cup {0}} : \A k \in S : k < n}

PutRow(table, id, row) ==
  [i \in DOMAIN table \cup {id} |-> IF i = id THEN row ELSE table[i]]

DropRows(table, gone) == Restrict(table, DOMAIN table \ gone)

IsChild(n, parent, name) ==
  /\ n \in DOMAIN nodes
  /\ nodes[n].parent = parent
  /\ nodes[n].name = name

NameTaken(parent, name) == \E n \in DOMAIN nodes : IsChild(n, parent, name)

VersionsOf(id) == {v \in DOMAIN versions : versions[v].node = id}

\* (mutant) MAX without the + 1
NextNumber_Max(id) ==
  {n \in {0} \cup {versions[v].number : v \in VersionsOf(id)} :
     \A v \in VersionsOf(id) : versions[v].number <= n}

\* (mutant) COUNT(*) + 1
NextNumber_Count(id) == {Cardinality(VersionsOf(id)) + 1}

\* COALESCE(MAX(number), 0) + 1
NextNumber(id) == NextRowId({versions[v].number : v \in VersionsOf(id)})

\* The chunks of a version row; no rows at all read as an empty manifest.
ReadManifest(vid) == IF vid \in DOMAIN versions THEN versions[vid].chunks ELSE <<>>

\* A node whose current version is set but missing is reported as corrupt.
IsCorrupt(id) == nodes[id].current # NULL /\ nodes[id].current \notin DOMAIN versions

LoadManifest(id) == IF nodes[id].current = NULL THEN <<>> ELSE ReadManifest(nodes[id].current)

\* The node and everything below it: what ON DELETE CASCADE removes with it.
Subtree(id) ==
  {n \in DOMAIN nodes :
     \A S \in SUBSET DOMAIN nodes :
       (id \in S /\ \A m \in DOMAIN nodes : nodes[m].parent \in S => m \in S) => n \in S}

-----------------------------------------------------------------------------
(* Initial tables and the statements that change them *)

MetaInit ==
  /\ \E now \in Times :
       nodes = [i \in {ROOT_ID} |-> [parent |-> NULL, name |-> RootName, isDir |-> TRUE,
                                     size |-> 0, modified |-> now, current |-> NULL]]
  /\ versions = [v \in {} |-> 0]

InsertNode(id, parent, name, isDir, now) ==
  /\ parent \in DOMAIN nodes
  /\ ~NameTaken(parent, name)
  /\ id \in NextRowId(DOMAIN nodes)
  /\ nodes' = PutRow(nodes, id, [parent |-> parent, name |-> name, isDir |-> isDir,
                                 size |-> 0, modified |-> now, current |-> NULL])
  /\ UNCHANGED versions

\* (mutant) no deduplication
SameContent_Never(id, m) == FALSE

\* The content is the current content already: no version, same mtime.
SameContent(id, m) == nodes[id].current # NULL /\ ReadManifest(nodes[id].current) = m

\* (mutant) the size cache is forgotten
AppendVersion_StaleSize(id, m, now) ==
  \E vid \in NextRowId(DOMAIN versions) \cap VersionIds, number \in NextNumber(id) :
    /\ versions' = PutRow(versions, vid, [node |-> id, number |-> number, chunks |-> m])
    /\ nodes' = [nodes EXCEPT ![id].current = vid, ![id].modified = now]

AppendVersion(id, m, now) ==
  \E vid \in NextRowId(DOMAIN versions) \cap VersionIds, number \in NextNumber(id) :
    /\ versions' = PutRow(versions, vid, [node |-> id, number |-> number, chunks |-> m])
    /\ nodes' = [nodes EXCEPT ![id].current = vid, ![id].size = Len(m), ![id].modified = now]

SetFileContent(id, m, now) ==
  /\ id \in DOMAIN nodes
  /\ IF SameContent(id, m) THEN UNCHANGED metaVars ELSE AppendVersion(id, m, now)

\* (mutant) the current version can be pruned
DeleteVersion_Current(id, number) ==
  /\ id \in DOMAIN nodes
  /\ \E v \in VersionsOf(id) :
       /\ versions[v].number = number
       /\ versions' = DropRows(versions, {v})
  /\ UNCHANGED nodes

\* (mutant) pruning the current version makes the one before it current
DeleteVersion_Repoint(id, number) ==
  /\ id \in DOMAIN nodes
  /\ \E v \in VersionsOf(id), w \in VersionsOf(id) :
       /\ versions[v].number = number /\ versions[w].number < number
       /\ versions' = DropRows(versions, {v})
       /\ nodes' = [nodes EXCEPT ![id].current = w, ![id].size = Len(versions[w].chunks)]

DeleteVersion(id, number) ==
  /\ id \in DOMAIN nodes
  /\ \E v \in VersionsOf(id) :
       /\ versions[v].number = number
       /\ nodes[id].current # v
       /\ versions' = DropRows(versions, {v})
  /\ UNCHANGED nodes

\* (mutant) PRAGMA foreign_keys left OFF: nothing cascades
DeleteNode_NoCascade(id) ==
  /\ id \in DOMAIN nodes
  /\ nodes' = DropRows(nodes, {id})
  /\ UNCHANGED versions

DeleteNode(id) ==
  /\ id \in DOMAIN nodes
  /\ nodes' = DropRows(nodes, Subtree(id))
  /\ versions' = DropRows(versions, {v \in DOMAIN versions : versions[v].node \in Subtree(id)})

\* One statement checks that nothing lives below and deletes.
RemoveDir(id) ==
  /\ \A n \in DOMAIN nodes : nodes[n].parent # id
  /\ DeleteNode(id)

\* (mutant) a move sets the modification time
Rename_Touch(id, parent, name) ==
  /\ id \in DOMAIN nodes
  /\ parent \in DOMAIN nodes
  /\ \A n \in DOMAIN nodes \ {id} : ~IsChild(n, parent, name)
  /\ \E now \in Times :
       nodes' = [nodes EXCEPT ![id].parent = parent, ![id].name = name, ![id].modified = now]
  /\ UNCHANGED versions

Rename(id, parent, name) ==
  /\ id \in DOMAIN nodes
  /\ parent \in DOMAIN nodes
  /\ \A n \in DOMAIN nodes \ {id} : ~IsChild(n, parent, name)
  /\ nodes' = [nodes EXCEPT ![id].parent = parent, ![id].name = name]
  /\ UNCHANGED versions

SetModified(id, tm) ==
  /\ id \in DOMAIN nodes
  /\ nodes' = [nodes EXCEPT ![id].modified = tm]
  /\ UNCHANGED versions

-----------------------------------------------------------------------------
(* Any sequence of calls. The callers refuse to move, delete or write the   *)
(* root. Whatever else they check of a node they check before the call, in *)
(* another turn of the mutex, and by then the id may be another node's.    *)

MetaNext ==
  \/ \E id \in NodeIds, parent \in DOMAIN nodes, name \in Names, isDir \in BOOLEAN, now \in Times :
       InsertNode(id, parent, name, isDir, now)
  \/ \E id \in DOMAIN nodes \ {ROOT_ID}, m \in Manifests, now \in Times : SetFileContent(id, m, now)
  \/ \E v \in DOMAIN versions : DeleteVersion(versions[v].node, versions[v].number)
  \/ \E id \in DOMAIN nodes \ {ROOT_ID} : DeleteNode(id)
  \/ \E id \in DOMAIN nodes \ {ROOT_ID} : RemoveDir(id)
  \/ \E id \in DOMAIN nodes \ {ROOT_ID}, parent \in DOMAIN nodes, name \in Names :
       Rename(id, parent, name)
  \/ \E id \in DOMAIN nodes, tm \in Times : SetModified(id, tm)

MetaSpec == MetaInit /\ [][MetaNext]_metaVars

-----------------------------------------------------------------------------
(* Ways down from the root: the rows that lookup_path reads, for what is   *)
(* said of paths                                                           *)

\* Where a way is after i rows.
Stop(way, i) == IF i = 0 THEN ROOT_ID ELSE way[i]

EndOf(way) == Stop(way, Len(way))

\* The ways of n rows, each a child of the one before.
Ways(n) ==
  {way \in [1 .. n -> DOMAIN nodes] : \A i \in 1 .. n : nodes[way[i]].parent = Stop(way, i - 1)}

NamesAlong(way) == [i \in DOMAIN way |-> nodes[way[i]].name]

\* The nodes a path leads to: none or one.
Leads(path) == {EndOf(way) : way \in {w \in Ways(Len(path)) : NamesAlong(w) = path}}

-----------------------------------------------------------------------------
(* What holds of the tables *)

\* The rows are rows of the schema.
MetaTypeOK ==
  /\ nodes \in [DOMAIN nodes -> NodeRow]
  /\ DOMAIN nodes \subseteq NodeIds
  /\ ROOT_ID \in DOMAIN nodes
  /\ versions \in [DOMAIN versions -> VersionRow]
  /\ DOMAIN versions \subseteq VersionIds

\* The foreign keys, and the one pointer that is not a foreign key: whatever
\* is deleted, and whichever row ids are used again, a parent is alive, a
\* version belongs to a live node, and current_version_id is a version of its
\* own node, so that load_manifest never answers Corrupt (meta.rs:149).
ReferentialIntegrity ==
  /\ \A n \in DOMAIN nodes \ {ROOT_ID} : nodes[n].parent \in DOMAIN nodes
  /\ \A v \in DOMAIN versions : versions[v].node \in DOMAIN nodes
  /\ \A n \in DOMAIN nodes : nodes[n].current # NULL => nodes[n].current \in VersionsOf(n)

\* A path names one node: siblings have different names (idx_nodes_parent_name).
UniqueNames ==
  \A m, n \in DOMAIN nodes :
    nodes[m].parent = nodes[n].parent /\ nodes[m].name = nodes[n].name => m = n

\* ?version=N names one version, and the current version is the one with the
\* highest number, whatever has been pruned in between (docs/specs/0002). A
\* node without a current version has no version at all.
CurrentIsHighest ==
  \A n \in DOMAIN nodes : \A v \in VersionsOf(n) :
    /\ nodes[n].current \in VersionsOf(n)
    /\ versions[v].number <= versions[nodes[n].current].number
    /\ v # nodes[n].current => versions[v].number # versions[nodes[n].current].number

\* No two versions of a node share a number (UNIQUE (node_id, number)), so
\* set_file_content never fails on the constraint.
UniqueNumbers ==
  \A v, w \in DOMAIN versions :
    versions[v].node = versions[w].node /\ versions[v].number = versions[w].number => v = w

\* nodes.size, kept beside the versions so that PROPFIND need not read them,
\* is the size of the content a GET would return (meta.rs:327).
SizeCache == \A n \in DOMAIN nodes : nodes[n].size = Len(LoadManifest(n))

\* A node that lives on never loses its content, its current number never goes
\* back, and a number is never used again for other content: the identity
\* ?version=N gives out stays good across prunes, reverts and re-PUTs.
NumbersAreStable ==
  [][\A n \in DOMAIN nodes \cap DOMAIN nodes' :
       nodes[n].current # NULL =>
         /\ nodes'[n].current # NULL
         /\ versions'[nodes'[n].current].number >= versions[nodes[n].current].number
         /\ \A v \in DOMAIN versions' :
              versions'[v].node = n /\ versions'[v].number <= versions[nodes[n].current].number
                => v \in DOMAIN versions /\ versions[v] = versions'[v]]_metaVars

\* Everything is below the root, so nothing is lost behind a parent cycle
\* (davfs.rs:847, meta.rs:484).
TreeIsRooted == Subtree(ROOT_ID) = DOMAIN nodes

\* The schema does not see parent cycles, and row ids are used again; yet of
\* all the calls, in any order, a cascade included, only the move of a node
\* below itself can lose nodes from under the root (meta.rs:484).
MovesAloneUproot ==
  [][TreeIsRooted /\ ~TreeIsRooted' =>
       \E id \in DOMAIN nodes : \E parent \in Subtree(id), name \in Names :
         Rename(id, parent, name)]_metaVars

\* Last-Modified and ETag outlive a move, a prune and a PUT of the same bytes:
\* only new content and PROPPATCH touch a node's modification time (meta.rs:514).
ModifiedIsEarned ==
  [][\A n \in DOMAIN nodes \cap DOMAIN nodes' :
       nodes'[n].modified # nodes[n].modified =>
         \/ nodes'[n].current # nodes[n].current
         \/ \E tm \in Times : SetModified(n, tm)]_metaVars

\* The tables keep the promise of VersionHistory. The highest number is read
\* off the current version, which is why the current version is never pruned.
History(n) ==
  [last |-> IF nodes[n].current = NULL THEN 0 ELSE versions[nodes[n].current].number,
   kept |-> [k \in {versions[v].number : v \in VersionsOf(n)} |->
               versions[CHOOSE v \in VersionsOf(n) : versions[v].number = k].chunks]]

Hist == INSTANCE VersionHistory
  WITH Files <- NodeIds, Contents <- Manifests, hist <- [n \in DOMAIN nodes |-> History(n)]

ImplementsVersionHistory == Hist!HistSpec
=============================================================================
