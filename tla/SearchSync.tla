----------------------------- MODULE SearchSync -----------------------------
(***************************************************************************)
(* How the search index follows the files: Inner::reindex after every      *)
(* write, Inner::deindex after every delete, MOVE without either, over     *)
(* the metadata store and the index (crates/vfs/src/davfs.rs, file.rs;     *)
(* crates/index/src/lib.rs).                                               *)
(*                                                                         *)
(* Files are in the root collection. A write starts here where its content *)
(* is recorded: what comes before is the matter of ContentStore. The text  *)
(* of a document stands for the content it was made from.                  *)
(***************************************************************************)
EXTENDS MetaStore

CONSTANTS
  Procs,          \* bound: requests in flight at once
  Indexable,      \* the names is_indexable_name accepts
  MAX_INDEX_SIZE, \* the cap on indexed content, in chunks
  Faults,         \* may index updates fail, and the server stop?
  MaxSpoiled      \* bound: node ids the index may be wrong about at once

ASSUME SearchConstants ==
  /\ Indexable \subseteq Names
  /\ MAX_INDEX_SIZE \in Nat
  /\ Faults \in BOOLEAN
  /\ MaxSpoiled \in Nat

VARIABLES
  index,    \* what a search sees: node id -> text
  staged,   \* the same with what is not committed yet
  proc,     \* what each process is doing
  mixed,    \* not in the code: node ids that two requests have worked on at once
  behind    \* not in the code: node ids with an update that failed, was lost or is
            \* not made, until one is committed

ghosts == <<mixed, behind>>
searchVars == <<nodes, versions, index, staged, proc, ghosts>>

Local == [pc     : {"idle", "record", "look", "load", "index", "drop", "commit",
                    "delete", "target", "rename"},
          node   : NodeIds \cup {NULL},       \* node to write, delete or (de)index
          listed : BOOLEAN,                   \* its name, when resolved, was indexable
          text   : Manifests,                 \* text to index
          src    : NodeIds \cup {NULL},       \* node to move, once node is out of the way
          name   : Names \cup {RootName}]     \* and the name to move it to

Idle == [pc |-> "idle", node |-> NULL, listed |-> FALSE, text |-> <<>>, src |-> NULL,
         name |-> RootName]

At(p, pc) == proc[p].pc = pc
Goto(p, pc) == proc' = [proc EXCEPT ![p].pc = pc]
End(p) == proc' = [proc EXCEPT ![p] = Idle]

\* An index update is over: a MOVE goes on, everything else is done.
Updated(p) ==
  IF proc[p].src = NULL THEN End(p)
  ELSE proc' = [proc EXCEPT ![p].pc = "rename", ![p].node = NULL, ![p].listed = FALSE]

\* What try_reindex indexes: files with content and an indexable name.
IsTextFile(n) == ~nodes[n].isDir /\ nodes[n].current # NULL /\ nodes[n].name \in Indexable

SearchInit ==
  /\ MetaInit
  /\ index = [n \in {} |-> <<>>]
  /\ staged = index
  /\ proc = [p \in Procs |-> Idle]
  /\ mixed = {}
  /\ behind = {}

-----------------------------------------------------------------------------
(* Writes                                                                  *)

\* open: the file is there, or is created.
Open(p, name, now) ==
  /\ At(p, "idle")
  /\ \/ \E n \in DOMAIN nodes :
          /\ IsChild(n, ROOT_ID, name)
          /\ proc' = [proc EXCEPT ![p].pc = "record", ![p].node = n]
          /\ UNCHANGED metaVars
     \/ \E id \in NodeIds :
          /\ InsertNode(id, ROOT_ID, name, FALSE, now)
          /\ proc' = [proc EXCEPT ![p].pc = "record", ![p].node = id]
  /\ UNCHANGED <<index, staged>>

\* set_file_content, by a PUT, a COPY or a revert.
Record(p, m, now) ==
  /\ At(p, "record")
  /\ SetFileContent(proc[p].node, m, now)
  /\ Goto(p, "look")
  /\ UNCHANGED <<index, staged>>

\* try_reindex: get_node. Nothing is done for a node that is gone or is no text file.
ReindexLook(p) ==
  LET n == proc[p].node IN
  /\ At(p, "look")
  /\ IF n \notin DOMAIN nodes \/ ~IsTextFile(n) THEN End(p)
     ELSE Goto(p, IF nodes[n].size > MAX_INDEX_SIZE THEN "drop" ELSE "load")
  /\ UNCHANGED <<metaVars, index, staged>>

\* load_manifest, in another turn of the mutex; then the blobs are read.
ReindexLoad(p) ==
  LET n == proc[p].node IN
  /\ At(p, "load")
  /\ IF n \notin DOMAIN nodes \/ IsCorrupt(n) THEN End(p)
     ELSE proc' = [proc EXCEPT ![p].pc = "index", ![p].text = LoadManifest(n)]
  /\ UNCHANGED <<metaVars, index, staged>>

IndexDocument(p) ==
  /\ At(p, "index")
  /\ staged' = PutRow(staged, proc[p].node, proc[p].text)
  /\ proc' = [proc EXCEPT ![p].pc = "commit", ![p].text = <<>>]
  /\ UNCHANGED <<metaVars, index>>

-----------------------------------------------------------------------------
(* Deletes and moves                                                       *)

\* remove_file resolves its path; the row it read decides about the index.
DeleteStart(p, n) ==
  /\ At(p, "idle")
  /\ n \in DOMAIN nodes \ {ROOT_ID}
  /\ proc' = [proc EXCEPT ![p].pc = "delete", ![p].node = n,
                          ![p].listed = nodes[n].name \in Indexable]
  /\ UNCHANGED <<metaVars, index, staged>>

\* rename resolves its source, ...
MoveStart(p, n, name) ==
  /\ At(p, "idle")
  /\ n \in DOMAIN nodes \ {ROOT_ID}
  /\ name # nodes[n].name
  /\ proc' = [proc EXCEPT ![p].pc = "target", ![p].src = n, ![p].name = name]
  /\ UNCHANGED <<metaVars, index, staged>>

\* ... and looks for a file to overwrite.
MoveTarget(p) ==
  /\ At(p, "target")
  /\ \/ /\ ~NameTaken(ROOT_ID, proc[p].name)
        /\ Goto(p, "rename")
     \/ \E n \in DOMAIN nodes :
          /\ IsChild(n, ROOT_ID, proc[p].name)
          /\ proc' = [proc EXCEPT ![p].pc = "delete", ![p].node = n,
                                  ![p].listed = nodes[n].name \in Indexable]
  /\ UNCHANGED <<metaVars, index, staged>>

\* (mutant) a delete leaves the index alone
Delete_NoDeindex(p) ==
  /\ At(p, "delete")
  /\ DeleteNode(proc[p].node)
  /\ Updated(p)
  /\ UNCHANGED <<index, staged>>

\* remove_file of the store, then the document, if the file could have had one.
Delete(p) ==
  /\ At(p, "delete")
  /\ DeleteNode(proc[p].node)
  /\ IF proc[p].listed THEN Goto(p, "drop") ELSE Updated(p)
  /\ UNCHANGED <<index, staged>>

MoveFile(p) ==
  /\ At(p, "rename")
  /\ Rename(proc[p].src, ROOT_ID, proc[p].name)
  /\ End(p)
  /\ UNCHANGED <<index, staged>>

\* A request is refused, or fails before it has changed a thing.
Refuse(p) ==
  /\ proc[p].pc \in {"record", "delete", "target", "rename"}
  /\ End(p)
  /\ UNCHANGED <<metaVars, index, staged>>

-----------------------------------------------------------------------------
(* The index                                                               *)

RemoveDocument(p) ==
  /\ At(p, "drop")
  /\ staged' = DropRows(staged, {proc[p].node})
  /\ Goto(p, "commit")
  /\ UNCHANGED <<metaVars, index>>

\* A commit publishes whatever is staged, its own changes and those of others.
CommitIndex(p) ==
  /\ At(p, "commit")
  /\ index' = staged
  /\ Updated(p)
  /\ UNCHANGED <<metaVars, staged>>

Updating(p) == proc[p].pc \in {"look", "load", "index", "drop", "commit"}

\* An update that fails is logged, and the request goes on as if it had not.
IndexFault(p) ==
  /\ Faults
  /\ Updating(p)
  /\ Updated(p)
  /\ UNCHANGED <<metaVars, index, staged>>

\* The server stops and starts again: what was not committed is not there.
Restart ==
  /\ Faults
  /\ staged' = index
  /\ proc' = [p \in Procs |-> Idle]
  /\ UNCHANGED <<metaVars, index>>

-----------------------------------------------------------------------------

WriteNext(p) ==
  \/ \E name \in Names, now \in Times : Open(p, name, now)
  \/ \E m \in Manifests, now \in Times : Record(p, m, now)
  \/ ReindexLook(p) \/ ReindexLoad(p) \/ IndexDocument(p)

NameNext(p) ==
  \/ \E n \in NodeIds : DeleteStart(p, n)
  \/ \E n \in NodeIds, name \in Names : MoveStart(p, n, name)
  \/ MoveTarget(p) \/ Delete(p) \/ Refuse(p)

\* Node ids that more than one request works on.
Uses(p) == {proc[p].node, proc[p].src} \ {NULL}
Shared == UNION {UNION {Uses(p) \cap Uses(q) : q \in Procs \ {p}} : p \in Procs}

\* A MOVE that makes a file indexed or stops it from being so updates no index.
Overlooked(p) == {n \in {proc[p].src} : (nodes[n].name \in Indexable) # (proc[p].name \in Indexable)}

\* What a restart cuts off.
CutOff == {proc[p].node : p \in {q \in Procs : Updating(q)}}

SearchNext ==
  /\ \/ \E p \in Procs :
          \/ (WriteNext(p) \/ NameNext(p) \/ RemoveDocument(p)) /\ UNCHANGED behind
          \/ MoveFile(p) /\ behind' = behind \cup Overlooked(p)
          \/ CommitIndex(p) /\ behind' = behind \ {proc[p].node}
          \/ IndexFault(p) /\ behind' = behind \cup {proc[p].node}
     \/ Restart /\ behind' = behind \cup CutOff
  /\ mixed' = mixed \cup Shared'
  /\ Cardinality(mixed' \cup behind') <= MaxSpoiled

SearchSpec == SearchInit /\ [][SearchNext]_searchVars

-----------------------------------------------------------------------------

SearchTypeOK ==
  /\ MetaTypeOK
  /\ index \in [DOMAIN index -> Manifests] /\ DOMAIN index \subseteq NodeIds
  /\ staged \in [DOMAIN staged -> Manifests] /\ DOMAIN staged \subseteq NodeIds
  /\ proc \in [Procs -> Local]
  /\ mixed \cup behind \subseteq NodeIds

Quiet == \A p \in Procs : At(p, "idle")

Candidate(n) == n \in DOMAIN nodes /\ IsTextFile(n) /\ nodes[n].size <= MAX_INDEX_SIZE

\* What a search finds of n is what it should find.
Fresh(n) ==
  IF Candidate(n) THEN n \in DOMAIN index /\ index[n] = LoadManifest(n) ELSE n \notin DOMAIN index

\* When nothing is under way, the index holds the content of every text file
\* and nothing else, for every id that no two requests worked on at once: though
\* requests share the writer and publish each other's changes, those on different
\* files do not disturb each other. And an update repairs whatever is behind: by
\* a failure, a restart or a MOVE before, of this file or of one that had its id.
SearchIsFresh == Quiet => \A n \in NodeIds \ (mixed \cup behind) : Fresh(n)
=============================================================================
