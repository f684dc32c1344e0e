---------------------------- MODULE ContentStore ----------------------------
(***************************************************************************)
(* The requests that write, reference, drop and reclaim content: PUT, COPY *)
(* of a file, revert, prune, DELETE and garbage collection, as DavFs and   *)
(* FileHandle carry them out over the metadata store and the blob store    *)
(* (crates/vfs/src/davfs.rs, file.rs; crates/blobstore/src/lib.rs).        *)
(*                                                                         *)
(* Each request runs in a process of its own (a tokio task and its         *)
(* spawn_blocking thread). One turn of the metadata mutex, one blob put in *)
(* place or removed, and one acquisition of Inner::gc_lock are atomic;     *)
(* anything may happen between two of them. Any call may fail with an I/O  *)
(* or SQLite error, which ends the request and drops its guard, and the    *)
(* whole server may stop and start again.                                  *)
(*                                                                         *)
(* Files live in the root collection here: the tree is another matter.     *)
(***************************************************************************)
EXTENDS MetaStore

CONSTANT Procs    \* bound: requests in flight at once

VARIABLES
  blobs,    \* hashes of the blobs on disk
  proc      \* what each process is doing

contentVars == <<nodes, versions, blobs, proc>>

(* The local variables of a request; one that is not needed any more is    *)
(* reset. `asked` is not in the code: a revert keeps in it what the        *)
(* version held when the client's number was resolved.                     *)
Local == [pc      : {"idle", "putCreate", "putLock", "putCheck",
                     "copyTo", "copyCreate", "copyLock", "copyLoad",
                     "revertFind", "revertLock", "revertLoad", "writing",
                     "prune", "deleteCheck", "delete",
                     "gcLock", "mark", "list", "sweep"},
          name    : Names \cup {RootName},         \* destination name
          node    : NodeIds \cup {NULL},           \* node resolved for the request
          src     : NodeIds \cup VersionIds \cup {NULL},  \* node copied, or version reverted to
          written : BOOLEAN,                       \* the copied node had a version
          m       : Manifests,                     \* manifest to record
          todo    : SUBSET Chunks,                 \* chunks to store, or blobs to sweep
          live    : SUBSET Chunks,                 \* GC's live set
          skipped : SUBSET Chunks,                 \* blobs GC could not list or remove
          asked   : SUBSET Manifests]

Idle == [pc |-> "idle", name |-> RootName, node |-> NULL, src |-> NULL, written |-> FALSE,
         m |-> <<>>, todo |-> {}, live |-> {}, skipped |-> {}, asked |-> {}]

At(p, pc) == proc[p].pc = pc
Goto(p, pc) == proc' = [proc EXCEPT ![p].pc = pc]
End(p) == proc' = [proc EXCEPT ![p] = Idle]

\* The scopes of the two kinds of guard on gc_lock.
ReadHolders == {p \in Procs : proc[p].pc \in {"putCheck", "copyLoad", "revertLoad", "writing"}}
WriteHolders == {p \in Procs : proc[p].pc \in {"mark", "list", "sweep"}}

ReadLock(p, pc) == WriteHolders = {} /\ Goto(p, pc)

\* What a version row refers to.
Referenced == UNION {Range(versions[v].chunks) : v \in DOMAIN versions}

ContentInit ==
  /\ MetaInit
  /\ blobs = {}
  /\ proc = [p \in Procs |-> Idle]

-----------------------------------------------------------------------------
(* PUT: open, then flush *)

PutOpen(p, name) ==
  /\ At(p, "idle")
  /\ \/ \E n \in DOMAIN nodes :
          /\ IsChild(n, ROOT_ID, name)
          /\ proc' = [proc EXCEPT ![p].pc = "putLock", ![p].node = n]
     \/ /\ ~NameTaken(ROOT_ID, name)
        /\ proc' = [proc EXCEPT ![p].pc = "putCreate", ![p].name = name]
  /\ UNCHANGED <<metaVars, blobs>>

\* Fails, by Fail(p), if another request took the name in the meantime.
PutCreate(p, id, now) ==
  /\ At(p, "putCreate")
  /\ InsertNode(id, ROOT_ID, proc[p].name, FALSE, now)
  /\ proc' = [proc EXCEPT ![p].pc = "putLock", ![p].node = id, ![p].name = RootName]
  /\ UNCHANGED blobs

PutLock(p) ==
  /\ At(p, "putLock")
  /\ ReadLock(p, "putCheck")
  /\ UNCHANGED <<metaVars, blobs>>

\* get_node, for the name that picks the chunker; then store_file splits the
\* uploaded bytes into the chunks of m.
PutCheck(p, m) ==
  /\ At(p, "putCheck")
  /\ proc[p].node \in DOMAIN nodes
  /\ proc' = [proc EXCEPT ![p].pc = "writing", ![p].m = m, ![p].todo = Range(m)]
  /\ UNCHANGED <<metaVars, blobs>>

\* BlobStore::put of one chunk: written and renamed into place, or there already.
StoreChunk(p, c) ==
  /\ At(p, "writing")
  /\ c \in proc[p].todo
  /\ blobs' = blobs \cup {c}
  /\ proc' = [proc EXCEPT ![p].todo = @ \ {c}]
  /\ UNCHANGED metaVars

\* set_file_content, the last thing done under the guard by a PUT, a COPY
\* and a revert alike.
Commit(p, now) ==
  /\ At(p, "writing")
  /\ proc[p].todo = {}
  /\ SetFileContent(proc[p].node, proc[p].m, now)
  /\ End(p)
  /\ UNCHANGED blobs

-----------------------------------------------------------------------------
(* COPY of a file *)

CopyResolve(p, n) ==
  /\ At(p, "idle")
  /\ n \in DOMAIN nodes \ {ROOT_ID}
  /\ proc' = [proc EXCEPT ![p].pc = "copyTo", ![p].src = n,
                          ![p].written = nodes[n].current # NULL]
  /\ UNCHANGED <<metaVars, blobs>>

CopyTo(p, name) ==
  /\ At(p, "copyTo")
  /\ \/ \E n \in DOMAIN nodes :
          /\ IsChild(n, ROOT_ID, name)
          /\ proc' = [proc EXCEPT ![p].pc = "copyLock", ![p].node = n, ![p].written = FALSE]
     \/ /\ ~NameTaken(ROOT_ID, name)
        /\ proc' = [proc EXCEPT ![p].pc = "copyCreate", ![p].name = name]
  /\ UNCHANGED <<metaVars, blobs>>

\* A copy of a file never written leaves its new destination unwritten.
CopyCreate(p, id, now) ==
  /\ At(p, "copyCreate")
  /\ InsertNode(id, ROOT_ID, proc[p].name, FALSE, now)
  /\ IF proc[p].written
     THEN proc' = [proc EXCEPT ![p].pc = "copyLock", ![p].node = id, ![p].name = RootName,
                               ![p].written = FALSE]
     ELSE End(p)
  /\ UNCHANGED blobs

CopyLock(p) ==
  /\ At(p, "copyLock")
  /\ ReadLock(p, "copyLoad")
  /\ UNCHANGED <<metaVars, blobs>>

CopyLoad(p) ==
  LET src == proc[p].src IN
  /\ At(p, "copyLoad")
  /\ src \in DOMAIN nodes
  /\ ~IsCorrupt(src)
  /\ proc' = [proc EXCEPT ![p].pc = "writing", ![p].m = LoadManifest(src), ![p].src = NULL]
  /\ UNCHANGED <<metaVars, blobs>>

-----------------------------------------------------------------------------
(* Revert to version N, prune of version N *)

\* resolve_file. Prune and delete start the same way.
Resolve(p, n, pc) ==
  /\ At(p, "idle")
  /\ n \in DOMAIN nodes \ {ROOT_ID}
  /\ proc' = [proc EXCEPT ![p].pc = pc, ![p].node = n]
  /\ UNCHANGED <<metaVars, blobs>>

\* version_by_number; only the id of the row is kept.
RevertFind(p, v) ==
  /\ At(p, "revertFind")
  /\ v \in VersionsOf(proc[p].node)
  /\ proc' = [proc EXCEPT ![p].pc = "revertLock", ![p].src = v,
                          ![p].asked = {versions[v].chunks}]
  /\ UNCHANGED <<metaVars, blobs>>

RevertLock(p) ==
  /\ At(p, "revertLock")
  /\ ReadLock(p, "revertLoad")
  /\ UNCHANGED <<metaVars, blobs>>

\* load_version_manifest reads the rows of version_chunks with that id, be
\* there any or not.
RevertLoad(p) ==
  /\ At(p, "revertLoad")
  /\ proc' = [proc EXCEPT ![p].pc = "writing", ![p].m = ReadManifest(proc[p].src), ![p].src = NULL]
  /\ UNCHANGED <<metaVars, blobs>>

Prune(p, number) ==
  /\ At(p, "prune")
  /\ DeleteVersion(proc[p].node, number)
  /\ End(p)
  /\ UNCHANGED blobs

-----------------------------------------------------------------------------
(* DELETE of a file *)

\* MetaStore::remove_file: get_node in one turn of the mutex, ...
DeleteCheck(p) ==
  /\ At(p, "deleteCheck")
  /\ proc[p].node \in DOMAIN nodes
  /\ ~nodes[proc[p].node].isDir
  /\ Goto(p, "delete")
  /\ UNCHANGED <<metaVars, blobs>>

\* ... delete_node in another.
Delete(p) ==
  /\ At(p, "delete")
  /\ DeleteNode(proc[p].node)
  /\ End(p)
  /\ UNCHANGED blobs

-----------------------------------------------------------------------------
(* Garbage collection *)

GcAsk(p) ==
  /\ At(p, "idle")
  /\ Goto(p, "gcLock")
  /\ UNCHANGED <<metaVars, blobs>>

\* (mutant) GC takes the guard shared, like a writer
GcLock_Shared(p) ==
  /\ At(p, "gcLock")
  /\ WriteHolders = {}
  /\ Goto(p, "mark")
  /\ UNCHANGED <<metaVars, blobs>>

GcLock(p) ==
  /\ At(p, "gcLock")
  /\ ReadHolders = {}
  /\ WriteHolders = {}
  /\ Goto(p, "mark")
  /\ UNCHANGED <<metaVars, blobs>>

\* referenced_chunk_hashes
GcMark(p) ==
  /\ At(p, "mark")
  /\ proc' = [proc EXCEPT ![p].pc = "list", ![p].live = Referenced]
  /\ UNCHANGED <<metaVars, blobs>>

\* list_hashes, which leaves out what it cannot read, and out of the list what
\* is not live.
GcList(p, unreadable) ==
  /\ At(p, "list")
  /\ proc' = [proc EXCEPT ![p].pc = "sweep", ![p].skipped = unreadable,
                          ![p].todo = blobs \ (proc[p].live \cup unreadable)]
  /\ UNCHANGED <<metaVars, blobs>>

\* (mutant) a blob that cannot be removed is not counted
GcSweep_Uncounted(p, c) ==
  /\ At(p, "sweep")
  /\ c \in proc[p].todo
  /\ \/ blobs' = blobs \ {c}
     \/ UNCHANGED blobs
  /\ proc' = [proc EXCEPT ![p].todo = @ \ {c}]
  /\ UNCHANGED metaVars

\* (mutant) a blob that cannot be removed is listed, and tried, again
GcSweep_Retry(p, c) ==
  /\ At(p, "sweep")
  /\ c \in proc[p].todo
  /\ \/ /\ blobs' = blobs \ {c}
        /\ proc' = [proc EXCEPT ![p].todo = @ \ {c}]
     \/ /\ proc' = [proc EXCEPT ![p].pc = "list", ![p].todo = {}, ![p].skipped = {}]
        /\ UNCHANGED blobs
  /\ UNCHANGED metaVars

\* One blob is removed, or cannot be and is passed over.
GcSweep(p, c) ==
  /\ At(p, "sweep")
  /\ c \in proc[p].todo
  /\ \/ /\ blobs' = blobs \ {c}
        /\ proc' = [proc EXCEPT ![p].todo = @ \ {c}]
     \/ /\ proc' = [proc EXCEPT ![p].todo = @ \ {c}, ![p].skipped = @ \cup {c}]
        /\ UNCHANGED blobs
  /\ UNCHANGED metaVars

GcEnd(p) ==
  /\ At(p, "sweep")
  /\ proc[p].todo = {}
  /\ End(p)
  /\ UNCHANGED <<metaVars, blobs>>

-----------------------------------------------------------------------------
(* Failures *)

\* An error ends the request where it is. What it stored or created stays.
\* The sweep takes no error from anyone.
Fail(p) ==
  /\ proc[p].pc \notin {"idle", "sweep"}
  /\ End(p)
  /\ UNCHANGED <<metaVars, blobs>>

\* The server stops and starts again: no request survives, no guard is held.
Restart ==
  /\ proc' = [p \in Procs |-> Idle]
  /\ UNCHANGED <<metaVars, blobs>>

-----------------------------------------------------------------------------

PutNext(p) ==
  \/ \E name \in Names : PutOpen(p, name)
  \/ \E id \in NodeIds, now \in Times : PutCreate(p, id, now)
  \/ PutLock(p)
  \/ \E m \in Manifests : PutCheck(p, m)
  \/ \E c \in Chunks : StoreChunk(p, c)
  \/ \E now \in Times : Commit(p, now)

CopyNext(p) ==
  \/ \E n \in NodeIds : CopyResolve(p, n)
  \/ \E name \in Names : CopyTo(p, name)
  \/ \E id \in NodeIds, now \in Times : CopyCreate(p, id, now)
  \/ CopyLock(p)
  \/ CopyLoad(p)

VersionNext(p) ==
  \/ \E n \in NodeIds, pc \in {"revertFind", "prune", "deleteCheck"} : Resolve(p, n, pc)
  \/ \E v \in VersionIds : RevertFind(p, v)
  \/ RevertLock(p)
  \/ RevertLoad(p)
  \/ \E v \in DOMAIN versions : Prune(p, versions[v].number)
  \/ DeleteCheck(p)
  \/ Delete(p)

GcNext(p) ==
  \/ GcAsk(p)
  \/ GcLock(p)
  \/ GcMark(p)
  \/ \E unreadable \in SUBSET blobs : GcList(p, unreadable)
  \/ \E c \in Chunks : GcSweep(p, c)
  \/ GcEnd(p)

ContentNext ==
  \/ \E p \in Procs : PutNext(p) \/ CopyNext(p) \/ VersionNext(p) \/ GcNext(p) \/ Fail(p)
  \/ Restart

ContentSpec == ContentInit /\ [][ContentNext]_contentVars

\* A request that is under way and needs no guard goes on, or fails; one that
\* waits for a guard does neither until it has it. New requests need not come.
Onward(p) ==
  /\ proc[p].pc \notin {"idle", "putLock", "copyLock", "revertLock", "gcLock"}
  /\ Fail(p) \/ GcNext(p) \/ PutNext(p) \/ CopyNext(p) \/ VersionNext(p)

Acquire(p) == PutLock(p) \/ CopyLock(p) \/ RevertLock(p) \/ GcLock(p)

\* The runtime runs every thread. gc_lock lets every waiter in some time: the
\* standard library's lock makes new readers wait for a writer that waits, so
\* that flushes that overlap for ever do not keep GC out.
LiveSpec ==
  /\ ContentSpec
  /\ \A p \in Procs : WF_contentVars(Onward(p)) /\ SF_contentVars(Acquire(p))

-----------------------------------------------------------------------------

ContentTypeOK ==
  /\ MetaTypeOK
  /\ blobs \subseteq Chunks
  /\ proc \in [Procs -> Local]

\* Every chunk of every version of every file is on disk, whatever writes,
\* copies, reverts, deletes, prunes and failures garbage collection runs into:
\* the reason for Inner::gc_lock (docs/specs/0005, "Concurrency safety").
NoDanglingReference == Referenced \subseteq blobs

\* Garbage collection is thorough as well as safe: when the sweep is over,
\* only blobs of the live set and those it could not list or remove are left:
\* nothing a crashed or failed write leaves behind is kept for ever.
GcIsComplete ==
  \A p \in Procs : At(p, "sweep") /\ proc[p].todo = {} => blobs \subseteq proc[p].live \cup proc[p].skipped

\* GC holds every write up until its sweep is over, and waits for every write
\* under way (davfs.rs:529): still every request ends, GC too, whichever blobs
\* cannot be removed ("one bad blob can't stall reclamation", davfs.rs:558).
RequestEnds(p) == ~At(p, "idle") ~> At(p, "idle")

RequestsEnd == \A p \in Procs : RequestEnds(p)

\* The metadata under concurrent requests, row ids used again and all.
MetadataIntact == ReferentialIntegrity /\ UniqueNames /\ CurrentIsHighest /\ UniqueNumbers /\ SizeCache

\* "Revert the file at `path` to the content of version `number`"
\* (davfs.rs:440): what a revert is about to record for a file that has content
\* is what the version held when its number was looked up.
RevertRestoresContent ==
  \A p \in Procs :
    /\ At(p, "writing")
    /\ proc[p].node \in DOMAIN nodes
    /\ nodes[proc[p].node].current # NULL
    => \A m \in proc[p].asked : proc[p].m = m
=============================================================================
