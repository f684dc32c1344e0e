----------------------------- MODULE BlobCommit -----------------------------
(***************************************************************************)
(* How BlobStore puts a blob on disk (crates/blobstore/src/lib.rs): into a *)
(* temporary file, synced, renamed to the name that its hash gives; and    *)
(* how garbage collection lists and removes blobs. The directory is what   *)
(* the running system sees; a power loss shows what the disk has of it.    *)
(*                                                                         *)
(* ContentStore takes put and remove as one step each. Here they are not.  *)
(***************************************************************************)
EXTENDS Naturals, FiniteSets

CONSTANTS
  Chunks,     \* hashes, each the name of its blob
  Writers     \* bound: puts under way at once

VARIABLES
  names,      \* hash -> file, for the names there are in the shard directories
  onDisk,     \* the same as the disk has it: no one syncs a directory
  put,        \* what each writer is doing
  gc,         \* whether a sweep is on, and what it has still to remove
  needed      \* hashes that put has answered for, and that a version refers to

vars == <<names, onDisk, put, gc, needed>>

NULL == "none"

\* A file: is all of it written, and is that on the disk?
File == [whole : BOOLEAN, synced : BOOLEAN]
Empty == [whole |-> FALSE, synced |-> FALSE]

Directory == UNION {[S -> File] : S \in SUBSET Chunks}
With(dir, c, f) == [d \in DOMAIN dir \cup {c} |-> IF d = c THEN f ELSE dir[d]]
Without(dir, c) == [d \in DOMAIN dir \ {c} |-> dir[d]]

NoSweep == [on |-> FALSE, todo |-> {}]

Idle == [pc |-> "idle", chunk |-> NULL, temp |-> Empty]
At(w, pc) == put[w].pc = pc
Goto(w, pc) == put' = [put EXCEPT ![w].pc = pc]
Store == <<names, onDisk>>

BlobInit ==
  /\ names = [c \in {} |-> Empty]
  /\ onDisk = names
  /\ put = [w \in Writers |-> Idle]
  /\ gc = NoSweep
  /\ needed = {}

-----------------------------------------------------------------------------
(* put. The guard of its request keeps garbage collection away.            *)

\* The answer: the hash, which the request records before it drops the guard.
Answer(w) ==
  /\ needed' = needed \cup {put[w].chunk}
  /\ put' = [put EXCEPT ![w] = Idle]

\* has: what is there already is not written again.
Start(w, c) ==
  /\ At(w, "idle") /\ ~gc.on
  /\ IF c \in DOMAIN names
     THEN needed' = needed \cup {c} /\ UNCHANGED put
     ELSE put' = [put EXCEPT ![w] = [pc |-> "write", chunk |-> c, temp |-> Empty]]
          /\ UNCHANGED needed
  /\ UNCHANGED <<Store, gc>>

WriteTemp(w) ==
  /\ At(w, "write")
  /\ put' = [put EXCEPT ![w].pc = "commit", ![w].temp.whole = TRUE]
  /\ UNCHANGED <<Store, gc, needed>>

\* commit: has another writer been faster?
CommitCheck(w) ==
  /\ At(w, "commit")
  /\ IF put[w].chunk \in DOMAIN names THEN Answer(w) ELSE Goto(w, "sync") /\ UNCHANGED needed
  /\ UNCHANGED <<Store, gc>>

\* (mutant) the temporary file is not synced
SyncTemp_Skipped(w) ==
  /\ At(w, "sync")
  /\ Goto(w, "persist")
  /\ UNCHANGED <<Store, gc, needed>>

SyncTemp(w) ==
  /\ At(w, "sync")
  /\ put' = [put EXCEPT ![w].pc = "persist", ![w].temp.synced = TRUE]
  /\ UNCHANGED <<Store, gc, needed>>

\* (mutant) the blob is written in place
Persist_InPlace(w) ==
  /\ At(w, "write") \/ At(w, "persist")
  /\ names' = With(names, put[w].chunk, put[w].temp)
  /\ Answer(w)
  /\ UNCHANGED <<onDisk, gc>>

\* The rename replaces a blob of the same name.
Persist(w) ==
  /\ At(w, "persist")
  /\ names' = With(names, put[w].chunk, put[w].temp)
  /\ Answer(w)
  /\ UNCHANGED <<onDisk, gc>>

\* (mutant) an error of the rename is never looked into
PersistFails_Answered(w) ==
  /\ At(w, "persist")
  /\ Answer(w)
  /\ UNCHANGED <<Store, gc>>

\* A rename that fails is none if the blob is there, by another writer.
PersistFails(w) ==
  /\ At(w, "persist")
  /\ IF put[w].chunk \in DOMAIN names THEN Answer(w)
     ELSE put' = [put EXCEPT ![w] = Idle] /\ UNCHANGED needed
  /\ UNCHANGED <<Store, gc>>

\* The disk is full, or the like. The temporary file goes when it is dropped.
PutFails(w) ==
  /\ ~At(w, "idle") /\ ~At(w, "persist")
  /\ put' = [put EXCEPT ![w] = Idle]
  /\ UNCHANGED <<Store, gc, needed>>

-----------------------------------------------------------------------------
(* Garbage collection                                                      *)

\* The last version that refers to a chunk is gone.
Forget(c) ==
  /\ c \in needed
  /\ needed' = needed \ {c}
  /\ UNCHANGED <<Store, put, gc>>

\* DavFs::gc has the guard for itself. list_hashes lists what is in the shards,
\* or less where it cannot read; temporary files are not in a shard.
List ==
  /\ ~gc.on
  /\ \A w \in Writers : At(w, "idle")
  /\ \E listed \in SUBSET DOMAIN names : gc' = [on |-> TRUE, todo |-> listed \ needed]
  /\ UNCHANGED <<Store, put, needed>>

\* remove of the next blob that is listed and not live. It may fail.
Remove(c) ==
  /\ c \in gc.todo
  /\ gc' = [gc EXCEPT !.todo = @ \ {c}]
  /\ names' \in {names, Without(names, c)}
  /\ UNCHANGED <<onDisk, put, needed>>

GcEnd ==
  /\ gc.on /\ gc.todo = {}
  /\ gc' = NoSweep
  /\ UNCHANGED <<Store, put, needed>>

-----------------------------------------------------------------------------
(* Failures                                                                *)

\* Temporary files are left behind, out of the sight of list_hashes.
Stop ==
  /\ put' = [w \in Writers |-> Idle]
  /\ gc' = NoSweep

\* The server is killed. The system keeps what it did.
Kill ==
  /\ Stop
  /\ UNCHANGED <<names, onDisk, needed>>

\* The system writes an entry of a directory to the disk, sooner or later.
WriteBack(c) ==
  /\ onDisk' = IF c \in DOMAIN names THEN With(onDisk, c, names[c]) ELSE Without(onDisk, c)
  /\ UNCHANGED <<names, put, gc, needed>>

\* The power goes. Of each name, the old entry or the new one is found; of a file
\* that was not synced, maybe not all. A version that lost a chunk so is lost.
PowerLoss ==
  /\ Stop
  /\ \E new \in SUBSET Chunks, lucky \in SUBSET Chunks :
       LET there == (DOMAIN names \cap new) \cup (DOMAIN onDisk \ new)
           entry(c) == IF c \in new THEN names[c] ELSE onDisk[c]
           whole(c) == entry(c).whole /\ (entry(c).synced \/ c \in lucky)
       IN names' = [c \in there |-> [whole |-> whole(c), synced |-> TRUE]]
  /\ onDisk' = names'
  /\ needed' = needed \cap DOMAIN names'

BlobNext ==
  \/ \E w \in Writers :
       \/ \E c \in Chunks : Start(w, c)
       \/ WriteTemp(w) \/ CommitCheck(w) \/ SyncTemp(w)
       \/ Persist(w) \/ PersistFails(w) \/ PutFails(w)
  \/ \E c \in Chunks : Forget(c) \/ Remove(c) \/ WriteBack(c)
  \/ List \/ GcEnd \/ Kill \/ PowerLoss

BlobSpec == BlobInit /\ [][BlobNext]_vars

-----------------------------------------------------------------------------

Put == [pc : {"idle", "write", "commit", "sync", "persist"}, chunk : Chunks \cup {NULL},
        temp : File]

BlobTypeOK ==
  /\ {names, onDisk} \subseteq Directory
  /\ put \in [Writers -> Put]
  /\ \A w \in Writers : At(w, "persist") => put[w].temp = [whole |-> TRUE, synced |-> TRUE]
  /\ gc \in [on : BOOLEAN, todo : SUBSET Chunks]
  /\ needed \subseteq Chunks

\* "a blob file only ever exists with complete, correct content" (lib.rs:15):
\* for anyone who reads, whoever writes, and after a power loss too.
BlobsAreWhole == \A c \in DOMAIN names : names[c].whole

\* What put has answered for is there for as long as a version needs it,
\* whichever of several writers of the same blob has put it there, and
\* whatever garbage collection was doing when the server was killed. Of a power
\* loss it says nothing: a name that was not on the disk yet goes, and its blob no
\* longer counts as needed.
NeededIsThere == needed \subseteq DOMAIN names
=============================================================================
