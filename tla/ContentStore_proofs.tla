------------------------ MODULE ContentStore_proofs ------------------------
(***************************************************************************)
(* Garbage collection never removes a chunk that a version refers to, for  *)
(* any number of concurrent requests, files, versions and chunks.          *)
(***************************************************************************)
EXTENDS ContentStore, MetaStore_proofs

\* No request writes to the root or deletes it.
RootIsSpared == \A p \in Procs : proc[p].node # ROOT_ID

\* gc_lock: whoever holds it for writing holds it alone.
GuardsExclude ==
  \A p \in WriteHolders : \A q \in Procs : q # p => q \notin ReadHolders \cup WriteHolders

\* A manifest about to be recorded is on disk, but for the chunks still to be
\* stored; a copied or reverted one is there as a whole.
ManifestStored ==
  \A p \in Procs : At(p, "writing") => Range(proc[p].m) \subseteq blobs \cup proc[p].todo

\* While GC runs, nothing comes to be referenced that is not in its live set.
LiveSetCovers ==
  \A p \in Procs : At(p, "list") \/ At(p, "sweep") => Referenced \subseteq proc[p].live

\* GC removes garbage only, and all of it that it can.
SweepsGarbage ==
  \A p \in Procs : At(p, "sweep") =>
    /\ proc[p].todo \cap proc[p].live = {}
    /\ blobs \subseteq proc[p].live \cup proc[p].todo \cup proc[p].skipped

GcInv ==
  /\ NoDanglingReference
  /\ GuardsExclude
  /\ ManifestStored
  /\ LiveSetCovers
  /\ SweepsGarbage

ContentInv ==
  /\ MetaInv
  /\ blobs \subseteq Chunks
  /\ proc \in [Procs -> Local]
  /\ RootIsSpared
  /\ GcInv

-----------------------------------------------------------------------------
(* What the statements of the metadata store do to the set of references *)

LEMMA DropReferences ==
  ASSUME NEW gone, versions' = DropRows(versions, gone)
  PROVE  Referenced' \subseteq Referenced
BY DEF Referenced, DropRows, Restrict

LEMMA AddReferences ==
  ASSUME MetaInv, NEW id, NEW m \in Manifests, NEW now \in Times, SetFileContent(id, m, now)
  PROVE  Referenced' \subseteq Referenced \cup Range(m)
<1>1. CASE UNCHANGED metaVars
  BY <1>1 DEF Referenced, metaVars
<1>2. CASE AppendVersion(id, m, now)
  <2>1. PICK vid \in VersionIds, number \in NextNumber(id) :
          versions' = PutRow(versions, vid, [node |-> id, number |-> number, chunks |-> m])
    BY <1>2 DEF AppendVersion
  <2>2. \A v \in DOMAIN versions' :
          versions'[v].chunks = m \/ (v \in DOMAIN versions /\ versions'[v] = versions[v])
    BY <2>1 DEF PutRow
  <2>3. QED
    BY <2>2 DEF Referenced
<1>3. QED
  BY <1>1, <1>2 DEF SetFileContent

\* A manifest read from the tables is one of the references, or empty.
LEMMA ReadIsReferenced ==
  ASSUME MetaInv, NEW vid
  PROVE  ReadManifest(vid) \in Manifests /\ Range(ReadManifest(vid)) \subseteq Referenced
<1>1. Range(<<>>) = {}
  BY DEF Range
<1>2. QED
  BY <1>1, MetaConstants DEF ReadManifest, Referenced, MetaInv, MetaTypeOK, VersionRow

LEMMA LoadIsReferenced ==
  ASSUME MetaInv, NEW id \in DOMAIN nodes
  PROVE  LoadManifest(id) \in Manifests /\ Range(LoadManifest(id)) \subseteq Referenced
<1>1. Range(<<>>) = {}
  BY DEF Range
<1>2. QED
  BY <1>1, ReadIsReferenced, MetaConstants DEF LoadManifest

-----------------------------------------------------------------------------
LEMMA ManifestRange ==
  ASSUME NEW m \in Manifests
  PROVE  Range(m) \subseteq Chunks
BY MetaConstants DEF Range

\* A step of a request that is not garbage collection: it changes its own
\* local variables, it may store a blob, and it may drop references; to add
\* one it must hold off garbage collection.
LEMMA RequestStep ==
  ASSUME ContentInv, NEW p \in Procs,
         MetaInv',
         proc' \in [Procs -> Local],
         \A q \in Procs \ {p} : proc'[q] = proc[q],
         proc'[p].node # ROOT_ID,
         blobs \subseteq blobs', blobs' \subseteq Chunks,
         WriteHolders = {} \/ (blobs' = blobs /\ Referenced' \subseteq Referenced),
         Referenced' \subseteq blobs',
         p \notin WriteHolders',
         p \in ReadHolders' => WriteHolders = {},
         At(p, "writing")' => Range(proc'[p].m) \subseteq blobs' \cup proc'[p].todo
  PROVE  ContentInv'
<1>1. RootIsSpared'
  BY DEF ContentInv, RootIsSpared
<1>2. WriteHolders' \subseteq WriteHolders /\ ReadHolders' \subseteq ReadHolders \cup {p}
  BY DEF WriteHolders, ReadHolders
<1>3. GuardsExclude'
  BY <1>2 DEF ContentInv, GcInv, GuardsExclude
<1>4. ManifestStored'
  BY DEF ContentInv, GcInv, ManifestStored, At
<1>5. ASSUME NEW q \in Procs, At(q, "list")' \/ At(q, "sweep")'
      PROVE  /\ q # p /\ proc'[q] = proc[q] /\ q \in WriteHolders
             /\ blobs' = blobs /\ Referenced' \subseteq Referenced
  BY <1>5 DEF WriteHolders, At
<1>6. LiveSetCovers' /\ SweepsGarbage'
  BY <1>5 DEF ContentInv, GcInv, LiveSetCovers, SweepsGarbage, At
<1>7. QED
  BY <1>1, <1>3, <1>4, <1>6 DEF ContentInv, GcInv, NoDanglingReference

\* A step that leaves the tables and the blobs alone.
LEMMA LocalStep ==
  ASSUME ContentInv, NEW p \in Procs,
         UNCHANGED <<metaVars, blobs>>,
         proc' \in [Procs -> Local],
         \A q \in Procs \ {p} : proc'[q] = proc[q],
         proc'[p].node # ROOT_ID,
         p \notin WriteHolders',
         p \in ReadHolders' => WriteHolders = {},
         At(p, "writing")' => Range(proc'[p].m) \subseteq blobs \cup proc'[p].todo
  PROVE  ContentInv'
<1>1. MetaInv'
  BY MetaStep DEF ContentInv, metaVars
<1>2. Referenced' = Referenced
  BY DEF Referenced, metaVars
<1>3. QED
  BY <1>1, <1>2, RequestStep DEF ContentInv, GcInv, NoDanglingReference

-----------------------------------------------------------------------------
\* A request that takes up a child of the root has a node other than the root.
LEMMA ChildIsNotRoot ==
  ASSUME ContentInv, NEW n, NEW name, IsChild(n, ROOT_ID, name)
  PROVE  n \in NodeIds \ {ROOT_ID}
BY DEF ContentInv, MetaInv, MetaTypeOK, RootIsTop, IsChild, NULL, ROOT_ID

\* A node that comes to life is not the root.
LEMMA FreshIsNotRoot ==
  ASSUME ContentInv, NEW id \in NodeIds, NEW parent, NEW name, NEW isDir, NEW now,
         InsertNode(id, parent, name, isDir, now)
  PROVE  id # ROOT_ID /\ Referenced' = Referenced
<1>1. id \notin DOMAIN nodes
  BY NextRowIdFact, MetaConstants DEF ContentInv, MetaInv, MetaTypeOK, InsertNode
<1>2. QED
  BY <1>1 DEF ContentInv, MetaInv, MetaTypeOK, InsertNode, Referenced

\* Nobody holds gc_lock for writing while p holds it for reading.
LEMMA ReaderExcludes ==
  ASSUME ContentInv, NEW p \in ReadHolders
  PROVE  WriteHolders = {}
BY DEF ContentInv, GcInv, GuardsExclude, ReadHolders, WriteHolders

LEMMA IdleIsLocal == Idle \in Local
BY MetaConstants DEF Idle, Local

\* A request ends, whatever it did to the tables.
LEMMA EndStep ==
  ASSUME ContentInv, NEW p \in Procs, End(p), MetaInv', UNCHANGED blobs,
         Referenced' \subseteq blobs,
         WriteHolders = {} \/ Referenced' \subseteq Referenced
  PROVE  ContentInv'
<1>1. proc' \in [Procs -> Local] /\ proc'[p] = Idle /\ \A q \in Procs \ {p} : proc'[q] = proc[q]
  BY IdleIsLocal DEF End, ContentInv
<1>2. proc'[p].pc = "idle" /\ proc'[p].node = NULL
  BY <1>1 DEF Idle
<1>3. QED
  BY <1>1, <1>2, RequestStep DEF ContentInv, WriteHolders, ReadHolders, At, NULL, ROOT_ID

\* A file is created in the root, under the name a request kept.
LEMMA InsertRootChild ==
  ASSUME ContentInv, NEW id \in NodeIds, NEW name \in Names \cup {RootName}, NEW now \in Times,
         InsertNode(id, ROOT_ID, name, FALSE, now)
  PROVE  MetaInv'
BY InsertNodeInv DEF ContentInv, MetaInv, MetaTypeOK

LEMMA PutStep ==
  ASSUME ContentInv, NEW p \in Procs, PutNext(p)
  PROVE  ContentInv'
<1> USE MetaConstants
<1>0. proc \in [Procs -> Local] /\ proc[p] \in Local /\ proc[p].node # ROOT_ID
  BY DEF ContentInv, RootIsSpared
<1>1. ASSUME NEW name \in Names, PutOpen(p, name) PROVE ContentInv'
  <2>1. ASSUME NEW n \in DOMAIN nodes, IsChild(n, ROOT_ID, name),
               proc' = [proc EXCEPT ![p].pc = "putLock", ![p].node = n]
        PROVE  ContentInv'
    <3>1. n \in NodeIds \ {ROOT_ID}
      BY <2>1, ChildIsNotRoot
    <3>2. proc' \in [Procs -> Local]
      BY <1>0, <2>1, <3>1, ZenonT(40) DEF Local
    <3>3. proc'[p].pc = "putLock" /\ proc'[p].node = n /\ \A q \in Procs \ {p} : proc'[q] = proc[q]
      BY <1>0, <2>1 DEF Local
    <3>4. QED
      BY <1>1, <3>1, <3>2, <3>3, LocalStep DEF PutOpen, WriteHolders, ReadHolders, At
  <2>2. CASE proc' = [proc EXCEPT ![p].pc = "putCreate", ![p].name = name]
    <3>1. proc' \in [Procs -> Local]
      BY <1>0, <2>2 DEF Local
    <3>2. /\ proc'[p].pc = "putCreate" /\ proc'[p].node = proc[p].node
          /\ \A q \in Procs \ {p} : proc'[q] = proc[q]
      BY <1>0, <2>2 DEF Local
    <3>3. QED
      BY <1>0, <1>1, <3>1, <3>2, LocalStep DEF PutOpen, WriteHolders, ReadHolders, At
  <2>3. QED
    BY <1>1, <2>1, <2>2 DEF PutOpen
<1>2. ASSUME NEW id \in NodeIds, NEW now \in Times, PutCreate(p, id, now) PROVE ContentInv'
  <2>1. InsertNode(id, ROOT_ID, proc[p].name, FALSE, now)
    BY <1>2 DEF PutCreate
  <2>2. id # ROOT_ID /\ Referenced' = Referenced
    BY <2>1, FreshIsNotRoot
  <2>3. proc' \in [Procs -> Local]
    BY <1>0, <1>2 DEF Local, PutCreate
  <2>4. proc'[p].pc = "putLock" /\ proc'[p].node = id /\ \A q \in Procs \ {p} : proc'[q] = proc[q]
    BY <1>0, <1>2 DEF Local, PutCreate
  <2>5. MetaInv'
    BY <1>0, <2>1, InsertRootChild DEF Local
  <2>6. QED
    BY <1>2, <2>2, <2>3, <2>4, <2>5, RequestStep
       DEF PutCreate, WriteHolders, ReadHolders, At, ContentInv, GcInv, NoDanglingReference
<1>3. CASE PutLock(p)
  <2>1. proc' \in [Procs -> Local]
    BY <1>0, <1>3 DEF Local, PutLock, ReadLock, Goto
  <2>2. /\ proc'[p].pc = "putCheck" /\ proc'[p].node = proc[p].node
        /\ \A q \in Procs \ {p} : proc'[q] = proc[q]
    BY <1>0, <1>3 DEF Local, PutLock, ReadLock, Goto
  <2>3. UNCHANGED <<metaVars, blobs>> /\ WriteHolders = {}
    BY <1>3 DEF PutLock, ReadLock
  <2>4. proc'[p].node # ROOT_ID
    BY <1>0, <2>2
  <2>5. p \notin WriteHolders' /\ ~At(p, "writing")'
    BY <2>2 DEF WriteHolders, At
  <2>6. QED
    BY <1>0, <2>1, <2>2, <2>3, <2>4, <2>5, LocalStep
<1>4. ASSUME NEW m \in Manifests, PutCheck(p, m) PROVE ContentInv'
  <2>1. proc' \in [Procs -> Local]
    BY <1>0, <1>4, ManifestRange, ZenonT(40) DEF Local, PutCheck
  <2>2. /\ proc'[p].pc = "writing" /\ proc'[p].node = proc[p].node
        /\ proc'[p].m = m /\ proc'[p].todo = Range(m)
        /\ \A q \in Procs \ {p} : proc'[q] = proc[q]
    BY <1>0, <1>4 DEF Local, PutCheck
  <2>3. WriteHolders = {}
    BY <1>4, ReaderExcludes DEF PutCheck, ReadHolders, At
  <2>4. QED
    BY <1>0, <1>4, <2>1, <2>2, <2>3, LocalStep DEF PutCheck, WriteHolders, ReadHolders, At
<1>5. ASSUME NEW c \in Chunks, StoreChunk(p, c) PROVE ContentInv'
  <2>1. proc' \in [Procs -> Local]
    BY <1>0, <1>5 DEF Local, StoreChunk
  <2>2. /\ proc'[p].pc = "writing" /\ proc'[p].node = proc[p].node
        /\ proc'[p].m = proc[p].m /\ proc'[p].todo = proc[p].todo \ {c}
        /\ \A q \in Procs \ {p} : proc'[q] = proc[q]
    BY <1>0, <1>5 DEF Local, StoreChunk, At
  <2>3. WriteHolders = {}
    BY <1>5, ReaderExcludes DEF StoreChunk, ReadHolders, At
  <2>4. MetaInv' /\ Referenced' = Referenced
    BY <1>5, MetaStep DEF StoreChunk, ContentInv, metaVars, Referenced
  <2>5. Range(proc[p].m) \subseteq blobs \cup proc[p].todo
    BY <1>5 DEF StoreChunk, ContentInv, GcInv, ManifestStored
  <2>6. QED
    BY <1>0, <1>5, <2>1, <2>2, <2>3, <2>4, <2>5, RequestStep
       DEF StoreChunk, WriteHolders, At, ContentInv, GcInv, NoDanglingReference
<1>6. ASSUME NEW now \in Times, Commit(p, now) PROVE ContentInv'
  <2>1. SetFileContent(proc[p].node, proc[p].m, now) /\ proc[p].m \in Manifests
    BY <1>0, <1>6 DEF Commit, Local
  <2>2. MetaInv'
    BY <1>0, <2>1, MetaStep DEF ContentInv, MetaNext, SetFileContent
  <2>3. Range(proc[p].m) \subseteq blobs
    BY <1>6 DEF Commit, ContentInv, GcInv, ManifestStored
  <2>4. Referenced' \subseteq blobs
    BY <2>1, <2>3, AddReferences DEF ContentInv, GcInv, NoDanglingReference
  <2>5. WriteHolders = {}
    BY <1>6, ReaderExcludes DEF Commit, ReadHolders, At
  <2>6. QED
    BY <1>6, <2>2, <2>4, <2>5, EndStep DEF Commit
<1>7. QED
  BY <1>1, <1>2, <1>3, <1>4, <1>5, <1>6 DEF PutNext

LEMMA CopyStep ==
  ASSUME ContentInv, NEW p \in Procs, CopyNext(p)
  PROVE  ContentInv'
<1> USE MetaConstants
<1>0. proc \in [Procs -> Local] /\ proc[p] \in Local /\ proc[p].node # ROOT_ID
  BY DEF ContentInv, RootIsSpared
<1>1. ASSUME NEW n \in NodeIds, CopyResolve(p, n) PROVE ContentInv'
  <2>1. proc' \in [Procs -> Local]
    BY <1>0, <1>1 DEF Local, CopyResolve
  <2>2. /\ proc'[p].pc = "copyTo" /\ proc'[p].node = proc[p].node
        /\ \A q \in Procs \ {p} : proc'[q] = proc[q]
    BY <1>0, <1>1 DEF Local, CopyResolve
  <2>3. QED
    BY <1>0, <1>1, <2>1, <2>2, LocalStep DEF CopyResolve, WriteHolders, ReadHolders, At
<1>2. ASSUME NEW name \in Names, CopyTo(p, name) PROVE ContentInv'
  <2>1. ASSUME NEW n \in DOMAIN nodes, IsChild(n, ROOT_ID, name),
               proc' = [proc EXCEPT ![p].pc = "copyLock", ![p].node = n, ![p].written = FALSE]
        PROVE  ContentInv'
    <3>1. n \in NodeIds \ {ROOT_ID}
      BY <2>1, ChildIsNotRoot
    <3>2. proc' \in [Procs -> Local]
      BY <1>0, <2>1, <3>1 DEF Local
    <3>3. proc'[p].pc = "copyLock" /\ proc'[p].node = n /\ \A q \in Procs \ {p} : proc'[q] = proc[q]
      BY <1>0, <2>1 DEF Local
    <3>4. QED
      BY <1>2, <3>1, <3>2, <3>3, LocalStep DEF CopyTo, WriteHolders, ReadHolders, At
  <2>2. CASE proc' = [proc EXCEPT ![p].pc = "copyCreate", ![p].name = name]
    <3>1. proc' \in [Procs -> Local]
      BY <1>0, <2>2 DEF Local
    <3>2. /\ proc'[p].pc = "copyCreate" /\ proc'[p].node = proc[p].node
          /\ \A q \in Procs \ {p} : proc'[q] = proc[q]
      BY <1>0, <2>2 DEF Local
    <3>3. QED
      BY <1>0, <1>2, <3>1, <3>2, LocalStep DEF CopyTo, WriteHolders, ReadHolders, At
  <2>3. QED
    BY <1>2, <2>1, <2>2 DEF CopyTo
<1>3. ASSUME NEW id \in NodeIds, NEW now \in Times, CopyCreate(p, id, now) PROVE ContentInv'
  <2>1. InsertNode(id, ROOT_ID, proc[p].name, FALSE, now)
    BY <1>3 DEF CopyCreate
  <2>2. id # ROOT_ID /\ Referenced' = Referenced
    BY <2>1, FreshIsNotRoot
  <2>3. MetaInv'
    BY <1>0, <2>1, InsertRootChild DEF Local
  <2>4. CASE proc[p].written
    <3>1. proc' = [proc EXCEPT ![p].pc = "copyLock", ![p].node = id, ![p].name = RootName,
                               ![p].written = FALSE]
      BY <1>3, <2>4 DEF CopyCreate
    <3>2. proc' \in [Procs -> Local]
      BY <1>0, <3>1, ZenonT(40) DEF Local
    <3>3. proc'[p].pc = "copyLock" /\ proc'[p].node = id /\ \A q \in Procs \ {p} : proc'[q] = proc[q]
      BY <1>0, <3>1 DEF Local
    <3>4. QED
      BY <1>3, <2>2, <2>3, <3>2, <3>3, RequestStep
         DEF CopyCreate, WriteHolders, ReadHolders, At, ContentInv, GcInv, NoDanglingReference
  <2>5. CASE ~proc[p].written
    BY <1>3, <2>2, <2>3, <2>5, EndStep DEF CopyCreate, ContentInv, GcInv, NoDanglingReference
  <2>6. QED
    BY <2>4, <2>5
<1>4. CASE CopyLock(p)
  <2>1. proc' \in [Procs -> Local]
    BY <1>0, <1>4 DEF Local, CopyLock, ReadLock, Goto
  <2>2. /\ proc'[p].pc = "copyLoad" /\ proc'[p].node = proc[p].node
        /\ \A q \in Procs \ {p} : proc'[q] = proc[q]
    BY <1>0, <1>4 DEF Local, CopyLock, ReadLock, Goto
  <2>3. QED
    BY <1>0, <1>4, <2>1, <2>2, LocalStep DEF CopyLock, ReadLock, WriteHolders, ReadHolders, At
<1>5. CASE CopyLoad(p)
  <2> DEFINE m == LoadManifest(proc[p].src)
  <2>1. m \in Manifests /\ Range(m) \subseteq blobs
    BY <1>5, LoadIsReferenced DEF CopyLoad, ContentInv, GcInv, NoDanglingReference
  <2>2. proc' \in [Procs -> Local]
    BY <1>0, <1>5, <2>1 DEF Local, CopyLoad
  <2>3. /\ proc'[p].pc = "writing" /\ proc'[p].node = proc[p].node /\ proc'[p].m = m
        /\ \A q \in Procs \ {p} : proc'[q] = proc[q]
    BY <1>0, <1>5 DEF Local, CopyLoad
  <2>4. WriteHolders = {}
    BY <1>5, ReaderExcludes DEF CopyLoad, ReadHolders, At
  <2>5. QED
    BY <1>0, <1>5, <2>1, <2>2, <2>3, <2>4, LocalStep DEF CopyLoad, WriteHolders, ReadHolders, At
<1>6. QED
  BY <1>1, <1>2, <1>3, <1>4, <1>5 DEF CopyNext

LEMMA VersionStep ==
  ASSUME ContentInv, NEW p \in Procs, VersionNext(p)
  PROVE  ContentInv'
<1> USE MetaConstants
<1>0. proc \in [Procs -> Local] /\ proc[p] \in Local /\ proc[p].node # ROOT_ID
  BY DEF ContentInv, RootIsSpared
<1>1. ASSUME NEW n \in NodeIds, NEW pc \in {"revertFind", "prune", "deleteCheck"}, Resolve(p, n, pc)
      PROVE  ContentInv'
  <2>1. proc' \in [Procs -> Local]
    BY <1>0, <1>1, ZenonT(60) DEF Local, Resolve
  <2>2. /\ proc'[p].pc = pc /\ proc'[p].node = n /\ n # ROOT_ID
        /\ \A q \in Procs \ {p} : proc'[q] = proc[q]
    BY <1>0, <1>1 DEF Local, Resolve
  <2>3. QED
    BY <1>1, <2>1, <2>2, LocalStep DEF Resolve, WriteHolders, ReadHolders, At
<1>2. ASSUME NEW v \in VersionIds, RevertFind(p, v) PROVE ContentInv'
  <2>1. versions[v].chunks \in Manifests
    BY <1>2 DEF RevertFind, VersionsOf, ContentInv, MetaInv, MetaTypeOK, VersionRow
  <2>2. proc' \in [Procs -> Local]
    BY <1>0, <1>2, <2>1, ZenonT(60) DEF Local, RevertFind
  <2>3. /\ proc'[p].pc = "revertLock" /\ proc'[p].node = proc[p].node
        /\ \A q \in Procs \ {p} : proc'[q] = proc[q]
    BY <1>0, <1>2 DEF Local, RevertFind
  <2>4. QED
    BY <1>0, <1>2, <2>2, <2>3, LocalStep DEF RevertFind, WriteHolders, ReadHolders, At
<1>3. CASE RevertLock(p)
  <2>1. proc' \in [Procs -> Local]
    BY <1>0, <1>3 DEF Local, RevertLock, ReadLock, Goto
  <2>2. /\ proc'[p].pc = "revertLoad" /\ proc'[p].node = proc[p].node
        /\ \A q \in Procs \ {p} : proc'[q] = proc[q]
    BY <1>0, <1>3 DEF Local, RevertLock, ReadLock, Goto
  <2>3. QED
    BY <1>0, <1>3, <2>1, <2>2, LocalStep DEF RevertLock, ReadLock, WriteHolders, ReadHolders, At
<1>4. CASE RevertLoad(p)
  <2> DEFINE m == ReadManifest(proc[p].src)
  <2>1. m \in Manifests /\ Range(m) \subseteq blobs
    BY ReadIsReferenced DEF ContentInv, GcInv, NoDanglingReference
  <2>2. proc' \in [Procs -> Local]
    BY <1>0, <1>4, <2>1 DEF Local, RevertLoad
  <2>3. /\ proc'[p].pc = "writing" /\ proc'[p].node = proc[p].node /\ proc'[p].m = m
        /\ \A q \in Procs \ {p} : proc'[q] = proc[q]
    BY <1>0, <1>4 DEF Local, RevertLoad
  <2>4. WriteHolders = {}
    BY <1>4, ReaderExcludes DEF RevertLoad, ReadHolders, At
  <2>5. QED
    BY <1>0, <1>4, <2>1, <2>2, <2>3, <2>4, LocalStep DEF RevertLoad, WriteHolders, ReadHolders, At
<1>5. ASSUME NEW number, Prune(p, number) PROVE ContentInv'
  <2>1. DeleteVersion(proc[p].node, number)
    BY <1>5 DEF Prune
  <2>2. Referenced' \subseteq Referenced
    BY <2>1, DropReferences DEF DeleteVersion
  <2>3. MetaInv'
    BY <2>1, DeleteVersionInv DEF ContentInv
  <2>4. QED
    BY <1>5, <2>2, <2>3, EndStep DEF Prune, ContentInv, GcInv, NoDanglingReference
<1>6. CASE DeleteCheck(p)
  <2>1. proc' \in [Procs -> Local]
    BY <1>0, <1>6 DEF Local, DeleteCheck, Goto
  <2>2. /\ proc'[p].pc = "delete" /\ proc'[p].node = proc[p].node
        /\ \A q \in Procs \ {p} : proc'[q] = proc[q]
    BY <1>0, <1>6 DEF Local, DeleteCheck, Goto
  <2>3. QED
    BY <1>0, <1>6, <2>1, <2>2, LocalStep DEF DeleteCheck, WriteHolders, ReadHolders, At
<1>7. CASE Delete(p)
  <2>1. DeleteNode(proc[p].node) /\ proc[p].node \in DOMAIN nodes \ {ROOT_ID}
    BY <1>0, <1>7 DEF Delete, DeleteNode
  <2>2. Referenced' \subseteq Referenced
    BY <2>1, DropReferences DEF DeleteNode
  <2>3. MetaInv'
    BY <2>1, DeleteNodeInv DEF ContentInv
  <2>4. QED
    BY <1>7, <2>2, <2>3, EndStep DEF Delete, ContentInv, GcInv, NoDanglingReference
<1>8. QED
  BY <1>1, <1>2, <1>3, <1>4, <1>5, <1>6, <1>7 DEF VersionNext

\* A step of garbage collection proper: p holds gc_lock for writing, alone,
\* so that no manifest is about to be recorded and only its own sweep counts.
LEMMA SweeperStep ==
  ASSUME ContentInv, NEW p \in Procs,
         ReadHolders = {}, WriteHolders \subseteq {p},
         UNCHANGED metaVars,
         proc' \in [Procs -> Local],
         \A q \in Procs \ {p} : proc'[q] = proc[q],
         proc'[p].node # ROOT_ID,
         p \in WriteHolders',
         blobs' \subseteq blobs, Referenced \subseteq blobs',
         At(p, "list")' \/ At(p, "sweep")' => Referenced \subseteq proc'[p].live,
         At(p, "sweep")' => /\ proc'[p].todo \cap proc'[p].live = {}
                            /\ blobs' \subseteq proc'[p].live \cup proc'[p].todo \cup proc'[p].skipped
  PROVE  ContentInv'
<1>1. MetaInv' /\ Referenced' = Referenced
  BY MetaStep DEF ContentInv, metaVars, Referenced
<1>2. WriteHolders' = {p} /\ ReadHolders' = {}
  BY DEF WriteHolders, ReadHolders
<1>3. GuardsExclude'
  BY <1>2 DEF GuardsExclude
<1>4. ManifestStored'
  BY <1>2 DEF ManifestStored, ReadHolders, At
<1>5. \A q \in Procs : At(q, "list")' \/ At(q, "sweep")' => q = p
  BY <1>2 DEF WriteHolders, At
<1>6. LiveSetCovers' /\ SweepsGarbage'
  BY <1>1, <1>5 DEF LiveSetCovers, SweepsGarbage
<1>7. RootIsSpared'
  BY DEF ContentInv, RootIsSpared
<1>8. QED
  BY <1>1, <1>3, <1>4, <1>6, <1>7 DEF ContentInv, GcInv, NoDanglingReference

LEMMA WriterExcludes ==
  ASSUME ContentInv, NEW p \in WriteHolders
  PROVE  p \in Procs /\ ReadHolders = {} /\ WriteHolders = {p}
BY DEF ContentInv, GcInv, GuardsExclude, ReadHolders, WriteHolders

LEMMA GcStep ==
  ASSUME ContentInv, NEW p \in Procs, GcNext(p)
  PROVE  ContentInv'
<1>0. /\ proc \in [Procs -> Local] /\ proc[p] \in Local /\ proc[p].node # ROOT_ID
      /\ Referenced \subseteq blobs /\ blobs \subseteq Chunks
  BY DEF ContentInv, RootIsSpared, GcInv, NoDanglingReference
<1>1. CASE GcLock(p)
  <2>1. proc' \in [Procs -> Local]
    BY <1>0, <1>1 DEF Local, GcLock, Goto
  <2>2. /\ proc'[p].pc = "mark" /\ proc'[p].node = proc[p].node
        /\ \A q \in Procs \ {p} : proc'[q] = proc[q]
    BY <1>0, <1>1 DEF Local, GcLock, Goto
  <2>3. QED
    BY <1>0, <1>1, <2>1, <2>2, SweeperStep DEF GcLock, WriteHolders, At
<1>2. CASE GcMark(p)
  <2>1. Referenced \in SUBSET Chunks
    BY <1>0
  <2>2. proc' \in [Procs -> Local]
    BY <1>0, <1>2, <2>1 DEF Local, GcMark
  <2>3. /\ proc'[p].pc = "list" /\ proc'[p].node = proc[p].node /\ proc'[p].live = Referenced
        /\ \A q \in Procs \ {p} : proc'[q] = proc[q]
    BY <1>0, <1>2 DEF Local, GcMark
  <2>4. ReadHolders = {} /\ WriteHolders = {p}
    BY <1>2, WriterExcludes DEF GcMark, WriteHolders, At
  <2>5. QED
    BY <1>0, <1>2, <2>2, <2>3, <2>4, SweeperStep DEF GcMark, WriteHolders, At
<1>3. ASSUME NEW unreadable \in SUBSET blobs, GcList(p, unreadable) PROVE ContentInv'
  <2>0. unreadable \in SUBSET Chunks /\ blobs \ (proc[p].live \cup unreadable) \in SUBSET Chunks
    BY <1>0, <1>3
  <2>1. proc' \in [Procs -> Local]
    BY <1>0, <1>3, <2>0, ZenonT(60) DEF Local, GcList
  <2>2. /\ proc'[p].pc = "sweep" /\ proc'[p].node = proc[p].node
        /\ proc'[p].live = proc[p].live /\ proc'[p].todo = blobs \ (proc[p].live \cup unreadable)
        /\ proc'[p].skipped = unreadable
        /\ \A q \in Procs \ {p} : proc'[q] = proc[q]
    BY <1>0, <1>3 DEF Local, GcList
  <2>3. ReadHolders = {} /\ WriteHolders = {p}
    BY <1>3, WriterExcludes DEF GcList, WriteHolders, At
  <2>4. Referenced \subseteq proc[p].live
    BY <1>3 DEF GcList, ContentInv, GcInv, LiveSetCovers
  <2>5. QED
    BY <1>0, <1>3, <2>1, <2>2, <2>3, <2>4, SweeperStep DEF GcList, WriteHolders, At
<1>4. ASSUME NEW c \in Chunks, GcSweep(p, c) PROVE ContentInv'
  <2>1. proc' \in [Procs -> Local]
    BY <1>0, <1>4 DEF Local, GcSweep
  <2>2. /\ proc'[p].pc = "sweep" /\ proc'[p].node = proc[p].node
        /\ proc'[p].live = proc[p].live /\ proc'[p].todo = proc[p].todo \ {c}
        /\ \/ blobs' = blobs \ {c} /\ proc'[p].skipped = proc[p].skipped
           \/ blobs' = blobs /\ proc'[p].skipped = proc[p].skipped \cup {c}
        /\ \A q \in Procs \ {p} : proc'[q] = proc[q]
    BY <1>0, <1>4 DEF Local, GcSweep, At
  <2>3. ReadHolders = {} /\ WriteHolders = {p}
    BY <1>4, WriterExcludes DEF GcSweep, WriteHolders, At
  <2>4. /\ Referenced \subseteq proc[p].live
        /\ proc[p].todo \cap proc[p].live = {}
        /\ blobs \subseteq proc[p].live \cup proc[p].todo \cup proc[p].skipped
    BY <1>4 DEF GcSweep, ContentInv, GcInv, LiveSetCovers, SweepsGarbage
  \* c is garbage
  <2>5. c \notin Referenced
    BY <1>4, <2>4 DEF GcSweep
  <2>6. QED
    BY <1>0, <1>4, <2>1, <2>2, <2>3, <2>4, <2>5, SweeperStep DEF GcSweep, WriteHolders, At
<1>5. CASE GcEnd(p)
  <2>1. MetaInv' /\ Referenced' = Referenced
    BY <1>5, MetaStep DEF GcEnd, ContentInv, metaVars, Referenced
  <2>2. QED
    BY <1>0, <1>5, <2>1, EndStep DEF GcEnd
<1>6. CASE GcAsk(p)
  <2>1. proc' \in [Procs -> Local]
    BY <1>0, <1>6 DEF Local, GcAsk, Goto
  <2>2. /\ proc'[p].pc = "gcLock" /\ proc'[p].node = proc[p].node
        /\ \A q \in Procs \ {p} : proc'[q] = proc[q]
    BY <1>0, <1>6 DEF Local, GcAsk, Goto
  <2>3. QED
    BY <1>0, <1>6, <2>1, <2>2, LocalStep DEF GcAsk, WriteHolders, ReadHolders, At
<1>7. QED
  BY <1>1, <1>2, <1>3, <1>4, <1>5, <1>6 DEF GcNext

LEMMA ContentInitInv == ContentInit => ContentInv
<1> SUFFICES ASSUME ContentInit PROVE ContentInv
  OBVIOUS
<1>1. MetaInv
  BY MetaInitInv DEF ContentInit
<1>2. proc \in [Procs -> Local] /\ \A p \in Procs : proc[p].pc = "idle" /\ proc[p].node = NULL
  BY IdleIsLocal DEF ContentInit, Idle
<1>3. blobs = {} /\ Referenced = {}
  BY DEF ContentInit, MetaInit, Referenced
<1>4. QED
  BY <1>1, <1>2, <1>3 DEF ContentInv, RootIsSpared, NULL, ROOT_ID, GcInv, NoDanglingReference,
     GuardsExclude, ManifestStored, LiveSetCovers, SweepsGarbage, WriteHolders, At

LEMMA RestartStep == ASSUME ContentInv, Restart PROVE ContentInv'
<1>1. MetaInv' /\ Referenced' = Referenced /\ blobs' = blobs
  BY MetaStep DEF Restart, ContentInv, metaVars, Referenced
<1>2. proc' \in [Procs -> Local] /\ \A p \in Procs : proc'[p].pc = "idle" /\ proc'[p].node = NULL
  BY IdleIsLocal DEF Restart, Idle
<1>3. QED
  BY <1>1, <1>2 DEF ContentInv, RootIsSpared, NULL, ROOT_ID, GcInv, NoDanglingReference,
     GuardsExclude, ManifestStored, LiveSetCovers, SweepsGarbage, WriteHolders, At

LEMMA FailStep == ASSUME ContentInv, NEW p \in Procs, Fail(p) PROVE ContentInv'
<1>1. MetaInv' /\ Referenced' = Referenced
  BY MetaStep DEF Fail, ContentInv, metaVars, Referenced
<1>2. QED
  BY <1>1, EndStep DEF Fail, ContentInv, GcInv, NoDanglingReference

\* Every step of every request, and a restart, keep the invariant.
THEOREM ContentStep == ContentInv /\ [ContentNext]_contentVars => ContentInv'
<1> SUFFICES ASSUME ContentInv, [ContentNext]_contentVars PROVE ContentInv'
  OBVIOUS
<1>1. CASE UNCHANGED contentVars
  <2>1. MetaInv' /\ Referenced' = Referenced /\ blobs' = blobs /\ proc' = proc
    BY <1>1, MetaStep DEF contentVars, ContentInv, metaVars, Referenced
  <2>2. QED
    BY <2>1 DEF ContentInv, RootIsSpared, GcInv, NoDanglingReference, GuardsExclude,
       ManifestStored, LiveSetCovers, SweepsGarbage, WriteHolders, ReadHolders, At
<1>2. ASSUME NEW p \in Procs, PutNext(p) \/ CopyNext(p) \/ VersionNext(p) \/ GcNext(p) \/ Fail(p)
      PROVE  ContentInv'
  BY <1>2, PutStep, CopyStep, VersionStep, GcStep, FailStep
<1>3. CASE Restart
  BY <1>3, RestartStep
<1>4. QED
  BY <1>1, <1>2, <1>3 DEF ContentNext

\* Whatever requests and garbage collection do side by side, the invariant holds.
THEOREM ContentInvariant == ContentSpec => []ContentInv
<1>1. ContentInit => ContentInv
  BY ContentInitInv
<1>2. ContentInv /\ [ContentNext]_contentVars => ContentInv'
  BY ContentStep
<1>3. QED
  BY <1>1, <1>2, PTL DEF ContentSpec

\* Whatever requests run side by side, fail or are cut short by a restart, no
\* version ever refers to a chunk that is not on disk.
THEOREM GcIsSafe == ContentSpec => []NoDanglingReference
<1>1. ContentInv => NoDanglingReference
  BY DEF ContentInv, GcInv
<1>2. QED
  BY <1>1, ContentInvariant, PTL

\* A sweep that is over leaves no garbage but what it could not list or remove.
THEOREM GcIsThorough == ContentSpec => []GcIsComplete
<1>1. ContentInv => GcIsComplete
  BY DEF ContentInv, GcInv, SweepsGarbage, GcIsComplete
<1>2. QED
  BY <1>1, ContentInvariant, PTL

\* Requests of all kinds keep the metadata consistent, also when a request
\* goes on with the id of a node that was deleted, or of another node by now.
THEOREM RequestsKeepMetadata == ContentSpec => [](ContentTypeOK /\ MetadataIntact)
<1>1. ContentInv => ContentTypeOK /\ MetadataIntact
  BY DEF ContentInv, MetaInv, ContentTypeOK, MetadataIntact
<1>2. QED
  BY <1>1, ContentInvariant, PTL
-----------------------------------------------------------------------------
(* Seen from the tables, requests are calls to the store *)

\* Only names that a path can have are given to nodes.
NamesAreNames ==
  \A p \in Procs : At(p, "putCreate") \/ At(p, "copyCreate") => proc[p].name \in Names

LEMMA NamesStep ==
  ASSUME ContentInv, NamesAreNames, [ContentNext]_contentVars
  PROVE  NamesAreNames'
<1> DEFINE Named(l) == l.pc \in {"putCreate", "copyCreate"} => l.name \in Names
<1> SUFFICES ASSUME NEW q \in Procs PROVE Named(proc'[q])
  BY DEF NamesAreNames, At
<1>1. Named(proc[q]) /\ proc \in [Procs -> Local] /\ proc[q] \in Local
  BY DEF NamesAreNames, At, ContentInv
<1>2. Named(Idle)
  BY DEF Idle
<1>3. ASSUME NEW p \in Procs, PutNext(p) PROVE Named(proc'[q])
  <2>0. proc[p] \in Local
    BY <1>1
  <2>1. ASSUME NEW name \in Names, PutOpen(p, name) PROVE Named(proc'[q])
    BY <1>1, <1>2, <2>0, <2>1 DEF PutOpen, Local
  <2>2. ASSUME NEW id \in NodeIds, NEW now \in Times, PutCreate(p, id, now) PROVE Named(proc'[q])
    BY <1>1, <1>2, <2>0, <2>2 DEF PutCreate, Local
  <2>3. CASE PutLock(p)
    BY <1>1, <1>2, <2>0, <2>3 DEF PutLock, ReadLock, Goto, Local
  <2>4. ASSUME NEW m \in Manifests, PutCheck(p, m) PROVE Named(proc'[q])
    BY <1>1, <1>2, <2>0, <2>4 DEF PutCheck, Local
  <2>5. ASSUME NEW c \in Chunks, StoreChunk(p, c) PROVE Named(proc'[q])
    BY <1>1, <1>2, <2>0, <2>5 DEF StoreChunk, At, Local
  <2>6. ASSUME NEW now \in Times, Commit(p, now) PROVE Named(proc'[q])
    BY <1>1, <1>2, <2>0, <2>6 DEF Commit, End, Local
  <2>7. QED
    BY <1>3, <2>1, <2>2, <2>3, <2>4, <2>5, <2>6 DEF PutNext
<1>4. ASSUME NEW p \in Procs, CopyNext(p) PROVE Named(proc'[q])
  <2>0. proc[p] \in Local
    BY <1>1
  <2>1. ASSUME NEW n \in NodeIds, CopyResolve(p, n) PROVE Named(proc'[q])
    BY <1>1, <1>2, <2>0, <2>1 DEF CopyResolve, Local
  <2>2. ASSUME NEW name \in Names, CopyTo(p, name) PROVE Named(proc'[q])
    <3>1. ASSUME NEW n \in DOMAIN nodes,
                 proc' = [proc EXCEPT ![p].pc = "copyLock", ![p].node = n, ![p].written = FALSE]
          PROVE  Named(proc'[q])
      BY <1>1, <2>0, <3>1 DEF Local
    <3>2. CASE proc' = [proc EXCEPT ![p].pc = "copyCreate", ![p].name = name]
      BY <1>1, <2>0, <3>2 DEF Local
    <3>3. QED
      BY <2>2, <3>1, <3>2 DEF CopyTo
  <2>3. ASSUME NEW id \in NodeIds, NEW now \in Times, CopyCreate(p, id, now) PROVE Named(proc'[q])
    BY <1>1, <1>2, <2>0, <2>3 DEF CopyCreate, End, Local
  <2>4. CASE CopyLock(p)
    BY <1>1, <1>2, <2>0, <2>4 DEF CopyLock, ReadLock, Goto, Local
  <2>5. CASE CopyLoad(p)
    BY <1>1, <1>2, <2>0, <2>5 DEF CopyLoad, Local
  <2>6. QED
    BY <1>4, <2>1, <2>2, <2>3, <2>4, <2>5 DEF CopyNext
<1>5. ASSUME NEW p \in Procs, VersionNext(p) PROVE Named(proc'[q])
  <2>0. proc[p] \in Local
    BY <1>1
  <2>1. ASSUME NEW n \in NodeIds, NEW pc \in {"revertFind", "prune", "deleteCheck"}, Resolve(p, n, pc) PROVE Named(proc'[q])
    BY <1>1, <1>2, <2>0, <2>1 DEF Resolve, Local
  <2>2. ASSUME NEW v \in VersionIds, RevertFind(p, v) PROVE Named(proc'[q])
    BY <1>1, <1>2, <2>0, <2>2 DEF RevertFind, Local
  <2>3. CASE RevertLock(p)
    BY <1>1, <1>2, <2>0, <2>3 DEF RevertLock, ReadLock, Goto, Local
  <2>4. CASE RevertLoad(p)
    BY <1>1, <1>2, <2>0, <2>4 DEF RevertLoad, Local
  <2>5. ASSUME NEW v \in DOMAIN versions, Prune(p, versions[v].number) PROVE Named(proc'[q])
    BY <1>1, <1>2, <2>0, <2>5 DEF Prune, End, Local
  <2>6. CASE DeleteCheck(p)
    BY <1>1, <1>2, <2>0, <2>6 DEF DeleteCheck, Goto, Local
  <2>7. CASE Delete(p)
    BY <1>1, <1>2, <2>0, <2>7 DEF Delete, End, Local
  <2>8. QED
    BY <1>5, <2>1, <2>2, <2>3, <2>4, <2>5, <2>6, <2>7 DEF VersionNext
<1>6. ASSUME NEW p \in Procs, GcNext(p) PROVE Named(proc'[q])
  <2>0. proc[p] \in Local
    BY <1>1
  <2>1. CASE GcLock(p)
    BY <1>1, <1>2, <2>0, <2>1 DEF GcLock, Goto, Local
  <2>2. CASE GcMark(p)
    BY <1>1, <1>2, <2>0, <2>2 DEF GcMark, Local
  <2>3. ASSUME NEW unreadable \in SUBSET blobs, GcList(p, unreadable) PROVE Named(proc'[q])
    BY <1>1, <1>2, <2>0, <2>3 DEF GcList, Local
  <2>4. ASSUME NEW c \in Chunks, GcSweep(p, c) PROVE Named(proc'[q])
    BY <1>1, <1>2, <2>0, <2>4 DEF GcSweep, At, Local
  <2>5. CASE GcEnd(p)
    BY <1>1, <1>2, <2>0, <2>5 DEF GcEnd, End, Local
  <2>6. CASE GcAsk(p)
    BY <1>1, <1>2, <2>0, <2>6 DEF GcAsk, Goto, Local
  <2>7. QED
    BY <1>6, <2>1, <2>2, <2>3, <2>4, <2>5, <2>6 DEF GcNext
<1>7. ASSUME NEW p \in Procs, Fail(p) PROVE Named(proc'[q])
  BY <1>1, <1>2, <1>7 DEF Fail, End
<1>8. CASE Restart
  BY <1>2, <1>8 DEF Restart
<1>9. CASE UNCHANGED contentVars
  BY <1>1, <1>9 DEF contentVars
<1>10. QED
  BY <1>3, <1>4, <1>5, <1>6, <1>7, <1>8, <1>9 DEF ContentNext

LEMMA RequestIsCall ==
  ASSUME ContentInv, NamesAreNames, [ContentNext]_contentVars
  PROVE  [MetaNext]_metaVars
<1> USE MetaConstants
<1>1. MetaInv /\ RootIsSpared /\ proc \in [Procs -> Local]
  BY DEF ContentInv
<1>2. ROOT_ID \in DOMAIN nodes
  BY <1>1 DEF MetaInv, MetaTypeOK
<1>3. ASSUME NEW p \in Procs, NEW id \in NodeIds, NEW now \in Times,
             PutCreate(p, id, now) \/ CopyCreate(p, id, now)
      PROVE  MetaNext
  <2>1. proc[p].name \in Names /\ InsertNode(id, ROOT_ID, proc[p].name, FALSE, now)
    BY <1>3 DEF PutCreate, CopyCreate, NamesAreNames
  <2>2. QED
    BY <1>2, <2>1 DEF MetaNext
<1>4. ASSUME NEW p \in Procs, NEW now \in Times, Commit(p, now) PROVE MetaNext
  <2>1. proc[p].node \in DOMAIN nodes \ {ROOT_ID} /\ proc[p].m \in Manifests
    BY <1>1, <1>4 DEF Commit, SetFileContent, RootIsSpared, Local
  <2>2. SetFileContent(proc[p].node, proc[p].m, now)
    BY <1>4 DEF Commit
  <2>3. QED
    BY <2>1, <2>2 DEF MetaNext
<1>5. ASSUME NEW p \in Procs, NEW number, Prune(p, number) PROVE MetaNext
  <2>1. DeleteVersion(proc[p].node, number)
    BY <1>5 DEF Prune
  <2>2. PICK v \in VersionsOf(proc[p].node) : versions[v].number = number
    BY <2>1 DEF DeleteVersion
  <2>3. v \in DOMAIN versions /\ versions[v].node = proc[p].node
    BY <2>2 DEF VersionsOf
  <2>4. QED
    BY <2>1, <2>2, <2>3 DEF MetaNext
<1>6. ASSUME NEW p \in Procs, Delete(p) PROVE MetaNext
  <2>1. DeleteNode(proc[p].node) /\ proc[p].node \in DOMAIN nodes \ {ROOT_ID}
    BY <1>1, <1>6 DEF Delete, DeleteNode, RootIsSpared
  <2>2. QED
    BY <2>1 DEF MetaNext
<1>7. ASSUME NEW p \in Procs, PutNext(p) \/ CopyNext(p) PROVE [MetaNext]_metaVars
  BY <1>3, <1>4, <1>7 DEF PutNext, CopyNext, PutOpen, PutLock, PutCheck, StoreChunk,
     CopyResolve, CopyTo, CopyLock, CopyLoad
<1>8. ASSUME NEW p \in Procs, VersionNext(p) PROVE [MetaNext]_metaVars
  BY <1>5, <1>6, <1>8 DEF VersionNext, Resolve, RevertFind, RevertLock, RevertLoad, DeleteCheck
<1>9. ASSUME NEW p \in Procs, GcNext(p) \/ Fail(p) PROVE [MetaNext]_metaVars
  BY <1>9 DEF GcNext, GcAsk, GcLock, GcMark, GcList, GcSweep, GcEnd, Fail
<1>10. CASE Restart \/ UNCHANGED contentVars
  BY <1>10 DEF Restart, contentVars, metaVars
<1>11. QED
  BY <1>7, <1>8, <1>9, <1>10 DEF ContentNext

\* Requests in any interleaving, failures and restarts among them, do nothing
\* to the tables that a sequence of calls to the store does not do: all that
\* is shown of MetaSpec holds with requests side by side.
THEOREM ContentIsMeta == ContentSpec => MetaSpec
<1>1. ContentInit => NamesAreNames /\ MetaInit
  BY DEF ContentInit, NamesAreNames, At, Idle
<1>2. ContentInv /\ NamesAreNames /\ [ContentNext]_contentVars => NamesAreNames' /\ [MetaNext]_metaVars
  BY NamesStep, RequestIsCall
<1>3. QED
  BY <1>1, <1>2, ContentInvariant, PTL DEF ContentSpec, MetaSpec

\* ?version=N stays good, and the history of every file is one that
\* VersionHistory allows, whatever requests run side by side.
THEOREM RequestsKeepHistory == ContentSpec => NumbersAreStable /\ ImplementsVersionHistory
BY ContentIsMeta, NumbersStayStable, MetaImplementsHistory
=============================================================================
