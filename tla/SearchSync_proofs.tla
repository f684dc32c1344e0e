-------------------------- MODULE SearchSync_proofs --------------------------
(***************************************************************************)
(* What a search finds is up to date for every file that no two requests   *)
(* worked on at once, for any number of requests and files: what keeps the *)
(* other requests from disturbing an update is an invariant.               *)
(***************************************************************************)
EXTENDS SearchSync, MetaStore_proofs

\* The requests of this module know one collection, the root.
FilesInRoot ==
  /\ nodes[ROOT_ID].isDir
  /\ \A n \in DOMAIN nodes \ {ROOT_ID} : nodes[n].parent = ROOT_ID /\ ~nodes[n].isDir

\* No request writes to the root, deletes or moves it; one that works on a node
\* knows it, and one that moves a node knows a name for it.
IsSound(l) ==
  /\ l.node # ROOT_ID /\ l.src # ROOT_ID
  /\ l.pc \in {"record", "delete", "look", "load", "index", "drop", "commit"} => l.node # NULL
  /\ l.src # NULL => l.name \in Names

RequestsAreSound == \A p \in Procs : IsSound(proc[p])

SharedIsMixed == Shared \subseteq mixed

\* What a search should find of n, in the index or in what is staged.
FreshIn(docs, n) ==
  IF Candidate(n) THEN n \in DOMAIN docs /\ docs[n] = LoadManifest(n) ELSE n \notin DOMAIN docs

\* How far each request has come with the index update of its node, if no other
\* request worked on that node: what it has seen is still so.
OnCourse(p) ==
  \A n \in NodeIds \ mixed : n = proc[p].node =>
    /\ At(p, "look") =>
         /\ n \in DOMAIN nodes /\ nodes[n].current # NULL
         /\ nodes[n].name \in Indexable \/ n \in behind \/ n \notin DOMAIN index \cup DOMAIN staged
    /\ At(p, "load") => Candidate(n)
    /\ At(p, "index") => Candidate(n) /\ proc[p].text = LoadManifest(n)
    /\ At(p, "drop") => ~Candidate(n)
    /\ At(p, "commit") => FreshIn(staged, n)
    /\ At(p, "delete") => n \in DOMAIN nodes /\ proc[p].listed = (nodes[n].name \in Indexable)

UpdatesOnCourse == \A p \in Procs : OnCourse(p)

Pending(n) == \E p \in Procs : Updating(p) /\ proc[p].node = n

\* A node with no update under way is as it should be, and stays so whoever
\* publishes what is staged.
SettledIsFresh ==
  \A n \in NodeIds \ (mixed \cup behind) : Pending(n) \/ (FreshIn(index, n) /\ FreshIn(staged, n))

SyncInv ==
  /\ MetaInv
  /\ SearchTypeOK
  /\ FilesInRoot
  /\ RequestsAreSound
  /\ SharedIsMixed
  /\ UpdatesOnCourse
  /\ SettledIsFresh

-----------------------------------------------------------------------------
(* What the calls of the store do to the files they are not about          *)

SameFile(n) ==
  /\ n \in DOMAIN nodes' <=> n \in DOMAIN nodes
  /\ n \in DOMAIN nodes => nodes'[n] = nodes[n] /\ LoadManifest(n)' = LoadManifest(n)

LEMMA SameFileSameCandidate ==
  ASSUME NEW n, SameFile(n)
  PROVE  Candidate(n)' <=> Candidate(n)
BY DEF SameFile, Candidate, IsTextFile

LEMMA TablesUnchanged ==
  ASSUME MetaInv, FilesInRoot, UNCHANGED metaVars
  PROVE  MetaInv' /\ FilesInRoot' /\ \A n : SameFile(n)
<1>1. MetaInv'
  BY MetaStep
<1>2. QED
  BY <1>1 DEF FilesInRoot, SameFile, LoadManifest, ReadManifest, metaVars

\* A file keeps its content while its row stays, and the row of its current version.
LEMMA RowsMakeFile ==
  ASSUME MetaInv, NEW n,
         n \in DOMAIN nodes' <=> n \in DOMAIN nodes,
         n \in DOMAIN nodes => nodes'[n] = nodes[n],
         \A v \in VersionsOf(n) : v \in DOMAIN versions' /\ versions'[v] = versions[v]
  PROVE  SameFile(n)
<1> SUFFICES ASSUME n \in DOMAIN nodes PROVE LoadManifest(n)' = LoadManifest(n)
  BY DEF SameFile
<1>1. CASE nodes[n].current = NULL
  BY <1>1 DEF LoadManifest
<1>2. CASE nodes[n].current # NULL
  <2>1. nodes[n].current \in VersionsOf(n)
    BY <1>2 DEF MetaInv, ReferentialIntegrity
  <2>2. nodes[n].current \in DOMAIN versions
    BY <2>1 DEF VersionsOf
  <2>3. QED
    BY <1>2, <2>1, <2>2 DEF LoadManifest, ReadManifest
<1>3. QED
  BY <1>1, <1>2

LEMMA InsertTouches ==
  ASSUME MetaInv, FilesInRoot, NEW id \in NodeIds, NEW name \in Names, NEW now \in Times,
         InsertNode(id, ROOT_ID, name, FALSE, now)
  PROVE  /\ MetaInv' /\ FilesInRoot'
         /\ id \notin DOMAIN nodes /\ id \in DOMAIN nodes' /\ nodes'[id].current = NULL /\ id # ROOT_ID
         /\ \A n : n # id => SameFile(n)
<1>1. ROOT_ID \in DOMAIN nodes
  BY DEF MetaInv, MetaTypeOK
<1>2. MetaNext
  BY <1>1 DEF MetaNext
<1>3. MetaInv'
  BY <1>2, MetaStep
<1>4. id \notin DOMAIN nodes
  BY NextRowIdFact, MetaConstants DEF MetaInv, MetaTypeOK, InsertNode
<1>5. /\ DOMAIN nodes' = DOMAIN nodes \cup {id} /\ versions' = versions
      /\ nodes'[id].current = NULL /\ nodes'[id].parent = ROOT_ID /\ ~nodes'[id].isDir
      /\ \A n \in DOMAIN nodes : nodes'[n] = nodes[n]
  BY <1>4 DEF InsertNode, PutRow
<1>6. FilesInRoot'
  BY <1>1, <1>4, <1>5 DEF FilesInRoot
<1>7. ASSUME NEW n, n # id PROVE SameFile(n)
  BY <1>5, <1>7, RowsMakeFile DEF VersionsOf
<1>8. QED
  BY <1>1, <1>3, <1>4, <1>5, <1>6, <1>7

LEMMA RecordTouches ==
  ASSUME MetaInv, FilesInRoot, NEW id \in DOMAIN nodes \ {ROOT_ID}, NEW m \in Manifests,
         NEW now \in Times, SetFileContent(id, m, now)
  PROVE  /\ MetaInv' /\ FilesInRoot'
         /\ id \in DOMAIN nodes' /\ nodes'[id].current # NULL /\ nodes'[id].name = nodes[id].name
         /\ \A n : n # id => SameFile(n)
<1>1. MetaNext
  BY DEF MetaNext
<1>2. MetaInv'
  BY <1>1, MetaStep
<1>3. CASE SameContent(id, m)
  <2>1. UNCHANGED metaVars /\ nodes[id].current # NULL
    BY <1>3 DEF SetFileContent, SameContent
  <2>2. QED
    BY <2>1, TablesUnchanged DEF metaVars
<1>4. CASE ~SameContent(id, m)
  <2>1. AppendVersion(id, m, now)
    BY <1>4 DEF SetFileContent
  <2>2. PICK vid \in VersionIds \ DOMAIN versions :
          /\ DOMAIN versions' = DOMAIN versions \cup {vid}
          /\ \A v \in DOMAIN versions : versions'[v] = versions[v]
          /\ DOMAIN nodes' = DOMAIN nodes
          /\ nodes'[id].current = vid
          /\ \A n \in DOMAIN nodes \ {id} : nodes'[n] = nodes[n]
    BY <2>1, AppendedRow
  <2>3. nodes[id] \in NodeRow /\ nodes \in [DOMAIN nodes -> NodeRow]
    BY DEF MetaInv, MetaTypeOK
  <2>4. PICK w \in VersionIds :
          nodes' = [nodes EXCEPT ![id].current = w, ![id].size = Len(m), ![id].modified = now]
    BY <2>1 DEF AppendVersion
  <2>5. /\ nodes'[id].name = nodes[id].name /\ nodes'[id].parent = nodes[id].parent
        /\ nodes'[id].isDir = nodes[id].isDir
    BY <2>3, <2>4 DEF NodeRow
  <2>6. FilesInRoot'
    BY <2>2, <2>5 DEF FilesInRoot, MetaInv, MetaTypeOK
  <2>7. ASSUME NEW n, n # id PROVE SameFile(n)
    BY <2>2, <2>7, RowsMakeFile DEF VersionsOf
  <2>8. vid # NULL
    BY MetaConstants
  <2>9. QED
    BY <1>2, <2>2, <2>5, <2>6, <2>7, <2>8
<1>5. QED
  BY <1>3, <1>4

\* Nothing is below a file.
LEMMA DeleteTouches ==
  ASSUME MetaInv, FilesInRoot, NEW id \in DOMAIN nodes \ {ROOT_ID}, DeleteNode(id)
  PROVE  MetaInv' /\ FilesInRoot' /\ id \notin DOMAIN nodes' /\ \A n : n # id => SameFile(n)
<1>1. MetaNext
  BY DEF MetaNext
<1>2. MetaInv'
  BY <1>1, MetaStep
<1>3. Subtree(id) = {id}
  <2>1. \A m \in DOMAIN nodes : nodes[m].parent \in {id} => m \in {id}
    BY MetaConstants DEF FilesInRoot, MetaInv, MetaTypeOK, RootIsTop, NULL
  <2>2. {id} \in SUBSET DOMAIN nodes /\ id \in {id}
    OBVIOUS
  <2>3. QED
    BY <2>1, <2>2 DEF Subtree
<1>4. /\ DOMAIN nodes' = DOMAIN nodes \ {id}
      /\ \A n \in DOMAIN nodes \ {id} : nodes'[n] = nodes[n]
      /\ \A v \in DOMAIN versions :
           versions[v].node # id => v \in DOMAIN versions' /\ versions'[v] = versions[v]
  BY <1>3 DEF DeleteNode, DropRows, Restrict
<1>5. FilesInRoot'
  BY <1>4 DEF FilesInRoot, MetaInv, MetaTypeOK
<1>6. ASSUME NEW n, n # id PROVE SameFile(n)
  BY <1>4, <1>6, RowsMakeFile DEF VersionsOf
<1>7. QED
  BY <1>2, <1>4, <1>5, <1>6

LEMMA RenameTouches ==
  ASSUME MetaInv, FilesInRoot, NEW id \in DOMAIN nodes \ {ROOT_ID}, NEW name \in Names,
         Rename(id, ROOT_ID, name)
  PROVE  /\ MetaInv' /\ FilesInRoot'
         /\ id \in DOMAIN nodes' /\ nodes'[id].name = name
         /\ (nodes[id].name \in Indexable <=> name \in Indexable) =>
              (Candidate(id)' <=> Candidate(id)) /\ LoadManifest(id)' = LoadManifest(id)
         /\ \A n : n # id => SameFile(n)
<1>1. ROOT_ID \in DOMAIN nodes /\ nodes[id] \in NodeRow /\ nodes \in [DOMAIN nodes -> NodeRow]
  BY DEF MetaInv, MetaTypeOK
<1>2. MetaNext
  BY <1>1 DEF MetaNext
<1>3. MetaInv'
  BY <1>2, MetaStep
<1>4. nodes' = [nodes EXCEPT ![id].parent = ROOT_ID, ![id].name = name] /\ versions' = versions
  BY DEF Rename
<1>5. /\ DOMAIN nodes' = DOMAIN nodes
      /\ nodes'[id].name = name /\ nodes'[id].parent = ROOT_ID /\ nodes'[id].isDir = nodes[id].isDir
      /\ nodes'[id].current = nodes[id].current /\ nodes'[id].size = nodes[id].size
      /\ \A n \in DOMAIN nodes \ {id} : nodes'[n] = nodes[n]
  BY <1>1, <1>4 DEF NodeRow
<1>6. FilesInRoot'
  BY <1>1, <1>5 DEF FilesInRoot
<1>7. ASSUME NEW n, n # id PROVE SameFile(n)
  BY <1>4, <1>5, <1>7, RowsMakeFile DEF VersionsOf
<1>8. LoadManifest(id)' = LoadManifest(id)
  BY <1>4, <1>5 DEF LoadManifest, ReadManifest
<1>9. (nodes[id].name \in Indexable <=> name \in Indexable) => (Candidate(id)' <=> Candidate(id))
  BY <1>5 DEF Candidate, IsTextFile
<1>10. QED
  BY <1>3, <1>5, <1>6, <1>7, <1>8, <1>9

-----------------------------------------------------------------------------
(* What one request does to what is known of the others                    *)

LEMMA SharedByTwo ==
  ASSUME NEW p \in Procs, NEW q \in Procs, p # q, NEW n, n \in Uses(p), n \in Uses(q)
  PROVE  n \in Shared
BY DEF Shared

\* What of a node's state the index and the requests have to agree with.
SameNode(n) ==
  /\ SameFile(n)
  /\ n \in DOMAIN staged' <=> n \in DOMAIN staged
  /\ n \in DOMAIN staged => staged'[n] = staged[n]
  /\ n \in behind' <=> n \in behind

LEMMA SameNodeSameStaged ==
  ASSUME NEW n, SameNode(n)
  PROVE  FreshIn(staged, n)' <=> FreshIn(staged, n)
<1>1. (Candidate(n)' <=> Candidate(n)) /\ (Candidate(n) => LoadManifest(n)' = LoadManifest(n))
  BY SameFileSameCandidate DEF SameNode, SameFile, Candidate
<1>2. QED
  BY <1>1 DEF SameNode, FreshIn

LEMMA SameNodeSameIndex ==
  ASSUME NEW n, SameNode(n), index' = index \/ index' = staged, FreshIn(index, n), FreshIn(staged, n)
  PROVE  FreshIn(index, n)'
<1>1. (Candidate(n)' <=> Candidate(n)) /\ (Candidate(n) => LoadManifest(n)' = LoadManifest(n))
  BY SameFileSameCandidate DEF SameNode, SameFile, Candidate
<1>2. QED
  BY <1>1 DEF FreshIn

\* A node with no update under way that no other request works on.
LEMMA SettledHere ==
  ASSUME SyncInv, NEW p \in Procs, NEW n \in Uses(p), n \notin mixed, n \notin behind,
         Updating(p) => proc[p].node # n
  PROVE  FreshIn(index, n) /\ FreshIn(staged, n)
<1>1. n \in NodeIds
  BY DEF SyncInv, SearchTypeOK, Uses, Local
<1>2. ASSUME NEW q \in Procs, Updating(q), proc[q].node = n PROVE FALSE
  <2>1. q # p
    BY <1>2
  <2>2. n \in Uses(q)
    BY <1>2 DEF Uses
  <2>3. QED
    BY <2>1, <2>2, SharedByTwo DEF SyncInv, SharedIsMixed
<1>3. QED
  BY <1>1, <1>2 DEF SyncInv, SettledIsFresh, Pending

\* A request that touches one node at most, and brings its own update on,
\* leaves what is known of the others alone.
LEMMA OneRequest ==
  ASSUME SyncInv, NEW p \in Procs, NEW t,
         MetaInv', FilesInRoot',
         index' \in [DOMAIN index' -> Manifests], DOMAIN index' \subseteq NodeIds,
         staged' \in [DOMAIN staged' -> Manifests], DOMAIN staged' \subseteq NodeIds,
         proc' \in [Procs -> Local], behind' \subseteq NodeIds,
         \A q \in Procs \ {p} : proc'[q] = proc[q],
         mixed' = mixed \cup Shared',
         IsSound(proc'[p]),
         OnCourse(p)',
         t = NULL \/ t \in Uses(p) \/ t \in Uses(p)',
         Updating(p) => t = proc[p].node,
         \A n \in NodeIds : n # t => SameNode(n),
         index' = index \/ index' = staged,
         t \in NodeIds /\ t \notin mixed' /\ t \notin behind' =>
           Pending(t)' \/ (FreshIn(index, t)' /\ FreshIn(staged, t)')
  PROVE  SyncInv'
<1>1. SearchTypeOK'
  <2>1. Shared' \subseteq NodeIds
    BY DEF Shared, Uses, Local
  <2>2. mixed \subseteq NodeIds
    BY DEF SyncInv, SearchTypeOK
  <2>3. QED
    BY <2>1, <2>2 DEF SearchTypeOK, MetaInv
<1>2. RequestsAreSound'
  BY DEF SyncInv, RequestsAreSound
<1>3. SharedIsMixed'
  BY DEF SharedIsMixed
\* whoever else works on a node that is not mixed does not work on t
<1>4. ASSUME NEW q \in Procs \ {p}, NEW n \in Uses(q), n \notin mixed' PROVE n # t /\ n \in NodeIds
  <2>1. n \in NodeIds /\ n # NULL /\ n \in Uses(q)'
    BY DEF Uses, SyncInv, SearchTypeOK, Local
  <2>2. n \notin Uses(p)
    BY <1>4, SharedByTwo DEF SyncInv, SharedIsMixed
  <2>3. n \notin Uses(p)'
    BY <1>4, <2>1 DEF Shared
  <2>4. QED
    BY <2>1, <2>2, <2>3
<1>5. ASSUME NEW q \in Procs \ {p} PROVE OnCourse(q)'
  <2>1. proc'[q] = proc[q] /\ OnCourse(q)
    BY DEF SyncInv, UpdatesOnCourse
  <2> DEFINE Course(n) ==
        /\ At(q, "look") =>
             /\ n \in DOMAIN nodes /\ nodes[n].current # NULL
             /\ nodes[n].name \in Indexable \/ n \in behind \/ n \notin DOMAIN index \cup DOMAIN staged
        /\ At(q, "load") => Candidate(n)
        /\ At(q, "index") => Candidate(n) /\ proc[q].text = LoadManifest(n)
        /\ At(q, "drop") => ~Candidate(n)
        /\ At(q, "commit") => FreshIn(staged, n)
        /\ At(q, "delete") => n \in DOMAIN nodes /\ proc[q].listed = (nodes[n].name \in Indexable)
  <2> SUFFICES ASSUME NEW k \in NodeIds, k \notin mixed', k = proc'[q].node PROVE Course(k)'
    BY DEF OnCourse
  <2>2. k \in Uses(q) /\ k \notin mixed
    BY <2>1, MetaConstants DEF Uses
  <2>3. k # t /\ Course(k)
    BY <1>4, <2>1, <2>2 DEF OnCourse
  <2>4. SameNode(k)
    BY <2>3
  <2>5. (Candidate(k)' <=> Candidate(k)) /\ (Candidate(k) => LoadManifest(k)' = LoadManifest(k))
    BY <2>4, SameFileSameCandidate DEF SameNode, SameFile, Candidate
  <2>6. FreshIn(staged, k)' <=> FreshIn(staged, k)
    BY <2>4, SameNodeSameStaged
  <2>7. \A pc : At(q, pc)' <=> At(q, pc)
    BY <2>1 DEF At
  <2>8. (At(q, "look") =>
             /\ k \in DOMAIN nodes /\ nodes[k].current # NULL
             /\ nodes[k].name \in Indexable \/ k \in behind \/ k \notin DOMAIN index \cup DOMAIN staged)'
    BY <2>3, <2>4, <2>7 DEF SameNode, SameFile
  <2>9. (At(q, "delete") => k \in DOMAIN nodes /\ proc[q].listed = (nodes[k].name \in Indexable))'
    BY <2>1, <2>3, <2>4, <2>7 DEF SameNode, SameFile
  <2>10. QED
    BY <2>1, <2>3, <2>5, <2>6, <2>7, <2>8, <2>9
<1>6. UpdatesOnCourse'
  BY <1>5 DEF UpdatesOnCourse
<1>7. SettledIsFresh'
  <2> SUFFICES ASSUME NEW n \in NodeIds, n \notin mixed', n \notin behind', n # t
               PROVE  Pending(n)' \/ (FreshIn(index, n)' /\ FreshIn(staged, n)')
    BY DEF SettledIsFresh
  <2>1. SameNode(n) /\ n \notin mixed /\ n \notin behind
    BY DEF SameNode
  <2>2. CASE Pending(n)
    <3>1. PICK q \in Procs : Updating(q) /\ proc[q].node = n
      BY <2>2 DEF Pending
    <3>2. q # p
      BY <3>1
    <3>3. QED
      BY <3>1, <3>2 DEF Pending, Updating
  <2>3. CASE FreshIn(index, n) /\ FreshIn(staged, n)
    BY <2>1, <2>3, SameNodeSameStaged, SameNodeSameIndex
  <2>4. QED
    BY <2>1, <2>2, <2>3 DEF SyncInv, SettledIsFresh
<1>8. QED
  BY <1>1, <1>2, <1>3, <1>6, <1>7 DEF SyncInv

-----------------------------------------------------------------------------
(* The steps that leave the tables alone                                   *)

\* A step that brings at most the update of its own node on.
LEMMA OneUpdate ==
  ASSUME SyncInv, NEW p \in Procs, NEW t, UNCHANGED metaVars,
         (t = NULL /\ ~Updating(p)) \/ t = proc[p].node,
         proc' \in [Procs -> Local], \A q \in Procs \ {p} : proc'[q] = proc[q], IsSound(proc'[p]),
         mixed' = mixed \cup Shared',
         index' = index \/ index' = staged,
         staged' \in [DOMAIN staged' -> Manifests], DOMAIN staged' \subseteq NodeIds,
         behind' \subseteq NodeIds,
         \A n \in NodeIds : n # t =>
           /\ n \in DOMAIN staged' <=> n \in DOMAIN staged
           /\ n \in DOMAIN staged => staged'[n] = staged[n]
           /\ n \in behind' <=> n \in behind,
         OnCourse(p)',
         t \in NodeIds /\ t \notin mixed' /\ t \notin behind' =>
           Pending(t)' \/ (FreshIn(index, t)' /\ FreshIn(staged, t)')
  PROVE  SyncInv'
<1>1. MetaInv' /\ FilesInRoot' /\ \A n : SameFile(n)
  BY TablesUnchanged DEF SyncInv
<1>2. \A n \in NodeIds : n # t => SameNode(n)
  BY <1>1 DEF SameNode
<1>3. index' \in [DOMAIN index' -> Manifests] /\ DOMAIN index' \subseteq NodeIds
  BY DEF SyncInv, SearchTypeOK
<1>4. t = NULL \/ t \in Uses(p) \/ t \in Uses(p)'
  BY DEF Uses
<1>5. Updating(p) => t = proc[p].node
  OBVIOUS
<1>6. QED
  BY <1>1, <1>2, <1>3, <1>4, <1>5, OneRequest

\* A step that starts, ends or goes on with what is no index update.
LEMMA NoUpdate ==
  ASSUME SyncInv, NEW p \in Procs, ~Updating(p), UNCHANGED <<metaVars, index, staged, behind>>,
         proc' \in [Procs -> Local], \A q \in Procs \ {p} : proc'[q] = proc[q], IsSound(proc'[p]),
         mixed' = mixed \cup Shared', OnCourse(p)'
  PROVE  SyncInv'
<1>1. /\ staged' \in [DOMAIN staged' -> Manifests] /\ DOMAIN staged' \subseteq NodeIds
      /\ behind' \subseteq NodeIds /\ index' = index /\ staged' = staged /\ behind' = behind
      /\ UNCHANGED metaVars
  BY DEF SyncInv, SearchTypeOK
<1>2. NULL \notin NodeIds
  BY MetaConstants
<1> DEFINE t == NULL
<1>3. t = NULL /\ t \notin NodeIds
  BY <1>2
<1> HIDE DEF t
<1>4. QED
  BY <1>1, <1>3, OneUpdate

LEMMA NoNode ==
  ASSUME NEW p \in Procs, proc'[p].node = NULL
  PROVE  OnCourse(p)'
BY MetaConstants DEF OnCourse

LEMMA IdleIsSound == Idle \in Local /\ IsSound(Idle)
BY MetaConstants DEF Idle, Local, IsSound, RootName, ROOT_ID, NULL

LEMMA Ended ==
  ASSUME SyncInv, NEW p \in Procs, End(p)
  PROVE  /\ proc' \in [Procs -> Local] /\ \A q \in Procs \ {p} : proc'[q] = proc[q]
         /\ IsSound(proc'[p]) /\ proc'[p].pc = "idle" /\ proc'[p].node = NULL /\ OnCourse(p)'
<1>1. proc \in [Procs -> Local]
  BY DEF SyncInv, SearchTypeOK
<1>2. proc' \in [Procs -> Local] /\ proc'[p] = Idle /\ \A q \in Procs \ {p} : proc'[q] = proc[q]
  BY <1>1, IdleIsSound DEF End
<1>3. proc'[p].pc = "idle" /\ proc'[p].node = NULL
  BY <1>2 DEF Idle
<1>4. QED
  BY <1>2, <1>3, IdleIsSound, NoNode

LEMMA WentTo ==
  ASSUME SyncInv, NEW p \in Procs,
         NEW pc \in {"record", "look", "load", "index", "drop", "commit", "delete", "rename"},
         Goto(p, pc), pc # "rename" => proc[p].node # NULL
  PROVE  /\ proc' \in [Procs -> Local] /\ \A q \in Procs \ {p} : proc'[q] = proc[q]
         /\ IsSound(proc'[p])
         /\ proc'[p] = [proc[p] EXCEPT !.pc = pc]
         /\ proc'[p].pc = pc /\ proc'[p].node = proc[p].node /\ proc'[p].text = proc[p].text
         /\ proc'[p].listed = proc[p].listed /\ proc'[p].src = proc[p].src
<1>1. proc \in [Procs -> Local] /\ IsSound(proc[p]) /\ proc[p] \in Local
  BY DEF SyncInv, SearchTypeOK, RequestsAreSound
<1>2. /\ proc'[p] = [proc[p] EXCEPT !.pc = pc]
      /\ DOMAIN proc' = Procs /\ proc' = [q \in Procs |-> proc'[q]]
      /\ \A q \in Procs \ {p} : proc'[q] = proc[q]
  BY <1>1 DEF Goto
<1>3. /\ proc'[p] \in Local
      /\ proc'[p].pc = pc /\ proc'[p].node = proc[p].node /\ proc'[p].text = proc[p].text
      /\ proc'[p].listed = proc[p].listed /\ proc'[p].src = proc[p].src
      /\ proc'[p].name = proc[p].name
  BY <1>1, <1>2 DEF Local
<1>4. IsSound(proc'[p])
  BY <1>1, <1>3 DEF IsSound
<1>5. QED
  BY <1>1, <1>2, <1>3, <1>4

LEMMA WasUpdated ==
  ASSUME SyncInv, NEW p \in Procs, Updated(p)
  PROVE  /\ proc' \in [Procs -> Local] /\ \A q \in Procs \ {p} : proc'[q] = proc[q]
         /\ IsSound(proc'[p]) /\ proc'[p].pc \in {"idle", "rename"} /\ proc'[p].node = NULL
         /\ OnCourse(p)'
<1>1. CASE proc[p].src = NULL
  BY <1>1, Ended DEF Updated
<1>2. CASE proc[p].src # NULL
  <2>1. proc \in [Procs -> Local] /\ IsSound(proc[p]) /\ proc[p] \in Local
    BY DEF SyncInv, SearchTypeOK, RequestsAreSound
  <2>2. /\ proc'[p] = [proc[p] EXCEPT !.pc = "rename", !.node = NULL, !.listed = FALSE]
        /\ DOMAIN proc' = Procs /\ proc' = [q \in Procs |-> proc'[q]]
        /\ \A q \in Procs \ {p} : proc'[q] = proc[q]
    BY <1>2, <2>1 DEF Updated
  <2>3. /\ proc'[p] \in Local
        /\ proc'[p].pc = "rename" /\ proc'[p].node = NULL /\ proc'[p].src = proc[p].src
        /\ proc'[p].name = proc[p].name
    BY <2>1, <2>2 DEF Local
  <2>4. IsSound(proc'[p])
    BY <2>1, <2>3 DEF IsSound, ROOT_ID, NULL
  <2>5. QED
    BY <2>1, <2>2, <2>3, <2>4, NoNode
<1>3. QED
  BY <1>1, <1>2

\* A request opens a node to write to it, ...
LEMMA Opened ==
  ASSUME SyncInv, NEW p \in Procs, NEW n \in NodeIds \ {ROOT_ID},
         proc' = [proc EXCEPT ![p].pc = "record", ![p].node = n]
  PROVE  /\ proc' \in [Procs -> Local] /\ \A q \in Procs \ {p} : proc'[q] = proc[q]
         /\ IsSound(proc'[p]) /\ proc'[p].pc = "record" /\ proc'[p].node = n
<1>1. proc \in [Procs -> Local] /\ IsSound(proc[p]) /\ proc[p] \in Local
  BY DEF SyncInv, SearchTypeOK, RequestsAreSound
<1>2. /\ proc'[p] = [proc[p] EXCEPT !.pc = "record", !.node = n]
      /\ DOMAIN proc' = Procs /\ proc' = [q \in Procs |-> proc'[q]]
      /\ \A q \in Procs \ {p} : proc'[q] = proc[q]
  BY <1>1
<1>3. /\ proc'[p] \in Local /\ proc'[p].pc = "record" /\ proc'[p].node = n
      /\ proc'[p].src = proc[p].src /\ proc'[p].name = proc[p].name
  BY <1>1, <1>2 DEF Local
<1>4. n # NULL /\ n # ROOT_ID
  BY MetaConstants
<1>5. QED
  BY <1>1, <1>2, <1>3, <1>4 DEF IsSound

\* ... or picks it to delete it, and remembers whether its name was indexable.
LEMMA Picked ==
  ASSUME SyncInv, NEW p \in Procs, NEW n \in NodeIds \ {ROOT_ID},
         proc' = [proc EXCEPT ![p].pc = "delete", ![p].node = n,
                              ![p].listed = nodes[n].name \in Indexable]
  PROVE  /\ proc' \in [Procs -> Local] /\ \A q \in Procs \ {p} : proc'[q] = proc[q]
         /\ IsSound(proc'[p]) /\ proc'[p].pc = "delete" /\ proc'[p].node = n
         /\ proc'[p].listed = (nodes[n].name \in Indexable)
<1>1. proc \in [Procs -> Local] /\ IsSound(proc[p]) /\ proc[p] \in Local
  BY DEF SyncInv, SearchTypeOK, RequestsAreSound
<1>2. /\ proc'[p] = [proc[p] EXCEPT !.pc = "delete", !.node = n, !.listed = nodes[n].name \in Indexable]
      /\ DOMAIN proc' = Procs /\ proc' = [q \in Procs |-> proc'[q]]
      /\ \A q \in Procs \ {p} : proc'[q] = proc[q]
  BY <1>1
<1>3. /\ proc'[p] \in Local /\ proc'[p].pc = "delete" /\ proc'[p].node = n
      /\ proc'[p].listed = (nodes[n].name \in Indexable)
      /\ proc'[p].src = proc[p].src /\ proc'[p].name = proc[p].name
  BY <1>1, <1>2 DEF Local
<1>4. n # NULL /\ n # ROOT_ID
  BY MetaConstants
<1>5. IsSound(proc'[p])
  BY <1>1, <1>3, <1>4 DEF IsSound
<1>6. QED
  BY <1>1, <1>2, <1>3, <1>5

LEMMA SameTables ==
  ASSUME UNCHANGED metaVars
  PROVE  \A n : (Candidate(n)' <=> Candidate(n)) /\ LoadManifest(n)' = LoadManifest(n)
BY DEF metaVars, Candidate, IsTextFile, LoadManifest, ReadManifest

-----------------------------------------------------------------------------
(* Step by step: writes                                                    *)

LEMMA OpenKeeps ==
  ASSUME SyncInv, NEW p \in Procs, NEW name \in Names, NEW now \in Times, Open(p, name, now),
         UNCHANGED behind, mixed' = mixed \cup Shared'
  PROVE  SyncInv'
<1>1. ~Updating(p)
  BY DEF Open, At, Updating
<1>3. ASSUME NEW n \in DOMAIN nodes, IsChild(n, ROOT_ID, name), UNCHANGED metaVars,
             proc' = [proc EXCEPT ![p].pc = "record", ![p].node = n]
      PROVE  SyncInv'
  <2>1. n \in NodeIds \ {ROOT_ID}
    BY <1>3, MetaConstants DEF SyncInv, MetaInv, MetaTypeOK, RootIsTop, IsChild, ROOT_ID, NULL
  <2>2. /\ proc' \in [Procs -> Local] /\ \A q \in Procs \ {p} : proc'[q] = proc[q]
        /\ IsSound(proc'[p]) /\ proc'[p].pc = "record"
    BY <1>3, <2>1, Opened
  <2>3. OnCourse(p)'
    BY <2>2 DEF OnCourse, At
  <2>4. QED
    BY <1>1, <1>3, <2>2, <2>3, NoUpdate DEF Open
<1>4. ASSUME NEW id \in NodeIds, InsertNode(id, ROOT_ID, name, FALSE, now),
             proc' = [proc EXCEPT ![p].pc = "record", ![p].node = id]
      PROVE  SyncInv'
  <2>1. /\ MetaInv' /\ FilesInRoot'
        /\ id \notin DOMAIN nodes /\ id \in DOMAIN nodes' /\ nodes'[id].current = NULL /\ id # ROOT_ID
        /\ \A n : n # id => SameFile(n)
    BY <1>4, InsertTouches DEF SyncInv
  <2>2. /\ proc' \in [Procs -> Local] /\ \A q \in Procs \ {p} : proc'[q] = proc[q]
        /\ IsSound(proc'[p]) /\ proc'[p].pc = "record" /\ proc'[p].node = id
    BY <1>4, <2>1, Opened
  <2>3. OnCourse(p)'
    BY <2>2 DEF OnCourse, At
  <2>4. id \in Uses(p)'
    BY <2>2, MetaConstants DEF Uses
  <2>5. ASSUME id \notin mixed', id \notin behind'
        PROVE  FreshIn(index, id)' /\ FreshIn(staged, id)'
    <3>1. ASSUME NEW q \in Procs, Updating(q), proc[q].node = id PROVE FALSE
      <4>1. q # p /\ id \in Uses(q)'
        BY <1>1, <2>2, <3>1, MetaConstants DEF Uses
      <4>2. id \in Shared'
        BY <2>4, <4>1 DEF Shared
      <4>3. QED
        BY <2>5, <4>2
    <3>2. FreshIn(index, id) /\ FreshIn(staged, id)
      BY <2>5, <3>1 DEF SyncInv, SettledIsFresh, Pending
    <3>3. ~Candidate(id) /\ ~Candidate(id)'
      BY <2>1 DEF Candidate, IsTextFile
    <3>4. QED
      BY <3>2, <3>3 DEF FreshIn, Open
  <2>6. \A n \in NodeIds : n # id => SameNode(n)
    BY <2>1 DEF SameNode, Open
  <2>7. /\ index' \in [DOMAIN index' -> Manifests] /\ DOMAIN index' \subseteq NodeIds
        /\ staged' \in [DOMAIN staged' -> Manifests] /\ DOMAIN staged' \subseteq NodeIds
        /\ behind' \subseteq NodeIds /\ index' = index
    BY DEF SyncInv, SearchTypeOK, Open
  <2>8. QED
    BY <1>1, <2>1, <2>2, <2>3, <2>4, <2>5, <2>6, <2>7, OneRequest
<1>5. QED
  BY <1>3, <1>4 DEF Open

LEMMA RecordKeeps ==
  ASSUME SyncInv, NEW p \in Procs, NEW m \in Manifests, NEW now \in Times, Record(p, m, now),
         UNCHANGED behind, mixed' = mixed \cup Shared'
  PROVE  SyncInv'
<1> SUFFICES ASSUME NEW t, t = proc[p].node PROVE SyncInv'
  OBVIOUS
<1>1. ~Updating(p)
  BY DEF Record, At, Updating
<1>2. t \in DOMAIN nodes \ {ROOT_ID} /\ t \in NodeIds
  BY DEF Record, SetFileContent, SyncInv, RequestsAreSound, IsSound, MetaInv, MetaTypeOK
<1>3. /\ MetaInv' /\ FilesInRoot'
      /\ t \in DOMAIN nodes' /\ nodes'[t].current # NULL /\ nodes'[t].name = nodes[t].name
      /\ \A n : n # t => SameFile(n)
  BY <1>2, RecordTouches DEF SyncInv, Record
<1>4. t # NULL
  BY <1>2, MetaConstants
<1>5. /\ proc' \in [Procs -> Local] /\ \A q \in Procs \ {p} : proc'[q] = proc[q]
      /\ IsSound(proc'[p]) /\ proc'[p].pc = "look" /\ proc'[p].node = t
  BY <1>4, WentTo DEF Record
<1>6. t \in Uses(p)
  BY <1>4 DEF Uses
<1>7. OnCourse(p)'
  <2>1. ASSUME t \notin mixed', t \notin behind', nodes'[t].name \notin Indexable
        PROVE  t \notin DOMAIN index' \cup DOMAIN staged'
    <3>1. FreshIn(index, t) /\ FreshIn(staged, t)
      BY <1>1, <1>6, <2>1, SettledHere
    <3>2. ~Candidate(t)
      BY <1>3, <2>1 DEF Candidate, IsTextFile
    <3>3. QED
      BY <3>1, <3>2 DEF FreshIn, Record
  <2>2. QED
    BY <1>3, <1>5, <2>1 DEF OnCourse, At
<1>8. Pending(t)'
  BY <1>5 DEF Pending, Updating
<1>9. \A n \in NodeIds : n # t => SameNode(n)
  BY <1>3 DEF SameNode, Record
<1>10. /\ index' \in [DOMAIN index' -> Manifests] /\ DOMAIN index' \subseteq NodeIds
       /\ staged' \in [DOMAIN staged' -> Manifests] /\ DOMAIN staged' \subseteq NodeIds
       /\ behind' \subseteq NodeIds /\ index' = index
  BY DEF SyncInv, SearchTypeOK, Record
<1>11. QED
  BY <1>1, <1>3, <1>5, <1>6, <1>7, <1>8, <1>9, <1>10, OneRequest

\* The file is no text file, so it has no document unless it was one before
\* a MOVE; or it is one, and fits or does not.
LEMMA ReindexLookKeeps ==
  ASSUME SyncInv, NEW p \in Procs, ReindexLook(p), UNCHANGED behind, mixed' = mixed \cup Shared'
  PROVE  SyncInv'
<1> SUFFICES ASSUME NEW t, t = proc[p].node PROVE SyncInv'
  OBVIOUS
<1>1. t # NULL /\ t # ROOT_ID /\ At(p, "look")
  BY DEF ReindexLook, SyncInv, RequestsAreSound, IsSound, At
<1>2. /\ UNCHANGED metaVars /\ index' = index /\ staged' = staged /\ behind' \subseteq NodeIds
      /\ staged' \in [DOMAIN staged' -> Manifests] /\ DOMAIN staged' \subseteq NodeIds
  BY DEF ReindexLook, SyncInv, SearchTypeOK
<1>3. (Candidate(t)' <=> Candidate(t)) /\ LoadManifest(t)' = LoadManifest(t)
  BY <1>2, SameTables
<1>4. CASE t \notin DOMAIN nodes \/ ~IsTextFile(t)
  <2>1. End(p)
    BY <1>4 DEF ReindexLook
  <2>2. ASSUME t \in NodeIds, t \notin mixed', t \notin behind'
        PROVE  FreshIn(index, t)' /\ FreshIn(staged, t)'
    <3>1. /\ t \in DOMAIN nodes /\ nodes[t].current # NULL
          /\ nodes[t].name \in Indexable \/ t \notin DOMAIN index \cup DOMAIN staged
      BY <1>1, <2>2 DEF SyncInv, UpdatesOnCourse, OnCourse
    <3>2. ~nodes[t].isDir
      BY <1>1, <3>1 DEF SyncInv, FilesInRoot
    <3>3. t \notin DOMAIN index \cup DOMAIN staged /\ ~Candidate(t)
      BY <1>4, <3>1, <3>2 DEF IsTextFile, Candidate
    <3>4. QED
      BY <1>2, <1>3, <3>3 DEF FreshIn
  <2>3. QED
    BY <1>2, <2>1, <2>2, Ended, OneUpdate
<1>5. CASE t \in DOMAIN nodes /\ IsTextFile(t)
  <2>1. nodes[t].size \in Nat /\ MAX_INDEX_SIZE \in Nat
    BY <1>5, SearchConstants DEF SyncInv, MetaInv, MetaTypeOK, NodeRow
  <2>2. PICK pc \in {"drop", "load"} :
          Goto(p, pc) /\ (pc = "load" <=> nodes[t].size <= MAX_INDEX_SIZE)
    BY <1>5, <2>1 DEF ReindexLook
  <2>3. /\ proc' \in [Procs -> Local] /\ \A q \in Procs \ {p} : proc'[q] = proc[q]
        /\ IsSound(proc'[p]) /\ proc'[p].pc = pc /\ proc'[p].node = t
    BY <1>1, <2>2, WentTo
  <2>4. OnCourse(p)'
    <3>1. pc = "load" <=> Candidate(t)'
      BY <1>3, <1>5, <2>2 DEF Candidate
    <3>2. QED
      BY <2>3, <3>1 DEF OnCourse, At
  <2>5. Pending(t)'
    BY <2>3 DEF Pending, Updating
  <2>6. QED
    BY <1>2, <2>3, <2>4, <2>5, OneUpdate
<1>6. QED
  BY <1>4, <1>5

LEMMA ReindexLoadKeeps ==
  ASSUME SyncInv, NEW p \in Procs, ReindexLoad(p), UNCHANGED behind, mixed' = mixed \cup Shared'
  PROVE  SyncInv'
<1> SUFFICES ASSUME NEW t, t = proc[p].node PROVE SyncInv'
  OBVIOUS
<1>1. t # NULL /\ t # ROOT_ID /\ At(p, "load")
  BY DEF ReindexLoad, SyncInv, RequestsAreSound, IsSound, At
<1>2. /\ UNCHANGED metaVars /\ index' = index /\ staged' = staged /\ behind' \subseteq NodeIds
      /\ staged' \in [DOMAIN staged' -> Manifests] /\ DOMAIN staged' \subseteq NodeIds
  BY DEF ReindexLoad, SyncInv, SearchTypeOK
<1>3. (Candidate(t)' <=> Candidate(t)) /\ LoadManifest(t)' = LoadManifest(t)
  BY <1>2, SameTables
<1>4. ASSUME t \in NodeIds, t \notin mixed' PROVE Candidate(t)
  BY <1>1, <1>4 DEF SyncInv, UpdatesOnCourse, OnCourse
<1>5. CASE t \notin DOMAIN nodes \/ IsCorrupt(t)
  <2>1. End(p)
    BY <1>5 DEF ReindexLoad
  <2>2. ~Candidate(t)
    BY <1>5 DEF Candidate, IsCorrupt, SyncInv, MetaInv, ReferentialIntegrity, VersionsOf
  <2>3. QED
    BY <1>2, <1>4, <2>1, <2>2, Ended, OneUpdate
<1>6. CASE t \in DOMAIN nodes /\ ~IsCorrupt(t)
  <2>1. proc \in [Procs -> Local] /\ IsSound(proc[p]) /\ proc[p] \in Local
    BY DEF SyncInv, SearchTypeOK, RequestsAreSound
  <2>2. LoadManifest(t) \in Manifests
    BY <1>6, MetaConstants DEF LoadManifest, ReadManifest, SyncInv, MetaInv, MetaTypeOK, VersionRow
  <2>3. /\ proc'[p] = [proc[p] EXCEPT !.pc = "index", !.text = LoadManifest(t)]
        /\ DOMAIN proc' = Procs /\ proc' = [q \in Procs |-> proc'[q]]
        /\ \A q \in Procs \ {p} : proc'[q] = proc[q]
    BY <1>6, <2>1 DEF ReindexLoad
  <2>4. /\ proc'[p] \in Local
        /\ proc'[p].pc = "index" /\ proc'[p].node = t /\ proc'[p].text = LoadManifest(t)
        /\ proc'[p].src = proc[p].src /\ proc'[p].name = proc[p].name
    BY <2>1, <2>2, <2>3 DEF Local
  <2>5. IsSound(proc'[p])
    BY <1>1, <2>1, <2>4 DEF IsSound
  <2>6. proc' \in [Procs -> Local]
    BY <2>1, <2>3, <2>4
  <2>7. OnCourse(p)'
    BY <1>3, <1>4, <2>4 DEF OnCourse, At
  <2>8. Pending(t)'
    BY <2>4 DEF Pending, Updating
  <2>9. QED
    BY <1>2, <2>3, <2>5, <2>6, <2>7, <2>8, OneUpdate
<1>7. QED
  BY <1>5, <1>6

LEMMA IndexDocumentKeeps ==
  ASSUME SyncInv, NEW p \in Procs, IndexDocument(p), UNCHANGED behind, mixed' = mixed \cup Shared'
  PROVE  SyncInv'
<1> SUFFICES ASSUME NEW t, t = proc[p].node PROVE SyncInv'
  OBVIOUS
<1>1. t # NULL /\ t # ROOT_ID /\ At(p, "index") /\ t \in NodeIds
  BY DEF IndexDocument, SyncInv, SearchTypeOK, Local, RequestsAreSound, IsSound, At
<1>2. proc \in [Procs -> Local] /\ IsSound(proc[p]) /\ proc[p] \in Local
  BY DEF SyncInv, SearchTypeOK, RequestsAreSound
<1>3. proc[p].text \in Manifests
  BY <1>2 DEF Local
<1>4. UNCHANGED metaVars /\ index' = index /\ behind' \subseteq NodeIds
  BY DEF IndexDocument, SyncInv, SearchTypeOK
<1>5. (Candidate(t)' <=> Candidate(t)) /\ LoadManifest(t)' = LoadManifest(t)
  BY <1>4, SameTables
<1>6. /\ DOMAIN staged' = DOMAIN staged \cup {t} /\ staged'[t] = proc[p].text
      /\ \A n \in DOMAIN staged : n # t => staged'[n] = staged[n]
      /\ staged' = [n \in DOMAIN staged' |-> staged'[n]]
  BY DEF IndexDocument, PutRow
<1>7. staged' \in [DOMAIN staged' -> Manifests] /\ DOMAIN staged' \subseteq NodeIds
  BY <1>1, <1>3, <1>6 DEF SyncInv, SearchTypeOK
<1>8. /\ proc'[p] = [proc[p] EXCEPT !.pc = "commit", !.text = <<>>]
      /\ DOMAIN proc' = Procs /\ proc' = [q \in Procs |-> proc'[q]]
      /\ \A q \in Procs \ {p} : proc'[q] = proc[q]
  BY <1>2 DEF IndexDocument
<1>9. /\ proc'[p] \in Local
      /\ proc'[p].pc = "commit" /\ proc'[p].node = t
      /\ proc'[p].src = proc[p].src /\ proc'[p].name = proc[p].name
  BY <1>2, <1>8, MetaConstants DEF Local
<1>10. IsSound(proc'[p])
  BY <1>1, <1>2, <1>9 DEF IsSound
<1>11. proc' \in [Procs -> Local]
  BY <1>2, <1>8, <1>9
<1>12. OnCourse(p)'
  <2>1. ASSUME t \notin mixed' PROVE FreshIn(staged, t)'
    <3>1. Candidate(t) /\ proc[p].text = LoadManifest(t)
      BY <1>1, <2>1 DEF SyncInv, UpdatesOnCourse, OnCourse
    <3>2. QED
      BY <1>5, <1>6, <3>1 DEF FreshIn
  <2>2. QED
    BY <1>9, <2>1 DEF OnCourse, At
<1>13. Pending(t)'
  BY <1>9 DEF Pending, Updating
<1>14. QED
  BY <1>4, <1>6, <1>7, <1>8, <1>10, <1>11, <1>12, <1>13, OneUpdate

-----------------------------------------------------------------------------
(* Step by step: deletes and moves                                         *)

LEMMA DeleteStartKeeps ==
  ASSUME SyncInv, NEW p \in Procs, NEW n \in NodeIds, DeleteStart(p, n),
         UNCHANGED behind, mixed' = mixed \cup Shared'
  PROVE  SyncInv'
<1>1. ~Updating(p) /\ n \in DOMAIN nodes /\ n # ROOT_ID
  BY DEF DeleteStart, At, Updating
<1>2. /\ proc' \in [Procs -> Local] /\ \A q \in Procs \ {p} : proc'[q] = proc[q]
      /\ IsSound(proc'[p]) /\ proc'[p].pc = "delete" /\ proc'[p].node = n
      /\ proc'[p].listed = (nodes[n].name \in Indexable)
  BY <1>1, Picked DEF DeleteStart
<1>3. OnCourse(p)'
  BY <1>1, <1>2 DEF OnCourse, At, DeleteStart, metaVars
<1>4. QED
  BY <1>1, <1>2, <1>3, NoUpdate DEF DeleteStart

LEMMA MoveStartKeeps ==
  ASSUME SyncInv, NEW p \in Procs, NEW n \in NodeIds, NEW name \in Names, MoveStart(p, n, name),
         UNCHANGED behind, mixed' = mixed \cup Shared'
  PROVE  SyncInv'
<1>1. ~Updating(p) /\ n # ROOT_ID
  BY DEF MoveStart, At, Updating
<1>2. proc \in [Procs -> Local] /\ IsSound(proc[p]) /\ proc[p] \in Local
  BY DEF SyncInv, SearchTypeOK, RequestsAreSound
<1>3. /\ proc'[p] = [proc[p] EXCEPT !.pc = "target", !.src = n, !.name = name]
      /\ DOMAIN proc' = Procs /\ proc' = [q \in Procs |-> proc'[q]]
      /\ \A q \in Procs \ {p} : proc'[q] = proc[q]
  BY <1>2 DEF MoveStart
<1>4. /\ proc'[p] \in Local
      /\ proc'[p].pc = "target" /\ proc'[p].node = proc[p].node
      /\ proc'[p].src = n /\ proc'[p].name = name
  BY <1>2, <1>3 DEF Local
<1>5. IsSound(proc'[p])
  BY <1>1, <1>2, <1>4 DEF IsSound
<1>6. proc' \in [Procs -> Local]
  BY <1>2, <1>3, <1>4
<1>7. OnCourse(p)'
  BY <1>4 DEF OnCourse, At
<1>8. QED
  BY <1>1, <1>3, <1>5, <1>6, <1>7, NoUpdate DEF MoveStart

LEMMA MoveTargetKeeps ==
  ASSUME SyncInv, NEW p \in Procs, MoveTarget(p), UNCHANGED behind, mixed' = mixed \cup Shared'
  PROVE  SyncInv'
<1>1. ~Updating(p)
  BY DEF MoveTarget, At, Updating
<1>2. CASE Goto(p, "rename")
  <2>1. /\ proc' \in [Procs -> Local] /\ \A q \in Procs \ {p} : proc'[q] = proc[q]
        /\ IsSound(proc'[p]) /\ proc'[p].pc = "rename"
    BY <1>2, WentTo
  <2>2. OnCourse(p)'
    BY <2>1 DEF OnCourse, At
  <2>3. QED
    BY <1>1, <2>1, <2>2, NoUpdate DEF MoveTarget
<1>3. ASSUME NEW n \in DOMAIN nodes, IsChild(n, ROOT_ID, proc[p].name),
             proc' = [proc EXCEPT ![p].pc = "delete", ![p].node = n,
                                  ![p].listed = nodes[n].name \in Indexable]
      PROVE  SyncInv'
  <2>1. n \in NodeIds \ {ROOT_ID}
    BY <1>3, MetaConstants DEF SyncInv, MetaInv, MetaTypeOK, RootIsTop, IsChild, ROOT_ID, NULL
  <2>2. /\ proc' \in [Procs -> Local] /\ \A q \in Procs \ {p} : proc'[q] = proc[q]
        /\ IsSound(proc'[p]) /\ proc'[p].pc = "delete" /\ proc'[p].node = n
        /\ proc'[p].listed = (nodes[n].name \in Indexable)
    BY <1>3, <2>1, Picked
  <2>3. OnCourse(p)'
    BY <1>3, <2>2 DEF OnCourse, At, MoveTarget, metaVars
  <2>4. QED
    BY <1>1, <2>2, <2>3, NoUpdate DEF MoveTarget
<1>4. QED
  BY <1>2, <1>3 DEF MoveTarget

\* A file that had no indexable name when its path was resolved had no document.
LEMMA DeleteKeeps ==
  ASSUME SyncInv, NEW p \in Procs, Delete(p), UNCHANGED behind, mixed' = mixed \cup Shared'
  PROVE  SyncInv'
<1> SUFFICES ASSUME NEW t, t = proc[p].node PROVE SyncInv'
  OBVIOUS
<1>1. ~Updating(p) /\ At(p, "delete")
  BY DEF Delete, At, Updating
<1>2. t \in DOMAIN nodes \ {ROOT_ID} /\ t \in NodeIds /\ t # NULL
  BY MetaConstants DEF Delete, DeleteNode, SyncInv, RequestsAreSound, IsSound, MetaInv, MetaTypeOK
<1>3. MetaInv' /\ FilesInRoot' /\ t \notin DOMAIN nodes' /\ \A n : n # t => SameFile(n)
  BY <1>2, DeleteTouches DEF SyncInv, Delete
<1>4. t \in Uses(p)
  BY <1>2 DEF Uses
<1>5. \A n \in NodeIds : n # t => SameNode(n)
  BY <1>3 DEF SameNode, Delete
<1>6. /\ index' \in [DOMAIN index' -> Manifests] /\ DOMAIN index' \subseteq NodeIds
      /\ staged' \in [DOMAIN staged' -> Manifests] /\ DOMAIN staged' \subseteq NodeIds
      /\ behind' \subseteq NodeIds /\ index' = index /\ staged' = staged /\ behind' = behind
  BY DEF SyncInv, SearchTypeOK, Delete
<1>7. ~Candidate(t)'
  BY <1>3 DEF Candidate
<1>8. CASE proc[p].listed
  <2>1. /\ proc' \in [Procs -> Local] /\ \A q \in Procs \ {p} : proc'[q] = proc[q]
        /\ IsSound(proc'[p]) /\ proc'[p].pc = "drop" /\ proc'[p].node = t
    BY <1>2, <1>8, WentTo DEF Delete
  <2>2. OnCourse(p)'
    BY <1>7, <2>1 DEF OnCourse, At
  <2>3. Pending(t)'
    BY <2>1 DEF Pending, Updating
  <2>4. QED
    BY <1>1, <1>3, <1>4, <1>5, <1>6, <2>1, <2>2, <2>3, OneRequest
<1>9. CASE ~proc[p].listed
  <2>1. Updated(p)
    BY <1>9 DEF Delete
  <2>2. /\ proc' \in [Procs -> Local] /\ \A q \in Procs \ {p} : proc'[q] = proc[q]
        /\ IsSound(proc'[p]) /\ OnCourse(p)'
    BY <2>1, WasUpdated
  <2>3. ASSUME t \notin mixed', t \notin behind'
        PROVE  FreshIn(index, t)' /\ FreshIn(staged, t)'
    <3>1. nodes[t].name \notin Indexable
      BY <1>1, <1>2, <1>9, <2>3 DEF SyncInv, UpdatesOnCourse, OnCourse
    <3>2. ~Candidate(t)
      BY <3>1 DEF Candidate, IsTextFile
    <3>3. FreshIn(index, t) /\ FreshIn(staged, t)
      BY <1>1, <1>4, <2>3, SettledHere DEF Delete
    <3>4. QED
      BY <1>6, <1>7, <3>2, <3>3 DEF FreshIn
  <2>4. QED
    BY <1>1, <1>3, <1>4, <1>5, <1>6, <2>2, <2>3, OneRequest
<1>10. QED
  BY <1>8, <1>9

LEMMA MoveFileKeeps ==
  ASSUME SyncInv, NEW p \in Procs, MoveFile(p), behind' = behind \cup Overlooked(p),
         mixed' = mixed \cup Shared'
  PROVE  SyncInv'
<1> SUFFICES ASSUME NEW t, t = proc[p].src PROVE SyncInv'
  OBVIOUS
<1>1. ~Updating(p)
  BY DEF MoveFile, At, Updating
<1>2. t \in DOMAIN nodes \ {ROOT_ID} /\ t \in NodeIds /\ t # NULL /\ proc[p].name \in Names
  BY MetaConstants DEF MoveFile, Rename, SyncInv, RequestsAreSound, IsSound, MetaInv, MetaTypeOK
<1>3. /\ MetaInv' /\ FilesInRoot'
      /\ (nodes[t].name \in Indexable <=> proc[p].name \in Indexable) =>
           (Candidate(t)' <=> Candidate(t)) /\ LoadManifest(t)' = LoadManifest(t)
      /\ \A n : n # t => SameFile(n)
  BY <1>2, RenameTouches DEF SyncInv, MoveFile
<1>4. t \in Uses(p)
  BY <1>2 DEF Uses
<1>5. \A n \in NodeIds : n # t => SameNode(n)
  BY <1>3 DEF SameNode, MoveFile, Overlooked
<1>6. /\ index' \in [DOMAIN index' -> Manifests] /\ DOMAIN index' \subseteq NodeIds
      /\ staged' \in [DOMAIN staged' -> Manifests] /\ DOMAIN staged' \subseteq NodeIds
      /\ behind' \subseteq NodeIds /\ index' = index /\ staged' = staged
  BY <1>2 DEF SyncInv, SearchTypeOK, MoveFile, Overlooked
<1>7. /\ proc' \in [Procs -> Local] /\ \A q \in Procs \ {p} : proc'[q] = proc[q]
      /\ IsSound(proc'[p]) /\ OnCourse(p)'
  BY Ended DEF MoveFile
<1>8. ASSUME t \notin mixed', t \notin behind'
      PROVE  FreshIn(index, t)' /\ FreshIn(staged, t)'
  <2>1. (nodes[t].name \in Indexable) <=> (proc[p].name \in Indexable)
    BY <1>8 DEF Overlooked
  <2>2. FreshIn(index, t) /\ FreshIn(staged, t)
    BY <1>1, <1>4, <1>8, SettledHere
  <2>3. QED
    BY <1>3, <1>6, <2>1, <2>2 DEF FreshIn
<1>9. QED
  BY <1>1, <1>3, <1>4, <1>5, <1>6, <1>7, <1>8, OneRequest

LEMMA RefuseKeeps ==
  ASSUME SyncInv, NEW p \in Procs, Refuse(p), UNCHANGED behind, mixed' = mixed \cup Shared'
  PROVE  SyncInv'
<1>1. ~Updating(p)
  BY DEF Refuse, Updating
<1>2. QED
  BY <1>1, Ended, NoUpdate DEF Refuse

-----------------------------------------------------------------------------
(* Step by step: the index                                                 *)

LEMMA RemoveDocumentKeeps ==
  ASSUME SyncInv, NEW p \in Procs, RemoveDocument(p), UNCHANGED behind, mixed' = mixed \cup Shared'
  PROVE  SyncInv'
<1> SUFFICES ASSUME NEW t, t = proc[p].node PROVE SyncInv'
  OBVIOUS
<1>1. t # NULL /\ At(p, "drop")
  BY DEF RemoveDocument, SyncInv, RequestsAreSound, IsSound, At
<1>2. UNCHANGED metaVars /\ index' = index /\ behind' \subseteq NodeIds
  BY DEF RemoveDocument, SyncInv, SearchTypeOK
<1>3. Candidate(t)' <=> Candidate(t)
  BY <1>2, SameTables
<1>4. /\ DOMAIN staged' = DOMAIN staged \ {t}
      /\ \A n \in DOMAIN staged : n # t => staged'[n] = staged[n]
      /\ staged' = [n \in DOMAIN staged' |-> staged'[n]]
  BY DEF RemoveDocument, DropRows, Restrict
<1>5. staged' \in [DOMAIN staged' -> Manifests] /\ DOMAIN staged' \subseteq NodeIds
  BY <1>4 DEF SyncInv, SearchTypeOK
<1>6. /\ proc' \in [Procs -> Local] /\ \A q \in Procs \ {p} : proc'[q] = proc[q]
      /\ IsSound(proc'[p]) /\ proc'[p].pc = "commit" /\ proc'[p].node = t
  BY <1>1, WentTo DEF RemoveDocument
<1>7. OnCourse(p)'
  <2>1. ASSUME t \in NodeIds, t \notin mixed' PROVE FreshIn(staged, t)'
    BY <1>1, <1>3, <1>4, <2>1 DEF SyncInv, UpdatesOnCourse, OnCourse, FreshIn
  <2>2. QED
    BY <1>6, <2>1 DEF OnCourse, At
<1>8. Pending(t)'
  BY <1>6 DEF Pending, Updating
<1>9. QED
  BY <1>2, <1>4, <1>5, <1>6, <1>7, <1>8, OneUpdate

\* What is staged of the others is published too: it is as fresh as what was there.
LEMMA CommitIndexKeeps ==
  ASSUME SyncInv, NEW p \in Procs, CommitIndex(p), behind' = behind \ {proc[p].node},
         mixed' = mixed \cup Shared'
  PROVE  SyncInv'
<1> SUFFICES ASSUME NEW t, t = proc[p].node PROVE SyncInv'
  OBVIOUS
<1>1. /\ UNCHANGED metaVars /\ index' = staged /\ staged' = staged /\ behind' \subseteq NodeIds
      /\ staged' \in [DOMAIN staged' -> Manifests] /\ DOMAIN staged' \subseteq NodeIds
  BY DEF CommitIndex, SyncInv, SearchTypeOK
<1>2. (Candidate(t)' <=> Candidate(t)) /\ LoadManifest(t)' = LoadManifest(t)
  BY <1>1, SameTables
<1>3. /\ proc' \in [Procs -> Local] /\ \A q \in Procs \ {p} : proc'[q] = proc[q]
      /\ IsSound(proc'[p]) /\ OnCourse(p)'
  BY WasUpdated DEF CommitIndex
<1>4. ASSUME t \in NodeIds, t \notin mixed' PROVE FreshIn(index, t)' /\ FreshIn(staged, t)'
  <2>1. FreshIn(staged, t)
    BY <1>4 DEF CommitIndex, SyncInv, UpdatesOnCourse, OnCourse
  <2>2. QED
    BY <1>1, <1>2, <2>1 DEF FreshIn
<1>5. QED
  BY <1>1, <1>3, <1>4, OneUpdate

LEMMA IndexFaultKeeps ==
  ASSUME SyncInv, NEW p \in Procs, IndexFault(p), behind' = behind \cup {proc[p].node},
         mixed' = mixed \cup Shared'
  PROVE  SyncInv'
<1> SUFFICES ASSUME NEW t, t = proc[p].node PROVE SyncInv'
  OBVIOUS
<1>1. proc[p] \in Local /\ IsSound(proc[p])
  BY DEF SyncInv, SearchTypeOK, RequestsAreSound
<1>2. t \in NodeIds
  BY <1>1 DEF IndexFault, Updating, IsSound, Local
<1>3. /\ UNCHANGED metaVars /\ index' = index /\ staged' = staged
      /\ behind' \subseteq NodeIds /\ t \in behind' /\ \A n : n # t => (n \in behind' <=> n \in behind)
      /\ staged' \in [DOMAIN staged' -> Manifests] /\ DOMAIN staged' \subseteq NodeIds
  BY <1>2 DEF IndexFault, SyncInv, SearchTypeOK
<1>4. /\ proc' \in [Procs -> Local] /\ \A q \in Procs \ {p} : proc'[q] = proc[q]
      /\ IsSound(proc'[p]) /\ OnCourse(p)'
  BY WasUpdated DEF IndexFault
<1>5. QED
  BY <1>3, <1>4, OneUpdate

\* All requests are cut off, and so are the updates that were under way.
LEMMA RestartKeeps ==
  ASSUME SyncInv, Restart, behind' = behind \cup CutOff, mixed' = mixed \cup Shared'
  PROVE  SyncInv'
<1>1. UNCHANGED metaVars /\ index' = index /\ staged' = index
  BY DEF Restart
<1>2. MetaInv' /\ FilesInRoot'
  BY <1>1, TablesUnchanged DEF SyncInv
<1>3. /\ proc' \in [Procs -> Local]
      /\ \A p \in Procs : proc'[p] = Idle /\ proc'[p].node = NULL /\ proc'[p].src = NULL
  BY IdleIsSound DEF Restart, Idle
<1>4. Shared' = {}
  BY <1>3 DEF Shared, Uses
<1>5. CutOff \subseteq NodeIds
  BY DEF CutOff, SyncInv, SearchTypeOK, RequestsAreSound, IsSound, Local, Updating
<1>6. SearchTypeOK'
  BY <1>1, <1>2, <1>3, <1>4, <1>5 DEF SyncInv, SearchTypeOK, MetaInv
<1>7. RequestsAreSound'
  BY <1>3, IdleIsSound DEF RequestsAreSound
<1>8. SharedIsMixed'
  BY <1>4 DEF SharedIsMixed
<1>9. UpdatesOnCourse'
  BY <1>3, NoNode DEF UpdatesOnCourse
<1>10. SettledIsFresh'
  <2> SUFFICES ASSUME NEW n \in NodeIds, n \notin mixed', n \notin behind'
               PROVE  FreshIn(index, n)' /\ FreshIn(staged, n)'
    BY DEF SettledIsFresh
  <2>1. ~Pending(n)
    BY DEF Pending, CutOff
  <2>2. FreshIn(index, n)
    BY <2>1 DEF SyncInv, SettledIsFresh
  <2>3. (Candidate(n)' <=> Candidate(n)) /\ LoadManifest(n)' = LoadManifest(n)
    BY <1>1, SameTables
  <2>4. QED
    BY <1>1, <2>2, <2>3 DEF FreshIn
<1>11. QED
  BY <1>2, <1>6, <1>7, <1>8, <1>9, <1>10 DEF SyncInv

-----------------------------------------------------------------------------
(* What holds of every behaviour                                           *)

LEMMA SearchStarts == SearchInit => SyncInv
<1> SUFFICES ASSUME SearchInit PROVE SyncInv
  OBVIOUS
<1>1. MetaInv /\ MetaTypeOK
  BY MetaInitInv DEF SearchInit, MetaInv
<1>2. DOMAIN nodes = {ROOT_ID} /\ nodes[ROOT_ID].isDir /\ nodes[ROOT_ID].current = NULL
  BY DEF SearchInit, MetaInit
<1>3. FilesInRoot
  BY <1>2 DEF FilesInRoot
<1>4. \A p \in Procs : proc[p] = Idle /\ proc[p].node = NULL /\ proc[p].src = NULL
  BY DEF SearchInit, Idle
<1>5. Shared = {}
  BY <1>4 DEF Shared, Uses
<1>6. SearchTypeOK
  BY <1>1, IdleIsSound DEF SearchInit, SearchTypeOK
<1>7. RequestsAreSound
  BY <1>4, IdleIsSound DEF RequestsAreSound
<1>8. UpdatesOnCourse
  BY <1>4, MetaConstants DEF UpdatesOnCourse, OnCourse
<1>9. SettledIsFresh
  <2>1. \A n : ~Candidate(n)
    BY <1>2 DEF Candidate, IsTextFile
  <2>2. QED
    BY <2>1 DEF SettledIsFresh, FreshIn, SearchInit
<1>10. QED
  BY <1>1, <1>3, <1>5, <1>6, <1>7, <1>8, <1>9 DEF SyncInv, SharedIsMixed

LEMMA SearchRests == SyncInv /\ UNCHANGED searchVars => SyncInv'
<1> SUFFICES ASSUME SyncInv, UNCHANGED searchVars PROVE SyncInv'
  OBVIOUS
<1>1. UNCHANGED metaVars /\ index' = index /\ staged' = staged /\ proc' = proc
      /\ mixed' = mixed /\ behind' = behind /\ nodes' = nodes
  BY DEF searchVars, ghosts, metaVars
<1>2. MetaInv' /\ FilesInRoot'
  BY <1>1, TablesUnchanged DEF SyncInv
<1>3. \A n : (Candidate(n)' <=> Candidate(n)) /\ LoadManifest(n)' = LoadManifest(n)
  BY <1>1, SameTables
<1>4. \A n : (FreshIn(index, n)' <=> FreshIn(index, n)) /\ (FreshIn(staged, n)' <=> FreshIn(staged, n))
  BY <1>1, <1>3 DEF FreshIn
<1>5. SearchTypeOK' /\ RequestsAreSound' /\ SharedIsMixed'
  BY <1>1, <1>2 DEF SyncInv, SearchTypeOK, RequestsAreSound, SharedIsMixed, Shared, Uses, MetaInv
<1>6. UpdatesOnCourse'
  BY <1>1, <1>3, <1>4 DEF SyncInv, UpdatesOnCourse, OnCourse, At
<1>7. SettledIsFresh'
  BY <1>1, <1>4 DEF SyncInv, SettledIsFresh, Pending, Updating
<1>8. QED
  BY <1>2, <1>5, <1>6, <1>7 DEF SyncInv

\* SyncInv is inductive: no step of any request, no failure and no restart ends it.
THEOREM SyncStep == SyncInv /\ [SearchNext]_searchVars => SyncInv'
<1> SUFFICES ASSUME SyncInv, SearchNext PROVE SyncInv'
  BY SearchRests
<1>1. mixed' = mixed \cup Shared'
  BY DEF SearchNext
<1>2. ASSUME NEW p \in Procs, WriteNext(p), UNCHANGED behind PROVE SyncInv'
  BY <1>1, <1>2, OpenKeeps, RecordKeeps, ReindexLookKeeps, ReindexLoadKeeps, IndexDocumentKeeps
     DEF WriteNext
<1>3. ASSUME NEW p \in Procs, NameNext(p), UNCHANGED behind PROVE SyncInv'
  BY <1>1, <1>3, DeleteStartKeeps, MoveStartKeeps, MoveTargetKeeps, DeleteKeeps, RefuseKeeps
     DEF NameNext
<1>4. ASSUME NEW p \in Procs, RemoveDocument(p), UNCHANGED behind PROVE SyncInv'
  BY <1>1, <1>4, RemoveDocumentKeeps
<1>5. ASSUME NEW p \in Procs, MoveFile(p), behind' = behind \cup Overlooked(p) PROVE SyncInv'
  BY <1>1, <1>5, MoveFileKeeps
<1>6. ASSUME NEW p \in Procs, CommitIndex(p), behind' = behind \ {proc[p].node} PROVE SyncInv'
  BY <1>1, <1>6, CommitIndexKeeps
<1>7. ASSUME NEW p \in Procs, IndexFault(p), behind' = behind \cup {proc[p].node} PROVE SyncInv'
  BY <1>1, <1>7, IndexFaultKeeps
<1>8. ASSUME Restart, behind' = behind \cup CutOff PROVE SyncInv'
  BY <1>1, <1>8, RestartKeeps
<1>9. QED
  BY <1>2, <1>3, <1>4, <1>5, <1>6, <1>7, <1>8 DEF SearchNext

\* Whatever requests do side by side, the invariant holds.
THEOREM SearchInvariant == SearchSpec => []SyncInv
BY SearchStarts, SyncStep, PTL DEF SearchSpec

\* The tables, the index and what every request knows keep their types.
THEOREM SearchIsTyped == SearchSpec => []SearchTypeOK
<1>1. SyncInv => SearchTypeOK
  BY DEF SyncInv
<1>2. QED
  BY <1>1, SearchInvariant, PTL

\* When no request is under way, a search finds the content of every text file
\* and nothing else, for every node that no two requests worked on at once and
\* that no failure, restart or MOVE left behind.
THEOREM SearchesAreFresh == SearchSpec => []SearchIsFresh
<1>1. SyncInv => SearchIsFresh
  <2> SUFFICES ASSUME SyncInv, Quiet, NEW n \in NodeIds \ (mixed \cup behind) PROVE Fresh(n)
    BY DEF SearchIsFresh
  <2>1. ~Pending(n)
    BY DEF Pending, Updating, Quiet, At
  <2>2. FreshIn(index, n)
    BY <2>1 DEF SyncInv, SettledIsFresh
  <2>3. QED
    BY <2>2 DEF FreshIn, Fresh
<1>2. QED
  BY <1>1, SearchInvariant, PTL

LEMMA SearchStepIsMetaStep == SyncInv /\ [SearchNext]_searchVars => [MetaNext]_metaVars
<1> SUFFICES ASSUME SyncInv, SearchNext PROVE MetaNext \/ UNCHANGED metaVars
  BY DEF searchVars, metaVars
<1> USE DEF SyncInv, RequestsAreSound, IsSound
<1>1. ASSUME NEW p \in Procs, NEW name \in Names, NEW now \in Times, Open(p, name, now)
      PROVE  MetaNext \/ UNCHANGED metaVars
  <2>1. ASSUME NEW id \in NodeIds, InsertNode(id, ROOT_ID, name, FALSE, now) PROVE MetaNext
    BY <2>1 DEF MetaNext, MetaInv, MetaTypeOK
  <2>2. QED
    BY <1>1, <2>1 DEF Open
<1>2. ASSUME NEW p \in Procs, NEW m \in Manifests, NEW now \in Times, Record(p, m, now)
      PROVE  MetaNext
  <2>1. proc[p].node \in DOMAIN nodes \ {ROOT_ID}
    BY <1>2 DEF Record, SetFileContent
  <2>2. QED
    BY <1>2, <2>1 DEF Record, MetaNext
<1>3. ASSUME NEW p \in Procs, Delete(p) PROVE MetaNext
  <2>1. proc[p].node \in DOMAIN nodes \ {ROOT_ID}
    BY <1>3 DEF Delete, DeleteNode
  <2>2. QED
    BY <1>3, <2>1 DEF Delete, MetaNext
<1>4. ASSUME NEW p \in Procs, MoveFile(p) PROVE MetaNext
  <2>1. proc[p].src \in DOMAIN nodes \ {ROOT_ID} /\ ROOT_ID \in DOMAIN nodes /\ proc[p].src # NULL
    BY <1>4, MetaConstants DEF MoveFile, Rename, MetaInv, MetaTypeOK
  <2>2. QED
    BY <1>4, <2>1 DEF MoveFile, MetaNext
<1>5. QED
  BY <1>1, <1>2, <1>3, <1>4
     DEF SearchNext, WriteNext, NameNext, ReindexLook, ReindexLoad, IndexDocument, DeleteStart,
         MoveStart, MoveTarget, Refuse, RemoveDocument, CommitIndex, IndexFault, Restart

\* What the requests do to the tables is a history of the store, so whatever
\* holds of the store holds here.
THEOREM SearchIsMeta == SearchSpec => MetaSpec
<1>1. SearchInit => MetaInit
  BY DEF SearchInit
<1>2. QED
  BY <1>1, SearchStepIsMetaStep, SearchInvariant, PTL DEF SearchSpec, MetaSpec

=============================================================================
