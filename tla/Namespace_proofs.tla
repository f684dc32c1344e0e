--------------------------- MODULE Namespace_proofs ---------------------------
(***************************************************************************)
(* The requests on names, for any number of them, of nodes and of names:   *)
(* they are calls of the metadata store; the tree can only be taken apart  *)
(* by a move below itself; it is not, when requests take turns; and then   *)
(* they are the operations of the tree of names that NameTree promises.    *)
(***************************************************************************)
EXTENDS Namespace, MetaStore_proofs

-----------------------------------------------------------------------------
(* The tree under the calls of the store                                   *)

LEMMA InsertKeepsTree ==
  ASSUME MetaInv, TreeIsRooted, NEW id \in NodeIds, NEW parent, NEW name,
         NEW isDir \in BOOLEAN, NEW now \in Times, InsertNode(id, parent, name, isDir, now)
  PROVE  TreeIsRooted'
<1>1. /\ parent \in DOMAIN nodes /\ id \notin DOMAIN nodes
      /\ DOMAIN nodes' = DOMAIN nodes \cup {id}
      /\ nodes'[id].parent = parent
      /\ \A n \in DOMAIN nodes : nodes'[n] = nodes[n]
  <2>1. DOMAIN nodes \subseteq Nat
    BY MetaConstants DEF MetaInv, MetaTypeOK
  <2>2. id \notin DOMAIN nodes
    BY <2>1, NextRowIdFact DEF InsertNode
  <2>3. QED
    BY <2>2 DEF InsertNode, PutRow
<1>2. SUFFICES ASSUME NEW S \in SUBSET DOMAIN nodes', ROOT_ID \in S,
                      \A m \in DOMAIN nodes' : nodes'[m].parent \in S => m \in S
               PROVE  DOMAIN nodes' \subseteq S
  BY DEF TreeIsRooted, Subtree
<1>3. Subtree(ROOT_ID) \subseteq S \cap DOMAIN nodes
  BY <1>1, <1>2, SubtreeIsLeast DEF MetaInv, MetaTypeOK
<1>4. DOMAIN nodes \subseteq S
  BY <1>3 DEF TreeIsRooted
<1>5. QED
  BY <1>1, <1>2, <1>4

LEMMA DeleteKeepsTree ==
  ASSUME MetaInv, TreeIsRooted, NEW id \in DOMAIN nodes \ {ROOT_ID}, DeleteNode(id)
  PROVE  TreeIsRooted'
<1>1. /\ DOMAIN nodes' = DOMAIN nodes \ Subtree(id)
      /\ \A n \in DOMAIN nodes' : nodes'[n] = nodes[n]
  BY DEF DeleteNode, DropRows, Restrict
<1>2. SUFFICES ASSUME NEW S \in SUBSET DOMAIN nodes', ROOT_ID \in S,
                      \A m \in DOMAIN nodes' : nodes'[m].parent \in S => m \in S
               PROVE  DOMAIN nodes' \subseteq S
  BY DEF TreeIsRooted, Subtree
<1> DEFINE T == S \cup Subtree(id)
<1>3. T \in SUBSET DOMAIN nodes /\ ROOT_ID \in T
  BY <1>1, <1>2 DEF Subtree
<1>4. ASSUME NEW m \in DOMAIN nodes, nodes[m].parent \in T
      PROVE  m \in T
  BY <1>1, <1>2, <1>4, SubtreeIsClosed
<1>5. Subtree(ROOT_ID) \subseteq T
  BY <1>3, <1>4, SubtreeIsLeast
<1>6. QED
  BY <1>1, <1>5 DEF TreeIsRooted

\* The heart of it: a move to a parent that is not in the subtree moved
\* leaves everything below the root.
LEMMA RenameKeepsTree ==
  ASSUME MetaInv, TreeIsRooted, NEW id \in DOMAIN nodes \ {ROOT_ID}, NEW parent, NEW name,
         Rename(id, parent, name), parent \notin Subtree(id)
  PROVE  TreeIsRooted'
<1>1. /\ parent \in DOMAIN nodes
      /\ DOMAIN nodes' = DOMAIN nodes
      /\ nodes'[id].parent = parent
      /\ \A n \in DOMAIN nodes \ {id} : nodes'[n] = nodes[n]
  <2>1. nodes[id] \in NodeRow
    BY DEF MetaInv, MetaTypeOK
  <2>2. QED
    BY <2>1 DEF Rename, NodeRow
<1>2. SUFFICES ASSUME NEW S \in SUBSET DOMAIN nodes', ROOT_ID \in S,
                      \A m \in DOMAIN nodes' : nodes'[m].parent \in S => m \in S
               PROVE  DOMAIN nodes' \subseteq S
  BY DEF TreeIsRooted, Subtree
\* Before the move, S and the subtree together are closed, ...
<1> DEFINE T == S \cup Subtree(id)
<1>3. T \in SUBSET DOMAIN nodes /\ ROOT_ID \in T
  BY <1>1, <1>2 DEF Subtree
<1>4. ASSUME NEW m \in DOMAIN nodes, nodes[m].parent \in T
      PROVE  m \in T
  BY <1>1, <1>2, <1>4, SubtreeIsClosed, SubtreeHoldsNode
<1>5. DOMAIN nodes \subseteq T
  BY <1>3, <1>4, SubtreeIsLeast DEF TreeIsRooted
\* ... so that the new parent, which is not in the subtree, is in S,
<1>6. id \in S
  BY <1>1, <1>2, <1>5
\* and with the node everything below it.
<1>7. Subtree(id) \subseteq S
  BY <1>1, <1>2, <1>6, SubtreeIsLeast
<1>8. QED
  BY <1>1, <1>5, <1>7

\* Of the calls of the store, only the move of a node below itself can take
\* the tree apart (DeleteNode with its cascade does not).
THEOREM OnlyRenamesUproot == MetaSpec => MovesAloneUproot
<1> DEFINE Uproots == \E id \in DOMAIN nodes : \E parent \in Subtree(id), name \in Names :
                        Rename(id, parent, name)
<1>1. ASSUME MetaInv, [MetaNext]_metaVars, TreeIsRooted, ~TreeIsRooted'
      PROVE  Uproots
  <2>1. ASSUME UNCHANGED nodes PROVE FALSE
    BY <1>1, <2>1 DEF TreeIsRooted, Subtree
  <2>2. ASSUME NEW id \in NodeIds, NEW parent \in DOMAIN nodes, NEW name \in Names,
               NEW isDir \in BOOLEAN, NEW now \in Times, InsertNode(id, parent, name, isDir, now)
        PROVE  FALSE
    BY <1>1, <2>2, InsertKeepsTree
  <2>3. ASSUME NEW id \in DOMAIN nodes \ {ROOT_ID}, NEW content \in Manifests, NEW now \in Times,
               SetFileContent(id, content, now)
        PROVE  FALSE
    <3>1. CASE UNCHANGED nodes
      BY <2>1, <3>1
    <3>2. CASE ~ UNCHANGED nodes
      <4>1. /\ DOMAIN nodes' = DOMAIN nodes
            /\ \A n \in DOMAIN nodes : nodes'[n].parent = nodes[n].parent
        <5>1. PICK vid \in VersionIds :
                nodes' = [nodes EXCEPT ![id].current = vid, ![id].size = Len(content), ![id].modified = now]
          BY <2>3, <3>2 DEF SetFileContent, AppendVersion, metaVars
        <5>2. nodes \in [DOMAIN nodes -> NodeRow]
          BY <1>1 DEF MetaInv, MetaTypeOK
        <5>3. nodes[id] \in NodeRow
          BY <5>2
        <5>4. DOMAIN nodes' = DOMAIN nodes /\ \A n \in DOMAIN nodes \ {id} : nodes'[n] = nodes[n]
          BY <5>1, <5>2
        <5>5. nodes'[id].parent = nodes[id].parent
          BY <5>1, <5>2, <5>3 DEF NodeRow
        <5>6. QED
          BY <5>4, <5>5
      <4>2. QED
        BY <1>1, <4>1 DEF TreeIsRooted, Subtree
    <3>3. QED
      BY <3>1, <3>2
  <2>4. ASSUME NEW id \in DOMAIN nodes \ {ROOT_ID}, DeleteNode(id)
        PROVE  FALSE
    BY <1>1, <2>4, DeleteKeepsTree
  <2>5. ASSUME NEW id \in DOMAIN nodes \ {ROOT_ID}, NEW parent \in DOMAIN nodes, NEW name \in Names,
               Rename(id, parent, name)
        PROVE  Uproots
    BY <1>1, <2>5, RenameKeepsTree
  <2>6. ASSUME NEW id \in DOMAIN nodes, NEW tm \in Times, SetModified(id, tm)
        PROVE  FALSE
    <3>1. /\ DOMAIN nodes' = DOMAIN nodes
          /\ \A n \in DOMAIN nodes : nodes'[n].parent = nodes[n].parent
      BY <1>1, <2>6 DEF SetModified, MetaInv, MetaTypeOK, NodeRow
    <3>2. QED
      BY <1>1, <3>1 DEF TreeIsRooted, Subtree
  <2>7. ASSUME NEW v \in DOMAIN versions, DeleteVersion(versions[v].node, versions[v].number)
        PROVE  FALSE
    BY <2>1, <2>7 DEF DeleteVersion
  <2>8. CASE UNCHANGED metaVars
    BY <2>1, <2>8 DEF metaVars
  <2>9. QED
    BY <1>1, <2>2, <2>3, <2>4, <2>5, <2>6, <2>7, <2>8 DEF MetaNext, RemoveDir
<1>2. MetaInv /\ [MetaNext]_metaVars =>
        [TreeIsRooted /\ ~TreeIsRooted' => Uproots]_metaVars
  BY <1>1
<1>3. QED
  BY <1>2, MetaIntegrity, PTL DEF MetaSpec, MovesAloneUproot

-----------------------------------------------------------------------------
(* Requests are calls of the metadata store                                *)

\* What the checks of a request have established of its own variables,
\* however the tables move: the root is neither moved nor deleted.
Sound(r) ==
  /\ r \in Request
  /\ IF r.pc = "idle" THEN r = Idle ELSE r.name \in Names
  /\ r.kind = "move" => r.src # ROOT_ID
  /\ r.pc \in {"remove", "removeDirCheck", "removeDir"} => r.at # ROOT_ID
  /\ r.pc = "rename" => r.kind = "move"

NameInv ==
  /\ MetaInv
  /\ nodes[ROOT_ID].isDir
  /\ req = [p \in Procs |-> req[p]]
  /\ \A p \in Procs : Sound(req[p])

LEMMA IdleIsSound == Sound(Idle)
BY MetaConstants DEF Sound, Idle, Request, NULL, ROOT_ID

\* One request moves on, the others stay.
LEMMA OthersStaySound ==
  ASSUME NameInv, NEW p \in Procs, NEW r, Sound(r), req' = [req EXCEPT ![p] = r]
  PROVE  /\ req' = [q \in Procs |-> req'[q]]
         /\ \A q \in Procs : Sound(req'[q])
BY DEF NameInv

LEMMA ArriveStep ==
  ASSUME NameInv, NEW p \in Procs, Arrive(p)
  PROVE  NameInv' /\ UNCHANGED metaVars
<1>1. Sound(req[p])
  BY DEF NameInv
<1>2. UNCHANGED metaVars /\ req[p] = Idle
  BY <1>1 DEF Arrive, Make, Take, At, Sound
<1>3. PICK r : Sound(r) /\ req' = [req EXCEPT ![p] = r]
  <2>1. ASSUME NEW kind \in {"mkcol", "put"}, NEW to \in Paths, NEW name \in Names,
               Make(p, kind, to, name)
        PROVE  \E r : Sound(r) /\ req' = [req EXCEPT ![p] = r]
    <3> DEFINE r == [req[p] EXCEPT !.kind = kind, !.pc = "parent", !.rest = to, !.name = name]
    <3>1. req' = [req EXCEPT ![p] = r]
      BY <2>1 DEF Make, NameInv
    <3>2. r \in Request
      BY <1>1, PathsAreNames DEF Sound, Request, Kinds
    <3>3. r.pc # "idle" /\ r.name \in Names /\ r.src = NULL
      BY <1>1, <1>2 DEF Sound, Request, Idle
    <3>4. r.pc \notin {"remove", "removeDirCheck", "removeDir", "rename"}
      BY <1>1 DEF Sound, Request
    <3>5. Sound(r)
      BY <3>2, <3>3, <3>4 DEF Sound, NULL, ROOT_ID
    <3>6. QED
      BY <3>1, <3>5
  <2>2. ASSUME NEW kind \in Kinds \ {"mkcol", "put"}, NEW from \in Paths, NEW to \in Paths,
               NEW name \in Names, Take(p, kind, from, to, name)
        PROVE  \E r : Sound(r) /\ req' = [req EXCEPT ![p] = r]
    <3> DEFINE r == [req[p] EXCEPT !.kind = kind, !.pc = "resolve", !.rest = from,
                                   !.to = to, !.name = name]
    <3>1. req' = [req EXCEPT ![p] = r]
      BY <2>2 DEF Take, NameInv
    <3>2. r \in Request
      BY <1>1, PathsAreNames DEF Sound, Request, Kinds
    <3>3. r.pc # "idle" /\ r.name \in Names /\ r.src = NULL
      BY <1>1, <1>2 DEF Sound, Request, Idle
    <3>4. r.pc \notin {"remove", "removeDirCheck", "removeDir", "rename"}
      BY <1>1 DEF Sound, Request
    <3>5. Sound(r)
      BY <3>2, <3>3, <3>4 DEF Sound, NULL, ROOT_ID
    <3>6. QED
      BY <3>1, <3>5
  <2>3. QED
    BY <2>1, <2>2 DEF Arrive
<1>4. QED
  BY <1>2, <1>3, OthersStaySound, MetaStep DEF NameInv, metaVars

LEMMA FindStep ==
  ASSUME NameInv, NEW p \in Procs, Find(p)
  PROVE  NameInv' /\ UNCHANGED metaVars
<1> DEFINE Next(r) == req' = [req EXCEPT ![p] = r]
<1>1. req[p] \in Request /\ Sound(req[p]) /\ \A q \in Procs : Sound(req[q])
  BY DEF NameInv, Sound
<1>2. nodes \in [DOMAIN nodes -> NodeRow] /\ DOMAIN nodes \subseteq NodeIds
  BY DEF NameInv, MetaInv, MetaTypeOK
<1>3. UNCHANGED metaVars
  BY DEF Find, Walk, SourceFound, VictimFound, ParentFound, Ancestor, Target
<1>4. ASSUME Walk(p) PROVE \E r : Sound(r) /\ Next(r)
  <2>1. PICK n \in DOMAIN nodes :
          req' = [req EXCEPT ![p].at = n, ![p].atIsDir = nodes[n].isDir, ![p].rest = Tail(@)]
    BY <1>4 DEF Walk
  <2> DEFINE r == [req[p] EXCEPT !.at = n, !.atIsDir = nodes[n].isDir, !.rest = Tail(req[p].rest)]
  <2>2. Next(r)
    BY <2>1
  <2>3. nodes[n] \in NodeRow
    BY <1>2
  <2>4. nodes[n].isDir \in BOOLEAN /\ Tail(req[p].rest) \in Seq(Names)
    BY <1>1, <1>4, <2>3 DEF NodeRow, Request, Walk
  <2>5. req[p].pc \in {"resolve", "parent"}
    BY <1>4 DEF Walk, At
  <2>6. Sound(r)
    BY <1>1, <1>2, <2>4, <2>5 DEF Sound, Request
  <2>7. QED
    BY <2>2, <2>6
<1>5. ASSUME SourceFound(p) PROVE \E r : Sound(r) /\ Next(r)
  <2> DEFINE r == [req[p] EXCEPT !.pc = "parent", !.src = req[p].at, !.srcIsDir = req[p].atIsDir,
                                 !.at = ROOT_ID, !.atIsDir = TRUE, !.rest = req[p].to, !.to = <<>>]
  <2>1. Next(r)
    BY <1>5 DEF SourceFound
  <2>2. Sound(r)
    BY <1>1, <1>5, MetaConstants DEF Sound, Request, SourceFound, IsKind, At
  <2>3. QED
    BY <2>1, <2>2
<1>6. ASSUME VictimFound(p) PROVE \E r : Sound(r) /\ Next(r)
  <2>1. CASE IsKind(p, {"rmcol"}) /\ req[p].at # ROOT_ID /\ Next([req[p] EXCEPT !.pc = "removeDirCheck"])
    <3>1. Sound([req[p] EXCEPT !.pc = "removeDirCheck"])
      BY <1>1, <1>6, <2>1 DEF Sound, Request, VictimFound, At
    <3>2. QED
      BY <2>1, <3>1
  <2>2. CASE Next([req[p] EXCEPT !.pc = "removeCheck"])
    <3>1. Sound([req[p] EXCEPT !.pc = "removeCheck"])
      BY <1>1, <1>6, <2>2 DEF Sound, Request, VictimFound, At
    <3>2. QED
      BY <2>2, <3>1
  <2>3. QED
    BY <1>6, <2>1, <2>2 DEF VictimFound
<1>7. ASSUME ParentFound(p) PROVE \E r : Sound(r) /\ Next(r)
  <2>1. PICK pc \in {"create", "target", "ancestor"} :
          req' = [req EXCEPT ![p].dst = req[p].at, ![p].pc = pc]
    BY <1>7 DEF ParentFound
  <2> DEFINE r == [req[p] EXCEPT !.dst = req[p].at, !.pc = pc]
  <2>2. Next(r)
    BY <2>1
  <2>3. Sound(r)
    BY <1>1, <1>7 DEF Sound, Request, ParentFound, At
  <2>4. QED
    BY <2>2, <2>3
<1>8. ASSUME Ancestor(p) PROVE \E r : Sound(r) /\ Next(r)
  <2> DEFINE parent == nodes[req[p].at].parent
  <2>1. CASE parent = NULL
    <3>1. Next([req[p] EXCEPT !.pc = "target"])
      BY <1>8, <2>1 DEF Ancestor
    <3>2. Sound([req[p] EXCEPT !.pc = "target"])
      BY <1>1, <1>8 DEF Sound, Request, Ancestor, At
    <3>3. QED
      BY <3>1, <3>2
  <2>2. CASE parent # NULL
    <3>1. Next([req[p] EXCEPT !.at = parent])
      BY <1>8, <2>2 DEF Ancestor
    <3>2. nodes[req[p].at] \in NodeRow
      BY <1>2, <1>8 DEF Ancestor
    <3>3. parent \in NodeIds
      BY <2>2, <3>2 DEF NodeRow
    <3>4. Sound([req[p] EXCEPT !.at = parent])
      BY <1>1, <1>8, <3>3 DEF Sound, Request, Ancestor, At
    <3>5. QED
      BY <3>1, <3>4
  <2>3. QED
    BY <2>1, <2>2
<1>9. ASSUME Target(p) PROVE \E r : Sound(r) /\ Next(r)
  <2>1. req[p].pc = "target"
    BY <1>9 DEF Target, At
  <2>2. CASE Next(Idle)
    BY <2>2, IdleIsSound
  <2>3. CASE req[p].kind = "move" /\ Next([req[p] EXCEPT !.pc = "rename"])
    <3>1. Sound([req[p] EXCEPT !.pc = "rename"])
      BY <1>1, <2>1, <2>3 DEF Sound, Request
    <3>2. QED
      BY <2>3, <3>1
  <2>4. CASE Next([req[p] EXCEPT !.pc = "create"])
    <3>1. Sound([req[p] EXCEPT !.pc = "create"])
      BY <1>1, <2>1 DEF Sound, Request
    <3>2. QED
      BY <2>4, <3>1
  <2>5. ASSUME NEW n \in DOMAIN nodes, Next([req[p] EXCEPT !.pc = "removeCheck", !.at = n])
        PROVE  \E r : Sound(r) /\ Next(r)
    <3>1. Sound([req[p] EXCEPT !.pc = "removeCheck", !.at = n])
      BY <1>1, <1>2, <2>1 DEF Sound, Request
    <3>2. QED
      BY <2>5, <3>1
  <2>6. QED
    BY <1>9, <2>2, <2>3, <2>4, <2>5 DEF Target, IsKind, End
<1>10. PICK r : Sound(r) /\ Next(r)
  BY <1>4, <1>5, <1>6, <1>7, <1>8, <1>9 DEF Find
<1>11. QED
  BY <1>3, <1>10, OthersStaySound, MetaStep DEF NameInv, metaVars

\* What a change does to the tables, and that it is a call of the store.
LEMMA ChangeStep ==
  ASSUME NameInv, NEW p \in Procs, Change(p)
  PROVE  NameInv' /\ [MetaNext]_metaVars
<1> DEFINE Next(r) == req' = [req EXCEPT ![p] = r]
<1>1. req[p] \in Request /\ Sound(req[p])
  BY DEF NameInv, Sound
<1>2. ROOT_ID \in DOMAIN nodes
  BY DEF NameInv, MetaInv, MetaTypeOK
\* A step of these kinds keeps the root, and gives it no other kind.
<1>3. ASSUME [MetaNext]_metaVars, nodes'[ROOT_ID].isDir, NEW r, Sound(r), Next(r)
      PROVE  NameInv'
  BY <1>3, OthersStaySound, MetaStep DEF NameInv
<1>4. ASSUME NEW id \in NodeIds, NEW now \in Times, Create(p, id, now)
      PROVE  NameInv' /\ [MetaNext]_metaVars
  <2> DEFINE isDir == IsKind(p, {"mkcol"}) \/ req[p].srcIsDir
  <2>1. req[p].name \in Names /\ isDir \in BOOLEAN /\ req[p].dst \in DOMAIN nodes
    BY <1>1, <1>4 DEF Create, InsertNode, At, Sound, Request, IsKind
  <2>2. InsertNode(id, req[p].dst, req[p].name, isDir, now)
    BY <1>4 DEF Create
  <2>3. [MetaNext]_metaVars
    BY <2>1, <2>2 DEF MetaNext
  <2>4. id \notin DOMAIN nodes
    <3>1. DOMAIN nodes \subseteq Nat
      BY MetaConstants DEF NameInv, MetaInv, MetaTypeOK
    <3>2. QED
      BY <2>2, <3>1, NextRowIdFact DEF InsertNode
  <2>5. nodes'[ROOT_ID] = nodes[ROOT_ID]
    BY <1>2, <2>2, <2>4 DEF InsertNode, PutRow
  <2>6. Next(Idle)
    BY <1>4 DEF Create, End
  <2>7. QED
    BY <1>3, <2>3, <2>5, <2>6, IdleIsSound DEF NameInv
<1>5. ASSUME NEW id \in DOMAIN nodes \ {ROOT_ID}, DeleteNode(id), NEW r, Sound(r), Next(r)
      PROVE  NameInv' /\ [MetaNext]_metaVars
  <2>1. [MetaNext]_metaVars
    BY <1>5 DEF MetaNext
  <2>2. ROOT_ID \notin Subtree(id)
    BY <1>5, SubtreeSparesRoot DEF NameInv
  <2>3. nodes'[ROOT_ID] = nodes[ROOT_ID]
    BY <1>2, <1>5, <2>2 DEF DeleteNode, DropRows, Restrict
  <2>4. QED
    BY <1>3, <1>5, <2>1, <2>3 DEF NameInv
<1>6. ASSUME RemoveCheck(p) PROVE NameInv' /\ [MetaNext]_metaVars
  <2>1. Next([req[p] EXCEPT !.pc = "remove"]) /\ UNCHANGED metaVars
    BY <1>6 DEF RemoveCheck
  <2>2. req[p].at # ROOT_ID
    BY <1>6 DEF RemoveCheck, NameInv
  <2>3. Sound([req[p] EXCEPT !.pc = "remove"])
    BY <1>1, <1>6, <2>2 DEF Sound, Request, RemoveCheck, At
  <2>4. QED
    BY <1>3, <2>1, <2>3 DEF NameInv, metaVars
<1>7. ASSUME RemoveFile(p) PROVE NameInv' /\ [MetaNext]_metaVars
  <2>1. req[p].at \in DOMAIN nodes \ {ROOT_ID} /\ DeleteNode(req[p].at)
    BY <1>1, <1>7 DEF RemoveFile, DeleteNode, At, Sound
  <2>2. CASE Next(Idle)
    BY <1>5, <2>1, <2>2, IdleIsSound
  <2>3. CASE req[p].kind = "move" /\ Next([req[p] EXCEPT !.pc = "rename"])
    <3>1. Sound([req[p] EXCEPT !.pc = "rename"])
      BY <1>1, <1>7, <2>3 DEF Sound, Request, RemoveFile, At
    <3>2. QED
      BY <1>5, <2>1, <2>3, <3>1
  <2>4. QED
    BY <1>7, <2>2, <2>3 DEF RemoveFile, IsKind, End
<1>8. ASSUME RemoveDirCheck(p) PROVE NameInv' /\ [MetaNext]_metaVars
  <2>1. Next([req[p] EXCEPT !.pc = "removeDir"]) /\ UNCHANGED metaVars
    BY <1>8 DEF RemoveDirCheck
  <2>2. Sound([req[p] EXCEPT !.pc = "removeDir"])
    BY <1>1, <1>8 DEF Sound, Request, RemoveDirCheck, At
  <2>3. QED
    BY <1>3, <2>1, <2>2 DEF NameInv, metaVars
<1>9. ASSUME RemoveCollection(p) PROVE NameInv' /\ [MetaNext]_metaVars
  <2>1. req[p].at \in DOMAIN nodes \ {ROOT_ID} /\ DeleteNode(req[p].at)
    BY <1>1, <1>9 DEF RemoveCollection, RemoveDir, DeleteNode, At, Sound
  <2>2. Next(Idle)
    BY <1>9 DEF RemoveCollection, End
  <2>3. QED
    BY <1>5, <2>1, <2>2, IdleIsSound
<1>10. ASSUME MoveNode(p) PROVE NameInv' /\ [MetaNext]_metaVars
  <2>1. /\ req[p].src \in DOMAIN nodes \ {ROOT_ID}
        /\ req[p].dst \in DOMAIN nodes
        /\ req[p].name \in Names
        /\ Rename(req[p].src, req[p].dst, req[p].name)
    BY <1>1, <1>10 DEF MoveNode, Rename, At, Sound
  <2>2. [MetaNext]_metaVars
    BY <2>1 DEF MetaNext
  <2>3. nodes'[ROOT_ID] = nodes[ROOT_ID]
    BY <1>2, <2>1 DEF Rename
  <2>4. Next(Idle)
    BY <1>10 DEF MoveNode, End
  <2>5. QED
    BY <1>3, <2>2, <2>3, <2>4, IdleIsSound DEF NameInv
<1>11. QED
  BY <1>4, <1>6, <1>7, <1>8, <1>9, <1>10 DEF Change

LEMMA NameStep ==
  NameInv /\ [NameNext]_nameVars => NameInv' /\ [MetaNext]_metaVars
<1> SUFFICES ASSUME NameInv, [NameNext]_nameVars PROVE NameInv' /\ [MetaNext]_metaVars
  OBVIOUS
<1>1. ASSUME UNCHANGED metaVars, req' = [p \in Procs |-> req'[p]], \A p \in Procs : Sound(req'[p])
      PROVE  NameInv' /\ [MetaNext]_metaVars
  BY <1>1, MetaStep DEF NameInv, metaVars
<1>2. CASE UNCHANGED nameVars
  BY <1>1, <1>2 DEF nameVars, metaVars, NameInv
<1>3. CASE Restart
  BY <1>1, <1>3, IdleIsSound DEF Restart
<1>4. ASSUME NEW p \in Procs, Fail(p) PROVE NameInv' /\ [MetaNext]_metaVars
  BY <1>1, <1>4, IdleIsSound, OthersStaySound DEF Fail, End
<1>5. QED
  BY <1>2, <1>3, <1>4, ArriveStep, FindStep, ChangeStep DEF NameNext

\* Whatever requests on names run side by side, fail or are cut short, the
\* tables go through steps of the metadata store only.
THEOREM NamesAreMeta == NameSpec => MetaSpec /\ []NameInv
<1>1. NameInit => NameInv /\ MetaInit
  <2> SUFFICES ASSUME NameInit PROVE NameInv
    BY DEF NameInit
  <2>1. MetaInv
    BY MetaInitInv DEF NameInit
  <2>2. nodes[ROOT_ID].isDir
    BY DEF NameInit, MetaInit
  <2>3. QED
    BY <2>1, <2>2, IdleIsSound DEF NameInit, NameInv
<1>2. QED
  BY <1>1, NameStep, PTL DEF NameSpec, MetaSpec

\* NameTypeOK is part of it.
THEOREM NamesAreTyped == NameSpec => [](NameTypeOK /\ ReferentialIntegrity /\ UniqueNames)
<1>1. NameInv => NameTypeOK /\ ReferentialIntegrity /\ UniqueNames
  BY DEF NameInv, MetaInv, NameTypeOK, Sound
<1>2. QED
  BY <1>1, NamesAreMeta, PTL

-----------------------------------------------------------------------------
(* The tree                                                                *)

\* The child of a move is not the root, and its new parent is where it says.
LEMMA TreeStep ==
  ASSUME NameInv, TreeIsRooted, [NameNext]_nameVars,
         \A p \in Procs : ~(/\ At(p, "rename")
                             /\ req[p].src \in DOMAIN nodes
                             /\ req[p].dst \in Subtree(req[p].src))
  PROVE  TreeIsRooted'
<1>1. CASE UNCHANGED nodes
  BY <1>1 DEF TreeIsRooted, Subtree
<1>2. ASSUME NEW id \in DOMAIN nodes \ {ROOT_ID}, DeleteNode(id) PROVE TreeIsRooted'
  BY <1>2, DeleteKeepsTree DEF NameInv
<1>3. ASSUME NEW p \in Procs, Change(p) PROVE TreeIsRooted'
  <2>1. Sound(req[p]) /\ req[p] \in Request
    BY DEF NameInv, Sound
  <2>2. ASSUME NEW id \in NodeIds, NEW now \in Times, Create(p, id, now) PROVE TreeIsRooted'
    <3> DEFINE isDir == IsKind(p, {"mkcol"}) \/ req[p].srcIsDir
    <3>1. isDir \in BOOLEAN /\ InsertNode(id, req[p].dst, req[p].name, isDir, now)
      BY <2>1, <2>2 DEF Create, Request, IsKind
    <3>2. QED
      BY <3>1, InsertKeepsTree DEF NameInv
  <2>3. CASE RemoveCheck(p) \/ RemoveDirCheck(p)
    BY <1>1, <2>3 DEF RemoveCheck, RemoveDirCheck, metaVars
  <2>4. CASE RemoveFile(p)
    <3>1. req[p].at \in DOMAIN nodes \ {ROOT_ID} /\ DeleteNode(req[p].at)
      BY <2>1, <2>4 DEF RemoveFile, DeleteNode, At, Sound
    <3>2. QED
      BY <1>2, <3>1
  <2>5. CASE RemoveCollection(p)
    <3>1. req[p].at \in DOMAIN nodes \ {ROOT_ID} /\ DeleteNode(req[p].at)
      BY <2>1, <2>5 DEF RemoveCollection, RemoveDir, DeleteNode, At, Sound
    <3>2. QED
      BY <1>2, <3>1
  <2>6. CASE MoveNode(p)
    <3>1. /\ req[p].src \in DOMAIN nodes \ {ROOT_ID}
          /\ Rename(req[p].src, req[p].dst, req[p].name)
          /\ req[p].dst \notin Subtree(req[p].src)
      BY <2>1, <2>6 DEF MoveNode, Rename, At, Sound
    <3>2. QED
      BY <3>1, RenameKeepsTree DEF NameInv
  <2>7. QED
    BY <1>3, <2>2, <2>3, <2>4, <2>5, <2>6 DEF Change
<1>4. ASSUME NEW p \in Procs, Arrive(p) \/ Find(p) PROVE TreeIsRooted'
  BY <1>1, <1>4, ArriveStep, FindStep DEF metaVars
<1>5. QED
  BY <1>1, <1>3, <1>4 DEF NameNext, nameVars, metaVars, Fail, Restart

\* Of everything that requests can do to the tree side by side, only a move
\* below itself takes it apart: the check against it has to hold when the
\* move is made.
THEOREM OnlyMovesCanUproot == NameSpec => OnlyMovesUproot
<1>1. NameInv /\ [NameNext]_nameVars =>
        [TreeIsRooted /\ ~TreeIsRooted' =>
           \E p \in Procs : /\ At(p, "rename")
                          /\ req[p].src \in DOMAIN nodes
                          /\ req[p].dst \in Subtree(req[p].src)]_nameVars
  BY TreeStep
<1>2. QED
  BY <1>1, NamesAreMeta, PTL DEF NameSpec, OnlyMovesUproot

-----------------------------------------------------------------------------
(* One request at a time                                                   *)

\* What a request knows of the tables, if nobody else changes them.
Knows(r) ==
  /\ r.pc \in {"resolve", "parent"} => r.at \in DOMAIN nodes /\ nodes[r.at].isDir = r.atIsDir
  /\ r.pc \in {"parent", "ancestor"} /\ r.src # NULL =>
       r.src \in DOMAIN nodes /\ nodes[r.src].isDir = r.srcIsDir
  /\ r.pc = "resolve" => r.dst = NULL
  /\ r.srcIsDir => r.src # NULL
  /\ r.pc = "ancestor" => r.srcIsDir /\ (r.dst \in Subtree(r.src) => r.at \in Subtree(r.src))
  /\ r.pc \in {"ancestor", "target", "create", "removeCheck", "remove", "rename"}
       /\ r.dst \in DOMAIN nodes => nodes[r.dst].isDir
  /\ r.pc \in {"target", "removeCheck", "remove", "rename"} /\ r.kind = "move"
       /\ r.src \in DOMAIN nodes => r.dst \notin Subtree(r.src)
  /\ r.pc = "remove" /\ r.at \in DOMAIN nodes => ~nodes[r.at].isDir

\* Nothing is below a file. Of one request at a time only: with two, a collection
\* that one has found (davfs.rs:680) the other can delete, and its id be a file's
\* by the time something is put into it.
ParentsAreCollections == \A n \in DOMAIN nodes \ {ROOT_ID} : nodes[nodes[n].parent].isDir

TurnInv ==
  /\ NameInv
  /\ TreeIsRooted
  /\ ParentsAreCollections
  /\ \A p \in Procs : Knows(req[p])

LEMMA IdleKnows == Knows(Idle)
BY DEF Knows, Idle

\* A file has nothing below it.
LEMMA FilesAreLeaves ==
  ASSUME TurnInv, NEW f \in DOMAIN nodes, ~nodes[f].isDir
  PROVE  Subtree(f) = {f}
<1>1. ASSUME NEW m \in DOMAIN nodes PROVE nodes[m].parent # f
  <2>1. CASE m = ROOT_ID
    BY <2>1, MetaConstants DEF TurnInv, NameInv, MetaInv, MetaTypeOK, RootIsTop
  <2>2. CASE m # ROOT_ID
    BY <2>2 DEF TurnInv, ParentsAreCollections
  <2>3. QED
    BY <2>1, <2>2
<1>2. QED
  BY <1>1, LeafSubtree

\* Reading and checking: the request moves on and knows what it has read.
LEMMA FindKnows ==
  ASSUME TurnInv, NEW p \in Procs, Find(p)
  PROVE  \E r : Knows(r) /\ req' = [req EXCEPT ![p] = r]
<1> DEFINE Next(r) == req' = [req EXCEPT ![p] = r]
<1>1. req[p] \in Request /\ Sound(req[p]) /\ Knows(req[p])
  BY DEF TurnInv, NameInv, Sound
<1>2. /\ nodes \in [DOMAIN nodes -> NodeRow] /\ DOMAIN nodes \subseteq NodeIds
      /\ ROOT_ID \in DOMAIN nodes /\ nodes[ROOT_ID].isDir
      /\ NULL \notin NodeIds
  BY MetaConstants DEF TurnInv, NameInv, MetaInv, MetaTypeOK
<1>4. ASSUME Walk(p) PROVE \E r : Knows(r) /\ Next(r)
  <2>1. PICK n \in DOMAIN nodes :
          req' = [req EXCEPT ![p].at = n, ![p].atIsDir = nodes[n].isDir, ![p].rest = Tail(@)]
    BY <1>4 DEF Walk
  <2> DEFINE r == [req[p] EXCEPT !.at = n, !.atIsDir = nodes[n].isDir, !.rest = Tail(req[p].rest)]
  <2>2. Next(r)
    BY <2>1
  <2>3. req[p].pc \in {"resolve", "parent"}
    BY <1>4 DEF Walk, At
  <2>4. Knows(r)
    BY <1>1, <2>3 DEF Knows, Request
  <2>5. QED
    BY <2>2, <2>4
<1>5. ASSUME SourceFound(p) PROVE \E r : Knows(r) /\ Next(r)
  <2> DEFINE r == [req[p] EXCEPT !.pc = "parent", !.src = req[p].at, !.srcIsDir = req[p].atIsDir,
                                 !.at = ROOT_ID, !.atIsDir = TRUE, !.rest = req[p].to, !.to = <<>>]
  <2>1. Next(r)
    BY <1>5 DEF SourceFound
  <2>2. Knows(r)
    BY <1>1, <1>2, <1>5 DEF Knows, Request, SourceFound, At
  <2>3. QED
    BY <2>1, <2>2
<1>6. ASSUME VictimFound(p) PROVE \E r : Knows(r) /\ Next(r)
  <2>1. PICK pc \in {"removeDirCheck", "removeCheck"} : Next([req[p] EXCEPT !.pc = pc])
    BY <1>6 DEF VictimFound
  <2>2. req[p].kind # "move" /\ req[p].pc = "resolve"
    BY <1>6 DEF VictimFound, IsKind, At
  <2>3. req[p].dst \notin DOMAIN nodes
    BY <1>1, <1>2, <2>2 DEF Knows
  <2>4. QED
    BY <1>1, <2>1, <2>2, <2>3 DEF Knows, Request
<1>7. ASSUME ParentFound(p) PROVE \E r : Knows(r) /\ Next(r)
  <2> DEFINE r == [req[p] EXCEPT !.dst = req[p].at,
                                 !.pc = IF IsKind(p, {"mkcol"}) THEN "create"
                                        ELSE IF req[p].srcIsDir THEN "ancestor" ELSE "target"]
  <2>1. Next(r)
    BY <1>7 DEF ParentFound
  <2>2. /\ req[p].pc = "parent"
        /\ req[p].at \in DOMAIN nodes /\ nodes[req[p].at].isDir
    BY <1>1, <1>7 DEF ParentFound, At, Knows
  \* A file is moved: what it goes to is a collection.
  <2>3. ASSUME req[p].src \in DOMAIN nodes, ~req[p].srcIsDir
        PROVE  req[p].at \notin Subtree(req[p].src)
    <3>1. ~nodes[req[p].src].isDir
      BY <1>1, <1>2, <2>2, <2>3 DEF Knows
    <3>2. QED
      BY <2>2, <2>3, <3>1, FilesAreLeaves
  <2>4. Knows(r)
    BY <1>1, <1>2, <2>2, <2>3 DEF Knows, Request
  <2>5. QED
    BY <2>1, <2>4
<1>8. ASSUME Ancestor(p) PROVE \E r : Knows(r) /\ Next(r)
  <2> DEFINE parent == nodes[req[p].at].parent
  <2>1. /\ req[p].pc = "ancestor" /\ req[p].at # req[p].src /\ req[p].at \in DOMAIN nodes
        /\ req[p].src \in DOMAIN nodes
    BY <1>1, <1>8 DEF Ancestor, At, Knows
  \* The walk up does not leave the subtree but at its top.
  <2>2. req[p].dst \in Subtree(req[p].src) => parent \in Subtree(req[p].src)
    BY <1>1, <2>1, SubtreeHoldsParents DEF Knows
  <2>3. CASE parent = NULL
    <3>1. Next([req[p] EXCEPT !.pc = "target"])
      BY <1>8, <2>3 DEF Ancestor
    <3>2. req[p].dst \notin Subtree(req[p].src)
      BY <1>2, <2>2, <2>3 DEF Subtree
    <3>3. Knows([req[p] EXCEPT !.pc = "target"])
      BY <1>1, <2>1, <3>2 DEF Knows, Request
    <3>4. QED
      BY <3>1, <3>3
  <2>4. CASE parent # NULL
    <3>1. Next([req[p] EXCEPT !.at = parent])
      BY <1>8, <2>4 DEF Ancestor
    <3>2. Knows([req[p] EXCEPT !.at = parent])
      BY <1>1, <2>1, <2>2 DEF Knows, Request
    <3>3. QED
      BY <3>1, <3>2
  <2>5. QED
    BY <2>3, <2>4
<1>9. ASSUME Target(p) PROVE \E r : Knows(r) /\ Next(r)
  <2>1. req[p].pc = "target"
    BY <1>9 DEF Target, At
  <2>2. CASE Next(Idle)
    BY <2>2, IdleKnows
  <2>3. ASSUME NEW pc \in {"rename", "create"}, Next([req[p] EXCEPT !.pc = pc])
        PROVE  \E r : Knows(r) /\ Next(r)
    <3>1. Knows([req[p] EXCEPT !.pc = pc])
      BY <1>1, <2>1 DEF Knows, Request
    <3>2. QED
      BY <2>3, <3>1
  <2>4. ASSUME NEW n \in DOMAIN nodes, Next([req[p] EXCEPT !.pc = "removeCheck", !.at = n])
        PROVE  \E r : Knows(r) /\ Next(r)
    <3>1. Knows([req[p] EXCEPT !.pc = "removeCheck", !.at = n])
      BY <1>1, <2>1 DEF Knows, Request
    <3>2. QED
      BY <2>4, <3>1
  <2>5. QED
    BY <1>9, <2>2, <2>3, <2>4 DEF Target, End
<1>10. QED
  BY <1>4, <1>5, <1>6, <1>7, <1>8, <1>9 DEF Find

LEMMA ArriveKnows ==
  ASSUME TurnInv, NEW p \in Procs, Arrive(p)
  PROVE  \E r : Knows(r) /\ req' = [req EXCEPT ![p] = r]
<1>1. req[p] \in Request /\ Sound(req[p]) /\ ROOT_ID \in DOMAIN nodes /\ nodes[ROOT_ID].isDir
  BY DEF TurnInv, NameInv, Sound, MetaInv, MetaTypeOK
<1>2. req[p] = Idle
  BY <1>1 DEF Arrive, Make, Take, At, Sound
<1>3. ASSUME NEW kind, NEW to, NEW name, Make(p, kind, to, name)
      PROVE  \E r : Knows(r) /\ req' = [req EXCEPT ![p] = r]
  <2> DEFINE r == [Idle EXCEPT !.kind = kind, !.pc = "parent", !.rest = to, !.name = name]
  <2>1. req' = [req EXCEPT ![p] = r]
    BY <1>2, <1>3 DEF Make
  <2>2. Knows(r)
    BY <1>1 DEF Knows, Idle
  <2>3. QED
    BY <2>1, <2>2
<1>4. ASSUME NEW kind, NEW from, NEW to, NEW name, Take(p, kind, from, to, name)
      PROVE  \E r : Knows(r) /\ req' = [req EXCEPT ![p] = r]
  <2> DEFINE r == [Idle EXCEPT !.kind = kind, !.pc = "resolve", !.rest = from, !.to = to, !.name = name]
  <2>1. req' = [req EXCEPT ![p] = r]
    BY <1>2, <1>4 DEF Take
  <2>2. Knows(r)
    BY <1>1 DEF Knows, Idle
  <2>3. QED
    BY <2>1, <2>2
<1>5. QED
  BY <1>3, <1>4 DEF Arrive

\* What a delete leaves of a subtree was in it before.
LEMMA SubtreeShrinks ==
  ASSUME NEW id, DeleteNode(id), NEW s \in DOMAIN nodes'
  PROVE  Subtree(s)' \subseteq Subtree(s)
<1>1. /\ DOMAIN nodes' \subseteq DOMAIN nodes
      /\ \A n \in DOMAIN nodes' : nodes'[n] = nodes[n]
  BY DEF DeleteNode, DropRows, Restrict
<1>2. ASSUME NEW n \in Subtree(s)', NEW S \in SUBSET DOMAIN nodes, s \in S,
             \A m \in DOMAIN nodes : nodes[m].parent \in S => m \in S
      PROVE  n \in S
  <2> DEFINE T == S \cap DOMAIN nodes'
  <2>1. T \in SUBSET DOMAIN nodes' /\ s \in T
    BY <1>2
  <2>2. \A m \in DOMAIN nodes' : nodes'[m].parent \in T => m \in T
    BY <1>1, <1>2
  <2>3. QED
    BY <1>2, <2>1, <2>2 DEF Subtree
<1>3. QED
  BY <1>1, <1>2 DEF Subtree

\* With one process, a step of anyone is a step of that one.
LEMMA TurnStep ==
  ASSUME NEW p, Procs = {p}, TurnInv, [NameNext]_nameVars
  PROVE  TurnInv'
<1> DEFINE Next(r) == req' = [req EXCEPT ![p] = r]
<1>1. /\ NameInv /\ NameInv' /\ TreeIsRooted /\ p \in Procs
      /\ req[p] \in Request /\ Sound(req[p]) /\ Knows(req[p])
      /\ req = [q \in Procs |-> req[q]]
  BY NameStep DEF TurnInv, NameInv, Sound
<1>2. TreeIsRooted'
  BY <1>1, TreeStep DEF At, Sound, Knows
<1>3. ROOT_ID \in DOMAIN nodes /\ nodes \in [DOMAIN nodes -> NodeRow] /\ DOMAIN nodes \subseteq NodeIds
  BY <1>1 DEF NameInv, MetaInv, MetaTypeOK
<1>4. ASSUME ParentsAreCollections', NEW r, Next(r), Knows(r)' PROVE TurnInv'
  BY <1>1, <1>2, <1>4 DEF TurnInv
<1>5. Knows(Idle)'
  BY DEF Knows, Idle
\* Nothing is changed.
<1>6. ASSUME UNCHANGED nodes, NEW r, Next(r), Knows(r) PROVE TurnInv'
  <2>1. Knows(r)' /\ ParentsAreCollections'
    BY <1>6 DEF Knows, Subtree, TurnInv, ParentsAreCollections
  <2>2. QED
    BY <1>4, <1>6, <2>1
\* A node is deleted: what is left keeps its parents.
<1>7. ASSUME NEW id, DeleteNode(id) PROVE ParentsAreCollections'
  <2>1. /\ DOMAIN nodes' = DOMAIN nodes \ Subtree(id)
        /\ \A n \in DOMAIN nodes' : nodes'[n] = nodes[n]
    BY <1>7 DEF DeleteNode, DropRows, Restrict
  <2>2. SUFFICES ASSUME NEW n \in DOMAIN nodes' \ {ROOT_ID} PROVE nodes'[nodes'[n].parent].isDir
    BY DEF ParentsAreCollections
  <2>3. nodes[n].parent \in DOMAIN nodes /\ nodes[nodes[n].parent].isDir
    BY <1>1, <2>1 DEF NameInv, MetaInv, ReferentialIntegrity, TurnInv, ParentsAreCollections
  <2>4. nodes[n].parent \in DOMAIN nodes'
    BY <2>1, <2>3, SubtreeIsClosed
  <2>5. QED
    BY <2>1, <2>3, <2>4
<1>8. ASSUME NEW id \in NodeIds, NEW now \in Times, Create(p, id, now) PROVE TurnInv'
  <2> DEFINE isDir == IsKind(p, {"mkcol"}) \/ req[p].srcIsDir
  <2>1. /\ req[p].dst \in DOMAIN nodes /\ nodes[req[p].dst].isDir
        /\ InsertNode(id, req[p].dst, req[p].name, isDir, now)
        /\ Next(Idle)
    BY <1>1, <1>8 DEF Create, InsertNode, Knows, At, End
  <2>2. id \notin DOMAIN nodes
    <3>1. DOMAIN nodes \subseteq Nat
      BY <1>3, MetaConstants
    <3>2. QED
      BY <2>1, <3>1, NextRowIdFact DEF InsertNode
  <2>3. /\ DOMAIN nodes' = DOMAIN nodes \cup {id}
        /\ nodes'[id].parent = req[p].dst
        /\ \A n \in DOMAIN nodes : nodes'[n] = nodes[n]
    BY <2>1, <2>2 DEF InsertNode, PutRow
  <2>4. \A n \in DOMAIN nodes \ {ROOT_ID} : nodes[n].parent \in DOMAIN nodes
    BY <1>1 DEF NameInv, MetaInv, ReferentialIntegrity
  <2>5. ParentsAreCollections'
    BY <2>1, <2>3, <2>4 DEF TurnInv, ParentsAreCollections
  <2>6. QED
    BY <1>4, <1>5, <2>1, <2>5
<1>9. ASSUME RemoveFile(p) PROVE TurnInv'
  <2>1. ParentsAreCollections' /\ DeleteNode(req[p].at) /\ req[p].pc = "remove"
    BY <1>7, <1>9 DEF RemoveFile, At
  <2>2. CASE Next(Idle)
    BY <1>4, <1>5, <2>1, <2>2
  <2>3. CASE Next([req[p] EXCEPT !.pc = "rename"])
    <3>1. PICK r : r = [req[p] EXCEPT !.pc = "rename"]
      OBVIOUS
    <3>2. PICK id : id = req[p].at
      OBVIOUS
    <3>3. DeleteNode(id)
      BY <2>1, <3>2
    <3>4. DOMAIN nodes' \subseteq DOMAIN nodes /\ \A n \in DOMAIN nodes' : nodes'[n] = nodes[n]
      BY <3>3 DEF DeleteNode, DropRows, Restrict
    <3>5. /\ r.pc = "rename" /\ r.kind = req[p].kind /\ r.src = req[p].src
          /\ r.dst = req[p].dst /\ r.srcIsDir = req[p].srcIsDir
      BY <1>1, <3>1 DEF Request
    <3>6. r.src \in DOMAIN nodes' => Subtree(r.src)' \subseteq Subtree(r.src)
      BY <3>3, SubtreeShrinks
    <3>7. r.kind = "move" /\ r.src \in DOMAIN nodes' => r.dst \notin Subtree(r.src)'
      BY <1>1, <2>1, <3>4, <3>5, <3>6 DEF Knows
    <3>8. r.dst \in DOMAIN nodes' => nodes'[r.dst].isDir
      BY <1>1, <2>1, <3>4, <3>5 DEF Knows
    <3>9. r.srcIsDir => r.src # NULL
      BY <1>1, <3>5 DEF Knows
    <3>10. Knows(r)'
      BY <3>5, <3>7, <3>8, <3>9 DEF Knows
    <3>11. QED
      BY <1>4, <2>1, <2>3, <3>1, <3>10
  <2>4. QED
    BY <1>9, <2>2, <2>3 DEF RemoveFile, End
<1>10. ASSUME RemoveCollection(p) PROVE TurnInv'
  <2>1. DeleteNode(req[p].at) /\ Next(Idle)
    BY <1>10 DEF RemoveCollection, RemoveDir, End
  <2>2. QED
    BY <1>4, <1>5, <1>7, <2>1
<1>11. ASSUME MoveNode(p) PROVE TurnInv'
  <2>1. /\ req[p].src \in DOMAIN nodes /\ req[p].dst \in DOMAIN nodes
        /\ nodes[req[p].dst].isDir
        /\ Rename(req[p].src, req[p].dst, req[p].name)
        /\ Next(Idle)
    BY <1>1, <1>11 DEF MoveNode, Rename, At, Knows, End
  <2>2. nodes[req[p].src] \in NodeRow
    BY <1>3, <2>1
  <2>3. /\ DOMAIN nodes' = DOMAIN nodes
        /\ nodes'[req[p].src].parent = req[p].dst
        /\ \A n \in DOMAIN nodes \ {req[p].src} : nodes'[n] = nodes[n]
        /\ \A n \in DOMAIN nodes : nodes'[n].isDir = nodes[n].isDir
    BY <2>1, <2>2 DEF Rename, NodeRow
  <2>4. \A n \in DOMAIN nodes \ {ROOT_ID} : nodes[n].parent \in DOMAIN nodes
    BY <1>1 DEF NameInv, MetaInv, ReferentialIntegrity
  <2>5. ParentsAreCollections'
    BY <2>1, <2>3, <2>4 DEF TurnInv, ParentsAreCollections
  <2>6. QED
    BY <1>4, <1>5, <2>1, <2>5
<1>12. ASSUME RemoveCheck(p) \/ RemoveDirCheck(p) PROVE TurnInv'
  <2>1. PICK pc \in {"remove", "removeDir"} : Next([req[p] EXCEPT !.pc = pc]) /\ UNCHANGED nodes
    BY <1>12 DEF RemoveCheck, RemoveDirCheck, metaVars
  <2>2. pc = "remove" => req[p].pc = "removeCheck" /\ ~nodes[req[p].at].isDir
    BY <1>12, <2>1, <1>1 DEF RemoveCheck, RemoveDirCheck, At, Request
  <2>3. Knows([req[p] EXCEPT !.pc = pc])
    BY <1>1, <2>1, <2>2 DEF Knows, Request
  <2>4. QED
    BY <1>6, <2>1, <2>3
<1>13. CASE UNCHANGED nameVars
  BY <1>1, <1>2, <1>13 DEF nameVars, TurnInv, ParentsAreCollections, Knows, Subtree
<1>14. CASE Restart \/ Fail(p)
  <2>1. Next(Idle) /\ UNCHANGED nodes
    BY <1>1, <1>14 DEF Restart, Fail, End, metaVars
  <2>2. QED
    BY <1>6, <2>1, IdleKnows
<1>15. CASE Arrive(p) \/ Find(p)
  <2>1. UNCHANGED nodes
    BY <1>1, <1>15, ArriveStep, FindStep DEF metaVars
  <2>2. QED
    BY <1>1, <1>6, <1>15, <2>1, ArriveKnows, FindKnows
<1>16. QED
  BY <1>8, <1>9, <1>10, <1>11, <1>12, <1>13, <1>14, <1>15 DEF NameNext, Change

LEMMA InitTakesTurns == NameInit => TurnInv
<1> SUFFICES ASSUME NameInit PROVE TurnInv
  OBVIOUS
<1>1. DOMAIN nodes = {ROOT_ID}
  BY DEF NameInit, MetaInit
<1>2. NameInv
  <2>1. MetaInv
    BY MetaInitInv DEF NameInit
  <2>2. nodes[ROOT_ID].isDir
    BY DEF NameInit, MetaInit
  <2>3. QED
    BY <2>1, <2>2, IdleIsSound DEF NameInit, NameInv
<1>3. TreeIsRooted
  BY <1>1 DEF TreeIsRooted, Subtree
<1>4. QED
  BY <1>1, <1>2, <1>3, IdleKnows DEF NameInit, TurnInv, ParentsAreCollections

\* When requests take turns, the tree stays a tree, whatever they are and
\* wherever they fail: nothing is lost behind a cycle (davfs.rs:846).
THEOREM TurnsKeepTheTree ==
  ASSUME NEW p, Procs = {p}
  PROVE  NameSpec => []TreeIsRooted
<1>1. NameInit => TurnInv
  BY InitTakesTurns
<1>2. TurnInv /\ [NameNext]_nameVars => TurnInv'
  BY TurnStep
<1>3. TurnInv => TreeIsRooted
  BY DEF TurnInv
<1>4. QED
  BY <1>1, <1>2, <1>3, PTL DEF NameSpec

-----------------------------------------------------------------------------
(* The paths of a tree                                                     *)

\* Paths of the nodes, each its parent's and its own name.
ArePaths(f) ==
  f = [n \in DOMAIN nodes |-> IF n = ROOT_ID THEN <<>> ELSE Append(f[nodes[n].parent], nodes[n].name)]

LEMMA RootTop ==
  ASSUME MetaInv
  PROVE  /\ RootIsNoChild
         /\ ROOT_ID \in DOMAIN nodes /\ DOMAIN nodes \subseteq NodeIds
         /\ \A n \in DOMAIN nodes \ {ROOT_ID} : nodes[n].parent \in DOMAIN nodes
BY MetaConstants DEF MetaInv, MetaTypeOK, RootIsTop, RootIsNoChild, ReferentialIntegrity

\* In a tree, a way leads to every node.
LEMMA WayToAll ==
  ASSUME MetaInv, TreeIsRooted, NEW n \in DOMAIN nodes
  PROVE  \E k \in Nat : \E w \in Ways(k) : EndOf(w) = n
<1>1. <<>> \in Ways(0) /\ EndOf(<<>>) = ROOT_ID
  <2>1. <<>> \in [1 .. 0 -> DOMAIN nodes] /\ Len(<<>>) = 0
    OBVIOUS
  <2>2. QED
    BY <2>1 DEF Ways, EndOf, Stop
<1>2. n \in Subtree(EndOf(<<>>)) /\ RootIsNoChild /\ 0 \in Nat
  BY <1>1, RootTop DEF TreeIsRooted
<1>3. PICK k \in Nat : \E w \in Ways(k) : EndOf(w) = n
  BY <1>1, <1>2, WayToSubtree
<1>4. QED
  BY <1>3

\* The names along the ways are paths.
LEMMA WaysArePaths ==
  ASSUME MetaInv, TreeIsRooted
  PROVE  \E f : ArePaths(f) /\ \A k \in Nat : \A w \in Ways(k) : f[EndOf(w)] = NamesAlong(w)
<1> DEFINE IsWayTo(w, n) == \E k \in Nat : w \in Ways(k) /\ EndOf(w) = n
           WayTo(n) == CHOOSE w : IsWayTo(w, n)
           f == [n \in DOMAIN nodes |-> NamesAlong(WayTo(n))]
<1>1. ASSUME NEW k \in Nat, NEW w \in Ways(k) PROVE EndOf(w) \in DOMAIN nodes /\ f[EndOf(w)] = NamesAlong(w)
  <2>1. EndOf(w) \in DOMAIN nodes
    <3>1. k \in 0 .. k
      OBVIOUS
    <3>2. QED
      BY <3>1, RootTop, StopIsRow, WayRows
  <2>2. IsWayTo(w, EndOf(w))
    OBVIOUS
  <2>3. PICK v : v = WayTo(EndOf(w))
    OBVIOUS
  <2>4. IsWayTo(v, EndOf(w))
    BY <2>2, <2>3
  <2>5. v = w
    BY <2>4, RootTop, SameEndSameWay
  <2>6. QED
    BY <2>1, <2>3, <2>5
<1>2. f[ROOT_ID] = <<>>
  <2>1. <<>> \in Ways(0) /\ EndOf(<<>>) = ROOT_ID /\ NamesAlong(<<>>) = <<>>
    <3>1. <<>> \in [1 .. 0 -> DOMAIN nodes] /\ Len(<<>>) = 0 /\ DOMAIN <<>> = {}
      OBVIOUS
    <3>2. QED
      BY <3>1 DEF Ways, EndOf, Stop, NamesAlong
  <2>2. 0 \in Nat
    OBVIOUS
  <2> HIDE DEF f
  <2>3. QED
    BY <1>1, <2>1, <2>2
<1>3. ASSUME NEW n \in DOMAIN nodes \ {ROOT_ID}
      PROVE  f[n] = Append(f[nodes[n].parent], nodes[n].name)
  <2>1. nodes[n].parent \in DOMAIN nodes
    BY RootTop
  <2>2. PICK k \in Nat : \E w \in Ways(k) : EndOf(w) = nodes[n].parent
    BY <2>1, WayToAll
  <2>3. PICK w \in Ways(k) : EndOf(w) = nodes[n].parent
    BY <2>2
  <2>4. /\ Append(w, n) \in Ways(k + 1) /\ EndOf(Append(w, n)) = n
        /\ NamesAlong(Append(w, n)) = Append(NamesAlong(w), nodes[n].name)
    BY <2>3, WayGoesOn
  <2>5. k + 1 \in Nat
    OBVIOUS
  <2> HIDE DEF f
  <2>6. f[n] = NamesAlong(Append(w, n)) /\ f[nodes[n].parent] = NamesAlong(w)
    BY <1>1, <2>3, <2>4, <2>5
  <2>7. QED
    BY <2>4, <2>6
<1>4. ArePaths(f)
  <2>1. \A n \in DOMAIN nodes :
          f[n] = IF n = ROOT_ID THEN <<>> ELSE Append(f[nodes[n].parent], nodes[n].name)
    <3> HIDE DEF f
    <3>1. QED
      BY <1>2, <1>3
  <2>2. f = [n \in DOMAIN nodes |-> f[n]]
    OBVIOUS
  <2> HIDE DEF f
  <2>3. QED
    BY <2>1, <2>2 DEF ArePaths
<1> HIDE DEF f
<1>5. QED
  BY <1>1, <1>4

\* PathTo is paths, by its definition, as there are any.
LEMMA PathToArePaths ==
  ASSUME MetaInv, TreeIsRooted
  PROVE  ArePaths(PathTo)
<1>1. PICK f : ArePaths(f)
  BY WaysArePaths
<1>2. PathTo = CHOOSE g : ArePaths(g)
  BY DEF PathTo, ArePaths
<1>3. QED
  BY <1>1, <1>2

RowsAreNamed == \A n \in DOMAIN nodes \ {ROOT_ID} : nodes[n].name \in Names

\* What holds of the root, and of a child if it holds of its parent, holds of all.
LEMMA TreeClimb ==
  ASSUME MetaInv, TreeIsRooted, NEW S, ROOT_ID \in S,
         \A n \in DOMAIN nodes \ {ROOT_ID} : nodes[n].parent \in S => n \in S
  PROVE  DOMAIN nodes \subseteq S
<1> DEFINE T == S \cap DOMAIN nodes
<1>1. T \in SUBSET DOMAIN nodes /\ ROOT_ID \in T
  BY RootTop
<1>2. \A n \in DOMAIN nodes : nodes[n].parent \in T => n \in T
  BY <1>1
<1>3. Subtree(ROOT_ID) \subseteq T
  BY <1>1, <1>2, SubtreeIsLeast
<1>4. QED
  BY <1>3 DEF TreeIsRooted

\* The root's path is empty, and every other path is its collection's and a name.
Extends(f) ==
  /\ DOMAIN f = DOMAIN nodes
  /\ f[ROOT_ID] = <<>>
  /\ \A n \in DOMAIN nodes \ {ROOT_ID} : f[n] = Append(f[nodes[n].parent], nodes[n].name)
  /\ \A n \in DOMAIN nodes : f[n] \in Seq(Names)

LEMMA PathsExtend ==
  ASSUME MetaInv, TreeIsRooted, RowsAreNamed, NEW f, ArePaths(f)
  PROVE  Extends(f)
<1>1. /\ DOMAIN f = DOMAIN nodes
      /\ f[ROOT_ID] = <<>>
      /\ \A n \in DOMAIN nodes \ {ROOT_ID} : f[n] = Append(f[nodes[n].parent], nodes[n].name)
  <2>1. DOMAIN f = DOMAIN nodes
    BY DEF ArePaths
  <2>2. \A n \in DOMAIN nodes :
          f[n] = IF n = ROOT_ID THEN <<>> ELSE Append(f[nodes[n].parent], nodes[n].name)
    BY Zenon DEF ArePaths
  <2>3. QED
    BY <2>1, <2>2, RootTop
<1> DEFINE S == {n \in DOMAIN nodes : f[n] \in Seq(Names)}
<1>2. ROOT_ID \in S
  BY <1>1, RootTop
<1>3. ASSUME NEW n \in DOMAIN nodes \ {ROOT_ID}, nodes[n].parent \in S PROVE n \in S
  <2>1. nodes[n].name \in Names /\ f[nodes[n].parent] \in Seq(Names)
    BY <1>3 DEF RowsAreNamed
  <2>2. Append(f[nodes[n].parent], nodes[n].name) \in Seq(Names)
    BY <2>1
  <2>3. QED
    BY <1>1, <2>2
<1>4. DOMAIN nodes \subseteq S
  <2> HIDE DEF S
  <2>1. QED
    BY <1>2, <1>3, TreeClimb
<1>5. QED
  BY <1>1, <1>4 DEF Extends

\* Different nodes have different paths, as siblings have different names.
LEMMA PathsDiffer ==
  ASSUME MetaInv, TreeIsRooted, NEW f, Extends(f)
  PROVE  \A m, n \in DOMAIN nodes : f[m] = f[n] => m = n
<1> DEFINE S == {n \in DOMAIN nodes : \A m \in DOMAIN nodes : f[m] = f[n] => m = n}
<1>0. ROOT_ID \in DOMAIN nodes /\ \A n \in DOMAIN nodes \ {ROOT_ID} : nodes[n].parent \in DOMAIN nodes
  BY RootTop
<1>1. \A n \in DOMAIN nodes \ {ROOT_ID} : f[n] # <<>>
  <2> SUFFICES ASSUME NEW n \in DOMAIN nodes \ {ROOT_ID} PROVE f[n] # <<>>
    OBVIOUS
  <2>1. f[n] = Append(f[nodes[n].parent], nodes[n].name) /\ f[nodes[n].parent] \in Seq(Names) /\ f[n] \in Seq(Names)
    BY <1>0 DEF Extends
  <2>2. Len(f[n]) = Len(f[nodes[n].parent]) + 1 /\ Len(f[nodes[n].parent]) \in Nat
    BY <2>1
  <2>3. QED
    BY <2>2
<1>2. ROOT_ID \in S
  BY <1>0, <1>1 DEF Extends
<1>3. ASSUME NEW n \in DOMAIN nodes \ {ROOT_ID}, nodes[n].parent \in S PROVE n \in S
  <2> SUFFICES ASSUME NEW m \in DOMAIN nodes, f[m] = f[n] PROVE m = n
    OBVIOUS
  <2>1. m # ROOT_ID
    BY <1>1 DEF Extends
  <2> DEFINE a == f[nodes[m].parent]
             b == f[nodes[n].parent]
  <2>2. a \in Seq(Names) /\ b \in Seq(Names) /\ Append(a, nodes[m].name) = Append(b, nodes[n].name)
    BY <1>0, <2>1 DEF Extends
  <2>3. nodes[m].parent \in DOMAIN nodes
    BY <1>0, <2>1
  <2> HIDE DEF a, b
  <2>4. a = b /\ nodes[m].name = nodes[n].name
    <3>1. /\ Len(a) + 1 = Len(b) + 1
          /\ Append(a, nodes[m].name)[Len(a) + 1] = nodes[m].name
          /\ Append(b, nodes[n].name)[Len(b) + 1] = nodes[n].name
          /\ \A i \in 1 .. Len(a) : Append(a, nodes[m].name)[i] = a[i]
          /\ \A i \in 1 .. Len(b) : Append(b, nodes[n].name)[i] = b[i]
          /\ Len(a) \in Nat /\ Len(b) \in Nat
      <4>1. Len(Append(a, nodes[m].name)) = Len(a) + 1 /\ Len(Append(b, nodes[n].name)) = Len(b) + 1
        BY <2>2
      <4>2. QED
        BY <2>2, <4>1
    <3>2. Len(a) = Len(b) /\ \A i \in 1 .. Len(a) : a[i] = b[i]
      BY <2>2, <3>1
    <3>3. QED
      BY <2>2, <3>1, <3>2
  <2>5. nodes[m].parent = nodes[n].parent
    BY <1>3, <2>3, <2>4 DEF a, b
  <2>6. QED
    BY <2>4, <2>5 DEF MetaInv, UniqueNames
<1>4. DOMAIN nodes \subseteq S
  <2> HIDE DEF S
  <2>1. QED
    BY <1>2, <1>3, TreeClimb
<1>5. QED
  BY <1>4

\* There is one way to extend.
LEMMA PathsAreOne ==
  ASSUME MetaInv, TreeIsRooted, NEW f, Extends(f), NEW g, Extends(g),
         g = [n \in DOMAIN g |-> g[n]], f = [n \in DOMAIN f |-> f[n]]
  PROVE  f = g
<1> DEFINE S == {n \in DOMAIN nodes : f[n] = g[n]}
<1>1. ROOT_ID \in S
  BY RootTop DEF Extends
<1>2. ASSUME NEW n \in DOMAIN nodes \ {ROOT_ID}, nodes[n].parent \in S PROVE n \in S
  BY <1>2 DEF Extends
<1>3. DOMAIN nodes \subseteq S
  <2> HIDE DEF S
  <2>1. QED
    BY <1>1, <1>2, TreeClimb
<1>4. \A n \in DOMAIN nodes : f[n] = g[n]
  BY <1>3
<1>5. DOMAIN f = DOMAIN nodes /\ DOMAIN g = DOMAIN nodes
  BY DEF Extends
<1>6. QED
  BY <1>4, <1>5

-----------------------------------------------------------------------------
(* Paths within others                                                     *)

LEMMA WithinFact ==
  ASSUME NEW X, NEW a \in Seq(X), NEW q \in Seq(X)
  PROVE  Tree!Within(a, q) <=> Len(a) <= Len(q) /\ \A i \in 1 .. Len(a) : a[i] = q[i]
<1> DEFINE k == Len(a)
           b == SubSeq(q, 1, k)
<1>1. SUFFICES ASSUME k <= Len(q) PROVE b = a <=> \A i \in 1 .. k : a[i] = q[i]
  BY DEF Tree!Within
<1>2. k \in Nat /\ a \in [1 .. k -> X]
  OBVIOUS
<1>3. Len(b) = k /\ b \in Seq(X) /\ \A i \in 1 .. k : b[i] = q[i]
  BY <1>1, <1>2
<1> HIDE DEF b, k
<1>4. b \in [1 .. k -> X]
  BY <1>3
<1>5. QED
  BY <1>2, <1>3, <1>4

LEMMA WithinAppend ==
  ASSUME NEW X, NEW a \in Seq(X), NEW b \in Seq(X), NEW x \in X
  PROVE  Tree!Within(a, Append(b, x)) <=> Tree!Within(a, b) \/ a = Append(b, x)
<1> DEFINE q == Append(b, x)
<1>1. q \in Seq(X) /\ Len(q) = Len(b) + 1 /\ Len(b) \in Nat /\ Len(a) \in Nat
      /\ \A i \in 1 .. Len(b) : q[i] = b[i]
  OBVIOUS
<1> HIDE DEF q
<1>2. a \in [1 .. Len(a) -> X] /\ q \in [1 .. Len(q) -> X]
  BY <1>1
<1>3. CASE Len(a) <= Len(b)
  <2>0. /\ Tree!Within(a, q) <=> \A i \in 1 .. Len(a) : a[i] = q[i]
        /\ Tree!Within(a, b) <=> \A i \in 1 .. Len(a) : a[i] = b[i]
    BY <1>1, <1>3, WithinFact
  <2>1. Tree!Within(a, q) <=> Tree!Within(a, b)
    <3>1. \A i \in 1 .. Len(a) : i \in 1 .. Len(b)
      BY <1>1, <1>3
    <3>2. \A i \in 1 .. Len(a) : q[i] = b[i]
      BY <1>1, <3>1
    <3>3. QED
      BY <2>0, <3>2
  <2>2. a # q
    BY <1>1, <1>3
  <2>3. QED
    BY <2>1, <2>2 DEF q
<1>4. CASE Len(a) = Len(b) + 1
  <2>1. ~Tree!Within(a, b)
    BY <1>1, <1>4, WithinFact
  <2>2. Tree!Within(a, q) <=> \A i \in 1 .. Len(a) : a[i] = q[i]
    BY <1>1, <1>4, WithinFact
  <2>3. Tree!Within(a, q) <=> a = q
    BY <1>1, <1>2, <1>4, <2>2
  <2>4. QED
    BY <2>1, <2>3 DEF q
<1>5. CASE Len(a) > Len(b) + 1
  <2>1. ~Tree!Within(a, b) /\ ~Tree!Within(a, q) /\ a # q
    BY <1>1, <1>5, WithinFact
  <2>2. QED
    BY <2>1 DEF q
<1>6. QED
  BY <1>1, <1>3, <1>4, <1>5

\* The rest of a path, element by element.
LEMMA RestFact ==
  ASSUME NEW X, NEW a \in Seq(X), NEW q \in Seq(X), Len(a) <= Len(q)
  PROVE  /\ Tree!Rest(a, q) \in Seq(X) /\ Len(Tree!Rest(a, q)) = Len(q) - Len(a)
         /\ \A i \in 1 .. Len(q) - Len(a) : Tree!Rest(a, q)[i] = q[Len(a) + i]
<1>1. Len(a) \in Nat /\ Len(q) \in Nat
  OBVIOUS
<1> DEFINE c == SubSeq(q, Len(a) + 1, Len(q))
<1>2. Len(c) = Len(q) - Len(a) /\ c \in Seq(X)
  BY <1>1
<1>3. \A i \in 1 .. Len(q) - Len(a) : c[i] = q[Len(a) + i]
  BY <1>1
<1>4. QED
  BY <1>2, <1>3 DEF Tree!Rest

\* Sequences of one length with the same elements are the same.
LEMMA SameSeq ==
  ASSUME NEW X, NEW a \in Seq(X), NEW b \in Seq(X), Len(a) = Len(b), \A i \in 1 .. Len(a) : a[i] = b[i]
  PROVE  a = b
<1>1. a \in [1 .. Len(a) -> X] /\ b \in [1 .. Len(a) -> X]
  OBVIOUS
<1>2. QED
  BY <1>1

\* What lies within a path is the path and a rest.
LEMMA Rejoin ==
  ASSUME NEW X, NEW a \in Seq(X), NEW q \in Seq(X), Tree!Within(a, q)
  PROVE  a \o Tree!Rest(a, q) = q
<1> DEFINE c == Tree!Rest(a, q)
           k == Len(a)
<1>1. k <= Len(q) /\ \A i \in 1 .. k : a[i] = q[i]
  BY WithinFact
<1>2. k \in Nat /\ Len(q) \in Nat
  OBVIOUS
<1>3. c \in Seq(X) /\ Len(c) = Len(q) - k /\ \A i \in 1 .. Len(q) - k : c[i] = q[k + i]
  BY <1>1, RestFact
<1> HIDE DEF c
<1>4. /\ a \o c \in Seq(X) /\ Len(a \o c) = Len(q)
      /\ \A i \in 1 .. Len(q) : (a \o c)[i] = IF i <= k THEN a[i] ELSE c[i - k]
  BY <1>1, <1>2, <1>3
<1> HIDE DEF k
<1>5. ASSUME NEW i \in 1 .. Len(q) PROVE (a \o c)[i] = q[i]
  <2>0. i \in Nat /\ k \in Nat /\ i >= 1
    BY <1>2
  <2>1. CASE i <= k
    BY <1>1, <1>2, <1>4, <2>1
  <2>2. CASE i > k
    <3>1. i - k \in 1 .. Len(q) - k /\ k + (i - k) = i
      BY <1>2, <2>2
    <3>2. QED
      BY <1>2, <1>3, <1>4, <2>2, <3>1
  <2>3. i <= k \/ i > k
    BY <2>0
  <2>4. QED
    BY <2>1, <2>2, <2>3
<1>6. a \o c = q
  BY <1>4, <1>5, SameSeq
<1>7. QED
  BY <1>6 DEF c

LEMMA RestOfJoin ==
  ASSUME NEW X, NEW a \in Seq(X), NEW c \in Seq(X)
  PROVE  Tree!Within(a, a \o c) /\ Tree!Rest(a, a \o c) = c
<1> DEFINE q == a \o c
<1>1. /\ q \in Seq(X) /\ Len(q) = Len(a) + Len(c) /\ Len(a) \in Nat /\ Len(c) \in Nat
      /\ \A i \in 1 .. Len(a) : q[i] = a[i]
      /\ \A i \in 1 .. Len(c) : q[Len(a) + i] = c[i]
  OBVIOUS
<1> HIDE DEF q
<1>2. Tree!Within(a, q)
  BY <1>1, WithinFact
<1>3. /\ Tree!Rest(a, q) \in Seq(X) /\ Len(Tree!Rest(a, q)) = Len(c)
      /\ \A i \in 1 .. Len(c) : Tree!Rest(a, q)[i] = c[i]
  <2>1. Len(a) <= Len(q) /\ Len(q) - Len(a) = Len(c)
    BY <1>1
  <2>2. QED
    BY <1>1, <2>1, RestFact
<1>4. Tree!Rest(a, q) = c
  BY <1>3, SameSeq
<1>5. QED
  BY <1>2, <1>4 DEF q

\* A name more on a path within another is a name more on its rest.
LEMMA RestOfAppend ==
  ASSUME NEW X, NEW a \in Seq(X), NEW b \in Seq(X), NEW x \in X, Tree!Within(a, b), NEW t \in Seq(X)
  PROVE  t \o Tree!Rest(a, Append(b, x)) = Append(t \o Tree!Rest(a, b), x)
<1> DEFINE q == Append(b, x)
           c == Tree!Rest(a, b)
           d == Tree!Rest(a, q)
           k == Len(a)
<1>1. k <= Len(b) /\ k \in Nat /\ Len(b) \in Nat
  BY WithinFact
<1>2. /\ q \in Seq(X) /\ Len(q) = Len(b) + 1 /\ q[Len(b) + 1] = x
      /\ \A i \in 1 .. Len(b) : q[i] = b[i]
  OBVIOUS
<1>3. c \in Seq(X) /\ Len(c) = Len(b) - k /\ \A i \in 1 .. Len(b) - k : c[i] = b[k + i]
  BY <1>1, RestFact
<1> HIDE DEF q, c
<1>4. d \in Seq(X) /\ Len(d) = Len(c) + 1 /\ \A i \in 1 .. Len(c) + 1 : d[i] = q[k + i]
  <2>1. k <= Len(q) /\ Len(q) - k = Len(c) + 1
    BY <1>1, <1>2, <1>3
  <2>2. QED
    BY <1>2, <2>1, RestFact
<1> HIDE DEF d, k
<1>5. \A i \in 1 .. Len(c) : d[i] = c[i]
  <2> SUFFICES ASSUME NEW i \in 1 .. Len(c) PROVE d[i] = c[i]
    OBVIOUS
  <2>1. i \in 1 .. Len(c) + 1 /\ k + i \in 1 .. Len(b) /\ i \in 1 .. Len(b) - k
    BY <1>1, <1>3
  <2>2. QED
    BY <1>2, <1>3, <1>4, <2>1
<1>6. d[Len(c) + 1] = x
  <2>1. k + (Len(c) + 1) = Len(b) + 1 /\ Len(c) + 1 \in 1 .. Len(c) + 1
    BY <1>1, <1>3
  <2>2. QED
    BY <1>2, <1>4, <2>1
<1>7. d = Append(c, x)
  <2>1. /\ Append(c, x) \in Seq(X) /\ Len(Append(c, x)) = Len(c) + 1
        /\ Append(c, x)[Len(c) + 1] = x /\ \A i \in 1 .. Len(c) : Append(c, x)[i] = c[i]
        /\ Len(c) \in Nat
    BY <1>3
  <2>2. \A i \in 1 .. Len(c) + 1 : i = Len(c) + 1 \/ i \in 1 .. Len(c)
    BY <2>1
  <2>3. \A i \in 1 .. Len(d) : d[i] = Append(c, x)[i]
    BY <1>4, <1>5, <1>6, <2>1, <2>2
  <2>4. QED
    BY <1>4, <2>1, <2>3, SameSeq
<1>8. t \o Append(c, x) = Append(t \o c, x)
  <2> DEFINE u == t \o Append(c, x)
             v == Append(t \o c, x)
             n == Len(t) + Len(c)
  <2>1. /\ u \in Seq(X) /\ Len(u) = n + 1 /\ n \in Nat
        /\ v \in Seq(X) /\ Len(v) = n + 1
    BY <1>3
  <2>2. \A i \in 1 .. n + 1 : u[i] = v[i]
    BY <1>3
  <2> HIDE DEF u, v, n
  <2>3. u = v
    BY <2>1, <2>2, SameSeq
  <2>4. QED
    BY <2>3 DEF u, v
<1>9. QED
  BY <1>7, <1>8 DEF c, d, q
\* What is below a node is what is within its path.
LEMMA SubtreeIsWithin ==
  ASSUME MetaInv, TreeIsRooted, RowsAreNamed, NEW f, Extends(f), NEW s \in DOMAIN nodes
  PROVE  \A n \in DOMAIN nodes : n \in Subtree(s) <=> Tree!Within(f[s], f[n])
<1>0. /\ ROOT_ID \in DOMAIN nodes /\ nodes[ROOT_ID].parent \notin DOMAIN nodes
      /\ \A n \in DOMAIN nodes \ {ROOT_ID} : nodes[n].parent \in DOMAIN nodes
  BY RootTop DEF RootIsNoChild
<1>1. f[ROOT_ID] = <<>> /\ \A n \in DOMAIN nodes : f[n] \in Seq(Names)
  BY DEF Extends
<1>2. ASSUME NEW n \in DOMAIN nodes \ {ROOT_ID}
      PROVE  Tree!Within(f[s], f[n]) <=> Tree!Within(f[s], f[nodes[n].parent]) \/ f[s] = f[n]
  <2>1. nodes[n].name \in Names /\ f[nodes[n].parent] \in Seq(Names) /\ f[s] \in Seq(Names)
        /\ f[n] = Append(f[nodes[n].parent], nodes[n].name)
    BY <1>0, <1>1 DEF RowsAreNamed, Extends
  <2>2. QED
    BY <2>1, WithinAppend
<1>3. Tree!Within(f[s], f[s])
  BY <1>1, WithinFact
<1> DEFINE T == {n \in DOMAIN nodes : Tree!Within(f[s], f[n])}
           S == {n \in DOMAIN nodes : Tree!Within(f[s], f[n]) => n \in Subtree(s)}
<1>4. Subtree(s) \subseteq T
  <2>1. s \in T /\ T \in SUBSET DOMAIN nodes
    BY <1>3
  <2>2. ASSUME NEW m \in DOMAIN nodes, nodes[m].parent \in T PROVE m \in T
    <3>1. m # ROOT_ID
      BY <1>0, <2>2
    <3>2. QED
      BY <1>2, <2>2, <3>1
  <2> HIDE DEF T
  <2>3. QED
    BY <2>1, <2>2, SubtreeIsLeast
<1>5. DOMAIN nodes \subseteq S
  <2>1. ROOT_ID \in S
    <3>1. ASSUME Tree!Within(f[s], <<>>) PROVE f[s] = <<>>
      <4>1. f[s] \in Seq(Names) /\ <<>> \in Seq(Names) /\ Len(<<>>) = 0 /\ Len(f[s]) \in Nat
        BY <1>1
      <4>2. Len(f[s]) <= 0
        BY <3>1, <4>1, WithinFact
      <4>3. QED
        BY <4>1, <4>2
    <3>2. f[s] = f[ROOT_ID] => s = ROOT_ID
      BY <1>0, PathsDiffer
    <3>3. QED
      BY <1>0, <1>1, <3>1, <3>2, SubtreeHoldsNode
  <2>2. ASSUME NEW n \in DOMAIN nodes \ {ROOT_ID}, nodes[n].parent \in S PROVE n \in S
    <3>1. f[s] = f[n] => n = s
      BY PathsDiffer
    <3>2. CASE Tree!Within(f[s], f[nodes[n].parent])
      BY <2>2, <3>2, SubtreeIsClosed
    <3>3. QED
      BY <1>2, <3>1, <3>2, SubtreeHoldsNode
  <2> HIDE DEF S
  <2>3. QED
    BY <2>1, <2>2, TreeClimb
<1>6. QED
  BY <1>4, <1>5

\* Along a path no node comes twice, so that it is shorter than the table is long.
LEMMA PathsAreShort ==
  ASSUME MetaInv, TreeIsRooted, NEW f, Extends(f), IsFiniteSet(NodeIds)
  PROVE  \A n \in DOMAIN nodes : f[n] \in TreePaths
<1> DEFINE Chain(n, T) == /\ n \in T /\ T \subseteq DOMAIN nodes /\ IsFiniteSet(T)
                          /\ Cardinality(T) = Len(f[n]) + 1
                          /\ \A m \in T : Len(f[m]) <= Len(f[n])
           S == {n \in DOMAIN nodes : \E T : Chain(n, T)}
<1>0. /\ ROOT_ID \in DOMAIN nodes /\ DOMAIN nodes \subseteq NodeIds
      /\ \A n \in DOMAIN nodes \ {ROOT_ID} : nodes[n].parent \in DOMAIN nodes
  BY RootTop
<1>1. \A n \in DOMAIN nodes : f[n] \in Seq(Names) /\ Len(f[n]) \in Nat
  BY DEF Extends
<1>2. ROOT_ID \in S
  <2>1. Len(f[ROOT_ID]) = 0
    BY DEF Extends
  <2>2. IsFiniteSet({ROOT_ID}) /\ Cardinality({ROOT_ID}) = 1
    BY FS_Singleton
  <2>3. Chain(ROOT_ID, {ROOT_ID})
    BY <1>0, <2>1, <2>2
  <2>4. QED
    BY <1>0, <2>3
<1>3. ASSUME NEW n \in DOMAIN nodes \ {ROOT_ID}, nodes[n].parent \in S PROVE n \in S
  <2> DEFINE q == nodes[n].parent
  <2>1. PICK T : Chain(q, T)
    BY <1>3
  <2>2. Len(f[n]) = Len(f[q]) + 1 /\ Len(f[q]) \in Nat
    <3>1. f[n] = Append(f[q], nodes[n].name) /\ f[q] \in Seq(Names) /\ f[n] \in Seq(Names)
      BY <1>0 DEF Extends
    <3>2. QED
      BY <3>1
  <2>3. n \notin T
    BY <2>1, <2>2
  <2>4. IsFiniteSet(T \cup {n}) /\ Cardinality(T \cup {n}) = Cardinality(T) + 1
    BY <2>1, <2>3, FS_AddElement
  <2>5. \A m \in T \cup {n} : Len(f[m]) <= Len(f[n])
    <3>1. \A m \in T : Len(f[m]) \in Nat /\ Len(f[m]) <= Len(f[q])
      BY <1>1, <2>1
    <3>2. QED
      BY <2>2, <3>1
  <2>6. Chain(n, T \cup {n})
    BY <2>1, <2>2, <2>4, <2>5
  <2>7. QED
    BY <2>6
<1>4. DOMAIN nodes \subseteq S
  <2> HIDE DEF S
  <2>1. QED
    BY <1>2, <1>3, TreeClimb
<1>5. ASSUME NEW n \in DOMAIN nodes PROVE f[n] \in TreePaths
  <2>1. PICK T : Chain(n, T)
    BY <1>4
  <2>2. Cardinality(T) <= Cardinality(NodeIds)
    <3>1. T \in SUBSET NodeIds
      BY <1>0, <2>1
    <3>2. QED
      BY <3>1, FS_Subset
  <2>3. Cardinality(NodeIds) \in Nat
    BY FS_CardinalityType
  <2>4. Len(f[n]) \in 0 .. Cardinality(NodeIds) - 1
    BY <1>1, <2>1, <2>2, <2>3
  <2>5. f[n] \in [1 .. Len(f[n]) -> Names]
    BY <1>1
  <2> HIDE DEF Chain
  <2>6. QED
    BY <2>4, <2>5 DEF TreePaths, BoundedSeq, SeqOf
<1>6. QED
  BY <1>5

\* The resources are the nodes at their paths.
LEMMA ResourcesAreNodes ==
  ASSUME \A m, n \in DOMAIN nodes : PathTo[m] = PathTo[n] => m = n
  PROVE  /\ Resources = [q \in DOMAIN Resources |-> Resources[q]]
         /\ DOMAIN Resources = {PathTo[n] : n \in DOMAIN nodes}
         /\ \A n \in DOMAIN nodes : Resources[PathTo[n]] = [id |-> n, isDir |-> nodes[n].isDir]
<1> DEFINE located == {<<PathTo[n], n>> : n \in DOMAIN nodes}
           Id(q) == (CHOOSE r \in located : r[1] = q)[2]
           G == {r[1] : r \in located}
<1>1. Resources = [q \in G |-> [id |-> Id(q), isDir |-> nodes[Id(q)].isDir]]
  BY DEF Resources
<1>2. G = {PathTo[n] : n \in DOMAIN nodes}
  <2>1. \A r \in located : \E n \in DOMAIN nodes : r = <<PathTo[n], n>> /\ r[1] = PathTo[n]
    OBVIOUS
  <2>2. \A n \in DOMAIN nodes : <<PathTo[n], n>> \in located /\ <<PathTo[n], n>>[1] = PathTo[n]
    OBVIOUS
  <2> HIDE DEF located
  <2>3. ASSUME NEW q \in G PROVE q \in {PathTo[n] : n \in DOMAIN nodes}
    BY <2>1
  <2>4. ASSUME NEW n \in DOMAIN nodes PROVE PathTo[n] \in G
    <3>1. PICK r \in located : r = <<PathTo[n], n>>
      BY <2>2
    <3>2. r[1] = PathTo[n]
      BY <2>2, <3>1
    <3>3. QED
      BY <3>2
  <2> HIDE DEF G
  <2>5. QED
    BY <2>3, <2>4
<1>3. ASSUME NEW n \in DOMAIN nodes PROVE Id(PathTo[n]) = n
  <2> DEFINE r == CHOOSE r \in located : r[1] = PathTo[n]
  <2>1. <<PathTo[n], n>> \in located /\ <<PathTo[n], n>>[1] = PathTo[n]
    OBVIOUS
  <2>2. r \in located /\ r[1] = PathTo[n]
    <3> HIDE DEF located
    <3>1. QED
      BY <2>1
  <2> HIDE DEF r
  <2>3. PICK m \in DOMAIN nodes : r = <<PathTo[m], m>>
    BY <2>2
  <2>4. PathTo[m] = PathTo[n] /\ r[2] = m
    BY <2>2, <2>3
  <2>5. QED
    BY <2>4 DEF r
<1> HIDE DEF G, Id
<1>4. QED
  BY <1>1, <1>2, <1>3

-----------------------------------------------------------------------------
(* The tree of names                                                       *)

\* Every row but the root's has a name.
LEMMA NamedStep ==
  ASSUME MetaInv, RowsAreNamed, [MetaNext]_metaVars
  PROVE  RowsAreNamed'
<1>0. nodes \in [DOMAIN nodes -> NodeRow] /\ \A n \in DOMAIN nodes : nodes[n] \in NodeRow
  BY DEF MetaInv, MetaTypeOK
<1>1. ASSUME DOMAIN nodes' \subseteq DOMAIN nodes, \A n \in DOMAIN nodes' : nodes'[n].name = nodes[n].name
      PROVE  RowsAreNamed'
  BY <1>1 DEF RowsAreNamed
<1>2. CASE UNCHANGED metaVars
  BY <1>1, <1>2 DEF metaVars
<1>3. ASSUME NEW id \in NodeIds, NEW parent \in DOMAIN nodes, NEW name \in Names,
             NEW isDir \in BOOLEAN, NEW now \in Times, InsertNode(id, parent, name, isDir, now)
      PROVE  RowsAreNamed'
  <2>1. id \notin DOMAIN nodes
    <3>1. DOMAIN nodes \subseteq Nat
      BY MetaConstants DEF MetaInv, MetaTypeOK
    <3>2. QED
      BY <1>3, <3>1, NextRowIdFact DEF InsertNode
  <2>2. /\ DOMAIN nodes' = DOMAIN nodes \cup {id} /\ nodes'[id].name = name
        /\ \A n \in DOMAIN nodes : nodes'[n] = nodes[n]
    BY <1>3, <2>1 DEF InsertNode, PutRow
  <2>3. QED
    BY <2>2 DEF RowsAreNamed
<1>4. ASSUME NEW id \in DOMAIN nodes \ {ROOT_ID}, NEW m \in Manifests, NEW now \in Times,
             SetFileContent(id, m, now)
      PROVE  RowsAreNamed'
  <2>1. CASE UNCHANGED nodes
    BY <1>1, <2>1
  <2>2. CASE ~ UNCHANGED nodes
    <3>1. PICK vid \in VersionIds :
            nodes' = [nodes EXCEPT ![id].current = vid, ![id].size = Len(m), ![id].modified = now]
      BY <1>4, <2>2 DEF SetFileContent, AppendVersion, metaVars
    <3>2. DOMAIN nodes' = DOMAIN nodes /\ \A n \in DOMAIN nodes \ {id} : nodes'[n] = nodes[n]
      BY <1>0, <3>1
    <3>3. nodes'[id].name = nodes[id].name
      BY <1>0, <3>1 DEF NodeRow
    <3>4. QED
      BY <1>1, <3>2, <3>3
  <2>3. QED
    BY <2>1, <2>2
<1>5. ASSUME NEW id \in DOMAIN nodes \ {ROOT_ID}, DeleteNode(id) PROVE RowsAreNamed'
  BY <1>1, <1>5 DEF DeleteNode, DropRows, Restrict
<1>6. ASSUME NEW id \in DOMAIN nodes \ {ROOT_ID}, NEW parent \in DOMAIN nodes, NEW name \in Names,
             Rename(id, parent, name)
      PROVE  RowsAreNamed'
  <2>1. /\ DOMAIN nodes' = DOMAIN nodes /\ nodes'[id].name = name
        /\ \A n \in DOMAIN nodes \ {id} : nodes'[n] = nodes[n]
    BY <1>0, <1>6 DEF Rename, NodeRow
  <2>2. QED
    BY <2>1 DEF RowsAreNamed
<1>7. ASSUME NEW id \in DOMAIN nodes, NEW tm \in Times, SetModified(id, tm) PROVE RowsAreNamed'
  <2>1. DOMAIN nodes' = DOMAIN nodes /\ \A n \in DOMAIN nodes : nodes'[n].name = nodes[n].name
    BY <1>0, <1>7 DEF SetModified, NodeRow
  <2>2. QED
    BY <1>1, <2>1
<1>8. ASSUME NEW v \in DOMAIN versions, DeleteVersion(versions[v].node, versions[v].number)
      PROVE  RowsAreNamed'
  BY <1>1, <1>8 DEF DeleteVersion
<1>9. QED
  BY <1>2, <1>3, <1>4, <1>5, <1>6, <1>7, <1>8 DEF MetaNext, RemoveDir

\* What is read of the tables when they are read as a tree of names.
TreeReads ==
  /\ Extends(PathTo) /\ \A n \in DOMAIN nodes : PathTo[n] \in TreePaths
  /\ \A f : Extends(f) /\ f = [n \in DOMAIN f |-> f[n]] => PathTo = f
  /\ \A m, n \in DOMAIN nodes : /\ PathTo[m] = PathTo[n] => m = n
                                /\ n \in Subtree(m) <=> Tree!Within(PathTo[m], PathTo[n])
  /\ Resources = [q \in DOMAIN Resources |-> Resources[q]]
  /\ DOMAIN Resources = {PathTo[n] : n \in DOMAIN nodes}
  /\ \A n \in DOMAIN nodes : Resources[PathTo[n]] = [id |-> n, isDir |-> nodes[n].isDir]

NamedInv == MetaInv /\ TreeIsRooted /\ RowsAreNamed

LEMMA TablesAreTrees ==
  ASSUME IsFiniteSet(NodeIds)
  PROVE  NamedInv => TreeReads
<1> SUFFICES ASSUME NamedInv PROVE TreeReads
  OBVIOUS
<1>0. MetaInv /\ TreeIsRooted /\ RowsAreNamed
  BY DEF NamedInv
<1>1. Extends(PathTo) /\ PathTo = [n \in DOMAIN PathTo |-> PathTo[n]]
  <2>1. ArePaths(PathTo)
    BY <1>0, PathToArePaths
  <2>2. PICK f : f = PathTo
    OBVIOUS
  <2>3. Extends(f)
    BY <1>0, <2>1, <2>2, PathsExtend
  <2>4. f = [n \in DOMAIN f |-> f[n]]
    BY <2>1, <2>2 DEF ArePaths
  <2>5. QED
    BY <2>2, <2>3, <2>4
<1>2. \A f : Extends(f) /\ f = [n \in DOMAIN f |-> f[n]] => PathTo = f
  BY <1>0, <1>1, PathsAreOne
<1>3. \A n \in DOMAIN nodes : PathTo[n] \in TreePaths
  BY <1>0, <1>1, PathsAreShort
<1>4. \A m, n \in DOMAIN nodes : PathTo[m] = PathTo[n] => m = n
  BY <1>0, <1>1, PathsDiffer
<1>5. \A m, n \in DOMAIN nodes : n \in Subtree(m) <=> Tree!Within(PathTo[m], PathTo[n])
  BY <1>0, <1>1, SubtreeIsWithin
<1>6. QED
  BY <1>1, <1>2, <1>3, <1>4, <1>5, ResourcesAreNodes DEF TreeReads

LEMMA ReadFacts ==
  ASSUME NamedInv, TreeReads
  PROVE  /\ ROOT_ID \in DOMAIN nodes /\ PathTo[ROOT_ID] = <<>> /\ DOMAIN PathTo = DOMAIN nodes
         /\ \A n \in DOMAIN nodes : PathTo[n] \in Seq(Names)
         /\ \A n \in DOMAIN nodes \ {ROOT_ID} :
              /\ nodes[n].parent \in DOMAIN nodes /\ nodes[n].name \in Names
              /\ PathTo[n] = Append(PathTo[nodes[n].parent], nodes[n].name) /\ PathTo[n] # <<>>
         /\ \A n \in DOMAIN nodes : Resources[PathTo[n]].id = n /\ Resources[PathTo[n]].isDir = nodes[n].isDir
<1>1. /\ ROOT_ID \in DOMAIN nodes /\ PathTo[ROOT_ID] = <<>> /\ DOMAIN PathTo = DOMAIN nodes
      /\ \A n \in DOMAIN nodes : PathTo[n] \in Seq(Names)
  BY RootTop DEF NamedInv, TreeReads, Extends
<1>2. ASSUME NEW n \in DOMAIN nodes \ {ROOT_ID}
      PROVE  /\ nodes[n].parent \in DOMAIN nodes /\ nodes[n].name \in Names
             /\ PathTo[n] = Append(PathTo[nodes[n].parent], nodes[n].name)
  BY RootTop DEF NamedInv, RowsAreNamed, TreeReads, Extends
<1>3. \A n \in DOMAIN nodes \ {ROOT_ID} : PathTo[n] # <<>>
  BY <1>1 DEF TreeReads
<1>4. ASSUME NEW n \in DOMAIN nodes
      PROVE  Resources[PathTo[n]].id = n /\ Resources[PathTo[n]].isDir = nodes[n].isDir
  <2>1. Resources[PathTo[n]] = [id |-> n, isDir |-> nodes[n].isDir]
    BY DEF TreeReads
  <2>2. QED
    BY <2>1
<1>5. QED
  BY <1>1, <1>2, <1>3, <1>4

\* Nothing is within a path that is free.
LEMMA FreePathsAreClear ==
  ASSUME NamedInv, TreeReads, NEW q \in Seq(Names), q \notin DOMAIN Resources
  PROVE  \A n \in DOMAIN nodes : ~Tree!Within(q, PathTo[n])
<1> DEFINE S == {n \in DOMAIN nodes : ~Tree!Within(q, PathTo[n])}
<1>1. \A n \in DOMAIN nodes : q # PathTo[n]
  BY DEF TreeReads
<1>2. ROOT_ID \in S
  <2>1. PICK e : e = <<>>
    OBVIOUS
  <2>2. q # <<>> /\ Len(q) \in Nat /\ e \in Seq(Names) /\ Len(e) = 0
    BY <1>1, <2>1, ReadFacts
  <2>3. ~(Len(q) <= Len(e))
    BY <2>2
  <2>4. ~Tree!Within(q, e)
    BY <2>2, <2>3, WithinFact
  <2>5. QED
    BY <2>1, <2>4, ReadFacts
<1>3. ASSUME NEW n \in DOMAIN nodes \ {ROOT_ID}, nodes[n].parent \in S PROVE n \in S
  <2>1. /\ PathTo[nodes[n].parent] \in Seq(Names) /\ nodes[n].name \in Names
        /\ PathTo[n] = Append(PathTo[nodes[n].parent], nodes[n].name)
    BY ReadFacts
  <2>2. Tree!Within(q, PathTo[n]) <=> Tree!Within(q, PathTo[nodes[n].parent]) \/ q = PathTo[n]
    BY <2>1, WithinAppend
  <2>3. QED
    BY <1>1, <1>3, <2>2
<1>4. DOMAIN nodes \subseteq S
  <2> HIDE DEF S
  <2>1. QED
    BY <1>2, <1>3, TreeClimb DEF NamedInv
<1>5. QED
  BY <1>4

\* The end of a path and what is before it.
LEMMA ParentOfAppend ==
  ASSUME NEW X, NEW b \in Seq(X), NEW x \in X
  PROVE  /\ Append(b, x) \in Seq(X) /\ Append(b, x) # <<>>
         /\ Tree!ParentOf(Append(b, x)) = b
<1> DEFINE q == Append(b, x)
           c == SubSeq(q, 1, Len(q) - 1)
<1>1. /\ q \in Seq(X) /\ Len(q) = Len(b) + 1 /\ Len(b) \in Nat /\ Len(<<>>) = 0
      /\ \A i \in 1 .. Len(b) : q[i] = b[i]
  OBVIOUS
<1> HIDE DEF q
<1>2. Len(c) = Len(b) /\ c \in Seq(X) /\ \A i \in 1 .. Len(b) : c[i] = q[i]
  BY <1>1
<1> HIDE DEF c
<1>3. c = b
  BY <1>1, <1>2, SameSeq
<1>4. q # <<>>
  BY <1>1
<1>5. QED
  BY <1>1, <1>3, <1>4 DEF q, c, Tree!ParentOf

\* A collection takes a new name: what the tree calls a path that it accepts.
LEMMA CollectionsAccept ==
  ASSUME NamedInv, TreeReads, NEW dst \in DOMAIN nodes, nodes[dst].isDir, NEW name \in Names,
         Append(PathTo[dst], name) \notin DOMAIN Resources
  PROVE  Tree!Accepts(Append(PathTo[dst], name))
<1>1. PathTo[dst] \in Seq(Names) /\ Resources[PathTo[dst]].isDir /\ PathTo[dst] \in DOMAIN Resources
  BY ReadFacts DEF TreeReads
<1>2. Append(PathTo[dst], name) # <<>> /\ Tree!ParentOf(Append(PathTo[dst], name)) = PathTo[dst]
  BY <1>1, ParentOfAppend
<1>3. QED
  BY <1>1, <1>2 DEF Tree!Accepts

\* A row more is a resource more.
LEMMA InsertMakes ==
  ASSUME NamedInv, TreeReads, NamedInv', TreeReads', NEW id \in NodeIds, NEW dst \in DOMAIN nodes,
         nodes[dst].isDir, NEW name \in Names, NEW isDir \in BOOLEAN, NEW now \in Times,
         InsertNode(id, dst, name, isDir, now)
  PROVE  \E path \in TreePaths : Tree!Accepts(path) /\ Tree!Make(path, id, isDir)
<1> DEFINE path == Append(PathTo[dst], name)
<1>1. /\ id \notin DOMAIN nodes /\ DOMAIN nodes' = DOMAIN nodes \cup {id}
      /\ nodes'[id].parent = dst /\ nodes'[id].name = name /\ nodes'[id].isDir = isDir
      /\ \A n \in DOMAIN nodes : nodes'[n] = nodes[n]
  <2>1. DOMAIN nodes \subseteq Nat
    BY MetaConstants DEF NamedInv, MetaInv, MetaTypeOK
  <2>2. id \notin DOMAIN nodes
    BY <2>1, NextRowIdFact DEF InsertNode
  <2>3. QED
    BY <2>2 DEF InsertNode, PutRow
<1>2. PathTo[dst] \in Seq(Names) /\ path \in Seq(Names)
  BY ReadFacts, ParentOfAppend
<1>3. PICK g : g = [n \in DOMAIN nodes' |-> IF n = id THEN path ELSE PathTo[n]]
  OBVIOUS
<1>4. /\ DOMAIN g = DOMAIN nodes' /\ g = [n \in DOMAIN g |-> g[n]]
      /\ g[id] = path /\ \A n \in DOMAIN nodes : g[n] = PathTo[n]
  BY <1>1, <1>3
<1>5. Extends(g)'
  <2>1. g[ROOT_ID] = <<>>
    BY <1>4, ReadFacts
  <2>2. ASSUME NEW n \in DOMAIN nodes' \ {ROOT_ID} PROVE g[n] = Append(g[nodes'[n].parent], nodes'[n].name)
    <3>1. CASE n = id
      BY <1>1, <1>4, <3>1
    <3>2. CASE n # id
      <4>1. /\ n \in DOMAIN nodes /\ nodes'[n] = nodes[n] /\ nodes[n].parent \in DOMAIN nodes
            /\ PathTo[n] = Append(PathTo[nodes[n].parent], nodes[n].name)
        BY <1>1, <3>2, ReadFacts
      <4>2. g[n] = PathTo[n] /\ g[nodes[n].parent] = PathTo[nodes[n].parent]
        BY <1>4, <4>1
      <4>3. QED
        BY <4>1, <4>2
    <3>3. QED
      BY <3>1, <3>2
  <2>3. ASSUME NEW n \in DOMAIN nodes' PROVE g[n] \in Seq(Names)
    <3>1. CASE n = id
      BY <1>2, <1>4, <3>1
    <3>2. CASE n # id
      <4>1. n \in DOMAIN nodes
        BY <1>1, <3>2
      <4>2. PathTo[n] \in Seq(Names)
        BY <4>1, ReadFacts
      <4>3. QED
        BY <1>4, <4>1, <4>2
    <3>3. QED
      BY <3>1, <3>2
  <2>4. QED
    BY <1>4, <2>1, <2>2, <2>3 DEF Extends
<1>6. PathTo' = g
  BY <1>4, <1>5 DEF TreeReads
<1>7. path \notin DOMAIN Resources
  <2>1. \A n \in DOMAIN nodes : g[n] = g[id] => n = id
    BY <1>1, <1>6 DEF TreeReads
  <2>2. QED
    BY <1>1, <1>4, <2>1 DEF TreeReads
<1>8. path \in TreePaths
  <2>1. \A n \in DOMAIN nodes' : g[n] \in TreePaths
    BY <1>6 DEF TreeReads
  <2>2. QED
    BY <1>1, <1>4, <2>1
<1>9. \A q \in DOMAIN Resources : Resources[q].id # id
  BY <1>1, ReadFacts DEF TreeReads
<1> HIDE DEF path
<1>10. Resources' = [q \in DOMAIN Resources \cup {path} |->
                       IF q = path THEN [id |-> id, isDir |-> isDir] ELSE Resources[q]]
  <2>1. /\ Resources' = [q \in DOMAIN Resources' |-> Resources'[q]]
        /\ DOMAIN Resources' = {g[n] : n \in DOMAIN nodes'}
        /\ \A n \in DOMAIN nodes' : Resources'[g[n]] = [id |-> n, isDir |-> nodes'[n].isDir]
    BY <1>6 DEF TreeReads
  <2>2. /\ DOMAIN Resources = {PathTo[n] : n \in DOMAIN nodes}
        /\ \A n \in DOMAIN nodes : Resources[PathTo[n]] = [id |-> n, isDir |-> nodes[n].isDir]
    BY DEF TreeReads
  <2>3. DOMAIN Resources' = DOMAIN Resources \cup {path}
    <3>1. {g[n] : n \in DOMAIN nodes \cup {id}} = {g[n] : n \in DOMAIN nodes} \cup {g[id]}
      OBVIOUS
    <3>2. {g[n] : n \in DOMAIN nodes} = DOMAIN Resources
      BY <1>4, <2>2
    <3>3. QED
      BY <1>1, <1>4, <2>1, <3>1, <3>2
  <2>4. Resources'[path] = [id |-> id, isDir |-> isDir]
    BY <1>1, <1>4, <2>1
  <2>5. ASSUME NEW q \in DOMAIN Resources PROVE Resources'[q] = Resources[q]
    <3>1. PICK n \in DOMAIN nodes : q = PathTo[n]
      BY <2>2
    <3>2. g[n] = q /\ n \in DOMAIN nodes' /\ nodes'[n] = nodes[n]
      BY <1>1, <1>4, <3>1
    <3>3. Resources'[g[n]] = [id |-> n, isDir |-> nodes'[n].isDir]
      BY <2>1, <3>2
    <3>4. Resources[PathTo[n]] = [id |-> n, isDir |-> nodes[n].isDir]
      BY <2>2, <3>2
    <3>5. QED
      BY <3>1, <3>2, <3>3, <3>4
  <2>6. QED
    BY <1>7, <2>1, <2>3, <2>4, <2>5
<1>11. Tree!Accepts(path)
  BY <1>7, CollectionsAccept DEF path
<1>12. Tree!Make(path, id, isDir)
  BY <1>9, <1>10 DEF Tree!Make
<1>13. QED
  BY <1>8, <1>11, <1>12

\* A row less, with nothing below it, is a resource less.
LEMMA DeleteRemoves ==
  ASSUME NamedInv, TreeReads, NamedInv', TreeReads', NEW id \in DOMAIN nodes \ {ROOT_ID},
         Subtree(id) = {id}, DeleteNode(id)
  PROVE  Tree!Remove(PathTo[id]) /\ PathTo[id] \in DOMAIN Resources
<1>1. /\ DOMAIN nodes' = DOMAIN nodes \ {id}
      /\ \A n \in DOMAIN nodes' : nodes'[n] = nodes[n]
  BY DEF DeleteNode, DropRows, Restrict
<1>2. PICK g : g = [n \in DOMAIN nodes' |-> PathTo[n]]
  OBVIOUS
<1>3. DOMAIN g = DOMAIN nodes' /\ g = [n \in DOMAIN g |-> g[n]] /\ \A n \in DOMAIN nodes' : g[n] = PathTo[n]
  BY <1>2
<1>4. Extends(g)'
  <2>1. g[ROOT_ID] = <<>>
    BY <1>1, <1>3, ReadFacts
  <2>2. ASSUME NEW n \in DOMAIN nodes' \ {ROOT_ID} PROVE g[n] = Append(g[nodes'[n].parent], nodes'[n].name)
    <3>1. nodes[n].parent \in DOMAIN nodes
      BY <1>1, ReadFacts
    <3>2. nodes[n].parent # id
      BY <1>1, SubtreeIsClosed
    <3>3. /\ nodes'[n] = nodes[n] /\ nodes[n].parent \in DOMAIN nodes'
          /\ PathTo[n] = Append(PathTo[nodes[n].parent], nodes[n].name)
      BY <1>1, <3>1, <3>2, ReadFacts
    <3>4. g[n] = PathTo[n] /\ g[nodes[n].parent] = PathTo[nodes[n].parent]
      BY <1>3, <3>3
    <3>5. QED
      BY <3>3, <3>4
  <2>3. \A n \in DOMAIN nodes' : g[n] \in Seq(Names)
    BY <1>1, <1>3, ReadFacts
  <2>4. QED
    BY <1>3, <2>1, <2>2, <2>3 DEF Extends
<1>5. PathTo' = g
  BY <1>3, <1>4 DEF TreeReads
<1>6. PathTo[id] # <<>> /\ PathTo[id] \in DOMAIN Resources
  BY ReadFacts DEF TreeReads
<1>7. \A q \in DOMAIN Resources : Tree!Within(PathTo[id], q) => q = PathTo[id]
  BY DEF TreeReads
<1>8. Resources' = [q \in DOMAIN Resources \ {PathTo[id]} |-> Resources[q]]
  <2>1. /\ Resources' = [q \in DOMAIN Resources' |-> Resources'[q]]
        /\ DOMAIN Resources' = {g[n] : n \in DOMAIN nodes'}
        /\ \A n \in DOMAIN nodes' : Resources'[g[n]] = [id |-> n, isDir |-> nodes'[n].isDir]
    BY <1>5 DEF TreeReads
  <2>2. /\ DOMAIN Resources = {PathTo[n] : n \in DOMAIN nodes}
        /\ \A n \in DOMAIN nodes : Resources[PathTo[n]] = [id |-> n, isDir |-> nodes[n].isDir]
        /\ \A m, n \in DOMAIN nodes : PathTo[m] = PathTo[n] => m = n
    BY DEF TreeReads
  <2>3. DOMAIN Resources' = DOMAIN Resources \ {PathTo[id]}
    <3>1. DOMAIN Resources' = {PathTo[n] : n \in DOMAIN nodes'}
      BY <1>3, <2>1
    <3>2. {PathTo[n] : n \in DOMAIN nodes \ {id}} = {PathTo[n] : n \in DOMAIN nodes} \ {PathTo[id]}
      BY <2>2
    <3>3. QED
      BY <1>1, <2>2, <3>1, <3>2
  <2>4. ASSUME NEW q \in DOMAIN Resources' PROVE Resources'[q] = Resources[q]
    <3>1. PICK n \in DOMAIN nodes' : q = g[n]
      BY <2>1
    <3>2. PathTo[n] = q /\ n \in DOMAIN nodes /\ nodes'[n] = nodes[n]
      BY <1>1, <1>3, <3>1
    <3>3. Resources'[g[n]] = [id |-> n, isDir |-> nodes'[n].isDir]
      BY <2>1, <3>2
    <3>4. Resources[PathTo[n]] = [id |-> n, isDir |-> nodes[n].isDir]
      BY <2>2, <3>2
    <3>5. QED
      BY <3>1, <3>2, <3>3, <3>4
  <2>5. QED
    BY <2>1, <2>3, <2>4
<1>9. QED
  BY <1>6, <1>7, <1>8 DEF Tree!Remove

\* A move takes what is below along.
LEMMA RenameMoves ==
  ASSUME NamedInv, TreeReads, NamedInv', TreeReads', NEW id \in DOMAIN nodes \ {ROOT_ID},
         NEW dst \in DOMAIN nodes, nodes[dst].isDir, dst \notin Subtree(id), NEW name \in Names,
         Rename(id, dst, name), Append(PathTo[dst], name) \notin DOMAIN Resources
  PROVE  \E path \in TreePaths : Tree!Accepts(path) /\ \E from \in DOMAIN Resources : Tree!Move(from, path)
<1> DEFINE from == PathTo[id]
           to == Append(PathTo[dst], name)
           Moved == Subtree(id)
<1>1. /\ DOMAIN nodes' = DOMAIN nodes
      /\ nodes'[id].parent = dst /\ nodes'[id].name = name
      /\ \A n \in DOMAIN nodes \ {id} : nodes'[n] = nodes[n]
      /\ \A n \in DOMAIN nodes : nodes'[n].isDir = nodes[n].isDir
  <2>1. nodes \in [DOMAIN nodes -> NodeRow] /\ nodes[id] \in NodeRow
    BY DEF NamedInv, MetaInv, MetaTypeOK
  <2>2. QED
    BY <2>1 DEF Rename, NodeRow
<1>2. Moved \subseteq DOMAIN nodes /\ id \in Moved /\ ROOT_ID \notin Moved
  BY SubtreeHoldsNode, SubtreeSparesRoot DEF NamedInv, Subtree
<1>3. from \in Seq(Names) /\ PathTo[dst] \in Seq(Names) /\ to \in Seq(Names) /\ to # <<>>
  BY ReadFacts, ParentOfAppend
<1>4. \A n \in DOMAIN nodes : n \in Moved <=> Tree!Within(from, PathTo[n])
  BY DEF TreeReads
<1>5. PICK g : g = [n \in DOMAIN nodes |-> IF n \in Moved THEN to \o Tree!Rest(from, PathTo[n]) ELSE PathTo[n]]
  OBVIOUS
<1> HIDE DEF Moved, to, from
<1>6. /\ DOMAIN g = DOMAIN nodes /\ g = [n \in DOMAIN g |-> g[n]]
      /\ \A n \in Moved : g[n] = to \o Tree!Rest(from, PathTo[n])
      /\ \A n \in DOMAIN nodes \ Moved : g[n] = PathTo[n]
  BY <1>2, <1>5
<1>7. \A n \in Moved : Tree!Rest(from, PathTo[n]) \in Seq(Names) /\ from \o Tree!Rest(from, PathTo[n]) = PathTo[n]
  <2> SUFFICES ASSUME NEW n \in Moved
               PROVE  Tree!Rest(from, PathTo[n]) \in Seq(Names) /\ from \o Tree!Rest(from, PathTo[n]) = PathTo[n]
    OBVIOUS
  <2>1. PathTo[n] \in Seq(Names) /\ Tree!Within(from, PathTo[n])
    BY <1>2, <1>4, ReadFacts
  <2>2. Len(from) <= Len(PathTo[n])
    BY <1>3, <2>1, WithinFact
  <2>3. QED
    BY <1>3, <2>1, <2>2, RestFact, Rejoin
<1>8. g[id] = to
  <2>1. Tree!Rest(from, from) \in Seq(Names) /\ Len(Tree!Rest(from, from)) = 0
    BY <1>3, RestFact
  <2>2. PICK c : c = Tree!Rest(from, from)
    OBVIOUS
  <2>3. c = <<>>
    BY <2>1, <2>2
  <2>4. g[id] = to \o c
    BY <1>2, <1>6, <2>2 DEF from
  <2>5. QED
    BY <1>3, <2>3, <2>4
<1>9. Extends(g)'
  <2>1. g[ROOT_ID] = <<>>
    BY <1>2, <1>6, ReadFacts
  <2>2. ASSUME NEW n \in DOMAIN nodes' \ {ROOT_ID} PROVE g[n] = Append(g[nodes'[n].parent], nodes'[n].name)
    <3>1. CASE n = id
      <4>1. g[dst] = PathTo[dst]
        BY <1>6 DEF Moved
      <4>2. QED
        BY <1>1, <1>8, <3>1, <4>1 DEF to
    <3>2. CASE n \in Moved /\ n # id
      <4>1. nodes[n].parent \in Moved
        BY <3>2, SubtreeHoldsParents DEF Moved
      <4>2. /\ PathTo[nodes[n].parent] \in Seq(Names) /\ nodes[n].name \in Names
            /\ PathTo[n] = Append(PathTo[nodes[n].parent], nodes[n].name)
        BY <1>1, ReadFacts
      <4>3. Tree!Within(from, PathTo[nodes[n].parent])
        BY <1>2, <1>4, <4>1
      <4>4. to \o Tree!Rest(from, PathTo[n])
              = Append(to \o Tree!Rest(from, PathTo[nodes[n].parent]), nodes[n].name)
        <5>1. PICK b, x : b = PathTo[nodes[n].parent] /\ x = nodes[n].name
          OBVIOUS
        <5>2. b \in Seq(Names) /\ x \in Names /\ Tree!Within(from, b)
          BY <4>2, <4>3, <5>1
        <5>3. to \o Tree!Rest(from, Append(b, x)) = Append(to \o Tree!Rest(from, b), x)
          BY <1>3, <5>2, RestOfAppend
        <5>4. QED
          BY <4>2, <5>1, <5>3
      <4>5. QED
        BY <1>1, <1>6, <3>2, <4>1, <4>4
    <3>3. CASE n \notin Moved
      <4>1. nodes[n].parent \in DOMAIN nodes \ Moved
        BY <1>1, <3>3, ReadFacts, SubtreeIsClosed DEF Moved
      <4>2. n # id
        BY <1>2, <3>3
      <4>3. /\ n \in DOMAIN nodes \ Moved /\ nodes'[n] = nodes[n]
            /\ PathTo[n] = Append(PathTo[nodes[n].parent], nodes[n].name)
        BY <1>1, <3>3, <4>2, ReadFacts
      <4>4. g[n] = PathTo[n] /\ g[nodes[n].parent] = PathTo[nodes[n].parent]
        BY <1>6, <4>1, <4>3
      <4>5. QED
        BY <4>3, <4>4
    <3>4. QED
      BY <3>1, <3>2, <3>3
  <2>3. ASSUME NEW n \in DOMAIN nodes' PROVE g[n] \in Seq(Names)
    <3>1. CASE n \in Moved
      <4>1. PICK c : c = Tree!Rest(from, PathTo[n])
        OBVIOUS
      <4>2. c \in Seq(Names) /\ g[n] = to \o c
        BY <1>6, <1>7, <3>1, <4>1
      <4>3. QED
        BY <1>3, <4>2
    <3>2. CASE n \notin Moved
      BY <1>1, <1>6, <3>2, ReadFacts
    <3>3. QED
      BY <3>1, <3>2
  <2>4. QED
    BY <1>1, <1>6, <2>1, <2>2, <2>3 DEF Extends
<1>10. PathTo' = g
  BY <1>6, <1>9 DEF TreeReads
<1>11. to \in TreePaths
  <2>1. \A n \in DOMAIN nodes' : g[n] \in TreePaths
    BY <1>10 DEF TreeReads
  <2>2. QED
    BY <1>1, <1>8, <2>1
<1>12. Tree!Accepts(to)
  BY CollectionsAccept DEF to
<1>13. from # <<>> /\ from \in DOMAIN Resources
  BY ReadFacts DEF from, TreeReads
<1>14. ~Tree!Within(from, to)
  <2>1. ~Tree!Within(from, PathTo[dst])
    BY <1>4 DEF Moved
  <2>2. from # to
    BY <1>13 DEF to
  <2>3. QED
    BY <1>3, <2>1, <2>2, WithinAppend DEF to
<1>15. /\ Resources' = [q \in DOMAIN Resources' |-> Resources'[q]]
       /\ DOMAIN Resources' = {g[n] : n \in DOMAIN nodes}
       /\ \A n \in DOMAIN nodes : Resources'[g[n]] = Resources[PathTo[n]]
  <2>1. /\ Resources' = [q \in DOMAIN Resources' |-> Resources'[q]]
        /\ DOMAIN Resources' = {g[n] : n \in DOMAIN nodes'}
        /\ \A n \in DOMAIN nodes' : Resources'[g[n]] = [id |-> n, isDir |-> nodes'[n].isDir]
    BY <1>10 DEF TreeReads
  <2>2. \A n \in DOMAIN nodes : Resources[PathTo[n]] = [id |-> n, isDir |-> nodes[n].isDir]
    BY DEF TreeReads
  <2>3. ASSUME NEW n \in DOMAIN nodes PROVE Resources'[g[n]] = Resources[PathTo[n]]
    <3>1. Resources'[g[n]] = [id |-> n, isDir |-> nodes'[n].isDir] /\ nodes'[n].isDir = nodes[n].isDir
      BY <1>1, <2>1
    <3>2. Resources[PathTo[n]] = [id |-> n, isDir |-> nodes[n].isDir]
      BY <2>2
    <3>3. QED
      BY <3>1, <3>2
  <2>4. QED
    BY <1>1, <2>1, <2>3
<1> DEFINE below == {q \in DOMAIN Resources : Tree!Within(from, q)}
           left == DOMAIN Resources \ below
           put == {to \o Tree!Rest(from, r) : r \in below}
<1>16. DOMAIN Resources = {PathTo[n] : n \in DOMAIN nodes}
  BY DEF TreeReads
<1>17. DOMAIN Resources' = left \cup put
  <2>1. ASSUME NEW n \in DOMAIN nodes PROVE g[n] \in left \cup put
    <3>1. PathTo[n] \in DOMAIN Resources
      BY <1>16
    <3>2. QED
      BY <1>4, <1>6, <3>1
  <2>2. ASSUME NEW q \in left \cup put PROVE \E n \in DOMAIN nodes : q = g[n]
    <3>1. CASE q \in left
      <4>1. PICK n \in DOMAIN nodes : q = PathTo[n]
        BY <1>16, <3>1
      <4>2. QED
        BY <1>4, <1>6, <3>1, <4>1
    <3>2. CASE q \in put
      <4>1. PICK r \in below : q = to \o Tree!Rest(from, r)
        BY <3>2
      <4>2. PICK n \in DOMAIN nodes : r = PathTo[n]
        BY <1>16, <4>1
      <4>3. QED
        BY <1>4, <1>6, <4>1, <4>2
    <3>3. QED
      BY <2>2, <3>1, <3>2
  <2> HIDE DEF left, put
  <2>3. QED
    BY <1>15, <2>1, <2>2
<1>18. ASSUME NEW n \in DOMAIN nodes
       PROVE  Resources'[g[n]] = IF Tree!Within(to, g[n]) THEN Resources[from \o Tree!Rest(to, g[n])]
                                                        ELSE Resources[g[n]]
  <2>1. CASE n \in Moved
    <3>1. PICK c : c = Tree!Rest(from, PathTo[n])
      OBVIOUS
    <3>2. c \in Seq(Names) /\ from \o c = PathTo[n] /\ g[n] = to \o c
      BY <1>6, <1>7, <2>1, <3>1
    <3>3. Tree!Within(to, to \o c) /\ Tree!Rest(to, to \o c) = c
      BY <1>3, <3>2, RestOfJoin
    <3>4. QED
      BY <1>15, <3>2, <3>3
  <2>2. CASE n \notin Moved
    <3>1. ~Tree!Within(to, PathTo[n])
      BY <1>3, FreePathsAreClear DEF to
    <3>2. g[n] = PathTo[n]
      BY <1>6, <2>2
    <3>3. QED
      BY <1>15, <3>1, <3>2
  <2>3. QED
    BY <2>1, <2>2
<1>19. Resources' = [q \in left \cup put |->
                       IF Tree!Within(to, q) THEN Resources[from \o Tree!Rest(to, q)] ELSE Resources[q]]
  <2>1. \A q \in DOMAIN Resources' :
          Resources'[q] = IF Tree!Within(to, q) THEN Resources[from \o Tree!Rest(to, q)] ELSE Resources[q]
    BY <1>15, <1>18
  <2> HIDE DEF left, put
  <2>2. QED
    BY <1>15, <1>17, <2>1
<1>20. Tree!Move(from, to)
  BY <1>13, <1>14, <1>19 DEF Tree!Move
<1>21. QED
  BY <1>11, <1>12, <1>13, <1>20

\* The same rows are the same tree; so they are if a node is moved to where it is.
LEMMA SameRowsSameTree ==
  ASSUME NamedInv, TreeReads, NamedInv', TreeReads', DOMAIN nodes' = DOMAIN nodes,
         \A n \in DOMAIN nodes : /\ nodes'[n].parent = nodes[n].parent /\ nodes'[n].name = nodes[n].name
                                 /\ nodes'[n].isDir = nodes[n].isDir
  PROVE  UNCHANGED Resources
<1>1. PICK g : g = [n \in DOMAIN nodes |-> PathTo[n]]
  OBVIOUS
<1>2. DOMAIN g = DOMAIN nodes /\ g = [n \in DOMAIN g |-> g[n]] /\ \A n \in DOMAIN nodes : g[n] = PathTo[n]
  BY <1>1
<1>3. Extends(g)'
  <2>1. g[ROOT_ID] = <<>> /\ \A n \in DOMAIN nodes : g[n] \in Seq(Names)
    BY <1>2, ReadFacts
  <2>2. ASSUME NEW n \in DOMAIN nodes \ {ROOT_ID} PROVE g[n] = Append(g[nodes'[n].parent], nodes'[n].name)
    <3>1. nodes[n].parent \in DOMAIN nodes /\ PathTo[n] = Append(PathTo[nodes[n].parent], nodes[n].name)
      BY ReadFacts
    <3>2. nodes'[n].parent = nodes[n].parent /\ nodes'[n].name = nodes[n].name
      OBVIOUS
    <3>3. QED
      BY <1>2, <3>1, <3>2
  <2>3. QED
    BY <1>2, <2>1, <2>2 DEF Extends
<1>4. PathTo' = g
  BY <1>2, <1>3 DEF TreeReads
<1>5. /\ Resources' = [q \in DOMAIN Resources' |-> Resources'[q]]
      /\ DOMAIN Resources' = {g[n] : n \in DOMAIN nodes'}
      /\ \A n \in DOMAIN nodes' : Resources'[g[n]] = [id |-> n, isDir |-> nodes'[n].isDir]
  BY <1>4 DEF TreeReads
<1>6. /\ Resources = [q \in DOMAIN Resources |-> Resources[q]]
      /\ DOMAIN Resources = {PathTo[n] : n \in DOMAIN nodes}
      /\ \A n \in DOMAIN nodes : Resources[PathTo[n]] = [id |-> n, isDir |-> nodes[n].isDir]
  BY DEF TreeReads
<1>7. DOMAIN Resources' = DOMAIN Resources
  BY <1>2, <1>5, <1>6
<1>8. ASSUME NEW q \in DOMAIN Resources PROVE Resources'[q] = Resources[q]
  <2>1. PICK n \in DOMAIN nodes : q = PathTo[n]
    BY <1>6
  <2>2. Resources'[g[n]] = [id |-> n, isDir |-> nodes'[n].isDir] /\ nodes'[n].isDir = nodes[n].isDir
    BY <1>5
  <2>3. Resources[PathTo[n]] = [id |-> n, isDir |-> nodes[n].isDir]
    BY <1>6
  <2>4. QED
    BY <1>2, <2>1, <2>2, <2>3
<1>9. QED
  BY <1>5, <1>6, <1>7, <1>8

\* A move to a path that is taken is one to where the node is.
LEMMA RenameOnto ==
  ASSUME NamedInv, TreeReads, NEW id \in DOMAIN nodes \ {ROOT_ID}, NEW dst \in DOMAIN nodes,
         NEW name \in Names, Rename(id, dst, name), Append(PathTo[dst], name) \in DOMAIN Resources
  PROVE  nodes[id].parent = dst /\ nodes[id].name = name
<1> DEFINE to == Append(PathTo[dst], name)
<1>1. PICK n \in DOMAIN nodes : PathTo[n] = to
  BY DEF TreeReads
<1>2. n # ROOT_ID
  BY <1>1, ReadFacts, ParentOfAppend
<1>3. /\ nodes[n].parent \in DOMAIN nodes /\ nodes[n].name \in Names
      /\ PathTo[n] = Append(PathTo[nodes[n].parent], nodes[n].name)
      /\ PathTo[nodes[n].parent] \in Seq(Names) /\ PathTo[dst] \in Seq(Names)
  BY <1>2, ReadFacts
<1>4. PathTo[nodes[n].parent] = PathTo[dst]
  BY <1>1, <1>3, ParentOfAppend
<1>5. nodes[n].parent = dst
  BY <1>3, <1>4 DEF TreeReads
<1>6. nodes[n].name = name
  <2> DEFINE b == PathTo[dst]
  <2>1. Append(b, nodes[n].name) = Append(b, name) /\ b \in Seq(Names)
    BY <1>1, <1>3, <1>4
  <2> HIDE DEF b
  <2>2. Append(b, nodes[n].name)[Len(b) + 1] = nodes[n].name /\ Append(b, name)[Len(b) + 1] = name
    BY <1>3, <2>1
  <2>3. QED
    BY <2>1, <2>2
<1>7. n = id
  BY <1>5, <1>6 DEF Rename, IsChild
<1>8. QED
  BY <1>5, <1>6, <1>7

\* What a change of a request is to the tree.
LEMMA TurnRefines ==
  ASSUME NEW p, Procs = {p}, TurnInv, RowsAreNamed, TreeReads,
         TurnInv', RowsAreNamed', TreeReads', [NameNext]_nameVars
  PROVE  [Tree!TreeNext]_Resources
<1>1. NamedInv /\ NamedInv' /\ p \in Procs /\ Sound(req[p]) /\ Knows(req[p]) /\ req[p] \in Request
  BY DEF TurnInv, NameInv, NamedInv, Sound
<1>2. ASSUME UNCHANGED nodes PROVE UNCHANGED Resources
  BY <1>1, <1>2, SameRowsSameTree
<1>3. ASSUME NEW path \in TreePaths, NEW id \in NodeIds, NEW isDir \in BOOLEAN,
             Tree!Accepts(path), Tree!Make(path, id, isDir)
      PROVE  [Tree!TreeNext]_Resources
  BY <1>3 DEF Tree!TreeNext
<1>4. ASSUME NEW path \in DOMAIN Resources, Tree!Remove(path)
      PROVE  [Tree!TreeNext]_Resources
  BY <1>4 DEF Tree!TreeNext
<1>5. ASSUME NEW path \in TreePaths, NEW from \in DOMAIN Resources, Tree!Accepts(path), Tree!Move(from, path)
      PROVE  [Tree!TreeNext]_Resources
  BY <1>5 DEF Tree!TreeNext
<1>6. ASSUME NEW id \in NodeIds, NEW now \in Times, Create(p, id, now)
      PROVE  [Tree!TreeNext]_Resources
  <2> DEFINE isDir == IsKind(p, {"mkcol"}) \/ req[p].srcIsDir
  <2>1. /\ req[p].dst \in DOMAIN nodes /\ nodes[req[p].dst].isDir /\ req[p].name \in Names
        /\ isDir \in BOOLEAN /\ InsertNode(id, req[p].dst, req[p].name, isDir, now)
    BY <1>1, <1>6 DEF Create, InsertNode, Knows, Sound, At, IsKind, Request
  <2>2. QED
    BY <1>1, <1>3, <2>1, InsertMakes
<1>7. ASSUME NEW id \in DOMAIN nodes \ {ROOT_ID}, Subtree(id) = {id}, DeleteNode(id)
      PROVE  [Tree!TreeNext]_Resources
  BY <1>1, <1>4, <1>7, DeleteRemoves
<1>8. CASE RemoveFile(p)
  <2>1. req[p].at \in DOMAIN nodes \ {ROOT_ID} /\ ~nodes[req[p].at].isDir /\ DeleteNode(req[p].at)
    BY <1>1, <1>8 DEF RemoveFile, DeleteNode, At, Sound, Knows
  <2>2. QED
    BY <1>7, <2>1, FilesAreLeaves
<1>9. CASE RemoveCollection(p)
  <2>1. /\ req[p].at \in DOMAIN nodes \ {ROOT_ID} /\ DeleteNode(req[p].at)
        /\ \A n \in DOMAIN nodes : nodes[n].parent # req[p].at
    BY <1>1, <1>9 DEF RemoveCollection, RemoveDir, DeleteNode, At, Sound
  <2>2. QED
    BY <1>7, <2>1, LeafSubtree
<1>10. CASE MoveNode(p)
  <2>1. PICK id, dst, name : id = req[p].src /\ dst = req[p].dst /\ name = req[p].name
    OBVIOUS
  <2>2. /\ id \in DOMAIN nodes \ {ROOT_ID} /\ dst \in DOMAIN nodes /\ nodes[dst].isDir
        /\ dst \notin Subtree(id) /\ name \in Names /\ Rename(id, dst, name)
    BY <1>1, <1>10, <2>1 DEF MoveNode, Rename, At, Sound, Knows
  <2>3. CASE Append(PathTo[dst], name) \in DOMAIN Resources
    <3>1. nodes[id].parent = dst /\ nodes[id].name = name
      BY <1>1, <2>2, <2>3, RenameOnto
    <3>2. nodes \in [DOMAIN nodes -> NodeRow] /\ nodes[id] \in NodeRow
      BY <1>1, <2>2 DEF NamedInv, MetaInv, MetaTypeOK
    <3>3. /\ DOMAIN nodes' = DOMAIN nodes
          /\ \A n \in DOMAIN nodes : /\ nodes'[n].parent = nodes[n].parent /\ nodes'[n].name = nodes[n].name
                                     /\ nodes'[n].isDir = nodes[n].isDir
      BY <2>2, <3>1, <3>2 DEF Rename, NodeRow
    <3>4. UNCHANGED Resources
      BY <1>1, <3>3, SameRowsSameTree
    <3>5. QED
      BY <3>4
  <2>4. CASE Append(PathTo[dst], name) \notin DOMAIN Resources
    <3>1. \E path \in TreePaths : Tree!Accepts(path) /\ \E from \in DOMAIN Resources : Tree!Move(from, path)
      BY <1>1, <2>2, <2>4, RenameMoves
    <3>2. QED
      BY <1>5, <3>1
  <2>5. QED
    BY <2>3, <2>4
<1>11. ASSUME UNCHANGED nodes PROVE [Tree!TreeNext]_Resources
  BY <1>2, <1>11
<1>12. CASE Arrive(p) \/ Find(p)
  BY <1>1, <1>11, <1>12, ArriveStep, FindStep DEF TurnInv, metaVars
<1>13. CASE RemoveCheck(p) \/ RemoveDirCheck(p) \/ Fail(p) \/ Restart \/ UNCHANGED nameVars
  BY <1>11, <1>13 DEF RemoveCheck, RemoveDirCheck, Fail, Restart, nameVars, metaVars
<1>14. QED
  BY <1>6, <1>8, <1>9, <1>10, <1>12, <1>13 DEF NameNext, Change

\* At first there is the root.
LEMMA InitIsTree ==
  ASSUME NameInit, NamedInv, TreeReads
  PROVE  Tree!TreeInit
<1>1. DOMAIN nodes = {ROOT_ID} /\ nodes[ROOT_ID].isDir = TRUE
  BY DEF NameInit, MetaInit
<1>2. ROOT_ID \in NodeIds /\ PathTo[ROOT_ID] = <<>>
  BY MetaConstants, ReadFacts
<1>3. /\ Resources = [q \in DOMAIN Resources |-> Resources[q]]
      /\ DOMAIN Resources = {<<>>}
      /\ Resources[<<>>] = [id |-> ROOT_ID, isDir |-> TRUE]
  <2>1. /\ Resources = [q \in DOMAIN Resources |-> Resources[q]]
        /\ DOMAIN Resources = {PathTo[n] : n \in {ROOT_ID}}
        /\ Resources[PathTo[ROOT_ID]] = [id |-> ROOT_ID, isDir |-> nodes[ROOT_ID].isDir]
    BY <1>1 DEF TreeReads
  <2>2. {PathTo[n] : n \in {ROOT_ID}} = {PathTo[ROOT_ID]}
    OBVIOUS
  <2>3. DOMAIN Resources = {<<>>}
    BY <1>2, <2>1, <2>2
  <2>4. Resources[<<>>] = [id |-> ROOT_ID, isDir |-> TRUE]
    BY <1>1, <1>2, <2>1
  <2>5. QED
    BY <2>1, <2>3, <2>4
<1>4. Resources = [q \in {<<>>} |-> [id |-> ROOT_ID, isDir |-> TRUE]]
  BY <1>3
<1>5. QED
  BY <1>2, <1>4 DEF Tree!TreeInit

\* Requests that take turns, whatever they are and wherever they fail, are the
\* operations of a tree of names: a MOVE takes the very same resources along,
\* to a free path outside of what it moves, a DELETE takes one and nothing with
\* it, and everything else is where it was.
THEOREM TurnsImplementNameTree ==
  ASSUME NEW p, Procs = {p}, IsFiniteSet(NodeIds)
  PROVE  NameSpec => ImplementsNameTree
<1>1. NameInit => TurnInv /\ RowsAreNamed
  BY InitTakesTurns DEF NameInit, MetaInit, RowsAreNamed
<1>2. TurnInv /\ RowsAreNamed /\ [NameNext]_nameVars => TurnInv' /\ RowsAreNamed'
  <2> SUFFICES ASSUME TurnInv, RowsAreNamed, [NameNext]_nameVars PROVE TurnInv' /\ RowsAreNamed'
    OBVIOUS
  <2>1. TurnInv'
    BY TurnStep
  <2>2. MetaInv /\ [MetaNext]_metaVars
    BY NameStep DEF TurnInv, NameInv
  <2>3. QED
    BY <2>1, <2>2, NamedStep
<1>3. TurnInv /\ RowsAreNamed => TreeReads
  BY TablesAreTrees DEF NamedInv, TurnInv, NameInv
<1>4. NameInit /\ TurnInv /\ RowsAreNamed /\ TreeReads => Tree!TreeInit
  BY InitIsTree DEF NamedInv, TurnInv, NameInv
<1>5. TurnInv /\ RowsAreNamed /\ TreeReads /\ TurnInv' /\ RowsAreNamed' /\ TreeReads' /\ [NameNext]_nameVars
        => [Tree!TreeNext]_Resources
  BY TurnRefines
<1>6. NameSpec => [](TurnInv /\ RowsAreNamed)
  BY <1>1, <1>2, PTL DEF NameSpec
<1>7. QED
  BY <1>3, <1>4, <1>5, <1>6, PTL DEF NameSpec, ImplementsNameTree, Tree!TreeSpec
=============================================================================
