------------------------ MODULE VersionStream_proofs ------------------------
(***************************************************************************)
(* A download gives a client the version it asked for, in order and whole, *)
(* or less and no mistaking it, for any number of downloads and requests   *)
(* side by side.                                                           *)
(***************************************************************************)
EXTENDS VersionStream, ContentStore_proofs, SequenceTheorems

(* A later version of a file has a higher row id: an id that is free again *)
(* below the one of the current version is not handed out before the file  *)
(* is gone.                                                                *)
IdsFollowNumbers ==
  \A v, w \in DOMAIN versions :
    versions[v].node = versions[w].node /\ versions[v].number < versions[w].number => v < w

\* What a step does to the version rows, and to those of a file that stays.
RowsStay ==
  \A v \in DOMAIN versions' :
    \/ v \in DOMAIN versions /\ versions'[v] = versions[v]
    \/ \A w \in DOMAIN versions : w < v

CurrentGrows ==
  \A n \in DOMAIN nodes \cap DOMAIN nodes' : nodes[n].current <= nodes'[n].current

PrunedIsOld ==
  \A n \in DOMAIN nodes \cap DOMAIN nodes' : \A v \in VersionsOf(n) :
    v \notin DOMAIN versions' => v < nodes'[n].current

VersionsStep == IdsFollowNumbers' /\ RowsStay /\ CurrentGrows /\ PrunedIsOld

-----------------------------------------------------------------------------
(* The version rows under any call of the store                            *)

\* The rows' ids are numbers.
LEMMA IdsAreNumbers ==
  ASSUME MetaInv
  PROVE  /\ DOMAIN versions \subseteq Nat
         /\ \A n \in DOMAIN nodes : nodes[n].current \in Nat
         /\ \A v \in DOMAIN versions : versions[v].number \in Nat
BY MetaConstants DEF MetaInv, MetaTypeOK, NodeRow, VersionRow, NULL

\* A step that leaves the current versions alone and at most takes rows away.
LEMMA KeepsCurrentKeepsIds ==
  ASSUME MetaInv, MetaInv', IdsFollowNumbers, KeepsCurrent
  PROVE  VersionsStep
<1>1. IdsFollowNumbers' /\ RowsStay /\ CurrentGrows
  BY IdsAreNumbers DEF KeepsCurrent, IdsFollowNumbers, RowsStay, CurrentGrows
<1>2. ASSUME NEW n \in DOMAIN nodes \cap DOMAIN nodes', NEW v \in VersionsOf(n), v \notin DOMAIN versions'
      PROVE  v < nodes'[n].current
  <2> DEFINE c == nodes[n].current
  <2>1. c \in VersionsOf(n) /\ versions[v].number <= versions[c].number
        /\ (v # c => versions[v].number # versions[c].number)
    BY <1>2 DEF MetaInv, CurrentIsHighest
  <2>2. nodes'[n].current = c
    BY <1>2 DEF KeepsCurrent
  <2>3. c # NULL
    BY <2>1, MetaConstants DEF VersionsOf, MetaInv, MetaTypeOK, NULL
  <2>4. c \in DOMAIN versions'
    BY <1>2, <2>2, <2>3 DEF MetaInv, ReferentialIntegrity, VersionsOf
  <2>5. v # c /\ v \in DOMAIN versions /\ c \in DOMAIN versions /\ versions[v].node = versions[c].node
    BY <1>2, <2>1, <2>4 DEF VersionsOf
  <2>6. versions[v].number < versions[c].number
    BY <2>1, <2>5, IdsAreNumbers
  <2>7. QED
    BY <2>2, <2>5, <2>6 DEF IdsFollowNumbers
<1>3. QED
  BY <1>1, <1>2 DEF VersionsStep, PrunedIsOld

\* A new version has an id above all others, and a number above the file's others.
LEMMA AppendKeepsIds ==
  ASSUME MetaInv, MetaInv', IdsFollowNumbers, NEW id \in DOMAIN nodes, NEW m \in Manifests,
         NEW now \in Times, AppendVersion(id, m, now)
  PROVE  VersionsStep
<1>1. PICK vid \in VersionIds \ DOMAIN versions, number \in Nat \ {0} :
        /\ \A v \in DOMAIN versions : v < vid
        /\ \A v \in VersionsOf(id) : versions[v].number < number
        /\ DOMAIN versions' = DOMAIN versions \cup {vid}
        /\ versions'[vid] = [node |-> id, number |-> number, chunks |-> m]
        /\ \A v \in DOMAIN versions : versions'[v] = versions[v]
        /\ DOMAIN nodes' = DOMAIN nodes
        /\ nodes'[id].current = vid
        /\ \A n \in DOMAIN nodes \ {id} : nodes'[n] = nodes[n]
  BY AppendedRow
<1>2. IdsFollowNumbers'
  <2> SUFFICES ASSUME NEW v \in DOMAIN versions', NEW w \in DOMAIN versions',
                      versions'[v].node = versions'[w].node,
                      versions'[v].number < versions'[w].number
               PROVE  v < w
    BY DEF IdsFollowNumbers
  <2>1. CASE w = vid
    <3>1. v # vid
      BY <1>1, <2>1
    <3>2. QED
      BY <1>1, <2>1, <3>1
  <2>2. CASE w # vid /\ v = vid
    <3>1. w \in VersionsOf(id) /\ versions'[w] = versions[w] /\ versions'[v].number = number
      BY <1>1, <2>2 DEF VersionsOf
    <3>2. QED
      BY <1>1, <3>1, IdsAreNumbers DEF VersionsOf
  <2>3. CASE w # vid /\ v # vid
    BY <1>1, <2>3 DEF IdsFollowNumbers
  <2>4. QED
    BY <2>1, <2>2, <2>3
<1>3. RowsStay /\ PrunedIsOld
  BY <1>1 DEF RowsStay, PrunedIsOld, VersionsOf
<1>4. ASSUME NEW n \in DOMAIN nodes PROVE nodes[n].current <= nodes'[n].current
  <2>1. CASE n # id
    BY <1>1, <2>1, IdsAreNumbers
  <2>2. CASE n = id /\ nodes[n].current = NULL
    BY <1>1, <2>2, MetaConstants DEF NULL
  <2>3. CASE n = id /\ nodes[n].current # NULL
    <3>1. nodes[n].current \in DOMAIN versions
      BY <2>3 DEF MetaInv, ReferentialIntegrity, VersionsOf
    <3>2. QED
      BY <1>1, <2>3, <3>1, MetaConstants, IdsAreNumbers
  <2>4. QED
    BY <2>1, <2>2, <2>3
<1>5. QED
  BY <1>1, <1>2, <1>3, <1>4 DEF VersionsStep, CurrentGrows

LEMMA MetaStepKeepsIds ==
  ASSUME MetaInv, MetaInv', IdsFollowNumbers, [MetaNext]_metaVars
  PROVE  VersionsStep
<1> USE MetaConstants
<1>1. ASSUME NEW id \in NodeIds, NEW parent \in DOMAIN nodes, NEW name \in Names,
             NEW isDir \in BOOLEAN, NEW now \in Times, InsertNode(id, parent, name, isDir, now)
      PROVE  VersionsStep
  <2>1. id \notin DOMAIN nodes
    BY <1>1, NextRowIdFact DEF InsertNode, MetaInv, MetaTypeOK
  <2>2. QED
    BY <1>1, <2>1, KeepsCurrentKeepsIds DEF InsertNode, PutRow, KeepsCurrent
<1>2. CASE UNCHANGED metaVars
  BY <1>2, KeepsCurrentKeepsIds DEF metaVars, KeepsCurrent
<1>3. ASSUME NEW id \in DOMAIN nodes, NEW m \in Manifests, NEW now \in Times, SetFileContent(id, m, now)
      PROVE  VersionsStep
  BY <1>2, <1>3, AppendKeepsIds DEF SetFileContent
<1>4. ASSUME NEW v \in DOMAIN versions, DeleteVersion(versions[v].node, versions[v].number)
      PROVE  VersionsStep
  BY <1>4, KeepsCurrentKeepsIds DEF DeleteVersion, KeepsCurrent, DropRows, Restrict
<1>5. ASSUME NEW id \in DOMAIN nodes \ {ROOT_ID}, DeleteNode(id)
      PROVE  VersionsStep
  BY <1>5, DropsKeepCurrent, KeepsCurrentKeepsIds DEF DeleteNode
<1>6. ASSUME NEW id \in DOMAIN nodes \ {ROOT_ID}, NEW parent \in DOMAIN nodes, NEW name \in Names,
             Rename(id, parent, name)
      PROVE  VersionsStep
  <2>1. nodes[id] \in NodeRow
    BY DEF MetaInv, MetaTypeOK
  <2>2. \A n \in DOMAIN nodes : nodes'[n].current = nodes[n].current
    BY <1>6, <2>1 DEF Rename, NodeRow, MetaInv, MetaTypeOK
  <2>3. QED
    BY <1>6, <2>2, KeepsCurrentKeepsIds DEF Rename, KeepsCurrent
<1>7. ASSUME NEW id \in DOMAIN nodes, NEW tm \in Times, SetModified(id, tm)
      PROVE  VersionsStep
  <2>1. nodes[id] \in NodeRow
    BY DEF MetaInv, MetaTypeOK
  <2>2. \A n \in DOMAIN nodes : nodes'[n].current = nodes[n].current
    BY <1>7, <2>1 DEF SetModified, NodeRow, MetaInv, MetaTypeOK
  <2>3. QED
    BY <1>7, <2>2, KeepsCurrentKeepsIds DEF SetModified, KeepsCurrent
<1>8. QED
  BY <1>1, <1>2, <1>3, <1>4, <1>5, <1>6, <1>7 DEF MetaNext, RemoveDir

-----------------------------------------------------------------------------
(* The inductive invariant                                                 *)

\* What a download has received and has in its channel, and where its task is.
InOrder(d) ==
  /\ d.pc \in {"idle", "find", "load"} =>
       d.got = <<>> /\ d.channel = <<>> /\ d.next = 1 /\ ~d.open
  /\ Len(d.got) <= Len(d.manifest)
  /\ \A k \in 1..Len(d.got) : d.got[k] = d.manifest[k]
  /\ Len(d.channel) <= VERSION_STREAM_CHUNKS
  /\ ~d.open => d.channel = <<>>
  /\ d.open =>
       /\ Len(d.got) + Len(d.channel) <= Len(d.manifest)
       /\ \A k \in 1..Len(d.channel) :
            \/ d.channel[k] = d.manifest[Len(d.got) + k]
            \/ d.channel[k] = MISSING /\ k = Len(d.channel) /\ d.pc = "over"
       /\ d.pc = "read" => d.next = Len(d.got) + Len(d.channel) + 1
       /\ d.pc = "send" =>
            /\ d.next = Len(d.got) + Len(d.channel) + 2
            /\ Len(d.got) + Len(d.channel) + 1 <= Len(d.manifest)
            /\ d.item = MISSING \/ d.item = d.manifest[Len(d.got) + Len(d.channel) + 1]

\* Until its manifest is loaded the version is there unchanged, or is gone and its id
\* out of use, for good while its file is there; from then on the manifest is the
\* version's, or empty.
Faithful(d) ==
  /\ d.pc \in {"idle", "find"} => d.asked = {}
  /\ \A m \in d.asked : d.asked = {m} /\ Len(m) = d.size
  /\ d.pc \in {"idle", "find"} => ~d.orphan
  /\ d.pc = "load" /\ d.orphan /\ d.asked # {} => d.version \notin DOMAIN versions
  /\ d.pc = "load" /\ ~d.orphan => \A m \in d.asked :
       /\ d.node \in DOMAIN nodes
       /\ \/ d.version \in VersionsOf(d.node) /\ versions[d.version].chunks = m
          \/ d.version \notin DOMAIN versions /\ d.version < nodes[d.node].current
  /\ d.pc \in {"read", "send", "over"} => d.asked \subseteq {d.manifest} \/ d.manifest = <<>>

StreamInv ==
  /\ ContentInv
  /\ NamesAreNames
  /\ IdsFollowNumbers
  /\ stream \in [Streams -> Download]
  /\ \A s \in Streams : InOrder(stream[s]) /\ Faithful(stream[s])

-----------------------------------------------------------------------------
(* The steps of a download                                                 *)

LEMMA ManifestType ==
  ASSUME NEW m \in Manifests
  PROVE  m \in Seq(Chunks) /\ Len(m) \in Nat /\ \A k \in 1..Len(m) : m[k] \in Chunks
<1>1. m \in Seq(Chunks)
  BY MetaConstants
<1>2. QED
  BY <1>1

\* A download that takes a step leaves the others, and everything else, alone.
LEMMA OwnStep ==
  ASSUME StreamInv, NEW s \in Streams, UNCHANGED contentVars,
         stream' \in [Streams -> Download],
         \A q \in Streams \ {s} : stream'[q] = stream[q],
         InOrder(stream'[s]), Faithful(stream'[s])
  PROVE  StreamInv'
<1>1. nodes' = nodes /\ versions' = versions
  BY DEF contentVars
<1>2. ContentInv' /\ NamesAreNames'
  BY ContentStep, NamesStep DEF StreamInv
<1>3. IdsFollowNumbers'
  BY <1>1 DEF StreamInv, IdsFollowNumbers
<1>4. ASSUME NEW q \in Streams PROVE InOrder(stream'[q]) /\ Faithful(stream'[q])
  BY DEF StreamInv
<1>5. ASSUME NEW q \in Streams PROVE Faithful(stream[q])'
  BY <1>1, <1>4 DEF Faithful, VersionsOf
<1>6. ASSUME NEW q \in Streams PROVE InOrder(stream[q])'
  BY <1>4 DEF InOrder
<1>7. QED
  BY <1>2, <1>3, <1>5, <1>6 DEF StreamInv

\* A download that has not begun, or is forgotten.
LEMMA NoDownloadIsSound ==
  NoDownload \in Download /\ InOrder(NoDownload) /\ Faithful(NoDownload)
<1>1. NoDownload \in Download
  BY MetaConstants DEF NoDownload, Download, Item
<1>2. InOrder(NoDownload)
  BY StreamConstants DEF NoDownload, InOrder
<1>3. Faithful(NoDownload)
  BY DEF NoDownload, Faithful
<1>4. QED
  BY <1>1, <1>2, <1>3

LEMMA ForgetStep ==
  ASSUME StreamInv, NEW s \in Streams, UNCHANGED contentVars,
         stream' = [stream EXCEPT ![s] = NoDownload]
  PROVE  StreamInv'
<1>1. /\ stream' \in [Streams -> Download] /\ stream'[s] = NoDownload
      /\ \A q \in Streams \ {s} : stream'[q] = stream[q]
  BY NoDownloadIsSound DEF StreamInv
<1>2. InOrder(stream'[s]) /\ Faithful(stream'[s])
  BY <1>1, NoDownloadIsSound
<1>3. QED
  BY <1>1, <1>2, OwnStep

LEMMA ResolveStep ==
  ASSUME StreamInv, NEW s \in Streams, UNCHANGED contentVars, NEW n \in NodeIds, ResolveFile(s, n)
  PROVE  StreamInv'
<1> DEFINE d == stream[s]
           e == stream'[s]
<1>1. d \in Download /\ InOrder(d) /\ Faithful(d) /\ stream \in [Streams -> Download] /\ d.pc = "idle"
  BY DEF StreamInv, ResolveFile, Is
<1>2. e = [d EXCEPT !.pc = "find", !.node = n] /\ \A q \in Streams \ {s} : stream'[q] = stream[q]
  BY <1>1 DEF ResolveFile
<1>3. e \in Download
  BY <1>1, <1>2, ZenonT(60) DEF Download
<1>4. stream' \in [Streams -> Download]
  BY <1>1, <1>2, <1>3 DEF ResolveFile
<1>5. /\ e.pc = "find" /\ e.got = d.got /\ e.channel = d.channel /\ e.next = d.next
      /\ e.open = d.open /\ e.manifest = d.manifest /\ e.asked = d.asked /\ e.orphan = d.orphan
  BY <1>1, <1>2 DEF Download
<1>6. InOrder(e)
  BY <1>1, <1>5 DEF InOrder
<1>7. Faithful(e)
  BY <1>1, <1>5 DEF Faithful
<1>8. QED
  BY <1>2, <1>4, <1>6, <1>7, OwnStep

LEMMA FindStep ==
  ASSUME StreamInv, NEW s \in Streams, UNCHANGED contentVars, NEW v \in VersionIds, FindVersion(s, v)
  PROVE  StreamInv'
<1> DEFINE d == stream[s]
           e == stream'[s]
           m == versions[v].chunks
<1>1. /\ d \in Download /\ InOrder(d) /\ Faithful(d) /\ stream \in [Streams -> Download]
      /\ d.pc = "find" /\ v \in VersionsOf(d.node)
  BY DEF StreamInv, FindVersion, Is
<1>2. m \in Manifests /\ versions[v].node \in DOMAIN nodes
  BY <1>1 DEF StreamInv, ContentInv, MetaInv, MetaTypeOK, VersionRow, VersionsOf, ReferentialIntegrity
<1>3. m \in Seq(Chunks) /\ Len(m) \in Nat
  BY <1>2, ManifestType
<1> HIDE DEF m
<1>4. /\ e = [d EXCEPT !.pc = "load", !.version = v, !.size = Len(m), !.asked = {m}]
      /\ \A q \in Streams \ {s} : stream'[q] = stream[q]
  BY <1>1 DEF FindVersion, m
<1>5. e \in Download
  <2> DEFINE held == {m}
  <2>1. held \in SUBSET Manifests
    BY <1>2
  <2> HIDE DEF held
  <2>2. e = [d EXCEPT !.pc = "load", !.version = v, !.size = Len(m), !.asked = held]
    BY <1>4 DEF held
  <2>3. QED
    BY <1>1, <1>3, <2>1, <2>2 DEF Download
<1>6. stream' \in [Streams -> Download]
  BY <1>1, <1>4, <1>5 DEF FindVersion
<1>7. /\ e.pc = "load" /\ e.got = d.got /\ e.channel = d.channel /\ e.next = d.next
      /\ e.open = d.open /\ e.manifest = d.manifest /\ e.asked = {m} /\ e.size = Len(m)
      /\ e.node = d.node /\ e.version = v /\ e.orphan = d.orphan
  BY <1>1, <1>4 DEF Download
<1>8. InOrder(e)
  BY <1>1, <1>7 DEF InOrder
<1>9. Faithful(e)
  <2>1. e.version \in VersionsOf(e.node) /\ versions[e.version].chunks = m /\ e.node \in DOMAIN nodes
    BY <1>1, <1>2, <1>7 DEF VersionsOf, m
  <2>2. ~e.orphan
    BY <1>1, <1>7 DEF Faithful
  <2>3. QED
    BY <1>7, <2>1, <2>2 DEF Faithful
<1>10. QED
  BY <1>4, <1>6, <1>8, <1>9, OwnStep

\* The manifest read is the version's, or empty: no other row has its id.
LEMMA LoadStep ==
  ASSUME StreamInv, NEW s \in Streams, UNCHANGED contentVars, LoadVersion(s)
  PROVE  StreamInv'
<1> DEFINE d == stream[s]
           e == stream'[s]
           m == ReadManifest(d.version)
<1>1. /\ d \in Download /\ InOrder(d) /\ Faithful(d) /\ stream \in [Streams -> Download]
      /\ d.pc = "load"
  BY DEF StreamInv, LoadVersion, Is
<1>2. m \in Manifests
  BY ReadIsReferenced DEF StreamInv, ContentInv
<1>3. m \in Seq(Chunks) /\ Len(m) \in Nat
  BY <1>2, ManifestType
<1>4. d.asked \subseteq {m} \/ m = <<>>
  BY <1>1 DEF Faithful, ReadManifest, VersionsOf
<1> HIDE DEF m
<1>5. /\ e = [d EXCEPT !.pc = "read", !.open = TRUE, !.manifest = m]
      /\ \A q \in Streams \ {s} : stream'[q] = stream[q]
  BY <1>1 DEF LoadVersion, m
<1>6. e \in Download
  BY <1>1, <1>2, <1>5 DEF Download
<1>7. stream' \in [Streams -> Download]
  BY <1>1, <1>5, <1>6 DEF LoadVersion
<1>8. /\ e.pc = "read" /\ e.got = d.got /\ e.channel = d.channel /\ e.next = d.next
      /\ e.open = TRUE /\ e.manifest = m /\ e.asked = d.asked /\ e.size = d.size
  BY <1>1, <1>5 DEF Download
<1>9. InOrder(e)
  <2>1. e.got = <<>> /\ e.channel = <<>> /\ e.next = 1
    BY <1>1, <1>8 DEF InOrder
  <2>2. Len(e.got) = 0 /\ Len(e.channel) = 0 /\ Len(e.manifest) \in Nat
    BY <1>3, <1>8, <2>1
  <2>3. QED
    BY <1>8, <2>1, <2>2, StreamConstants DEF InOrder
<1>10. Faithful(e)
  BY <1>1, <1>4, <1>8 DEF Faithful
<1>11. QED
  BY <1>5, <1>7, <1>9, <1>10, OwnStep

LEMMA NextChunkStep ==
  ASSUME StreamInv, NEW s \in Streams, UNCHANGED contentVars, NextChunk(s)
  PROVE  StreamInv'
<1> DEFINE d == stream[s]
           e == stream'[s]
<1>1. /\ d \in Download /\ InOrder(d) /\ Faithful(d) /\ stream \in [Streams -> Download]
      /\ d.pc = "read"
  BY DEF StreamInv, NextChunk, Is
<1>2. /\ Len(d.manifest) \in Nat /\ Len(d.got) \in Nat /\ Len(d.channel) \in Nat /\ d.next \in Nat
      /\ \A k \in 1..Len(d.manifest) : d.manifest[k] \in Chunks
  BY <1>1, ManifestType DEF Download
<1>3. ASSUME stream' = [stream EXCEPT ![s].pc = "over"]
      PROVE  StreamInv'
  <2>1. e = [d EXCEPT !.pc = "over"] /\ \A q \in Streams \ {s} : stream'[q] = stream[q]
    BY <1>1, <1>3
  <2>2. e \in Download
    BY <1>1, <2>1 DEF Download
  <2>3. stream' \in [Streams -> Download]
    BY <1>1, <1>3, <2>1, <2>2
  <2>4. /\ e.pc = "over" /\ e.got = d.got /\ e.channel = d.channel
        /\ e.open = d.open /\ e.manifest = d.manifest /\ e.asked = d.asked /\ e.size = d.size
    BY <1>1, <2>1 DEF Download
  <2>5. InOrder(e)
    BY <1>1, <2>4 DEF InOrder
  <2>6. Faithful(e)
    BY <1>1, <2>4 DEF Faithful
  <2>7. QED
    BY <2>1, <2>3, <2>5, <2>6, OwnStep
<1>4. ASSUME d.next <= Len(d.manifest), NEW item \in Get(d.manifest[d.next]),
             stream' = [stream EXCEPT ![s].pc = "send", ![s].item = item, ![s].next = @ + 1]
      PROVE  StreamInv'
  <2>1. /\ e = [d EXCEPT !.pc = "send", !.item = item, !.next = d.next + 1]
        /\ \A q \in Streams \ {s} : stream'[q] = stream[q]
    BY <1>1, <1>4
  <2>2. item \in Item /\ (item = MISSING \/ item = d.manifest[d.next])
    BY <1>4 DEF Get, Item, StreamInv, ContentInv
  <2>3. e \in Download
    <3>1. PICK n \in Nat : n = d.next + 1
      BY <1>2
    <3>2. e = [d EXCEPT !.pc = "send", !.item = item, !.next = n]
      BY <2>1, <3>1
    <3> HIDE DEF e
    <3>3. QED
      BY <1>1, <2>2, <3>2, ZenonT(40) DEF Download
  <2>4. stream' \in [Streams -> Download]
    BY <1>1, <1>4, <2>1, <2>3
  <2>5. /\ e.pc = "send" /\ e.got = d.got /\ e.channel = d.channel /\ e.next = d.next + 1
        /\ e.open = d.open /\ e.manifest = d.manifest /\ e.asked = d.asked /\ e.size = d.size
        /\ e.item = item
    BY <1>1, <2>1 DEF Download
  <2>6. InOrder(e)
    <3> DEFINE g == Len(d.got)
               c == Len(d.channel)
               l == Len(d.manifest)
    <3>1. /\ g <= l
          /\ \A k \in 1..g : d.got[k] = d.manifest[k]
          /\ c <= VERSION_STREAM_CHUNKS
          /\ ~d.open => d.channel = <<>>
      BY <1>1 DEF InOrder
    <3>2. ASSUME d.open
          PROVE  /\ g + c <= l
                 /\ \A k \in 1..c : d.channel[k] = d.manifest[g + k]
                 /\ d.next = g + c + 1
      BY <1>1, <3>2 DEF InOrder
    <3>3. g \in Nat /\ c \in Nat /\ l \in Nat /\ d.next <= l
      BY <1>2, <1>4
    <3>4. Len(e.got) = g /\ Len(e.channel) = c /\ Len(e.manifest) = l
      BY <2>5
    <3> HIDE DEF g, c, l
    <3>5. ASSUME d.open PROVE e.next = g + c + 2 /\ g + c + 1 <= l
      BY <2>5, <3>2, <3>3, <3>5
    <3>6. QED
      BY <2>2, <2>5, <3>1, <3>2, <3>4, <3>5 DEF InOrder
  <2>7. Faithful(e)
    BY <1>1, <2>5 DEF Faithful
  <2>8. QED
    BY <2>1, <2>4, <2>6, <2>7, OwnStep
<1>5. QED
  BY <1>3, <1>4 DEF NextChunk

LEMMA SendStep ==
  ASSUME StreamInv, NEW s \in Streams, UNCHANGED contentVars, Send(s)
  PROVE  StreamInv'
<1> DEFINE d == stream[s]
           e == stream'[s]
<1>1. /\ d \in Download /\ InOrder(d) /\ Faithful(d) /\ stream \in [Streams -> Download]
      /\ d.pc = "send"
  BY DEF StreamInv, Send, Is
<1>2. /\ Len(d.manifest) \in Nat /\ Len(d.got) \in Nat /\ Len(d.channel) \in Nat /\ d.next \in Nat
      /\ d.channel \in Seq(Item) /\ d.item \in Item
      /\ \A k \in 1..Len(d.manifest) : d.manifest[k] \in Chunks
  BY <1>1, ManifestType DEF Download
<1>3. ASSUME ~d.open, stream' = [stream EXCEPT ![s].pc = "over", ![s].item = MISSING]
      PROVE  StreamInv'
  <2>1. e = [d EXCEPT !.pc = "over", !.item = MISSING] /\ \A q \in Streams \ {s} : stream'[q] = stream[q]
    BY <1>1, <1>3
  <2>2. e \in Download
    BY <1>1, <2>1 DEF Download, Item
  <2>3. stream' \in [Streams -> Download]
    BY <1>1, <1>3, <2>1, <2>2
  <2>4. /\ e.pc = "over" /\ e.got = d.got /\ e.channel = d.channel
        /\ ~e.open /\ e.manifest = d.manifest /\ e.asked = d.asked /\ e.size = d.size
    BY <1>1, <1>3, <2>1 DEF Download
  <2>5. InOrder(e)
    BY <1>1, <1>3, <2>4 DEF InOrder
  <2>6. Faithful(e)
    BY <1>1, <2>4 DEF Faithful
  <2>7. QED
    BY <2>1, <2>3, <2>5, <2>6, OwnStep
<1>4. ASSUME d.open, Len(d.channel) < VERSION_STREAM_CHUNKS,
             NEW pc \in {"over", "read"}, pc = "over" <=> d.item = MISSING,
             stream' = [stream EXCEPT ![s].pc = pc, ![s].channel = Append(@, d.item),
                                      ![s].item = MISSING]
      PROVE  StreamInv'
  <2> DEFINE channel == Append(d.channel, d.item)
  <2>1. /\ channel \in Seq(Item) /\ Len(channel) = Len(d.channel) + 1
        /\ \A k \in 1..Len(d.channel) : channel[k] = d.channel[k]
        /\ channel[Len(d.channel) + 1] = d.item
    BY <1>2
  <2> HIDE DEF channel
  <2>2. /\ e = [d EXCEPT !.pc = pc, !.channel = channel, !.item = MISSING]
        /\ \A q \in Streams \ {s} : stream'[q] = stream[q]
    BY <1>1, <1>4 DEF channel
  <2>3. e \in Download
    BY <1>1, <2>1, <2>2 DEF Download, Item
  <2>4. stream' \in [Streams -> Download]
    BY <1>1, <1>4, <2>2, <2>3
  <2>5. /\ e.pc = pc /\ e.got = d.got /\ e.channel = channel /\ e.next = d.next
        /\ e.open /\ e.manifest = d.manifest /\ e.asked = d.asked /\ e.size = d.size
    BY <1>1, <1>4, <2>2 DEF Download
  <2>6. InOrder(e)
    <3> DEFINE g == Len(d.got)
               c == Len(d.channel)
               l == Len(d.manifest)
    <3>1. /\ g <= l
          /\ \A k \in 1..g : d.got[k] = d.manifest[k]
          /\ \A k \in 1..c : d.channel[k] = d.manifest[g + k]
          /\ d.next = g + c + 2
          /\ g + c + 1 <= l
          /\ d.item = MISSING \/ d.item = d.manifest[g + c + 1]
      BY <1>1, <1>4 DEF InOrder
    <3>2. /\ g \in Nat /\ c \in Nat /\ l \in Nat
          /\ c < VERSION_STREAM_CHUNKS
          /\ Len(channel) = c + 1
          /\ \A k \in 1..c : channel[k] = d.channel[k]
          /\ channel[c + 1] = d.item
      BY <1>2, <1>4, <2>1
    <3>3. Len(e.got) = g /\ Len(e.channel) = c + 1 /\ Len(e.manifest) = l
      BY <2>5, <3>2
    <3> HIDE DEF g, c, l
    <3>4. ASSUME NEW k \in 1..c + 1
          PROVE  \/ channel[k] = d.manifest[g + k]
                 \/ channel[k] = MISSING /\ k = c + 1 /\ pc = "over"
      <4>1. CASE k = c + 1
        <5>1. g + k = g + c + 1
          BY <3>2, <4>1
        <5>2. QED
          BY <1>4, <3>1, <3>2, <4>1, <5>1
      <4>2. CASE k \in 1..c
        BY <3>1, <3>2, <4>2
      <4>3. QED
        BY <3>2, <4>1, <4>2
    <3>5. d.next = g + (c + 1) + 1 /\ g + (c + 1) <= l /\ c + 1 <= VERSION_STREAM_CHUNKS
      BY <3>1, <3>2, StreamConstants
    <3>6. \A k \in 1..Len(e.channel) :
            \/ e.channel[k] = e.manifest[Len(e.got) + k]
            \/ e.channel[k] = MISSING /\ k = Len(e.channel) /\ e.pc = "over"
      BY <2>5, <3>3, <3>4
    <3>7. /\ e.pc \in {"over", "read"} /\ e.open
          /\ Len(e.got) <= Len(e.manifest)
          /\ \A k \in 1..Len(e.got) : e.got[k] = e.manifest[k]
          /\ Len(e.channel) <= VERSION_STREAM_CHUNKS
          /\ Len(e.got) + Len(e.channel) <= Len(e.manifest)
          /\ e.next = Len(e.got) + Len(e.channel) + 1
      BY <1>4, <2>5, <3>1, <3>3, <3>5
    <3> HIDE DEF d, e
    <3>8. QED
      BY <3>6, <3>7 DEF InOrder
  <2>7. Faithful(e)
    BY <1>1, <2>5 DEF Faithful
  <2>8. QED
    BY <2>2, <2>4, <2>6, <2>7, OwnStep
<1>5. QED
  BY <1>3, <1>4 DEF Send

\* The body goes away; the task finds out later.
LEMMA DropStep ==
  ASSUME StreamInv, NEW s \in Streams, UNCHANGED contentVars, stream[s].open,
         NEW got \in Seq(Chunks), Len(got) <= Len(stream[s].manifest),
         \A k \in 1..Len(got) : got[k] = stream[s].manifest[k],
         stream' = [stream EXCEPT ![s] = [Dropped(stream[s]) EXCEPT !.got = got]]
  PROVE  StreamInv'
<1> DEFINE d == stream[s]
           e == stream'[s]
<1>1. /\ d \in Download /\ InOrder(d) /\ Faithful(d) /\ stream \in [Streams -> Download]
      /\ d.pc \in {"read", "send", "over"}
  BY DEF StreamInv, InOrder, Download
<1>2. /\ e = [d EXCEPT !.open = FALSE, !.channel = <<>>, !.got = got]
      /\ \A q \in Streams \ {s} : stream'[q] = stream[q]
  BY <1>1 DEF Dropped
<1>3. e \in Download
  <2>1. <<>> \in Seq(Item) /\ got \in Seq(Chunks)
    OBVIOUS
  <2>2. QED
    BY <1>1, <1>2, <2>1, ZenonT(60) DEF Download
<1>4. stream' \in [Streams -> Download]
  BY <1>1, <1>2, <1>3
<1>5. /\ e.pc = d.pc /\ e.got = got /\ e.channel = <<>>
      /\ ~e.open /\ e.manifest = d.manifest /\ e.asked = d.asked /\ e.size = d.size
  BY <1>1, <1>2, ZenonT(40) DEF Download
<1>6. InOrder(e)
  BY <1>1, <1>5, StreamConstants DEF InOrder
<1>7. Faithful(e)
  BY <1>1, <1>5 DEF Faithful
<1>8. QED
  BY <1>2, <1>4, <1>6, <1>7, OwnStep

\* The first item of the channel is the next chunk of the manifest, or the error.
LEMMA ReceiveStep ==
  ASSUME StreamInv, NEW s \in Streams, UNCHANGED contentVars, Receive(s)
  PROVE  StreamInv'
<1> DEFINE d       == stream[s]
           e       == stream'[s]
           item    == Head(d.channel)
           got     == Append(d.got, item)
           channel == Tail(d.channel)
<1>1. /\ d \in Download /\ InOrder(d) /\ Faithful(d) /\ stream \in [Streams -> Download]
      /\ d.open /\ d.channel # <<>>
      /\ d.pc \in {"read", "send", "over"}
  BY DEF StreamInv, Receive, InOrder, Download
<1>2. /\ d.channel \in Seq(Item) /\ d.got \in Seq(Chunks) /\ d.manifest \in Seq(Chunks)
      /\ Len(d.got) \in Nat /\ Len(d.channel) \in Nat /\ Len(d.manifest) \in Nat
  BY <1>1, ManifestType DEF Download
<1>3. /\ item = d.channel[1] /\ 1 \in 1..Len(d.channel)
      /\ channel \in Seq(Item) /\ Len(channel) = Len(d.channel) - 1
      /\ \A k \in 1..Len(channel) : channel[k] = d.channel[k + 1]
  BY <1>1, <1>2
<1>4. CASE item = MISSING
  <2>1. stream' = [stream EXCEPT ![s] = [Dropped(d) EXCEPT !.got = d.got]]
    <3>1. [Dropped(d) EXCEPT !.got = d.got] = Dropped(d)
      BY <1>1 DEF Dropped, Download
    <3>2. QED
      BY <1>4, <3>1 DEF Receive
  <2>2. Len(d.got) <= Len(d.manifest) /\ \A k \in 1..Len(d.got) : d.got[k] = d.manifest[k]
    BY <1>1 DEF InOrder
  <2>3. QED
    BY <1>1, <1>2, <2>1, <2>2, DropStep
<1>5. CASE item # MISSING
  <2>1. /\ item = d.manifest[Len(d.got) + 1]
        /\ Len(d.got) + Len(d.channel) <= Len(d.manifest)
        /\ \A k \in 1..Len(d.got) : d.got[k] = d.manifest[k]
    BY <1>1, <1>3, <1>5 DEF InOrder
  <2>2. Len(d.got) + 1 \in 1..Len(d.manifest) /\ item \in Chunks
    <3>1. Len(d.channel) >= 1
      BY <1>2, <1>3
    <3>2. Len(d.got) + 1 \in 1..Len(d.manifest)
      <4> DEFINE g == Len(d.got)
                 c == Len(d.channel)
                 l == Len(d.manifest)
      <4>1. g \in Nat /\ c \in Nat /\ l \in Nat /\ c >= 1 /\ g + c <= l
        BY <1>2, <2>1, <3>1
      <4> HIDE DEF g, c, l
      <4>2. g + 1 \in 1..l
        BY <4>1
      <4>3. QED
        BY <4>2 DEF g, l
    <3>3. QED
      BY <1>2, <2>1, <3>2, SMTT(60)
  <2>3. /\ got \in Seq(Chunks) /\ Len(got) = Len(d.got) + 1
        /\ \A k \in 1..Len(d.got) : got[k] = d.got[k]
        /\ got[Len(d.got) + 1] = item
    BY <1>2, <2>2
  <2> HIDE DEF got, channel, item
  <2>4. Len(got) <= Len(d.manifest) /\ \A k \in 1..Len(got) : got[k] = d.manifest[k]
    <3> DEFINE g == Len(d.got)
    <3>1. g \in Nat
      BY <1>2
    <3>2. /\ item = d.manifest[g + 1] /\ g + 1 <= Len(d.manifest)
          /\ \A k \in 1..g : d.got[k] = d.manifest[k]
          /\ Len(got) = g + 1 /\ got[g + 1] = item
          /\ \A k \in 1..g : got[k] = d.got[k]
      BY <2>1, <2>2, <2>3
    <3> HIDE DEF g
    <3>3. \A k \in 1..g + 1 : k = g + 1 \/ k \in 1..g
      BY <3>1
    <3>4. QED
      BY <3>2, <3>3
  <2>5. CASE Len(got) = d.size
    <3>1. stream' = [stream EXCEPT ![s] = [Dropped(d) EXCEPT !.got = got]]
      BY <1>5, <2>5 DEF Receive, got, item
    <3>2. QED
      BY <1>1, <2>3, <2>4, <3>1, DropStep
  <2>6. CASE Len(got) # d.size
    <3>0. stream' = [stream EXCEPT ![s] = [d EXCEPT !.got = got, !.channel = channel]]
      BY <1>1, <1>5, <2>6 DEF Receive, got, item, channel
    <3>1. /\ e = [d EXCEPT !.got = got, !.channel = channel]
          /\ \A q \in Streams \ {s} : stream'[q] = stream[q]
      BY <1>1, <3>0
    <3>2. e \in Download
      <4>1. got \in Seq(Chunks) /\ channel \in Seq(Item)
        BY <1>3, <2>3 DEF channel
      <4>2. d \in Download
        BY <1>1
      <4>3. QED
        BY <3>1, <4>1, <4>2 DEF Download
    <3>3. stream' \in [Streams -> Download]
      BY <1>1, <3>0, <3>1, <3>2
    <3>4. /\ e.pc = d.pc /\ e.got = got /\ e.channel = channel /\ e.next = d.next /\ e.item = d.item
          /\ e.open /\ e.manifest = d.manifest /\ e.asked = d.asked /\ e.size = d.size
      BY <1>1, <3>1 DEF Download
    <3>5. InOrder(e)
      <4> DEFINE g == Len(d.got)
                 c == Len(d.channel)
                 l == Len(d.manifest)
      <4>1. /\ c <= VERSION_STREAM_CHUNKS
            /\ g + c <= l
            /\ \A k \in 1..c : \/ d.channel[k] = d.manifest[g + k]
                               \/ d.channel[k] = MISSING /\ k = c /\ d.pc = "over"
            /\ d.pc = "read" => d.next = g + c + 1
            /\ d.pc = "send" => /\ d.next = g + c + 2
                                /\ g + c + 1 <= l
                                /\ d.item = MISSING \/ d.item = d.manifest[g + c + 1]
        BY <1>1 DEF InOrder
      <4>2. /\ g \in Nat /\ c \in Nat \ {0} /\ l \in Nat
            /\ Len(channel) = c - 1 /\ Len(got) = g + 1
            /\ \A k \in 1..(c - 1) : channel[k] = d.channel[k + 1]
        BY <1>2, <1>3, <2>3
      <4>3. Len(e.got) = g + 1 /\ Len(e.channel) = c - 1 /\ Len(e.manifest) = l
        BY <3>4, <4>2
      <4> HIDE DEF g, c, l
      <4>4. ASSUME NEW k \in 1..(c - 1)
            PROVE  \/ channel[k] = d.manifest[(g + 1) + k]
                   \/ channel[k] = MISSING /\ k = c - 1 /\ d.pc = "over"
        <5>1. k + 1 \in 1..c /\ g + (k + 1) = (g + 1) + k /\ (k + 1 = c => k = c - 1)
          BY <4>2
        <5>2. QED
          BY <4>1, <4>2, <5>1
      <4>5. (g + 1) + (c - 1) = g + c /\ c - 1 <= VERSION_STREAM_CHUNKS
        <5>1. g \in Nat /\ c \in Nat \ {0} /\ c <= VERSION_STREAM_CHUNKS /\ VERSION_STREAM_CHUNKS \in Nat
          BY <4>1, <4>2, StreamConstants
        <5>2. QED
          BY ONLY <5>1
      <4>6. \A k \in 1..Len(e.channel) :
              \/ e.channel[k] = e.manifest[Len(e.got) + k]
              \/ e.channel[k] = MISSING /\ k = Len(e.channel) /\ e.pc = "over"
        BY <3>4, <4>3, <4>4
      <4>7. /\ e.pc \in {"read", "send", "over"} /\ e.open
            /\ Len(e.got) <= Len(e.manifest)
            /\ \A k \in 1..Len(e.got) : e.got[k] = e.manifest[k]
            /\ Len(e.channel) <= VERSION_STREAM_CHUNKS
            /\ Len(e.got) + Len(e.channel) <= Len(e.manifest)
        BY <1>1, <2>4, <3>4, <4>1, <4>3, <4>5
      <4>8. /\ e.pc = "read" => e.next = Len(e.got) + Len(e.channel) + 1
            /\ e.pc = "send" =>
                 /\ e.next = Len(e.got) + Len(e.channel) + 2
                 /\ Len(e.got) + Len(e.channel) + 1 <= Len(e.manifest)
                 /\ e.item = MISSING \/ e.item = e.manifest[Len(e.got) + Len(e.channel) + 1]
        BY <3>4, <4>1, <4>3, <4>5
      <4> HIDE DEF d, e
      <4>9. QED
        BY <4>6, <4>7, <4>8 DEF InOrder
    <3>6. Faithful(e)
      BY <1>1, <3>4 DEF Faithful
    <3>7. QED
      BY <3>1, <3>3, <3>5, <3>6, OwnStep
  <2>7. QED
    BY <2>5, <2>6
<1>6. QED
  BY <1>4, <1>5

LEMMA HangUpStep ==
  ASSUME StreamInv, NEW s \in Streams, UNCHANGED contentVars, HangUp(s) \/ EndOfBody(s)
  PROVE  StreamInv'
<1> DEFINE d == stream[s]
<1>1. d \in Download /\ InOrder(d) /\ d.open
  BY DEF StreamInv, HangUp, EndOfBody
<1>2. stream' = [stream EXCEPT ![s] = Dropped(d)]
  BY DEF HangUp, EndOfBody
<1>3. [Dropped(d) EXCEPT !.got = d.got] = Dropped(d)
  BY <1>1 DEF Dropped, Download
<1>4. /\ d.got \in Seq(Chunks) /\ Len(d.got) <= Len(d.manifest)
      /\ \A k \in 1..Len(d.got) : d.got[k] = d.manifest[k]
  BY <1>1 DEF InOrder, Download
<1>5. QED
  BY <1>1, <1>2, <1>3, <1>4, DropStep

-----------------------------------------------------------------------------
(* The steps of other requests                                             *)

\* What a step of another request leaves of what a download knows.
LEMMA OthersKeepFaith ==
  ASSUME StreamInv, VersionsStep, ContentInv', NEW s \in Streams, Disown
  PROVE  InOrder(stream[s])' /\ Faithful(stream[s])'
<1> DEFINE d == stream[s]
           e == stream'[s]
<1>1. d \in Download /\ InOrder(d) /\ Faithful(d) /\ stream \in [Streams -> Download]
  BY DEF StreamInv
<1>2. CASE d.pc = "load" /\ Reissued(d)
  <2>1. e = [d EXCEPT !.asked = {}]
    BY <1>2 DEF Disown, Is
  <2>2. /\ e.pc = "load" /\ e.got = d.got /\ e.channel = d.channel /\ e.next = d.next
        /\ e.open = d.open /\ e.manifest = d.manifest /\ e.asked = {} /\ e.size = d.size
    BY <1>1, <1>2, <2>1 DEF Download
  <2>3. InOrder(e)
    BY <1>1, <1>2, <2>2 DEF InOrder
  <2>4. Faithful(d)'
    BY <2>2 DEF Faithful
  <2>5. InOrder(d)'
    BY <2>3 DEF InOrder
  <2>6. QED
    BY <2>4, <2>5
<1>3. ASSUME d.pc = "load", d.asked # {}, ~Reissued(d)
      PROVE  /\ d.version \in Nat
             /\ d.orphan => d.version \notin DOMAIN versions'
             /\ ~d.orphan /\ d.node \notin DOMAIN nodes' => d.version \notin DOMAIN versions'
             /\ ~d.orphan /\ d.node \in DOMAIN nodes' => \A m \in d.asked :
                  \/ /\ d.version \in DOMAIN versions' /\ versions'[d.version].node = d.node
                     /\ versions'[d.version].chunks = m
                  \/ d.version \notin DOMAIN versions' /\ d.version < nodes'[d.node].current
  <2>1. d.version \in Nat
    <3>1. d.version \in VersionIds \cup {NULL}
      BY <1>1 DEF Download
    <3>2. VersionIds \cup {NULL} \subseteq Nat
      BY MetaConstants DEF NULL
    <3>3. QED
      BY <3>1, <3>2
  <2>2. d.orphan => d.version \notin DOMAIN versions'
    BY <1>1, <1>3 DEF Faithful, Reissued
  <2>3. ASSUME ~d.orphan, NEW m \in d.asked
        PROVE  /\ d.node \notin DOMAIN nodes' => d.version \notin DOMAIN versions'
               /\ d.node \in DOMAIN nodes' =>
                    \/ /\ d.version \in DOMAIN versions' /\ versions'[d.version].node = d.node
                       /\ versions'[d.version].chunks = m
                    \/ d.version \notin DOMAIN versions' /\ d.version < nodes'[d.node].current
    <3>1. d.node \in DOMAIN nodes
      BY <1>1, <1>3, <2>3 DEF Faithful
    <3>2. CASE d.version \in VersionsOf(d.node) /\ versions[d.version].chunks = m
      <4>1. CASE d.version \in DOMAIN versions'
        <5>1. versions'[d.version] = versions[d.version] /\ versions[d.version].node = d.node
          BY <2>1, <3>2, <4>1 DEF VersionsStep, RowsStay, VersionsOf
        <5>2. d.node \in DOMAIN nodes'
          BY <4>1, <5>1 DEF ContentInv, MetaInv, ReferentialIntegrity
        <5>3. QED
          BY <3>2, <4>1, <5>1, <5>2
      <4>2. CASE d.version \notin DOMAIN versions'
        BY <3>1, <3>2, <4>2 DEF VersionsStep, PrunedIsOld
      <4>3. QED
        BY <4>1, <4>2
    <3>3. CASE d.version \notin DOMAIN versions /\ d.version < nodes[d.node].current
      <4> DEFINE c == nodes[d.node].current
      <4>1. c \in Nat
        BY <3>1, IdsAreNumbers DEF StreamInv, ContentInv
      <4>2. c \in DOMAIN versions
        BY <2>1, <3>1, <3>3, <4>1 DEF StreamInv, ContentInv, MetaInv, ReferentialIntegrity, VersionsOf, NULL
      <4>3. d.version \notin DOMAIN versions'
        BY <2>1, <3>3, <4>1, <4>2 DEF VersionsStep, RowsStay
      <4>4. ASSUME d.node \in DOMAIN nodes' PROVE d.version < nodes'[d.node].current
        <5>1. nodes'[d.node].current \in Nat /\ c <= nodes'[d.node].current
          BY <3>1, <4>4, MetaConstants DEF VersionsStep, CurrentGrows, ContentInv, MetaInv, MetaTypeOK,
             NodeRow, NULL
        <5>2. QED
          BY <2>1, <3>3, <4>1, <5>1
      <4>5. QED
        BY <4>3, <4>4
    <3>4. QED
      BY <1>1, <1>3, <2>3, <3>2, <3>3 DEF Faithful
  <2>4. QED
    BY <1>3, <2>1, <2>2, <2>3
<1>4. CASE d.pc = "load" /\ ~Reissued(d) /\ d.node \notin DOMAIN nodes'
  <2>1. e = [d EXCEPT !.orphan = TRUE]
    BY <1>4 DEF Disown, Is
  <2>2. /\ e.pc = "load" /\ e.got = d.got /\ e.channel = d.channel /\ e.next = d.next
        /\ e.open = d.open /\ e.manifest = d.manifest /\ e.asked = d.asked /\ e.size = d.size
        /\ e.version = d.version /\ e.orphan
    BY <1>1, <1>4, <2>1 DEF Download
  <2>3. InOrder(e)
    BY <1>1, <1>4, <2>2 DEF InOrder
  <2>4. d.asked # {} => d.version \notin DOMAIN versions'
    BY <1>3, <1>4
  <2>5. Faithful(d)'
    BY <1>1, <1>4, <2>2, <2>4 DEF Faithful
  <2>6. InOrder(d)'
    BY <2>3 DEF InOrder
  <2>7. QED
    BY <2>5, <2>6
<1>5. CASE d.pc = "load" => ~Reissued(d) /\ d.node \in DOMAIN nodes'
  <2>1. e = d
    BY <1>5 DEF Disown, Is
  <2>2. Faithful(d)'
    BY <1>1, <1>3, <1>5, <2>1 DEF Faithful, VersionsOf
  <2>3. InOrder(d)'
    BY <1>1, <2>1 DEF InOrder
  <2>4. QED
    BY <2>2, <2>3
<1>6. QED
  BY <1>2, <1>4, <1>5

\* A request beside the downloads: what a version number means may change,
\* what a download has been told of it does not.
LEMMA RequestBeside ==
  ASSUME StreamInv, [ContentNext]_contentVars, Disown
  PROVE  StreamInv'
<1>1. ContentInv' /\ NamesAreNames' /\ [MetaNext]_metaVars
  BY ContentStep, NamesStep, RequestIsCall DEF StreamInv
<1>2. VersionsStep
  BY <1>1, MetaStepKeepsIds DEF StreamInv, ContentInv
<1>3. stream' \in [Streams -> Download]
  <2>1. ASSUME NEW s \in Streams
        PROVE  [stream[s] EXCEPT !.asked = {}] \in Download /\ [stream[s] EXCEPT !.orphan = TRUE] \in Download
    BY ZenonT(40) DEF StreamInv, Download
  <2>2. QED
    BY <2>1 DEF Disown, StreamInv
<1>4. ASSUME NEW s \in Streams PROVE InOrder(stream[s])' /\ Faithful(stream[s])'
  BY <1>1, <1>2, OthersKeepFaith
<1>5. QED
  BY <1>1, <1>2, <1>3, <1>4 DEF StreamInv, VersionsStep

LEMMA StreamRestartStep ==
  ASSUME StreamInv, Restart, stream' = [s \in Streams |-> NoDownload]
  PROVE  StreamInv'
<1>1. ContentInv' /\ NamesAreNames' /\ nodes' = nodes /\ versions' = versions
  BY ContentStep, NamesStep DEF StreamInv, ContentNext, Restart, metaVars
<1>2. IdsFollowNumbers'
  BY <1>1 DEF StreamInv, IdsFollowNumbers
<1>3. stream' \in [Streams -> Download]
  BY NoDownloadIsSound
<1>4. ASSUME NEW s \in Streams PROVE InOrder(stream[s])' /\ Faithful(stream[s])'
  <2>1. stream'[s] = NoDownload
    OBVIOUS
  <2>2. InOrder(stream[s])'
    BY <2>1, NoDownloadIsSound DEF InOrder
  <2>3. Faithful(stream[s])'
    BY <2>1 DEF Faithful, NoDownload
  <2>4. QED
    BY <2>2, <2>3
<1>5. QED
  BY <1>1, <1>2, <1>3, <1>4 DEF StreamInv

LEMMA StreamInitInv == StreamInit => StreamInv
<1> SUFFICES ASSUME StreamInit PROVE StreamInv
  OBVIOUS
<1>1. ContentInv
  BY ContentInitInv DEF StreamInit
<1>2. NamesAreNames
  BY DEF StreamInit, ContentInit, NamesAreNames, At, Idle
<1>3. IdsFollowNumbers
  BY DEF StreamInit, ContentInit, MetaInit, IdsFollowNumbers
<1>4. stream \in [Streams -> Download] /\ \A s \in Streams : InOrder(stream[s]) /\ Faithful(stream[s])
  BY NoDownloadIsSound DEF StreamInit
<1>5. QED
  BY <1>1, <1>2, <1>3, <1>4 DEF StreamInv

\* A step with downloads is a step of the requests, or leaves them alone.
LEMMA DownloadsStandAside == [StreamNext]_streamVars => [ContentNext]_contentVars
BY DEF StreamNext, streamVars, contentVars, ContentNext

\* Every step of every download and of every request beside it keeps the invariant.
THEOREM StreamStepInv == StreamInv /\ [StreamNext]_streamVars => StreamInv'
<1> SUFFICES ASSUME StreamInv, [StreamNext]_streamVars PROVE StreamInv'
  OBVIOUS
<1>1. ASSUME NEW s \in Streams, StreamStep(s), UNCHANGED contentVars PROVE StreamInv'
  <2>1. ASSUME NotServed(s) \/ Forget(s) PROVE StreamInv'
    BY <1>1, <2>1, ForgetStep DEF NotServed, Forget
  <2>2. QED
    BY <1>1, <2>1, ResolveStep, FindStep, LoadStep, NextChunkStep, SendStep, ReceiveStep, HangUpStep
       DEF StreamStep
<1>2. ASSUME NEW p \in Procs, PutNext(p) \/ CopyNext(p) \/ VersionNext(p) \/ GcNext(p) \/ Fail(p), Disown
      PROVE  StreamInv'
  <2>1. ContentNext
    BY <1>2 DEF ContentNext
  <2>2. QED
    BY <1>2, <2>1, RequestBeside
<1>3. CASE Restart /\ stream' = [s \in Streams |-> NoDownload]
  BY <1>3, StreamRestartStep
<1>4. CASE UNCHANGED streamVars
  <2>1. UNCHANGED contentVars /\ stream' = stream /\ nodes' = nodes /\ versions' = versions
    BY <1>4 DEF streamVars, contentVars
  <2>2. ContentInv' /\ NamesAreNames'
    BY <2>1, ContentStep, NamesStep DEF StreamInv
  <2>3. IdsFollowNumbers'
    BY <2>1, ZenonT(60) DEF StreamInv, IdsFollowNumbers
  <2>4. stream' \in [Streams -> Download]
    BY <2>1 DEF StreamInv
  <2>5. ASSUME NEW s \in Streams PROVE InOrder(stream[s])' /\ Faithful(stream[s])'
    <3>1. InOrder(stream[s]) /\ Faithful(stream[s])
      BY DEF StreamInv
    <3>2. stream'[s] = stream[s] /\ nodes' = nodes /\ versions' = versions
      BY <2>1
    <3>3. InOrder(stream[s])'
      BY <3>1, <3>2, ZenonT(60) DEF InOrder
    <3>4. Faithful(stream[s])'
      BY <3>1, <3>2, ZenonT(60) DEF Faithful, VersionsOf
    <3>5. QED
      BY <3>3, <3>4
  <2>6. QED
    BY <2>2, <2>3, <2>4, <2>5 DEF StreamInv
<1>5. QED
  BY <1>1, <1>2, <1>3, <1>4 DEF StreamNext

\* Whatever clients, requests and garbage collection do, the invariant holds.
THEOREM StreamInvariant == StreamSpec => []StreamInv
<1>1. StreamInit => StreamInv
  BY StreamInitInv
<1>2. StreamInv /\ [StreamNext]_streamVars => StreamInv'
  BY StreamStepInv
<1>3. QED
  BY <1>1, <1>2, PTL DEF StreamSpec

\* Downloads hold nothing up and change nothing: with any number of them the
\* requests do what they do without, and all that is shown of ContentSpec holds.
THEOREM StreamIsContent == StreamSpec => ContentSpec
<1>1. StreamInit => ContentInit
  BY DEF StreamInit
<1>2. [StreamNext]_streamVars => [ContentNext]_contentVars
  BY DownloadsStandAside
<1>3. QED
  BY <1>1, <1>2, PTL DEF StreamSpec, ContentSpec

\* The channel between the blocking task and the body never holds more chunks
\* than its capacity, and everything has its type.
THEOREM StreamsAreTyped == StreamSpec => []StreamTypeOK
<1>1. StreamInv => StreamTypeOK
  BY DEF StreamInv, ContentInv, MetaInv, ContentTypeOK, StreamTypeOK, InOrder
<1>2. QED
  BY <1>1, StreamInvariant, PTL

LEMMA InOrderIsInOrder ==
  ASSUME NEW d \in Download, InOrder(d), NEW k \in DOMAIN (d.got \o d.channel)
  PROVE  /\ k \in DOMAIN d.manifest
         /\ \/ (d.got \o d.channel)[k] = d.manifest[k]
            \/ (d.got \o d.channel)[k] = MISSING /\ k = Len(d.got \o d.channel)
<1> DEFINE sent == d.got \o d.channel
           g    == Len(d.got)
           c    == Len(d.channel)
           l    == Len(d.manifest)
<1>1. d.got \in Seq(Item) /\ d.channel \in Seq(Item) /\ d.manifest \in Seq(Chunks)
  <2>1. d.got \in Seq(Chunks) /\ Chunks \subseteq Item /\ d.channel \in Seq(Item) /\ d.manifest \in Manifests
    BY DEF Download, Item
  <2>2. QED
    BY <2>1, ManifestType
<1>2. /\ Len(sent) = g + c /\ DOMAIN sent = 1..g + c /\ DOMAIN d.manifest = 1..l
      /\ \A i \in 1..g : sent[i] = d.got[i]
      /\ \A i \in 1..c : sent[g + i] = d.channel[i]
  <2>1. sent \in Seq(Item) /\ Len(sent) = g + c
    BY <1>1
  <2>2. DOMAIN sent = 1..g + c /\ DOMAIN d.manifest = 1..l
    BY <1>1, <2>1
  <2>0. g \in Nat /\ c \in Nat
    BY <1>1
  <2>3. \A i \in 1..g + c : sent[i] = IF i <= g THEN d.got[i] ELSE d.channel[i - g]
    BY <1>1, ConcatProperties, Zenon
  <2> HIDE DEF sent, g, c
  <2>4. ASSUME NEW i \in 1..g PROVE sent[i] = d.got[i]
    BY <2>0, <2>3
  <2>5. ASSUME NEW i \in 1..c PROVE sent[g + i] = d.channel[i]
    <3>1. g + i \in 1..g + c /\ ~(g + i <= g) /\ (g + i) - g = i
      BY <2>0
    <3>2. QED
      BY <2>3, <3>1
  <2>6. QED
    BY <2>1, <2>2, <2>4, <2>5
<1>3. g \in Nat /\ c \in Nat /\ l \in Nat /\ (~d.open => c = 0)
  BY <1>1 DEF InOrder
<1>4. /\ g <= l
      /\ \A i \in 1..g : d.got[i] = d.manifest[i]
      /\ d.open => /\ g + c <= l
                   /\ \A i \in 1..c : d.channel[i] = d.manifest[g + i] \/ (d.channel[i] = MISSING /\ i = c)
  BY DEF InOrder
<1>5. k \in 1..g + c
  BY <1>2
<1> HIDE DEF g, c, l, sent
<1> DEFINE placed == k \in 1..l /\ (sent[k] = d.manifest[k] \/ (sent[k] = MISSING /\ k = g + c))
<1>6. ASSUME k \in 1..g PROVE placed
  <2>1. g <= l
    BY <1>4, Zenon
  <2>2. k \in 1..l
    BY <1>3, <1>6, <2>1
  <2>3. sent[k] = d.manifest[k]
    BY <1>2, <1>4, <1>6, Zenon
  <2>4. QED
    BY <2>2, <2>3, Zenon
<1>7. ASSUME k \notin 1..g PROVE placed
  <2>1. PICK i \in 1..c : k = g + i
    <3>1. k - g \in 1..c /\ k = g + (k - g)
      BY <1>3, <1>5, <1>7
    <3>2. QED
      BY <3>1
  <2>2. d.open
    BY <1>3, <2>1
  <2>3. k \in 1..l /\ (i = c => k = g + c)
    BY <1>3, <1>4, <2>1, <2>2
  <2>4. sent[k] = d.channel[i]
    BY <1>2, <2>1, Zenon
  <2>5. d.channel[i] = d.manifest[k] \/ (d.channel[i] = MISSING /\ i = c)
    BY <1>4, <2>1, <2>2, Zenon
  <2>6. QED
    BY <2>3, <2>4, <2>5, Zenon
<1>8. placed
  BY <1>6, <1>7, Zenon
<1>9. /\ k \in DOMAIN d.manifest
      /\ sent[k] = d.manifest[k] \/ (sent[k] = MISSING /\ k = Len(sent))
  BY <1>2, <1>8, Zenon
<1>10. QED
  BY <1>9, Zenon DEF sent

\* Whatever fails and whoever hangs up, a client never gets a chunk out of
\* its place, and never one after an error.
THEOREM DownloadsKeepOrder == StreamSpec => []StreamsInOrder
<1>1. StreamInv => StreamsInOrder
  BY InOrderIsInOrder DEF StreamInv, StreamsInOrder
<1>2. QED
  BY <1>1, StreamInvariant, PTL

\* A download as long as announced is the version asked for, though this is
\* pruned, or its file deleted, and its chunks are collected meanwhile. It takes a
\* file deleted and the row id of its version given out again, both between the
\* lookup of the number and the load of the manifest, to make it another's.
THEOREM DownloadsAreRight == StreamSpec => []CompleteIsRight
<1>1. StreamInv => CompleteIsRight
  <2> SUFFICES ASSUME StreamInv, NEW s \in Streams,
                      stream[s].pc \in {"read", "send", "over"}, Len(stream[s].got) = stream[s].size,
                      NEW m \in stream[s].asked
               PROVE  m = stream[s].got
    BY DEF CompleteIsRight
  <2> DEFINE d == stream[s]
  <2>1. d \in Download /\ InOrder(d) /\ Faithful(d)
    BY DEF StreamInv
  <2>2. m \in Seq(Chunks) /\ d.got \in Seq(Chunks)
    BY <2>1, ManifestType DEF Download
  <2>3. Len(m) = Len(d.got)
    BY <2>1 DEF Faithful
  <2>4. CASE d.manifest = m
    <3>1. \A k \in 1..Len(m) : m[k] = d.got[k]
      BY <2>1, <2>3, <2>4 DEF InOrder
    <3>2. QED
      BY <2>2, <2>3, <3>1
  <2>5. CASE d.manifest = <<>>
    <3>1. Len(d.got) <= 0
      BY <2>1, <2>5 DEF InOrder
    <3>2. Len(m) = 0 /\ Len(d.got) = 0
      BY <2>2, <2>3, <3>1
    <3>3. QED
      BY <2>2, <3>2
  <2>6. QED
    BY <2>1, <2>4, <2>5 DEF Faithful
<1>2. QED
  BY <1>1, StreamInvariant, PTL
=============================================================================
