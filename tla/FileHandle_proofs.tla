------------------------- MODULE FileHandle_proofs -------------------------
(***************************************************************************)
(* Open files are plain bytes with a position, whatever the chunks of      *)
(* their manifests, the cache of a reader and the staging file of a writer *)
(* do: FileHandle implements ByteFile, for any number of handles, contents *)
(* of any length and any way to cut them.                                  *)
(***************************************************************************)
EXTENDS FileHandle, SequenceTheorems, WellFoundedInduction, TLAPS

-----------------------------------------------------------------------------
(* Manifests                                                               *)

\* A set of numbers has a least one.
LEMMA Least ==
  ASSUME NEW S, S \subseteq Nat, S # {}
  PROVE  \E x \in S : \A y \in S : x <= y
<1>1. PICK x \in S : \A y \in S : ~(<<y, x>> \in OpToRel(<, Nat))
  BY NatLessThanWellFounded, WFMin
<1>2. \A y \in S : ~(y < x)
  BY <1>1 DEF OpToRel
<1>3. QED
  BY <1>2

\* A chunk of a manifest has its type, is not empty, and begins where the last one ends.
LEMMA ChunkFacts ==
  ASSUME NEW m, IsManifest(m), NEW i \in 1..Len(m)
  PROVE  /\ m[i].offset \in Nat /\ m[i].data \in Seq(Bytes) /\ Len(m[i].data) \in Nat \ {0}
         /\ End(m[i]) \in Nat /\ End(m[i]) = m[i].offset + Len(m[i].data)
         /\ i = 1 => m[i].offset = 0
         /\ i # 1 => i - 1 \in 1..Len(m) /\ m[i].offset = End(m[i - 1])
<1>1. m[i] \in Chunk /\ i \in DOMAIN m /\ Len(m) \in Nat
  BY DEF IsManifest
<1>2. m[i].offset \in Nat /\ m[i].data \in Seq(Bytes)
  BY <1>1 DEF Chunk
<1>3. m[i].data # <<>> /\ m[i].offset = IF i = 1 THEN 0 ELSE End(m[i - 1])
  BY <1>1 DEF IsManifest
<1>4. Len(m[i].data) \in Nat \ {0}
  BY <1>2, <1>3, EmptySeq
<1>5. i # 1 => i - 1 \in 1..Len(m)
  BY <1>1
<1> DEFINE l == Len(m[i].data)
<1>6. End(m[i]) = m[i].offset + l
  BY DEF End
<1>7. m[i].offset + l \in Nat
  <2>1. l \in Nat
    BY <1>4
  <2> HIDE DEF l
  <2>2. QED
    BY <1>2, <2>1
<1>8. QED
  BY <1>2, <1>3, <1>4, <1>5, <1>6, <1>7

\* Of two chunks the earlier ends before the later begins.
LEMMA ChunksInOrder ==
  ASSUME NEW m, IsManifest(m), NEW i \in 1..Len(m), NEW j \in 1..Len(m), i < j
  PROVE  End(m[i]) <= m[j].offset
<1> DEFINE Bad == {k \in 1..Len(m) : i < k /\ ~(End(m[i]) <= m[k].offset)}
<1>1. ASSUME NEW k \in Bad, \A y \in Bad : k <= y PROVE FALSE
  <2>1. k \in 1..Len(m) /\ i < k /\ ~(End(m[i]) <= m[k].offset) /\ Len(m) \in Nat
    BY DEF IsManifest
  <2>2. k - 1 \in 1..Len(m) /\ m[k].offset = End(m[k - 1])
    BY <2>1, ChunkFacts
  <2>3. /\ End(m[i]) \in Nat
        /\ m[k - 1].offset \in Nat /\ End(m[k - 1]) \in Nat /\ m[k - 1].offset <= End(m[k - 1])
    <3>1. ASSUME NEW x \in 1..Len(m) PROVE m[x].offset \in Nat /\ End(m[x]) \in Nat /\ m[x].offset <= End(m[x])
      <4> DEFINE l == Len(m[x].data)
      <4>1. m[x].offset \in Nat /\ l \in Nat /\ End(m[x]) = m[x].offset + l
        BY ChunkFacts
      <4> HIDE DEF l
      <4>2. QED
        BY <4>1
    <3>2. QED
      BY <2>2, <3>1
  <2>4. CASE k - 1 = i
    BY <2>1, <2>2, <2>3, <2>4
  <2>5. CASE k - 1 # i
    <3>1. k - 1 \notin Bad
      BY <1>1, <2>1
    <3>2. End(m[i]) <= m[k - 1].offset
      BY <2>1, <2>2, <2>5, <3>1
    <3>3. QED
      BY <2>1, <2>2, <2>3, <3>2
  <2>6. QED
    BY <2>4, <2>5
<1>2. Bad = {}
  <2>1. Bad \subseteq Nat
    BY DEF IsManifest
  <2>2. QED
    BY <1>1, <2>1, Least
<1>3. QED
  BY <1>2

\* One chunk at most has the byte at a position.
LEMMA ChunkAlone ==
  ASSUME NEW m, IsManifest(m), NEW i \in 1..Len(m), NEW j \in 1..Len(m), NEW p \in Nat,
         Holds(m[i], p), Holds(m[j], p)
  PROVE  i = j
<1>1. /\ m[i].offset \in Nat /\ End(m[i]) \in Nat
      /\ m[j].offset \in Nat /\ End(m[j]) \in Nat
  BY ChunkFacts
<1>2. CASE i < j
  BY <1>1, <1>2, ChunksInOrder DEF Holds
<1>3. CASE j < i
  BY <1>1, <1>3, ChunksInOrder DEF Holds
<1>4. Len(m) \in Nat
  BY DEF IsManifest
<1>5. QED
  BY <1>2, <1>3, <1>4

\* The total size is the end of the last chunk, and no chunk ends later.
LEMMA SizeFacts ==
  ASSUME NEW m, IsManifest(m)
  PROVE  /\ TotalSize(m) \in Nat
         /\ \A i \in 1..Len(m) : End(m[i]) <= TotalSize(m)
         /\ m # <<>> => Len(m) \in 1..Len(m) /\ TotalSize(m) = End(m[Len(m)])
<1>1. m \in Seq(Chunk) /\ Len(m) \in Nat
  BY DEF IsManifest
<1>2. CASE m = <<>>
  BY <1>2 DEF TotalSize
<1>3. CASE m # <<>>
  <2>1. Len(m) \in 1..Len(m)
    <3>1. Len(m) \in Nat \ {0}
      BY <1>1, <1>3, EmptySeq
    <3>2. QED
      BY <3>1
  <2>2. TotalSize(m) = End(m[Len(m)])
    BY <1>3 DEF TotalSize
  <2>3. ASSUME NEW i \in 1..Len(m) PROVE End(m[i]) <= End(m[Len(m)])
    <3>1. CASE i = Len(m)
      BY <2>1, <3>1, ChunkFacts
    <3>2. CASE i < Len(m)
      <4>1. End(m[i]) <= m[Len(m)].offset
        BY <2>1, <3>2, ChunksInOrder
      <4> DEFINE l == Len(m[Len(m)].data)
      <4>2. /\ m[Len(m)].offset \in Nat /\ l \in Nat /\ End(m[Len(m)]) = m[Len(m)].offset + l
            /\ End(m[i]) \in Nat
        BY <2>1, ChunkFacts
      <4> HIDE DEF l
      <4>3. QED
        BY <4>1, <4>2
    <3>3. QED
      BY <1>1, <3>1, <3>2
  <2>4. QED
    BY <2>1, <2>2, <2>3, ChunkFacts
<1>4. QED
  BY <1>2, <1>3

\* Every byte of a file is in a chunk.
LEMMA ChunkThere ==
  ASSUME NEW m, IsManifest(m), NEW p \in Nat, p < TotalSize(m)
  PROVE  \E i \in 1..Len(m) : Holds(m[i], p)
<1> DEFINE After == {i \in 1..Len(m) : p < End(m[i])}
<1>1. After # {} /\ After \subseteq Nat
  <2>1. m # <<>>
    BY DEF TotalSize
  <2>2. Len(m) \in After
    BY <2>1, SizeFacts
  <2>3. QED
    BY <2>2 DEF IsManifest
<1>2. PICK i \in After : \A j \in After : i <= j
  BY <1>1, Least
<1>3. i \in 1..Len(m) /\ p < End(m[i]) /\ Len(m) \in Nat
  BY DEF IsManifest
<1>4. m[i].offset <= p
  <2>1. CASE i = 1
    BY <1>3, <2>1, ChunkFacts
  <2>2. CASE i # 1
    <3>1. i - 1 \in 1..Len(m) /\ m[i].offset = End(m[i - 1]) /\ End(m[i - 1]) \in Nat
      BY <1>3, <2>2, ChunkFacts
    <3>2. i - 1 \notin After
      BY <1>2, <1>3
    <3>3. QED
      BY <3>1, <3>2
  <2>3. QED
    BY <2>1, <2>2
<1>5. QED
  BY <1>3, <1>4 DEF Holds

\* The binary search finds the one chunk with the byte.
LEMMA ChunkFound ==
  ASSUME NEW m, IsManifest(m), NEW p \in Nat, p < TotalSize(m)
  PROVE  ChunkAt(m, p) \in 1..Len(m) /\ Holds(m[ChunkAt(m, p)], p)
<1>1. DOMAIN m = 1..Len(m)
  BY DEF IsManifest
<1>2. \E i \in DOMAIN m : Holds(m[i], p)
  BY <1>1, ChunkThere
<1>3. QED
  BY <1>1, <1>2 DEF ChunkAt

\* A chunk has its part of the content.
LEMMA ContentOfChunk ==
  ASSUME NEW m, IsManifest(m), NEW i \in 1..Len(m), NEW j \in 1..Len(m[i].data)
  PROVE  /\ m[i].offset + j \in 1..TotalSize(m)
         /\ Content(m)[m[i].offset + j] = m[i].data[j]
<1> DEFINE l == Len(m[i].data)
           o == m[i].offset
           k == o + j
<1>1. o \in Nat /\ l \in Nat /\ End(m[i]) = o + l /\ End(m[i]) <= TotalSize(m) /\ TotalSize(m) \in Nat
  BY ChunkFacts, SizeFacts
<1>2. j \in 1..l
  OBVIOUS
<1> HIDE DEF l
<1>3. k \in 1..TotalSize(m) /\ k - 1 \in Nat /\ k - o = j
  <2> HIDE DEF o
  <2>1. QED
    BY <1>1, <1>2
<1>4. Holds(m[i], k - 1)
  BY <1>1, <1>2 DEF Holds
<1> HIDE DEF k
<1>5. (CHOOSE x \in DOMAIN m : Holds(m[x], k - 1)) = i
  <2>1. DOMAIN m = 1..Len(m)
    BY DEF IsManifest
  <2>2. \A x \in DOMAIN m : Holds(m[x], k - 1) <=> x = i
    BY <1>3, <1>4, <2>1, ChunkAlone
  <2>3. QED
    BY <2>1, <2>2
<1>6. Content(m)[k] = m[i].data[k - m[i].offset]
  BY <1>3, <1>5 DEF Content
<1>7. QED
  BY <1>3, <1>6 DEF k

\* The content is as many bytes as the manifest has.
LEMMA ContentType ==
  ASSUME NEW m, IsManifest(m)
  PROVE  Content(m) \in Seq(Bytes) /\ Len(Content(m)) = TotalSize(m) /\ DOMAIN Content(m) = 1..TotalSize(m)
<1>1. TotalSize(m) \in Nat
  BY SizeFacts
<1>2. DOMAIN Content(m) = 1..TotalSize(m) /\ Content(m) = [k \in 1..TotalSize(m) |-> Content(m)[k]]
  BY DEF Content
<1>3. ASSUME NEW k \in 1..TotalSize(m) PROVE Content(m)[k] \in Bytes
  <2>1. k - 1 \in Nat /\ k - 1 < TotalSize(m)
    BY <1>1
  <2>2. PICK i \in 1..Len(m) : Holds(m[i], k - 1)
    BY <2>1, ChunkThere
  <2> DEFINE j == k - m[i].offset
             l == Len(m[i].data)
  <2>3. m[i].offset \in Nat /\ l \in Nat /\ End(m[i]) = m[i].offset + l /\ m[i].data \in Seq(Bytes)
    BY ChunkFacts
  <2>4. j \in 1..l /\ m[i].offset + j = k
    <3> HIDE DEF l
    <3>1. QED
      BY <1>1, <2>2, <2>3 DEF Holds
  <2>5. Content(m)[k] = m[i].data[j]
    BY <2>4, ContentOfChunk
  <2>6. QED
    BY <2>3, <2>4, <2>5, ElementOfSeq
<1>4. Content(m) \in [1..TotalSize(m) -> Bytes]
  BY <1>2, <1>3
<1>5. QED
  BY <1>1, <1>2, <1>4

-----------------------------------------------------------------------------
(* The invariant                                                           *)

\* A reader is where it began, at the end or beyond it, or in the chunk
\* before the next.
ReaderOK(m, r) ==
  /\ r \in Reader
  /\ r.next \in 1..Len(m) + 1 /\ r.cursor <= Len(r.chunk)
  /\ \/ r.chunk = <<>> /\ r.next = 1 /\ r.base = 0
     \/ r.chunk = <<>> /\ r.next = Len(m) + 1 /\ TotalSize(m) <= r.base
     \/ r.next # 1 /\ r.chunk = m[r.next - 1].data /\ r.base = m[r.next - 1].offset

CacheOK(f) ==
  f.cache.index # 0 => /\ f.cache.index \in DOMAIN f.manifest
                       /\ f.cache.data = f.manifest[f.cache.index].data

\* What read_bytes has is what it is to give, up to there.
ReadingOK(f) ==
  LET size == TotalSize(f.manifest) IN
  /\ \E count \in Counts : f.want = Cap(count, size - f.pos)
  /\ f.pos + f.want <= size
  /\ Len(f.filled) <= f.want
  /\ f.filled = SubSeq(Content(f.manifest), f.pos + 1, f.pos + Len(f.filled))

\* The staging file has what new_write has read.
StagingOK(f) ==
  /\ Position(f.reader) <= TotalSize(f.manifest)
  /\ f.temp = SubSeq(Content(f.manifest), 1, Position(f.reader))
  /\ f.cache.index = 0

HandleOK(f) ==
  /\ f \in State /\ IsManifest(f.manifest) /\ ReaderOK(f.manifest, f.reader) /\ CacheOK(f)
  /\ f.mode = "closed" => f = Closed
  /\ f.mode = "reading" => ReadingOK(f)
  /\ f.mode # "reading" => f.want = 0 /\ f.filled = <<>>
  /\ f.mode = "staging" => StagingOK(f)
  /\ f.mode = "write" => Len(f.temp) <= f.len /\ f.cache.index = 0

FileInv ==
  /\ IsManifest(stored)
  /\ file \in [Handles -> State]
  /\ \A h \in Handles : HandleOK(file[h])

-----------------------------------------------------------------------------
(* Parts of contents                                                       *)

\* SubSeq, of n elements after position p.
LEMMA PartOf ==
  ASSUME NEW S, NEW s \in Seq(S), NEW p \in Nat, NEW n \in Nat, p + n <= Len(s)
  PROVE  /\ SubSeq(s, p + 1, p + n) \in Seq(S) /\ Len(SubSeq(s, p + 1, p + n)) = n
         /\ \A i \in 1..n : p + i \in 1..Len(s) /\ SubSeq(s, p + 1, p + n)[i] = s[p + i]
<1> DEFINE a == p + 1
           b == p + n
           l == Len(s)
<1>1. l \in Nat /\ a \in Int /\ b \in Int /\ b - a + 1 = n /\ (IF a <= b THEN b - a + 1 ELSE 0) = n
  BY LenProperties
<1>2. \A i \in a..b : i \in 1..l
  BY <1>1
<1>3. \A i \in 1..l : s[i] \in S
  BY LenProperties
<1>4. \A i \in a..b : s[i] \in S
  BY <1>2, <1>3
<1>5. \A i \in 1..n : p + i \in 1..l /\ (a + i) - 1 = p + i
  BY <1>1
<1> HIDE DEF a, b, l
<1>6. /\ SubSeq(s, a, b) \in Seq(S) /\ Len(SubSeq(s, a, b)) = n
      /\ \A i \in 1..n : SubSeq(s, a, b)[i] = s[a + i - 1]
  BY <1>1, <1>4, SubSeqProperties
<1>7. QED
  BY <1>5, <1>6 DEF a, b, l

\* What is read of a chunk is the content there.
LEMMA ChunkBytes ==
  ASSUME NEW m, IsManifest(m), NEW i \in 1..Len(m), NEW p \in Nat, NEW n \in Nat,
         m[i].offset <= p, p + n <= End(m[i])
  PROVE  /\ p + n <= TotalSize(m) /\ p - m[i].offset \in Nat
         /\ SubSeq(m[i].data, p - m[i].offset + 1, p - m[i].offset + n) \in Seq(Bytes)
         /\ Len(SubSeq(m[i].data, p - m[i].offset + 1, p - m[i].offset + n)) = n
         /\ SubSeq(m[i].data, p - m[i].offset + 1, p - m[i].offset + n) = SubSeq(Content(m), p + 1, p + n)
<1>1. PICK l, o, c : l = Len(m[i].data) /\ o = m[i].offset /\ c = p - o
  OBVIOUS
<1>2. /\ o \in Nat /\ l \in Nat /\ End(m[i]) = o + l /\ End(m[i]) <= TotalSize(m) /\ TotalSize(m) \in Nat
      /\ m[i].data \in Seq(Bytes)
  BY <1>1, ChunkFacts, SizeFacts
<1>3. p + n <= TotalSize(m) /\ c \in Nat /\ c + n <= l /\ p = o + c
  <2>1. PICK x : x = End(m[i])
    OBVIOUS
  <2>2. x = o + l /\ x <= TotalSize(m) /\ o <= p /\ p + n <= x /\ c = p - o
    BY <1>1, <1>2, <2>1
  <2>3. o \in Nat /\ l \in Nat /\ TotalSize(m) \in Nat
    BY <1>2
  <2>4. QED
    BY <2>2, <2>3
<1>4. PICK t, u : t = SubSeq(m[i].data, c + 1, c + n) /\ u = SubSeq(Content(m), p + 1, p + n)
  OBVIOUS
<1>5. /\ t \in Seq(Bytes) /\ Len(t) = n
      /\ \A k \in 1..n : c + k \in 1..l /\ t[k] = m[i].data[c + k]
  <2>1. ASSUME NEW d \in Seq(Bytes), NEW q \in Nat, q + n <= Len(d)
        PROVE  /\ SubSeq(d, q + 1, q + n) \in Seq(Bytes) /\ Len(SubSeq(d, q + 1, q + n)) = n
               /\ \A k \in 1..n : q + k \in 1..Len(d) /\ SubSeq(d, q + 1, q + n)[k] = d[q + k]
    BY <2>1, PartOf
  <2>2. QED
    BY <1>1, <1>2, <1>3, <1>4, <2>1
<1>6. /\ u \in Seq(Bytes) /\ Len(u) = n
      /\ \A k \in 1..n : u[k] = Content(m)[p + k]
  <2>1. Content(m) \in Seq(Bytes) /\ p + n <= Len(Content(m))
    BY <1>3, ContentType
  <2>2. ASSUME NEW d \in Seq(Bytes), NEW q \in Nat, q + n <= Len(d)
        PROVE  /\ SubSeq(d, q + 1, q + n) \in Seq(Bytes) /\ Len(SubSeq(d, q + 1, q + n)) = n
               /\ \A k \in 1..n : SubSeq(d, q + 1, q + n)[k] = d[q + k]
    BY <2>2, PartOf
  <2>3. QED
    BY <1>4, <2>1, <2>2
<1>7. ASSUME NEW k \in 1..n PROVE t[k] = u[k]
  <2>1. c + k \in 1..Len(m[i].data)
    BY <1>1, <1>5
  <2>2. Content(m)[m[i].offset + (c + k)] = m[i].data[c + k]
    BY <2>1, ContentOfChunk
  <2>3. o + (c + k) = p + k
    BY <1>2, <1>3
  <2>4. QED
    BY <1>1, <1>5, <1>6, <2>2, <2>3
<1>8. t = u
  BY <1>5, <1>6, <1>7, SeqEqual
<1>9. QED
  BY <1>1, <1>3, <1>4, <1>5, <1>8

\* The empty manifest is that of the empty content.
LEMMA NothingToRead == IsManifest(<<>>) /\ TotalSize(<<>>) = 0 /\ Content(<<>>) = <<>>
<1>1. IsManifest(<<>>)
  <2>1. <<>> \in Seq(Chunk) /\ DOMAIN <<>> = {}
    OBVIOUS
  <2>2. QED
    BY <2>1 DEF IsManifest
<1>2. TotalSize(<<>>) = 0
  BY DEF TotalSize
<1>3. Content(<<>>) \in Seq(Bytes) /\ Len(Content(<<>>)) = 0
  BY <1>1, <1>2, ContentType
<1>4. Content(<<>>) = <<>>
  BY <1>3, EmptySeq
<1>5. QED
  BY <1>1, <1>2, <1>4

-----------------------------------------------------------------------------
(* Storing                                                                 *)

\* However a file is cut, its manifest is one, and gives the file back.
LEMMA StoredWhole ==
  ASSUME NEW bytes \in Seq(Bytes), NEW m \in StoreFile(bytes)
  PROVE  IsManifest(m) /\ Content(m) = bytes
<1> DEFINE size == Len(bytes)
<1>1. PICK n \in 0..size : \E ends \in Cuts(size, n) : m = Chunked(bytes, ends)
  BY DEF StoreFile
<1>2. PICK ends \in Cuts(size, n) : m = Chunked(bytes, ends)
  BY <1>1
<1> DEFINE start(i) == IF i = 1 THEN 0 ELSE ends[i - 1]
<1>3. size \in Nat /\ n \in Nat
  BY LenProperties
<1>4. /\ ends \in [1..n -> 1..size] /\ \A i \in 2..n : ends[i - 1] < ends[i]
      /\ size = IF n = 0 THEN 0 ELSE ends[n]
  BY DEF Cuts
<1>5. m = [i \in 1..n |-> [offset |-> start(i), data |-> SubSeq(bytes, start(i) + 1, ends[i])]]
  BY <1>2, <1>4 DEF Chunked
<1> HIDE DEF size
<1>6. ASSUME NEW i \in 1..n
      PROVE  start(i) \in Nat /\ start(i) < ends[i] /\ ends[i] \in 1..size
  <2>1. ends[i] \in 1..size
    BY <1>4
  <2>2. CASE i = 1
    BY <1>3, <2>1, <2>2
  <2>3. CASE i # 1
    <3>1. i \in 2..n /\ i - 1 \in 1..n
      BY <1>3, <2>3
    <3>2. ends[i - 1] \in 1..size /\ ends[i - 1] < ends[i]
      BY <1>4, <3>1
    <3>3. QED
      BY <1>3, <2>1, <2>3, <3>2
  <2>4. QED
    BY <2>2, <2>3
<1>7. ASSUME NEW i \in 1..n
      PROVE  /\ m[i].offset = start(i) /\ m[i].data \in Seq(Bytes) /\ Len(m[i].data) = ends[i] - start(i)
             /\ \A k \in 1..ends[i] - start(i) : m[i].data[k] = bytes[start(i) + k]
  <2> DEFINE p == start(i)
             w == ends[i] - start(i)
  <2>1. p \in Nat /\ w \in Nat /\ p + w = ends[i] /\ p + w <= Len(bytes)
    <3>1. p + w <= size
      BY <1>3, <1>6
    <3>2. QED
      BY <1>3, <1>6, <3>1 DEF size
  <2>2. m[i].offset = p /\ m[i].data = SubSeq(bytes, p + 1, p + w)
    BY <1>5, <2>1
  <2> HIDE DEF p, w
  <2>3. m[i].data \in Seq(Bytes) /\ Len(m[i].data) = w /\ \A k \in 1..w : m[i].data[k] = bytes[p + k]
    BY <2>1, <2>2, PartOf
  <2>4. QED
    BY <2>2, <2>3 DEF p, w
<1>8. m \in Seq(Chunk) /\ DOMAIN m = 1..n /\ Len(m) = n
  <2>1. ASSUME NEW i \in 1..n PROVE m[i] \in Chunk
    <3>1. start(i) \in Nat /\ m[i].data \in Seq(Bytes)
      BY <1>6, <1>7
    <3>2. m[i] = [offset |-> start(i), data |-> m[i].data]
      BY <1>5
    <3> HIDE DEF start
    <3>3. QED
      BY <3>1, <3>2 DEF Chunk
  <2>2. m \in [1..n -> Chunk]
    BY <1>5, <2>1
  <2>3. QED
    BY <1>3, <2>2
<1>9. ASSUME NEW i \in 1..n PROVE End(m[i]) = ends[i]
  <2> DEFINE l == Len(m[i].data)
  <2>1. l = ends[i] - start(i) /\ m[i].offset = start(i) /\ End(m[i]) = m[i].offset + l
    BY <1>7 DEF End
  <2> HIDE DEF l
  <2>2. QED
    BY <1>6, <2>1
<1>10. IsManifest(m)
  <2>1. ASSUME NEW i \in 1..n
        PROVE  m[i].data # <<>> /\ m[i].offset = IF i = 1 THEN 0 ELSE End(m[i - 1])
    <3>1. m[i].data # <<>>
      <4>1. Len(m[i].data) # 0
        BY <1>3, <1>6, <1>7
      <4>2. QED
        BY <4>1
    <3>2. i # 1 => i - 1 \in 1..n
      BY <1>3
    <3>3. QED
      BY <1>7, <1>9, <3>1, <3>2
  <2>2. QED
    BY <1>8, <2>1 DEF IsManifest
<1>11. TotalSize(m) = size
  <2>1. CASE n = 0
    <3>1. m = <<>>
      BY <1>8, <2>1, EmptySeq
    <3>2. QED
      BY <1>4, <2>1, <3>1 DEF TotalSize
  <2>2. CASE n # 0
    <3>1. n \in 1..n /\ m # <<>>
      BY <1>3, <1>8, <2>2
    <3>2. QED
      BY <1>4, <1>8, <1>9, <2>2, <3>1 DEF TotalSize
  <2>3. QED
    BY <2>1, <2>2
<1>12. ASSUME NEW k \in 1..size PROVE Content(m)[k] = bytes[k]
  <2>1. k - 1 \in Nat /\ k - 1 < TotalSize(m)
    BY <1>3, <1>11
  <2>2. PICK i \in 1..n : Holds(m[i], k - 1)
    BY <1>8, <1>10, <2>1, ChunkThere
  <2> DEFINE j == k - start(i)
  <2>3. m[i].offset = start(i) /\ End(m[i]) = ends[i] /\ start(i) \in Nat /\ ends[i] \in 1..size
    BY <1>6, <1>7, <1>9
  <2>4. j \in 1..ends[i] - start(i) /\ start(i) + j = k
    <3>1. start(i) <= k - 1 /\ k - 1 < ends[i]
      BY <2>2, <2>3 DEF Holds
    <3> HIDE DEF start
    <3>2. QED
      BY <1>3, <2>3, <3>1
  <2> HIDE DEF j
  <2>5. j \in 1..Len(m[i].data) /\ i \in 1..Len(m) /\ m[i].offset + j = k
    BY <1>7, <1>8, <2>3, <2>4
  <2>6. Content(m)[k] = m[i].data[j]
    BY <1>10, <2>5, ContentOfChunk
  <2>7. m[i].data[j] = bytes[start(i) + j]
    BY <1>7, <2>4
  <2>8. QED
    BY <2>4, <2>6, <2>7
<1>13. Content(m) \in Seq(Bytes) /\ Len(Content(m)) = size
  BY <1>10, <1>11, ContentType
<1>14. QED
  BY <1>10, <1>12, <1>13, SeqEqual DEF size

-----------------------------------------------------------------------------
(* ManifestReader                                                          *)

\* The fields of a reader and of the manifest it reads.
LEMMA ReaderFacts ==
  ASSUME NEW m, IsManifest(m), NEW r, ReaderOK(m, r)
  PROVE  /\ r.chunk \in Seq(Bytes) /\ Len(r.chunk) \in Nat /\ r.cursor \in Nat /\ r.base \in Nat
         /\ r.next \in Nat /\ Len(m) \in Nat /\ Position(r) \in Nat
         /\ r = [chunk |-> r.chunk, cursor |-> r.cursor, base |-> r.base, next |-> r.next]
<1>1. r \in Reader
  BY DEF ReaderOK
<1>2. r.chunk \in Seq(Bytes) /\ r.cursor \in Nat /\ r.base \in Nat /\ r.next \in Nat
  BY <1>1 DEF Reader
<1>3. r = [chunk |-> r.chunk, cursor |-> r.cursor, base |-> r.base, next |-> r.next]
  BY <1>1 DEF Reader
<1>4. Position(r) \in Nat /\ Len(m) \in Nat /\ Len(r.chunk) \in Nat
  BY <1>2 DEF Position, IsManifest
<1>5. QED
  BY <1>2, <1>3, <1>4

\* A new reader is at position 0.
LEMMA ReaderStarts ==
  ASSUME NEW m, IsManifest(m)
  PROVE  ReaderOK(m, NewReader) /\ Position(NewReader) = 0
<1>1. Len(m) \in Nat /\ <<>> \in Seq(Bytes) /\ Len(<<>>) = 0
  BY DEF IsManifest
<1>2. NewReader \in Reader
  BY <1>1 DEF NewReader, Reader
<1>3. /\ NewReader.next \in 1..Len(m) + 1 /\ NewReader.cursor = 0 /\ NewReader.chunk = <<>>
      /\ NewReader.next = 1 /\ NewReader.base = 0
  BY <1>1 DEF NewReader
<1>4. ReaderOK(m, NewReader)
  BY <1>1, <1>2, <1>3 DEF ReaderOK
<1>5. QED
  BY <1>3, <1>4 DEF Position

\* In a chunk, c bytes from its start.
LEMMA ReaderInChunk ==
  ASSUME NEW m, IsManifest(m), NEW i \in 1..Len(m), NEW c \in Nat, c <= Len(m[i].data),
         NEW r, r = [chunk |-> m[i].data, cursor |-> c, base |-> m[i].offset, next |-> i + 1]
  PROVE  ReaderOK(m, r) /\ Position(r) = m[i].offset + c
<1>1. m[i].data \in Seq(Bytes) /\ m[i].offset \in Nat /\ Len(m) \in Nat
  BY ChunkFacts DEF IsManifest
<1>2. i + 1 \in 1..Len(m) + 1 /\ i + 1 # 1 /\ (i + 1) - 1 = i /\ i + 1 \in Nat
  BY <1>1
<1>3. r \in Reader
  BY <1>1, <1>2 DEF Reader
<1>4. r.next \in 1..Len(m) + 1 /\ r.cursor <= Len(r.chunk)
  BY <1>2
<1>5. r.next # 1 /\ r.chunk = m[r.next - 1].data /\ r.base = m[r.next - 1].offset
  BY <1>2
<1>6. ReaderOK(m, r)
  BY <1>3, <1>4, <1>5 DEF ReaderOK
<1>7. QED
  BY <1>6 DEF Position

\* Advance does not change the position, and then there is something to read in
\* the chunk, or nothing at all.
LEMMA ReaderAdvances ==
  ASSUME NEW m, IsManifest(m), NEW r, ReaderOK(m, r)
  PROVE  /\ ReaderOK(m, Advance(m, r)) /\ Position(Advance(m, r)) = Position(r)
         /\ \/ Advance(m, r).cursor < Len(Advance(m, r).chunk)
            \/ Advance(m, r).cursor = Len(Advance(m, r).chunk) /\ TotalSize(m) <= Position(r)
<1> DEFINE l == Len(r.chunk)
<1>1. l \in Nat /\ r.cursor \in Nat /\ r.base \in Nat /\ r.next \in Nat /\ Len(m) \in Nat
  BY ReaderFacts
<1>2. r.cursor <= l /\ r.next \in 1..Len(m) + 1
  BY DEF ReaderOK
<1>3. r.chunk = <<>> => l = 0
  OBVIOUS
\* At the end of the chunk before the next one.
<1>4. ASSUME r.cursor = l, r.next # 1, r.chunk = m[r.next - 1].data, r.base = m[r.next - 1].offset
      PROVE  r.next - 1 \in 1..Len(m) /\ Position(r) = End(m[r.next - 1])
  BY <1>1, <1>2, <1>4 DEF Position, End
<1>5. CASE r.cursor < l
  BY <1>5 DEF Advance
<1>6. CASE r.cursor = l /\ r.next > Len(m)
  <2>1. Advance(m, r) = r
    BY <1>6 DEF Advance
  <2>2. r.next = Len(m) + 1
    BY <1>1, <1>2, <1>6
  <2>3. TotalSize(m) <= Position(r)
    <3>1. CASE r.chunk = <<>> /\ r.next = 1 /\ r.base = 0
      <4>1. Len(m) = 0
        BY <1>1, <2>2, <3>1
      <4>2. m = <<>>
        BY <4>1 DEF IsManifest
      <4>3. QED
        BY <1>1, <4>2 DEF TotalSize, Position
    <3>2. CASE TotalSize(m) <= r.base
      BY <1>1, <3>2, SizeFacts DEF Position
    <3>3. CASE r.next # 1 /\ r.chunk = m[r.next - 1].data /\ r.base = m[r.next - 1].offset
      <4>1. Len(m) \in 1..Len(m) /\ Position(r) = End(m[Len(m)])
        BY <1>1, <1>4, <1>6, <2>2, <3>3
      <4>2. m # <<>>
        BY <4>1
      <4>3. QED
        BY <4>1, <4>2, SizeFacts
    <3>4. QED
      BY <3>1, <3>2, <3>3 DEF ReaderOK
  <2>4. QED
    BY <1>6, <2>1, <2>3
<1>7. CASE r.cursor = l /\ r.next <= Len(m)
  <2> DEFINE i == r.next
  <2>1. i \in 1..Len(m) /\ ~(r.cursor < l)
    BY <1>1, <1>2, <1>7
  <2>2. Advance(m, r) = [chunk |-> m[i].data, cursor |-> 0, base |-> m[i].offset, next |-> i + 1]
    BY <1>1, <1>7, <2>1 DEF Advance
  <2>3. m[i].offset \in Nat /\ Len(m[i].data) \in Nat \ {0}
    BY <2>1, ChunkFacts
  <2>4. ReaderOK(m, Advance(m, r)) /\ Position(Advance(m, r)) = m[i].offset + 0
    BY <2>1, <2>2, <2>3, ReaderInChunk
  <2>5. Position(r) = m[i].offset
    <3>1. CASE r.chunk = <<>> /\ r.next = 1 /\ r.base = 0
      BY <1>1, <1>3, <1>7, <2>1, <3>1, ChunkFacts DEF Position
    <3>2. CASE r.next # 1 /\ r.chunk = m[r.next - 1].data /\ r.base = m[r.next - 1].offset
      BY <1>4, <1>7, <2>1, <3>2, ChunkFacts
    <3>3. r.next # Len(m) + 1
      BY <1>1, <1>7
    <3>4. QED
      BY <3>1, <3>2, <3>3 DEF ReaderOK
  <2>6. Advance(m, r).cursor < Len(Advance(m, r).chunk)
    BY <2>2, <2>3
  <2>7. QED
    BY <2>3, <2>4, <2>5, <2>6
<1>8. QED
  BY <1>1, <1>2, <1>5, <1>6, <1>7

\* A read of a reader that is at position p gives the next n bytes.
Gives(m, p, count, n, e) ==
  /\ n \in 0..count
  /\ e.out \in Seq(Bytes) /\ Len(e.out) = n /\ e.out = SubSeq(Content(m), p + 1, p + n)
  /\ ReaderOK(m, e.reader) /\ Position(e.reader) = p + n
  /\ IF n = 0 THEN count = 0 \/ TotalSize(m) <= p ELSE p + n <= TotalSize(m)

\* A read gives the bytes at the position, none only if none are left, and the
\* position moves as far.
LEMMA ReaderReads ==
  ASSUME NEW m, IsManifest(m), NEW r, ReaderOK(m, r), NEW count \in Nat
  PROVE  \E n \in Nat : Gives(m, Position(r), count, n, ReaderRead(m, r, count))
<1>0. PICK a, p, e, l, n :
         /\ a = Advance(m, r) /\ p = Position(r) /\ e = ReaderRead(m, r, count)
         /\ l = Len(a.chunk) /\ n = Cap(count, l - a.cursor)
  OBVIOUS
<1>1. /\ ReaderOK(m, a) /\ Position(a) = p /\ p \in Nat
      /\ a.cursor < l \/ (a.cursor = l /\ TotalSize(m) <= p)
  BY <1>0, ReaderAdvances, ReaderFacts
<1>2. /\ a.chunk \in Seq(Bytes) /\ a.cursor \in Nat /\ l \in Nat /\ a.base \in Nat /\ a.next \in Nat
      /\ Len(m) \in Nat /\ a.base + a.cursor = p
      /\ a = [chunk |-> a.chunk, cursor |-> a.cursor, base |-> a.base, next |-> a.next]
  BY <1>0, <1>1, ReaderFacts DEF Position
<1>3. <<>> \in Seq(Bytes) /\ Len(<<>>) = 0 /\ SubSeq(Content(m), p + 1, p + 0) = <<>>
  BY <1>1, SubSeqEmpty
<1>4. CASE count = 0
  <2>1. e.out = <<>> /\ e.reader = r
    BY <1>0, <1>4 DEF ReaderRead
  <2>2. ReaderOK(m, e.reader) /\ Position(e.reader) = p + 0
    BY <1>0, <1>1, <2>1
  <2>3. Gives(m, p, count, 0, e)
    BY <1>1, <1>3, <1>4, <2>1, <2>2 DEF Gives
  <2>4. QED
    BY <1>0, <2>3
<1>5. CASE count # 0
  <2>1. e.out = SubSeq(a.chunk, a.cursor + 1, a.cursor + n) /\ e.reader = [a EXCEPT !.cursor = a.cursor + n]
    BY <1>0, <1>5 DEF ReaderRead
  <2>2. e.reader = [chunk |-> a.chunk, cursor |-> a.cursor + n, base |-> a.base, next |-> a.next]
    BY <1>2, <2>1
  <2>3. n \in 0..count /\ n \in Nat /\ (n = 0 <=> a.cursor = l) /\ a.cursor + n <= l /\ a.cursor + n \in Nat
    <3>1. n = IF count <= l - a.cursor THEN count ELSE l - a.cursor
      BY <1>0 DEF Cap
    <3>2. QED
      BY <1>1, <1>2, <1>5, <3>1
  <2>4. CASE n = 0
    <3>1. SubSeq(a.chunk, a.cursor + 1, a.cursor + 0) = <<>> /\ a.cursor + 0 = a.cursor
      BY <1>2, SubSeqEmpty
    <3>2. e.out = <<>> /\ e.reader = a
      BY <1>2, <2>1, <2>2, <2>4, <3>1
    <3>3. TotalSize(m) <= p /\ p + 0 = p
      BY <1>1, <1>2, <2>3, <2>4
    <3>4. Gives(m, p, count, 0, e)
      BY <1>1, <1>3, <3>2, <3>3 DEF Gives
    <3>5. QED
      BY <1>0, <3>4
  <2>5. CASE n # 0
    <3>1. l # 0
      BY <1>2, <2>3, <2>5
    <3>2. a.chunk # <<>>
      BY <1>0, <3>1
    <3>3. /\ a.next \in 1..Len(m) + 1 /\ a.next # 1 /\ a.chunk = m[a.next - 1].data
          /\ a.base = m[a.next - 1].offset
      BY <1>1, <3>2 DEF ReaderOK
    <3>4. PICK i \in 1..Len(m) : a.next = i + 1 /\ a.chunk = m[i].data /\ a.base = m[i].offset
      <4>1. a.next - 1 \in 1..Len(m) /\ a.next = (a.next - 1) + 1
        BY <1>2, <3>3
      <4>2. QED
        BY <3>3, <4>1
    <3>5. /\ a.cursor + n <= Len(m[i].data) /\ p = m[i].offset + a.cursor /\ p - m[i].offset = a.cursor
          /\ m[i].offset <= p /\ p + n <= End(m[i])
      <4>1. l = Len(m[i].data) /\ m[i].offset \in Nat /\ End(m[i]) = m[i].offset + l
        BY <1>0, <3>4, ChunkFacts
      <4>2. QED
        BY <1>2, <2>3, <3>4, <4>1, SMTT(60)
    <3>6. /\ p + n <= TotalSize(m)
          /\ SubSeq(m[i].data, a.cursor + 1, a.cursor + n) \in Seq(Bytes)
          /\ Len(SubSeq(m[i].data, a.cursor + 1, a.cursor + n)) = n
          /\ SubSeq(m[i].data, a.cursor + 1, a.cursor + n) = SubSeq(Content(m), p + 1, p + n)
      <4>1. /\ p + n <= TotalSize(m)
            /\ SubSeq(m[i].data, p - m[i].offset + 1, p - m[i].offset + n) \in Seq(Bytes)
            /\ Len(SubSeq(m[i].data, p - m[i].offset + 1, p - m[i].offset + n)) = n
            /\ SubSeq(m[i].data, p - m[i].offset + 1, p - m[i].offset + n) = SubSeq(Content(m), p + 1, p + n)
        <5>1. /\ p \in Nat /\ n \in Nat /\ m[i].offset <= p /\ p + n <= End(m[i])
          BY <1>1, <2>3, <3>5
        <5>2. QED
          BY <5>1, ChunkBytes
      <4>2. QED
        BY <3>5, <4>1, Zenon
    <3>7. e.reader = [chunk |-> m[i].data, cursor |-> a.cursor + n, base |-> m[i].offset, next |-> i + 1]
      BY <2>2, <3>4
    <3>8. ReaderOK(m, e.reader) /\ Position(e.reader) = m[i].offset + (a.cursor + n)
      BY <2>3, <3>5, <3>7, ReaderInChunk
    <3>9. Position(e.reader) = p + n
      <4>1. PICK o : o = m[i].offset
        OBVIOUS
      <4>2. PICK c : c = a.cursor
        OBVIOUS
      <4>3. o \in Nat /\ c \in Nat /\ n \in Nat
        <5>1. m[i].offset \in Nat
          BY ChunkFacts
        <5>2. QED
          BY <1>2, <2>3, <4>1, <4>2, <5>1
      <4>4. p = o + c /\ Position(e.reader) = o + (c + n)
        BY <3>5, <3>8, <4>1, <4>2
      <4>5. QED
        BY <4>3, <4>4
    <3>10. Gives(m, p, count, n, e)
      BY <2>1, <2>3, <2>5, <3>4, <3>6, <3>8, <3>9 DEF Gives
    <3>11. QED
      BY <1>0, <2>3, <3>10
  <2>6. QED
    BY <2>4, <2>5
<1>6. QED
  BY <1>4, <1>5

\* A seek leads to the position asked for, beyond the end too.
LEMMA ReaderSeeks ==
  ASSUME NEW m, IsManifest(m), NEW pos \in Nat
  PROVE  ReaderOK(m, ReaderSeek(m, pos)) /\ Position(ReaderSeek(m, pos)) = pos
<1> DEFINE r == ReaderSeek(m, pos)
<1>1. TotalSize(m) \in Nat /\ Len(m) \in Nat
  BY SizeFacts DEF IsManifest
<1>2. CASE pos >= TotalSize(m)
  <2>1. r = [chunk |-> <<>>, cursor |-> 0, base |-> pos, next |-> Len(m) + 1]
    BY <1>2 DEF ReaderSeek
  <2> HIDE DEF r
  <2>2. <<>> \in Seq(Bytes) /\ Len(<<>>) = 0 /\ Len(m) + 1 \in 1..Len(m) + 1 /\ Len(m) + 1 \in Nat
    BY <1>1
  <2>3. r \in Reader
    BY <2>1, <2>2 DEF Reader
  <2>4. /\ r.chunk = <<>> /\ r.next = Len(m) + 1 /\ TotalSize(m) <= r.base /\ r.cursor <= Len(r.chunk)
        /\ r.cursor = 0 /\ r.base = pos
    BY <1>1, <1>2, <2>1, <2>2
  <2>5. ReaderOK(m, r)
    BY <2>2, <2>3, <2>4 DEF ReaderOK
  <2>6. QED
    BY <2>4, <2>5 DEF Position, r
<1>3. CASE ~(pos >= TotalSize(m))
  <2> DEFINE i == ChunkAt(m, pos)
  <2>1. pos < TotalSize(m)
    BY <1>1, <1>3
  <2>2. i \in 1..Len(m) /\ Holds(m[i], pos)
    BY <2>1, ChunkFound
  <2>3. r = [chunk |-> m[i].data, cursor |-> pos - m[i].offset, base |-> m[i].offset, next |-> i + 1]
    BY <1>3 DEF ReaderSeek
  <2> HIDE DEF r, i
  <2>4. /\ pos - m[i].offset \in Nat /\ m[i].offset + (pos - m[i].offset) = pos
        /\ pos - m[i].offset <= Len(m[i].data)
    <3> DEFINE l == Len(m[i].data)
    <3>1. m[i].offset \in Nat /\ l \in Nat /\ End(m[i]) = m[i].offset + l
      BY <2>2, ChunkFacts
    <3> HIDE DEF l
    <3>2. pos - m[i].offset \in Nat /\ m[i].offset + (pos - m[i].offset) = pos /\ pos - m[i].offset <= l
      BY <2>2, <3>1 DEF Holds
    <3>3. QED
      BY <3>2 DEF l
  <2>5. QED
    BY <2>2, <2>3, <2>4, ReaderInChunk DEF r
<1>4. QED
  BY <1>2, <1>3

-----------------------------------------------------------------------------
(* The staging file                                                        *)

\* set_len gives a file the length, with zeros beyond what it had.
LEMMA SetLenFacts ==
  ASSUME NEW t \in Seq(Bytes), NEW l \in Nat
  PROVE  /\ SetLen(t, l) \in Seq(Bytes) /\ Len(SetLen(t, l)) = l
         /\ \A i \in 1..l : SetLen(t, l)[i] = IF i <= Len(t) THEN t[i] ELSE ZERO
<1>1. Len(t) \in Nat /\ ZERO \in Bytes
  BY FileConstants
<1>2. SetLen(t, l) = [i \in 1..l |-> IF i <= Len(t) THEN t[i] ELSE ZERO]
  BY DEF SetLen
<1>3. ASSUME NEW i \in 1..l PROVE (IF i <= Len(t) THEN t[i] ELSE ZERO) \in Bytes
  BY <1>1, ElementOfSeq
<1>4. SetLen(t, l) \in [1..l -> Bytes]
  BY <1>2, <1>3
<1>5. QED
  BY <1>2, <1>4

\* To set the same length twice changes nothing more.
LEMMA SetLenAgain ==
  ASSUME NEW t \in Seq(Bytes), NEW l \in Nat
  PROVE  SetLen(SetLen(t, l), l) = SetLen(t, l) /\ SetLen(t, Len(t)) = t
<1>1. ASSUME NEW u \in Seq(Bytes) PROVE SetLen(u, Len(u)) = u
  <2>1. Len(u) \in Nat
    OBVIOUS
  <2>2. SetLen(u, Len(u)) \in Seq(Bytes) /\ Len(SetLen(u, Len(u))) = Len(u)
    BY <2>1, SetLenFacts
  <2>3. \A i \in 1..Len(u) : SetLen(u, Len(u))[i] = u[i]
    BY <2>1, SetLenFacts
  <2>4. QED
    BY <2>2, <2>3, SeqEqual
<1>2. SetLen(t, l) \in Seq(Bytes) /\ Len(SetLen(t, l)) = l
  BY SetLenFacts
<1>3. SetLen(SetLen(t, l), l) = SetLen(t, l)
  BY <1>1, <1>2
<1>4. QED
  BY <1>1, <1>3

\* Writing to the staging file is writing to what it stands for.
LEMMA WriteIsOverwrite ==
  ASSUME NEW t \in Seq(Bytes), NEW l \in Nat, Len(t) <= l, NEW at \in Nat, NEW buf \in Seq(Bytes)
  PROVE  \E end \in Nat, max \in Nat :
           /\ end = at + Len(buf) /\ max = IF end > l THEN end ELSE l
           /\ WriteAt(t, at, buf) \in Seq(Bytes) /\ Len(WriteAt(t, at, buf)) <= max
           /\ SetLen(WriteAt(t, at, buf), max) = File!Overwrite(SetLen(t, l), at, buf)
<1>0. PICK end \in Nat : end = at + Len(buf)
  <2>1. at + Len(buf) \in Nat
    OBVIOUS
  <2>2. QED
    BY <2>1
<1>11. PICK max \in Nat : max = IF end > l THEN end ELSE l
  OBVIOUS
<1>1. PICK n, k, w, s, u, v :
        /\ n = Len(t) /\ k = Len(buf) /\ w = WriteAt(t, at, buf) /\ s = SetLen(t, l)
        /\ u = SetLen(w, max) /\ v = File!Overwrite(s, at, buf)
  OBVIOUS
<1>2. /\ n \in Nat /\ k \in Nat /\ n <= l /\ end = at + k /\ max = (IF end > l THEN end ELSE l)
      /\ (k = 0 <=> buf = <<>>) /\ ZERO \in Bytes
  BY <1>0, <1>11, <1>1, EmptySeq, FileConstants
<1>3. /\ s \in Seq(Bytes) /\ Len(s) = l
      /\ \A i \in 1..l : s[i] = IF i <= n THEN t[i] ELSE ZERO
  BY <1>1, SetLenFacts
<1>4. v = [i \in 1..max |-> IF i > at /\ i <= end THEN buf[i - at] ELSE IF i <= l THEN s[i] ELSE ZERO]
  BY <1>0, <1>11, <1>1, <1>3 DEF File!Overwrite
<1>5. PICK x \in Nat : x <= max /\ n <= x /\ (k # 0 => end <= x /\ (x = end \/ x = n)) /\ (k = 0 => x = n)
  <2>1. n <= max /\ end <= max
    BY <1>2
  <2>2. CASE k = 0
    BY <1>2, <2>1, <2>2
  <2>3. CASE k # 0 /\ end > n
    BY <1>2, <2>1, <2>3
  <2>4. CASE k # 0 /\ ~(end > n)
    BY <1>2, <2>1, <2>4
  <2>5. QED
    BY <2>2, <2>3, <2>4
<1>6. w \in Seq(Bytes) /\ Len(w) = x
      /\ \A i \in 1..x : w[i] = IF i > at /\ i <= end THEN buf[i - at] ELSE IF i <= n THEN t[i] ELSE ZERO
  <2>1. CASE k = 0
    <3>1. w = t /\ x = n /\ end = at
      BY <1>1, <1>2, <1>5, <2>1 DEF WriteAt
    <3>2. \A i \in 1..n : i <= n /\ ~(i > at /\ i <= end)
      BY <1>2, <3>1
    <3>3. QED
      BY <1>1, <3>1, <3>2
  <2>2. CASE k # 0
    <3>1. x = IF at + Len(buf) > Len(t) THEN at + Len(buf) ELSE Len(t)
      BY <1>1, <1>2, <1>5, <2>2
    <3>2. w = [i \in 1..x |-> IF i > at /\ i <= at + Len(buf) THEN buf[i - at]
                              ELSE IF i <= Len(t) THEN t[i] ELSE ZERO]
      BY <1>1, <1>2, <2>2, <3>1 DEF WriteAt
    <3>3. w = [i \in 1..x |-> IF i > at /\ i <= end THEN buf[i - at] ELSE IF i <= n THEN t[i] ELSE ZERO]
      BY <1>1, <1>2, <3>2
    <3>4. ASSUME NEW i \in 1..x PROVE w[i] \in Bytes
      <4>1. CASE i > at /\ i <= end
        <5>1. i - at \in 1..Len(buf)
          BY <1>1, <1>2, <1>5, <4>1
        <5>2. QED
          BY <3>3, <4>1, <5>1, ElementOfSeq
      <4>2. CASE ~(i > at /\ i <= end) /\ i <= n
        <5>1. i \in 1..Len(t)
          BY <1>1, <4>2
        <5>2. QED
          BY <3>3, <4>2, <5>1, ElementOfSeq
      <4>3. CASE ~(i > at /\ i <= end) /\ ~(i <= n)
        BY <1>2, <3>3, <4>3
      <4>4. QED
        BY <4>1, <4>2, <4>3
    <3>5. w \in [1..x -> Bytes]
      BY <3>3, <3>4
    <3>6. w \in Seq(Bytes) /\ Len(w) = x
      BY <3>5
    <3>7. QED
      BY <3>3, <3>6
  <2>3. QED
    BY <2>1, <2>2
<1>7. u \in Seq(Bytes) /\ Len(u) = max /\ DOMAIN u = 1..max /\ u = [i \in 1..max |-> u[i]]
  <2>1. u \in Seq(Bytes) /\ Len(u) = max
    BY <1>1, <1>6, SetLenFacts
  <2>2. QED
    BY <2>1
<1>8. ASSUME NEW i \in 1..max PROVE u[i] = v[i]
  <2>1. u[i] = IF i <= x THEN w[i] ELSE ZERO
    BY <1>1, <1>6, SetLenFacts
  <2>2. v[i] = IF i > at /\ i <= end THEN buf[i - at] ELSE IF i <= l THEN s[i] ELSE ZERO
    BY <1>4
  <2>3. i > at /\ i <= end => i <= x
    BY <1>2, <1>5
  <2>4. i <= x => i \in 1..x
    BY <1>5
  <2>5. i <= l => i \in 1..l
    OBVIOUS
  <2>6. i <= n => i <= l /\ i <= x
    BY <1>2, <1>5
  <2>7. QED
    BY <1>3, <1>6, <2>1, <2>2, <2>3, <2>4, <2>5, <2>6
<1>9. u = v
  BY <1>4, <1>7, <1>8
<1>10. QED
  BY <1>0, <1>11, <1>1, <1>5, <1>6, <1>9

-----------------------------------------------------------------------------
(* One handle at a time                                                    *)

\* The fields of a state, one by one.
LEMMA StateFields ==
  ASSUME NEW f \in State
  PROVE  /\ f.mode \in {"closed", "read", "reading", "staging", "write", "reader"}
         /\ f.pos \in Nat /\ f.out \in Seq(Bytes) /\ f.manifest \in Seq(Chunk) /\ f.cache \in Cache
         /\ f.want \in Nat /\ f.filled \in Seq(Bytes) /\ f.reader \in Reader /\ f.temp \in Seq(Bytes)
         /\ f.len \in Nat /\ f.append \in BOOLEAN /\ f.dirty \in BOOLEAN
BY DEF State

\* A step that gives a handle the state g gives it, as bytes, what g is as bytes.
LEMMA OneHandle ==
  ASSUME file \in [Handles -> State], NEW h \in Handles, NEW g, g \in State,
         file' = [file EXCEPT ![h] = g],
         \A k \in Handles : HandleOK(file[k]), HandleOK(g)
  PROVE  /\ file' \in [Handles -> State] /\ \A k \in Handles : HandleOK(file'[k])
         /\ [k \in Handles |-> OpenFile(file'[k])]
              = [[k \in Handles |-> OpenFile(file[k])] EXCEPT ![h] = OpenFile(g)]
<1>1. file'[h] = g /\ \A k \in Handles : k # h => file'[k] = file[k]
  OBVIOUS
<1>2. QED
  BY <1>1

\* A handle whose read_bytes fails is as it was, and has no answer.
LEMMA ReadFailsOK ==
  ASSUME NEW f, HandleOK(f), f.mode = "reading",
         NEW g, g = [f EXCEPT !.mode = "read", !.out = <<>>, !.want = 0, !.filled = <<>>]
  PROVE  HandleOK(g) /\ OpenFile(g) = [OpenFile(f) EXCEPT !.out = <<>>]
<1>1. f \in State /\ <<>> \in Seq(Bytes)
  BY DEF HandleOK
<1>2. g \in State
  BY <1>1 DEF State
<1>3. /\ g.mode = "read" /\ g.pos = f.pos /\ g.out = <<>> /\ g.manifest = f.manifest /\ g.cache = f.cache
      /\ g.want = 0 /\ g.filled = <<>> /\ g.reader = f.reader
      /\ g.append = f.append /\ g.dirty = f.dirty
  BY <1>1 DEF State
<1>4. HandleOK(g)
  BY <1>2, <1>3 DEF HandleOK, CacheOK
<1>5. OpenFile(g) = [OpenFile(f) EXCEPT !.out = <<>>]
  BY <1>3 DEF OpenFile
<1>6. QED
  BY <1>4, <1>5

\* A read or a flush that fails.
LEMMA FailsStep ==
  ASSUME NEW h \in Handles, OpenFile(file[h]).mode # "closed",
         [k \in Handles |-> OpenFile(file'[k])]
              = [[k \in Handles |-> OpenFile(file[k])] EXCEPT ![h] = [OpenFile(file[h]) EXCEPT !.out = <<>>]],
         stored' = stored
  PROVE  File!Fails(h)
BY DEF File!Fails, File!IsOpen

\* The bytes of an open file.
LEMMA OpenBytes ==
  ASSUME NEW f, HandleOK(f)
  PROVE  /\ OpenFile(f).bytes \in Seq(Bytes)
         /\ f.mode # "write" => Len(OpenFile(f).bytes) = TotalSize(f.manifest)
<1>1. f.temp \in Seq(Bytes) /\ f.len \in Nat /\ IsManifest(f.manifest)
  BY DEF HandleOK, State
<1>2. SetLen(f.temp, f.len) \in Seq(Bytes)
  BY <1>1, SetLenFacts
<1>3. Content(f.manifest) \in Seq(Bytes) /\ Len(Content(f.manifest)) = TotalSize(f.manifest)
  BY <1>1, ContentType
<1>4. QED
  BY <1>2, <1>3 DEF OpenFile

\* A closed handle is sound.
LEMMA ClosedOK == HandleOK(Closed) /\ OpenFile(Closed) = File!Closed
<1>1. <<>> \in Seq(Bytes) /\ <<>> \in Seq(Chunk) /\ NewReader \in Reader /\ NoCache \in Cache
  <2>1. <<>> \in Seq(Bytes) /\ <<>> \in Seq(Chunk)
    OBVIOUS
  <2>2. QED
    BY <2>1 DEF NewReader, Reader, NoCache, Cache
<1>2. Closed \in State
  BY <1>1 DEF Closed, State
<1>3. ReaderOK(<<>>, NewReader)
  BY NothingToRead, ReaderStarts
<1>4. HandleOK(Closed)
  <2>1. /\ Closed.mode = "closed" /\ Closed.manifest = <<>> /\ Closed.reader = NewReader
        /\ Closed.cache.index = 0 /\ Closed.want = 0 /\ Closed.filled = <<>>
    BY DEF Closed, NoCache
  <2>2. QED
    BY <1>2, <1>3, <2>1, NothingToRead DEF HandleOK, CacheOK
<1>5. OpenFile(Closed) = File!Closed
  BY NothingToRead DEF OpenFile, Closed, File!Closed
<1>6. QED
  BY <1>4, <1>5

\* The fields of a closed handle.
LEMMA ClosedFields ==
  /\ Closed.mode = "closed" /\ Closed.pos = 0 /\ Closed.out = <<>> /\ Closed.manifest = <<>>
  /\ Closed.cache = NoCache /\ Closed.want = 0 /\ Closed.filled = <<>> /\ Closed.reader = NewReader
  /\ Closed.temp = <<>> /\ Closed.len = 0
BY DEF Closed

\* A handle opened for reading is sound, at position 0 of the content.
LEMMA OpenReadOK ==
  ASSUME NEW m, IsManifest(m), NEW mode \in {"read", "reader"},
         NEW g, g = [Closed EXCEPT !.mode = mode, !.manifest = m]
  PROVE  HandleOK(g) /\ OpenFile(g) = [File!Closed EXCEPT !.mode = mode, !.bytes = Content(m)]
<1>1. Closed \in State /\ m \in Seq(Chunk)
  BY ClosedOK DEF HandleOK, IsManifest
<1>2. g \in State
  BY <1>1 DEF State
<1>3. /\ g.mode = mode /\ g.pos = 0 /\ g.out = Closed.out /\ g.manifest = m /\ g.cache = NoCache
      /\ g.want = 0 /\ g.filled = <<>> /\ g.reader = NewReader
      /\ g.append = Closed.append /\ g.dirty = Closed.dirty
  BY <1>1, ClosedFields DEF State
<1>4. ReaderOK(m, NewReader) /\ Position(NewReader) = 0
  BY ReaderStarts
<1>5. HandleOK(g)
  BY <1>2, <1>3, <1>4 DEF HandleOK, CacheOK, NoCache
<1>6. OpenFile(g) = [OpenFile(Closed) EXCEPT !.mode = mode, !.bytes = Content(m)]
  <2>1. OpenFile(g) = [mode |-> mode, bytes |-> Content(m), pos |-> 0, out |-> Closed.out,
                       append |-> Closed.append, dirty |-> Closed.dirty]
    BY <1>3, <1>4 DEF OpenFile
  <2>2. OpenFile(Closed) = [mode |-> "closed", bytes |-> Content(<<>>), pos |-> 0, out |-> Closed.out,
                            append |-> Closed.append, dirty |-> Closed.dirty]
    BY ClosedFields DEF OpenFile
  <2>3. PICK c : c = OpenFile(Closed)
    OBVIOUS
  <2>4. PICK r : r = [c EXCEPT !.mode = mode, !.bytes = Content(m)]
    OBVIOUS
  <2>5. c = [mode |-> "closed", bytes |-> Content(<<>>), pos |-> 0, out |-> Closed.out,
             append |-> Closed.append, dirty |-> Closed.dirty]
    BY <2>2, <2>3
  <2>6. r = [mode |-> mode, bytes |-> Content(m), pos |-> 0, out |-> Closed.out,
             append |-> Closed.append, dirty |-> Closed.dirty]
    BY <2>4, <2>5
  <2>7. QED
    BY <2>1, <2>3, <2>4, <2>6
<1>7. QED
  BY <1>5, <1>6, ClosedOK

\* A handle opened for writing is sound, whether there is something to stage or not.
LEMMA OpenWriteOK ==
  ASSUME NEW append \in BOOLEAN, NEW dirty \in BOOLEAN, NEW mode \in {"staging", "write"},
         NEW m, IsManifest(m),
         NEW g, g = [Closed EXCEPT !.mode = mode, !.manifest = m, !.append = append, !.dirty = dirty]
  PROVE  HandleOK(g)
<1>1. Closed \in State /\ m \in Seq(Chunk)
  BY ClosedOK DEF HandleOK, IsManifest
<1>2. g \in State
  BY <1>1 DEF State
<1>3. /\ g.mode = mode /\ g.pos = 0 /\ g.out = <<>> /\ g.cache.index = 0 /\ g.want = 0 /\ g.filled = <<>>
      /\ g.reader = NewReader /\ g.temp = <<>> /\ g.len = 0 /\ g.manifest = m /\ Len(<<>>) = 0
  BY DEF Closed, NoCache
<1>4. ReaderOK(m, NewReader) /\ Position(NewReader) = 0
  BY ReaderStarts
<1>5. 0 <= TotalSize(m) /\ SubSeq(Content(m), 1, 0) = <<>>
  BY SizeFacts, SubSeqEmpty
<1>6. StagingOK(g)
  BY <1>3, <1>4, <1>5, Zenon DEF StagingOK
<1>7. HandleOK(g)
  BY <1>2, <1>3, <1>4, <1>6 DEF HandleOK, CacheOK
<1>8. QED
  BY <1>7

\* A file is opened for reading or for writing.
LEMMA OpenStep ==
  ASSUME NEW h \in Handles, OpenFile(file[h]) = File!Closed, stored' = stored, NEW g,
         [k \in Handles |-> OpenFile(file'[k])] = [[k \in Handles |-> OpenFile(file[k])] EXCEPT ![h] = g],
         \/ \E mode \in {"read", "reader"} :
              g = [File!Closed EXCEPT !.mode = mode, !.bytes = Content(stored)]
         \/ \E append \in BOOLEAN, truncate \in BOOLEAN :
              LET bytes == IF truncate THEN <<>> ELSE Content(stored) IN
              g = [File!Closed EXCEPT !.mode = "write", !.bytes = bytes, !.append = append,
                                      !.dirty = truncate, !.pos = IF append THEN Len(bytes) ELSE 0]
  PROVE  File!Open(h)
BY DEF File!Open

-----------------------------------------------------------------------------
(* Steps                                                                   *)

\* One handle gets a state that is as it should be.
LEMMA Changed ==
  ASSUME FileInv, NEW h \in Handles, NEW g, HandleOK(g), file' = [file EXCEPT ![h] = g],
         IsManifest(stored')
  PROVE  /\ FileInv'
         /\ [k \in Handles |-> OpenFile(file'[k])]
              = [[k \in Handles |-> OpenFile(file[k])] EXCEPT ![h] = OpenFile(g)]
<1>1. g \in State /\ file \in [Handles -> State] /\ \A k \in Handles : HandleOK(file[k])
  BY DEF HandleOK, FileInv
<1>2. /\ file' \in [Handles -> State] /\ \A k \in Handles : HandleOK(file'[k])
      /\ [k \in Handles |-> OpenFile(file'[k])]
           = [[k \in Handles |-> OpenFile(file[k])] EXCEPT ![h] = OpenFile(g)]
  BY <1>1, OneHandle
<1>3. QED
  BY <1>2 DEF FileInv

\* A step nobody sees.
LEMMA Unseen ==
  ASSUME FileInv, NEW h \in Handles, NEW g, HandleOK(g), file' = [file EXCEPT ![h] = g],
         OpenFile(g) = OpenFile(file[h]), IsManifest(stored')
  PROVE  FileInv' /\ [k \in Handles |-> OpenFile(file'[k])] = [k \in Handles |-> OpenFile(file[k])]
<1>1. /\ FileInv'
      /\ [k \in Handles |-> OpenFile(file'[k])]
           = [[k \in Handles |-> OpenFile(file[k])] EXCEPT ![h] = OpenFile(file[h])]
  BY Changed
<1>2. QED
  BY <1>1

\* What each action does to the invariant and to the bytes.
LEMMA OpenReadDoes ==
  ASSUME FileInv, NEW h \in Handles, OpenRead(h)
  PROVE  FileInv' /\ File!Open(h)
<1>1. file[h] = Closed /\ file \in [Handles -> State] /\ IsManifest(stored) /\ stored' = stored
  BY DEF OpenRead, In, FileInv, HandleOK
<1>2. PICK mode \in {"read", "reader"} : file' = [file EXCEPT ![h].mode = mode, ![h].manifest = stored]
  BY DEF OpenRead
<1>3. PICK g : g = [Closed EXCEPT !.mode = mode, !.manifest = stored]
  OBVIOUS
<1>4. file' = [file EXCEPT ![h] = g]
  BY <1>1, <1>2, <1>3
<1>5. HandleOK(g) /\ OpenFile(g) = [File!Closed EXCEPT !.mode = mode, !.bytes = Content(stored)]
  BY <1>1, <1>3, OpenReadOK
<1>6. FileInv' /\ [k \in Handles |-> OpenFile(file'[k])]
                    = [[k \in Handles |-> OpenFile(file[k])] EXCEPT ![h] = OpenFile(g)]
  BY <1>1, <1>4, <1>5, Changed
<1>7. QED
  BY <1>1, <1>5, <1>6, OpenStep, ClosedOK

LEMMA OpenWriteDoes ==
  ASSUME FileInv, NEW h \in Handles, NEW append \in BOOLEAN, NEW truncate \in BOOLEAN,
         OpenWrite(h, append, truncate)
  PROVE  FileInv' /\ File!Open(h)
<1>1. file[h] = Closed /\ file \in [Handles -> State] /\ IsManifest(stored) /\ stored' = stored
  BY DEF OpenWrite, In, FileInv, HandleOK
<1>2. PICK mode, m, bytes :
        /\ mode = IF truncate THEN "write" ELSE "staging"
        /\ m = IF truncate THEN <<>> ELSE stored
        /\ bytes = IF truncate THEN <<>> ELSE Content(stored)
  OBVIOUS
<1>3. /\ mode \in {"staging", "write"} /\ IsManifest(m)
      /\ bytes = IF mode = "write" THEN <<>> ELSE Content(m)
  BY <1>1, <1>2, NothingToRead
<1>4. PICK g : g = [Closed EXCEPT !.mode = mode, !.manifest = m, !.append = append, !.dirty = truncate]
  OBVIOUS
<1>5. file' = [file EXCEPT ![h] = g]
  BY <1>1, <1>2, <1>4 DEF OpenWrite
<1>6. HandleOK(g)
  BY <1>3, <1>4, OpenWriteOK
<1>7. OpenFile(g) = [File!Closed EXCEPT !.mode = "write", !.bytes = bytes, !.append = append,
                                        !.dirty = truncate, !.pos = IF append THEN Len(bytes) ELSE 0]
  <2>1. ASSUME NEW a, NEW d, g = [Closed EXCEPT !.mode = mode, !.manifest = m, !.append = a, !.dirty = d]
        PROVE  OpenFile(g) = [File!Closed EXCEPT !.mode = "write", !.bytes = bytes, !.append = a,
                                                 !.dirty = d, !.pos = IF a THEN Len(bytes) ELSE 0]
    <3>1. /\ g.mode = mode /\ g.pos = 0 /\ g.out = Closed.out /\ g.manifest = m /\ g.reader = NewReader
          /\ g.temp = <<>> /\ g.len = 0 /\ g.append = a /\ g.dirty = d
      <4>1. Closed \in State
        BY ClosedOK DEF HandleOK
      <4>2. QED
        BY <2>1, <4>1, ClosedFields DEF State
    <3>2. Len(Content(m)) = TotalSize(m) /\ Len(<<>>) = 0
      BY <1>3, ContentType
    <3>3. SetLen(<<>>, 0) = <<>>
      <4>1. <<>> \in Seq(Bytes) /\ 0 \in Nat
        OBVIOUS
      <4>2. SetLen(<<>>, 0) \in Seq(Bytes) /\ Len(SetLen(<<>>, 0)) = 0
        BY <4>1, SetLenFacts
      <4>3. QED
        BY <4>2, EmptySeq
    <3>4. OpenFile(g) = [OpenFile(Closed) EXCEPT !.mode = "write", !.bytes = bytes, !.append = a,
                                                 !.dirty = d, !.pos = IF a THEN Len(bytes) ELSE 0]
      <4>1. OpenFile(g) = [mode |-> "write", bytes |-> bytes, pos |-> IF a THEN Len(bytes) ELSE 0,
                           out |-> Closed.out, append |-> a, dirty |-> d]
        BY <1>3, <3>1, <3>2, <3>3 DEF OpenFile
      <4>2. OpenFile(Closed) = [mode |-> "closed", bytes |-> Content(<<>>), pos |-> 0, out |-> Closed.out,
                                append |-> Closed.append, dirty |-> Closed.dirty]
        BY ClosedFields DEF OpenFile
      <4>3. PICK c : c = OpenFile(Closed)
        OBVIOUS
      <4>4. PICK r : r = [c EXCEPT !.mode = "write", !.bytes = bytes, !.append = a,
                                   !.dirty = d, !.pos = IF a THEN Len(bytes) ELSE 0]
        OBVIOUS
      <4>5. c = [mode |-> "closed", bytes |-> Content(<<>>), pos |-> 0, out |-> Closed.out,
                 append |-> Closed.append, dirty |-> Closed.dirty]
        BY <4>2, <4>3
      <4>6. r = [mode |-> "write", bytes |-> bytes, pos |-> IF a THEN Len(bytes) ELSE 0,
                 out |-> Closed.out, append |-> a, dirty |-> d]
        BY <4>4, <4>5
      <4>7. QED
        BY <4>1, <4>3, <4>4, <4>6
    <3>5. QED
      BY <3>4, ClosedOK
  <2>2. QED
    BY <1>4, <2>1, Zenon
<1>8. FileInv' /\ [k \in Handles |-> OpenFile(file'[k])]
                    = [[k \in Handles |-> OpenFile(file[k])] EXCEPT ![h] = OpenFile(g)]
  BY <1>1, <1>5, <1>6, Changed
<1>9. QED
  BY <1>1, <1>2, <1>7, <1>8, OpenStep, ClosedOK

LEMMA CloseDoes ==
  ASSUME FileInv, NEW h \in Handles, Close(h)
  PROVE  FileInv' /\ File!Close(h)
<1>1. IsManifest(stored') /\ file' = [file EXCEPT ![h] = Closed] /\ stored' = stored
  BY DEF Close, FileInv
<1>2. FileInv' /\ [k \in Handles |-> OpenFile(file'[k])]
                    = [[k \in Handles |-> OpenFile(file[k])] EXCEPT ![h] = OpenFile(Closed)]
  BY <1>1, ClosedOK, Changed
<1>3. QED
  BY <1>1, <1>2, ClosedOK DEF File!Close

LEMMA ReplaceDoes ==
  ASSUME FileInv, NEW bytes \in Contents, Replace(bytes)
  PROVE  FileInv' /\ File!Replace(bytes)
<1>1. bytes \in Seq(Bytes) /\ stored' \in StoreFile(bytes) /\ file' = file
  BY FileConstants DEF Replace
<1>2. IsManifest(stored') /\ Content(stored') = bytes
  BY <1>1, StoredWhole
<1>3. FileInv'
  BY <1>1, <1>2 DEF FileInv
<1>4. QED
  BY <1>1, <1>2, <1>3 DEF File!Replace

\* OpenFile, field by field.
LEMMA OpenFields ==
  ASSUME NEW f
  PROVE  /\ OpenFile(f).out = f.out /\ OpenFile(f).append = f.append /\ OpenFile(f).dirty = f.dirty
         /\ OpenFile(f) = [mode |-> OpenFile(f).mode, bytes |-> OpenFile(f).bytes, pos |-> OpenFile(f).pos,
                           out |-> f.out, append |-> f.append, dirty |-> f.dirty]
BY DEF OpenFile

\* What changes in the bytes, the position and the rest when f becomes g.
LEMMA Edited ==
  ASSUME NEW f, NEW g, g.append = f.append, OpenFile(g).mode = OpenFile(f).mode
  PROVE  OpenFile(g) = [OpenFile(f) EXCEPT !.bytes = OpenFile(g).bytes, !.out = g.out,
                                           !.pos = OpenFile(g).pos, !.dirty = g.dirty]
<1>1. PICK c : c = OpenFile(f)
  OBVIOUS
<1>2. PICK r : r = [c EXCEPT !.bytes = OpenFile(g).bytes, !.out = g.out,
                             !.pos = OpenFile(g).pos, !.dirty = g.dirty]
  OBVIOUS
<1>3. c = [mode |-> OpenFile(f).mode, bytes |-> OpenFile(f).bytes, pos |-> OpenFile(f).pos,
           out |-> f.out, append |-> f.append, dirty |-> f.dirty]
  BY <1>1, OpenFields
<1>4. r = [mode |-> OpenFile(f).mode, bytes |-> OpenFile(g).bytes, pos |-> OpenFile(g).pos,
           out |-> g.out, append |-> f.append, dirty |-> g.dirty]
  BY <1>2, <1>3
<1>5. OpenFile(g) = [mode |-> OpenFile(f).mode, bytes |-> OpenFile(g).bytes, pos |-> OpenFile(g).pos,
                     out |-> g.out, append |-> f.append, dirty |-> g.dirty]
  BY OpenFields
<1>6. QED
  BY <1>1, <1>2, <1>4, <1>5

\* What f becomes when only its position and its answer change.
LEMMA Moved ==
  ASSUME NEW f, NEW g, g.append = f.append, g.dirty = f.dirty, OpenFile(g).mode = OpenFile(f).mode,
         OpenFile(g).bytes = OpenFile(f).bytes
  PROVE  OpenFile(g) = [OpenFile(f) EXCEPT !.out = g.out, !.pos = OpenFile(g).pos]
<1>1. PICK c : c = OpenFile(f)
  OBVIOUS
<1>2. PICK r : r = [c EXCEPT !.out = g.out, !.pos = OpenFile(g).pos]
  OBVIOUS
<1>3. c = [mode |-> OpenFile(f).mode, bytes |-> OpenFile(f).bytes, pos |-> OpenFile(f).pos,
           out |-> f.out, append |-> f.append, dirty |-> f.dirty]
  BY <1>1, OpenFields
<1>4. r = [mode |-> OpenFile(f).mode, bytes |-> OpenFile(f).bytes, pos |-> OpenFile(g).pos,
           out |-> g.out, append |-> f.append, dirty |-> f.dirty]
  BY <1>2, <1>3
<1>5. OpenFile(g) = [mode |-> OpenFile(f).mode, bytes |-> OpenFile(f).bytes, pos |-> OpenFile(g).pos,
                     out |-> g.out, append |-> f.append, dirty |-> f.dirty]
  BY OpenFields
<1>6. QED
  BY <1>1, <1>2, <1>4, <1>5

\* A read of n bytes.
LEMMA ReadStep ==
  ASSUME NEW h \in Handles, OpenFile(file[h]).mode # "closed", NEW count \in Counts,
         NEW n \in 0..File!Left(OpenFile(file[h])),
         IF OpenFile(file[h]).mode = "reader"
         THEN n <= count /\ (n = 0 => count = 0 \/ File!Left(OpenFile(file[h])) = 0)
         ELSE n = File!Cap(count, File!Left(OpenFile(file[h]))),
         [k \in Handles |-> OpenFile(file'[k])]
              = [[k \in Handles |-> OpenFile(file[k])] EXCEPT ![h] = File!Taken(OpenFile(file[h]), n)],
         stored' = stored
  PROVE  File!Read(h)
BY DEF File!Read, File!IsOpen

\* What f becomes when n bytes are read from it.
LEMMA TakenIs ==
  ASSUME NEW f, NEW g, g.append = f.append, g.dirty = f.dirty, OpenFile(g).mode = OpenFile(f).mode,
         OpenFile(g).bytes = OpenFile(f).bytes, NEW n,
         g.out = SubSeq(OpenFile(f).bytes, OpenFile(f).pos + 1, OpenFile(f).pos + n),
         OpenFile(g).pos = OpenFile(f).pos + n
  PROVE  OpenFile(g) = File!Taken(OpenFile(f), n)
<1>1. OpenFile(g) = [OpenFile(f) EXCEPT !.out = g.out, !.pos = OpenFile(g).pos]
  BY Moved, Zenon
<1>2. QED
  BY <1>1 DEF File!Taken

\* How much is left to read.
LEMMA LeftIs ==
  ASSUME NEW f, HandleOK(f)
  PROVE  /\ OpenFile(f).pos \in Nat /\ Len(OpenFile(f).bytes) \in Nat
         /\ File!Left(OpenFile(f)) \in Nat
         /\ File!Left(OpenFile(f)) = IF OpenFile(f).pos < Len(OpenFile(f).bytes)
                                     THEN Len(OpenFile(f).bytes) - OpenFile(f).pos ELSE 0
<1>1. f \in State /\ IsManifest(f.manifest) /\ ReaderOK(f.manifest, f.reader)
  BY DEF HandleOK
<1>2. Position(f.reader) \in Nat /\ TotalSize(f.manifest) \in Nat /\ f.pos \in Nat
  BY <1>1, ReaderFacts, SizeFacts, StateFields
<1>3. OpenFile(f).pos \in Nat
  BY <1>2 DEF OpenFile
<1>4. OpenFile(f).bytes \in Seq(Bytes)
  BY OpenBytes
<1>5. PICK p, l : p = OpenFile(f).pos /\ l = Len(OpenFile(f).bytes)
  OBVIOUS
<1>6. p \in Nat /\ l \in Nat
  BY <1>3, <1>4, <1>5
<1>7. File!Left(OpenFile(f)) = IF p < l THEN l - p ELSE 0
  BY <1>5 DEF File!Left
<1>8. File!Left(OpenFile(f)) \in Nat
  BY <1>6, <1>7
<1>9. QED
  BY <1>5, <1>6, <1>7, <1>8

\* Reading of a manifest that is open for reading.
LEMMA ReadDoneDoes ==
  ASSUME FileInv, NEW h \in Handles, ReadDone(h)
  PROVE  FileInv' /\ File!Read(h)
<1>1. PICK f : f = file[h]
  OBVIOUS
<1>2. /\ HandleOK(f) /\ f.mode = "reading" /\ Len(f.filled) = f.want /\ IsManifest(stored')
      /\ stored' = stored /\ file \in [Handles -> State]
  BY <1>1 DEF FileInv, ReadDone, In
<1>3. PICK g : g = [f EXCEPT !.mode = "read", !.out = f.filled, !.pos = f.pos + f.want,
                             !.want = 0, !.filled = <<>>]
  OBVIOUS
<1>4. file' = [file EXCEPT ![h] = g]
  BY <1>1, <1>2, <1>3 DEF ReadDone
<1>5. /\ f \in State /\ f.pos \in Nat /\ f.want \in Nat /\ f.filled \in Seq(Bytes) /\ <<>> \in Seq(Bytes)
      /\ f.pos + f.want \in Nat
  BY <1>2, StateFields DEF HandleOK
<1>6. g \in State
  BY <1>3, <1>5 DEF State
<1>7. /\ g.mode = "read" /\ g.pos = f.pos + f.want /\ g.out = f.filled /\ g.manifest = f.manifest
      /\ g.cache = f.cache /\ g.want = 0 /\ g.filled = <<>> /\ g.reader = f.reader
      /\ g.append = f.append /\ g.dirty = f.dirty
  BY <1>3, <1>5 DEF State
<1>8. HandleOK(g)
  BY <1>2, <1>6, <1>7 DEF HandleOK, CacheOK
<1>9. /\ OpenFile(f).mode = "read" /\ OpenFile(f).pos = f.pos /\ OpenFile(f).bytes = Content(f.manifest)
      /\ Len(OpenFile(f).bytes) = TotalSize(f.manifest)
      /\ OpenFile(g).mode = "read" /\ OpenFile(g).pos = g.pos /\ OpenFile(g).bytes = Content(f.manifest)
  BY <1>2, <1>7, OpenBytes DEF OpenFile
<1>10. ReadingOK(f)
  BY <1>2 DEF HandleOK
<1>11. OpenFile(g) = File!Taken(OpenFile(f), f.want)
  <2>1. g.out = SubSeq(OpenFile(f).bytes, OpenFile(f).pos + 1, OpenFile(f).pos + f.want)
    BY <1>2, <1>7, <1>9, <1>10 DEF ReadingOK
  <2>2. QED
    BY <1>7, <1>9, <2>1, TakenIs
<1>12. PICK count \in Counts : f.want = Cap(count, TotalSize(f.manifest) - f.pos)
  BY <1>10 DEF ReadingOK
<1>13. f.want = File!Cap(count, File!Left(OpenFile(f))) /\ f.want \in 0..File!Left(OpenFile(f))
  <2>1. PICK p, l, w, e : p = f.pos /\ l = TotalSize(f.manifest) /\ w = f.want /\ e = File!Left(OpenFile(f))
    OBVIOUS
  <2>2. p \in Nat /\ w \in Nat /\ p + w <= l /\ count \in Nat /\ w = IF count <= l - p THEN count ELSE l - p
    BY <1>5, <1>10, <1>12, <2>1, FileConstants DEF ReadingOK, Cap
  <2>3. e = (IF p < l THEN l - p ELSE 0) /\ l \in Nat
    BY <1>2, <1>9, <2>1, LeftIs
  <2>4. w = (IF count <= e THEN count ELSE e) /\ w \in 0..e
    BY <2>2, <2>3
  <2>5. QED
    BY <2>1, <2>4 DEF File!Cap
<1>14. FileInv' /\ [k \in Handles |-> OpenFile(file'[k])]
                     = [[k \in Handles |-> OpenFile(file[k])] EXCEPT ![h] = OpenFile(g)]
  BY <1>2, <1>4, <1>8, Changed
<1>15. File!Read(h)
  <2>1. OpenFile(file[h]).mode = "read" /\ OpenFile(g) = File!Taken(OpenFile(file[h]), f.want)
        /\ f.want = File!Cap(count, File!Left(OpenFile(file[h]))) /\ f.want \in 0..File!Left(OpenFile(file[h]))
    BY <1>1, <1>9, <1>11, <1>13
  <2>2. QED
    BY <1>2, <1>14, <2>1, ReadStep
<1>16. QED
  BY <1>14, <1>15

LEMMA ReadBytesDoes ==
  ASSUME FileInv, NEW h \in Handles, NEW count \in Counts, ReadBytes(h, count)
  PROVE  /\ FileInv'
         /\ File!Read(h) \/ (stored' = stored /\ [k \in Handles |-> OpenFile(file'[k])]
                                                   = [k \in Handles |-> OpenFile(file[k])])
<1>1. PICK f, want : f = file[h] /\ want = Cap(count, TotalSize(f.manifest) - f.pos)
  OBVIOUS
<1>2. /\ HandleOK(f) /\ f.mode = "read" /\ f.want = 0 /\ f.filled = <<>> /\ IsManifest(stored')
      /\ stored' = stored /\ file \in [Handles -> State]
  BY <1>1 DEF FileInv, ReadBytes, In, HandleOK
<1>3. /\ f \in State /\ f.pos \in Nat /\ <<>> \in Seq(Bytes) /\ count \in Nat
      /\ TotalSize(f.manifest) \in Nat
  BY <1>2, StateFields, SizeFacts, FileConstants DEF HandleOK
<1>4. /\ OpenFile(f).mode = "read" /\ OpenFile(f).pos = f.pos /\ OpenFile(f).bytes = Content(f.manifest)
      /\ Len(OpenFile(f).bytes) = TotalSize(f.manifest)
  BY <1>2, OpenBytes DEF OpenFile
<1>5. want = IF count <= TotalSize(f.manifest) - f.pos THEN count ELSE TotalSize(f.manifest) - f.pos
  BY <1>1 DEF Cap
<1>6. CASE f.pos >= TotalSize(f.manifest) \/ want = 0
  <2>1. PICK g : g = [f EXCEPT !.out = <<>>]
    OBVIOUS
  <2>2. file' = [file EXCEPT ![h] = g]
    BY <1>1, <1>2, <1>6, <2>1 DEF ReadBytes, Length, In
  <2>3. g \in State
    BY <1>3, <2>1 DEF State
  <2>4. /\ g.mode = "read" /\ g.pos = f.pos /\ g.out = <<>> /\ g.manifest = f.manifest
        /\ g.cache = f.cache /\ g.want = 0 /\ g.filled = <<>> /\ g.reader = f.reader
        /\ g.append = f.append /\ g.dirty = f.dirty
    BY <1>2, <1>3, <2>1 DEF State
  <2>5. HandleOK(g)
    BY <1>2, <2>3, <2>4 DEF HandleOK, CacheOK
  <2>6. OpenFile(g) = File!Taken(OpenFile(f), 0)
    <3>1. g.out = SubSeq(OpenFile(f).bytes, OpenFile(f).pos + 1, OpenFile(f).pos + 0)
      BY <1>3, <1>4, <2>4, SubSeqEmpty
    <3>2. OpenFile(g).mode = "read" /\ OpenFile(g).pos = f.pos + 0 /\ OpenFile(g).bytes = OpenFile(f).bytes
      BY <1>3, <1>4, <2>4 DEF OpenFile
    <3>3. QED
      BY <1>4, <2>4, <3>1, <3>2, TakenIs
  <2>7. 0 = File!Cap(count, File!Left(OpenFile(f))) /\ 0 \in 0..File!Left(OpenFile(f))
    <3>1. PICK e : e = File!Left(OpenFile(f))
      OBVIOUS
    <3>2. e = (IF f.pos < TotalSize(f.manifest) THEN TotalSize(f.manifest) - f.pos ELSE 0)
      BY <1>2, <1>4, <3>1, LeftIs
    <3>3. 0 = (IF count <= e THEN count ELSE e) /\ 0 \in 0..e
      BY <1>3, <1>5, <1>6, <3>2
    <3>4. QED
      BY <3>1, <3>3 DEF File!Cap
  <2>8. FileInv' /\ [k \in Handles |-> OpenFile(file'[k])]
                      = [[k \in Handles |-> OpenFile(file[k])] EXCEPT ![h] = OpenFile(g)]
    BY <1>2, <2>2, <2>5, Changed
  <2>9. File!Read(h)
    <3>1. OpenFile(file[h]).mode = "read" /\ OpenFile(g) = File!Taken(OpenFile(file[h]), 0)
          /\ 0 = File!Cap(count, File!Left(OpenFile(file[h]))) /\ 0 \in 0..File!Left(OpenFile(file[h]))
      BY <1>1, <1>4, <2>6, <2>7
    <3>2. QED
      BY <1>2, <2>8, <3>1, ReadStep
  <2>10. QED
    BY <2>8, <2>9
<1>7. CASE ~(f.pos >= TotalSize(f.manifest) \/ want = 0)
  <2>1. PICK g : g = [f EXCEPT !.mode = "reading", !.want = want]
    OBVIOUS
  <2>2. file' = [file EXCEPT ![h] = g]
    BY <1>1, <1>2, <1>7, <2>1 DEF ReadBytes, Length, In
  <2>3. want \in Nat /\ f.pos + want <= TotalSize(f.manifest)
    BY <1>3, <1>5, <1>7
  <2>4. g \in State
    BY <1>3, <2>1, <2>3 DEF State
  <2>5. /\ g.mode = "reading" /\ g.pos = f.pos /\ g.out = f.out /\ g.manifest = f.manifest
        /\ g.cache = f.cache /\ g.want = want /\ g.filled = <<>> /\ g.reader = f.reader
        /\ g.append = f.append /\ g.dirty = f.dirty
    BY <1>2, <1>3, <2>1 DEF State
  <2>6. ReadingOK(g)
    <3>1. Len(<<>>) = 0 /\ SubSeq(Content(f.manifest), f.pos + 1, f.pos + 0) = <<>> /\ 0 <= want
      BY <1>3, <2>3, SubSeqEmpty
    <3>2. \E c \in Counts : want = Cap(c, TotalSize(f.manifest) - f.pos)
      BY <1>1
    <3>3. QED
      BY <2>3, <2>5, <3>1, <3>2 DEF ReadingOK
  <2>7. HandleOK(g)
    BY <1>2, <2>4, <2>5, <2>6 DEF HandleOK, CacheOK
  <2>8. OpenFile(g) = OpenFile(file[h])
    BY <1>1, <1>2, <2>5 DEF OpenFile
  <2>9. QED
    BY <1>2, <2>2, <2>7, <2>8, Unseen
<1>8. QED
  BY <1>6, <1>7

LEMMA ReadFailsDoes ==
  ASSUME FileInv, NEW h \in Handles, ReadFails(h)
  PROVE  FileInv' /\ File!Fails(h)
<1>1. PICK f : f = file[h]
  OBVIOUS
<1>2. /\ HandleOK(f) /\ f.mode = "reading" /\ IsManifest(stored') /\ stored' = stored
      /\ file \in [Handles -> State]
  BY <1>1 DEF FileInv, ReadFails, In
<1>3. PICK g : g = [f EXCEPT !.mode = "read", !.out = <<>>, !.want = 0, !.filled = <<>>]
  OBVIOUS
<1>4. file' = [file EXCEPT ![h] = g]
  BY <1>1, <1>2, <1>3 DEF ReadFails
<1>5. HandleOK(g) /\ OpenFile(g) = [OpenFile(f) EXCEPT !.out = <<>>]
  BY <1>2, <1>3, ReadFailsOK
<1>6. FileInv' /\ [k \in Handles |-> OpenFile(file'[k])]
                    = [[k \in Handles |-> OpenFile(file[k])] EXCEPT ![h] = OpenFile(g)]
  BY <1>2, <1>4, <1>5, Changed
<1>7. OpenFile(file[h]).mode # "closed" /\ OpenFile(g) = [OpenFile(file[h]) EXCEPT !.out = <<>>]
  BY <1>1, <1>2, <1>5 DEF OpenFile
<1>8. File!Fails(h)
  BY <1>2, <1>6, <1>7, FailsStep
<1>9. QED
  BY <1>6, <1>8

LEMMA ReadReaderDoes ==
  ASSUME FileInv, NEW h \in Handles, NEW count \in Counts, ReadReader(h, count)
  PROVE  FileInv' /\ File!Read(h)
<1>1. PICK f, r : f = file[h] /\ r = ReaderRead(f.manifest, f.reader, count)
  OBVIOUS
<1>2. /\ HandleOK(f) /\ f.mode = "reader" /\ IsManifest(stored') /\ stored' = stored
      /\ file \in [Handles -> State] /\ IsManifest(f.manifest) /\ ReaderOK(f.manifest, f.reader)
  BY <1>1 DEF FileInv, ReadReader, In, HandleOK
<1>3. count \in Nat /\ f \in State /\ TotalSize(f.manifest) \in Nat /\ Position(f.reader) \in Nat
  BY <1>2, FileConstants, SizeFacts, ReaderFacts DEF HandleOK
<1>4. PICK n \in Nat : Gives(f.manifest, Position(f.reader), count, n, r)
  BY <1>1, <1>2, <1>3, ReaderReads
<1>5. PICK g : g = [f EXCEPT !.out = r.out, !.reader = r.reader]
  OBVIOUS
<1>6. file' = [file EXCEPT ![h] = g]
  BY <1>1, <1>2, <1>5 DEF ReadReader
<1>7. /\ r.out \in Seq(Bytes) /\ r.reader \in Reader /\ ReaderOK(f.manifest, r.reader)
      /\ r.out = SubSeq(Content(f.manifest), Position(f.reader) + 1, Position(f.reader) + n)
      /\ Position(r.reader) = Position(f.reader) + n
  BY <1>4 DEF Gives, ReaderOK
<1>8. g \in State
  BY <1>3, <1>5, <1>7 DEF State
<1>9. /\ g.mode = "reader" /\ g.pos = f.pos /\ g.out = r.out /\ g.manifest = f.manifest
      /\ g.cache = f.cache /\ g.want = f.want /\ g.filled = f.filled /\ g.reader = r.reader
      /\ g.append = f.append /\ g.dirty = f.dirty
  BY <1>2, <1>3, <1>5 DEF State
<1>10. HandleOK(g)
  BY <1>2, <1>7, <1>8, <1>9 DEF HandleOK, CacheOK
<1>11. /\ OpenFile(f).mode = "reader" /\ OpenFile(f).pos = Position(f.reader)
       /\ OpenFile(f).bytes = Content(f.manifest) /\ Len(OpenFile(f).bytes) = TotalSize(f.manifest)
       /\ OpenFile(g).mode = "reader" /\ OpenFile(g).pos = Position(r.reader)
       /\ OpenFile(g).bytes = Content(f.manifest)
  BY <1>2, <1>9, OpenBytes DEF OpenFile
<1>12. OpenFile(g) = File!Taken(OpenFile(f), n)
  <2>1. g.out = SubSeq(OpenFile(f).bytes, OpenFile(f).pos + 1, OpenFile(f).pos + n)
    BY <1>7, <1>9, <1>11
  <2>2. QED
    BY <1>7, <1>9, <1>11, <2>1, TakenIs
<1>13. /\ n <= count /\ (n = 0 => count = 0 \/ File!Left(OpenFile(f)) = 0)
       /\ n \in 0..File!Left(OpenFile(f))
  <2>1. PICK p, l, e : p = Position(f.reader) /\ l = TotalSize(f.manifest) /\ e = File!Left(OpenFile(f))
    OBVIOUS
  <2>2. p \in Nat /\ l \in Nat /\ e = IF p < l THEN l - p ELSE 0
    BY <1>2, <1>3, <1>11, <2>1, LeftIs
  <2>3. n <= count /\ IF n = 0 THEN count = 0 \/ l <= p ELSE p + n <= l
    BY <1>3, <1>4, <2>1 DEF Gives
  <2>4. n <= count /\ (n = 0 => count = 0 \/ e = 0) /\ n \in 0..e
    BY <2>2, <2>3
  <2>5. QED
    BY <2>1, <2>4
<1>14. FileInv' /\ [k \in Handles |-> OpenFile(file'[k])]
                     = [[k \in Handles |-> OpenFile(file[k])] EXCEPT ![h] = OpenFile(g)]
  BY <1>2, <1>6, <1>10, Changed
<1>15. File!Read(h)
  <2>1. /\ OpenFile(file[h]).mode = "reader" /\ OpenFile(g) = File!Taken(OpenFile(file[h]), n)
        /\ n <= count /\ (n = 0 => count = 0 \/ File!Left(OpenFile(file[h])) = 0)
        /\ n \in 0..File!Left(OpenFile(file[h]))
    BY <1>1, <1>11, <1>12, <1>13
  <2>2. QED
    BY <1>2, <1>14, <2>1, ReadStep
<1>16. QED
  BY <1>14, <1>15

\* What is read from the staging file is there as well once its length is set.
LEMMA StagedPart ==
  ASSUME NEW t \in Seq(Bytes), NEW l \in Nat, Len(t) <= l, NEW p \in Nat, NEW n \in Nat,
         n > 0 => p + n <= Len(t)
  PROVE  /\ SubSeq(t, p + 1, p + n) \in Seq(Bytes)
         /\ SubSeq(t, p + 1, p + n) = SubSeq(SetLen(t, l), p + 1, p + n)
<1>1. PICK s, k : s = SetLen(t, l) /\ k = Len(t)
  OBVIOUS
<1>2. k \in Nat /\ s \in Seq(Bytes) /\ Len(s) = l /\ \A i \in 1..l : s[i] = IF i <= k THEN t[i] ELSE ZERO
  <2>1. /\ SetLen(t, l) \in Seq(Bytes) /\ Len(SetLen(t, l)) = l
        /\ \A i \in 1..l : SetLen(t, l)[i] = IF i <= Len(t) THEN t[i] ELSE ZERO
    BY SetLenFacts
  <2>2. Len(t) \in Nat
    OBVIOUS
  <2>3. QED
    BY <1>1, <2>1, <2>2
<1>3. CASE n = 0
  <2>1. SubSeq(t, p + 1, p + 0) = <<>> /\ SubSeq(s, p + 1, p + 0) = <<>> /\ <<>> \in Seq(Bytes)
    BY SubSeqEmpty
  <2>2. QED
    BY <1>1, <1>3, <2>1
<1>4. CASE n # 0
  <2>1. p + n <= Len(t) /\ p + n <= Len(s) /\ p + n <= k
    BY <1>1, <1>2, <1>4
  <2>2. PICK a, b : a = SubSeq(t, p + 1, p + n) /\ b = SubSeq(s, p + 1, p + n)
    OBVIOUS
  <2>3. a \in Seq(Bytes) /\ Len(a) = n /\ \A i \in 1..n : p + i \in 1..Len(t) /\ a[i] = t[p + i]
    BY <2>1, <2>2, PartOf
  <2>4. b \in Seq(Bytes) /\ Len(b) = n /\ \A i \in 1..n : p + i \in 1..Len(s) /\ b[i] = s[p + i]
    BY <1>2, <2>1, <2>2, PartOf
  <2>5. \A i \in 1..n : s[p + i] = t[p + i]
    BY <1>1, <1>2, <2>3, <2>4
  <2>6. a = b
    BY <2>3, <2>4, <2>5, SeqEqual
  <2>7. QED
    BY <1>1, <2>2, <2>3, <2>6
<1>5. QED
  BY <1>3, <1>4

LEMMA ReadStagedDoes ==
  ASSUME FileInv, NEW h \in Handles, NEW count \in Counts, ReadStaged(h, count)
  PROVE  FileInv' /\ File!Read(h)
<1>1. PICK f, n : f = file[h] /\ n = IF f.pos >= f.len THEN 0 ELSE Cap(count, f.len - f.pos)
  OBVIOUS
<1>2. /\ HandleOK(f) /\ f.mode = "write" /\ IsManifest(stored') /\ stored' = stored
      /\ file \in [Handles -> State] /\ Len(f.temp) <= f.len /\ f.want = 0 /\ f.filled = <<>>
      /\ f.cache.index = 0 /\ (n > 0 => f.pos + n <= Len(f.temp))
  BY <1>1 DEF FileInv, ReadStaged, In, HandleOK
<1>3. /\ count \in Nat /\ f \in State /\ f.pos \in Nat /\ f.len \in Nat /\ f.temp \in Seq(Bytes)
  BY <1>2, FileConstants, StateFields DEF HandleOK
<1>4. PICK g : g = [f EXCEPT !.out = SubSeq(f.temp, f.pos + 1, f.pos + n), !.pos = f.pos + n]
  OBVIOUS
<1>5. file' = [file EXCEPT ![h] = g]
  BY <1>1, <1>2, <1>4 DEF ReadStaged
<1>6. n \in Nat /\ n = (IF count <= (IF f.pos < f.len THEN f.len - f.pos ELSE 0) THEN count
                        ELSE (IF f.pos < f.len THEN f.len - f.pos ELSE 0))
  BY <1>1, <1>3 DEF Cap
<1>7. /\ SubSeq(f.temp, f.pos + 1, f.pos + n) \in Seq(Bytes)
      /\ SubSeq(f.temp, f.pos + 1, f.pos + n) = SubSeq(SetLen(f.temp, f.len), f.pos + 1, f.pos + n)
  <2>1. ASSUME NEW t \in Seq(Bytes), NEW l \in Nat, Len(t) <= l, NEW p \in Nat, NEW k \in Nat,
               k > 0 => p + k <= Len(t)
        PROVE  /\ SubSeq(t, p + 1, p + k) \in Seq(Bytes)
               /\ SubSeq(t, p + 1, p + k) = SubSeq(SetLen(t, l), p + 1, p + k)
    BY <2>1, StagedPart
  <2>2. f.temp \in Seq(Bytes) /\ f.len \in Nat /\ f.pos \in Nat /\ n \in Nat
        /\ Len(f.temp) <= f.len /\ (n > 0 => f.pos + n <= Len(f.temp))
    BY <1>2, <1>3, <1>6
  <2>3. QED
    BY <2>1, <2>2, Zenon
<1>8. f.pos + n \in Nat
  BY <1>3, <1>6
<1>9. g \in State
  BY <1>3, <1>4, <1>7, <1>8 DEF State
<1>10. /\ g.mode = "write" /\ g.pos = f.pos + n /\ g.out = SubSeq(f.temp, f.pos + 1, f.pos + n)
       /\ g.manifest = f.manifest /\ g.cache = f.cache /\ g.want = f.want /\ g.filled = f.filled
       /\ g.reader = f.reader /\ g.temp = f.temp /\ g.len = f.len
       /\ g.append = f.append /\ g.dirty = f.dirty
  BY <1>2, <1>3, <1>4 DEF State
<1>11. HandleOK(g)
  BY <1>2, <1>9, <1>10 DEF HandleOK, CacheOK
<1>12. /\ OpenFile(f).mode = "write" /\ OpenFile(f).pos = f.pos
       /\ OpenFile(f).bytes = SetLen(f.temp, f.len)
       /\ OpenFile(g).mode = "write" /\ OpenFile(g).pos = f.pos + n
       /\ OpenFile(g).bytes = SetLen(f.temp, f.len)
  BY <1>2, <1>10 DEF OpenFile
<1>13. OpenFile(g) = File!Taken(OpenFile(f), n)
  <2>1. g.out = SubSeq(OpenFile(f).bytes, OpenFile(f).pos + 1, OpenFile(f).pos + n)
    BY <1>7, <1>10, <1>12
  <2>2. QED
    BY <1>10, <1>12, <2>1, TakenIs
<1>14. n = File!Cap(count, File!Left(OpenFile(f))) /\ n \in 0..File!Left(OpenFile(f))
  <2>1. PICK e : e = File!Left(OpenFile(f))
    OBVIOUS
  <2>2. Len(OpenFile(f).bytes) = f.len
    BY <1>3, <1>12, SetLenFacts, ZenonT(60)
  <2>3. e = IF f.pos < f.len THEN f.len - f.pos ELSE 0
    BY <1>2, <1>12, <2>1, <2>2, LeftIs
  <2>4. n = (IF count <= e THEN count ELSE e) /\ n \in 0..e
    BY <1>3, <1>6, <2>3
  <2>5. QED
    BY <2>1, <2>4 DEF File!Cap
<1>15. FileInv' /\ [k \in Handles |-> OpenFile(file'[k])]
                     = [[k \in Handles |-> OpenFile(file[k])] EXCEPT ![h] = OpenFile(g)]
  BY <1>2, <1>5, <1>11, Changed
<1>16. File!Read(h)
  <2>1. OpenFile(file[h]).mode = "write" /\ OpenFile(g) = File!Taken(OpenFile(file[h]), n)
        /\ n = File!Cap(count, File!Left(OpenFile(file[h]))) /\ n \in 0..File!Left(OpenFile(file[h]))
    BY <1>1, <1>12, <1>13, <1>14
  <2>2. QED
    BY <1>2, <1>15, <2>1, ReadStep
<1>17. QED
  BY <1>15, <1>16

\* A seek.
LEMMA SeekStep ==
  ASSUME NEW h \in Handles, OpenFile(file[h]).mode # "closed", NEW pos \in 0..MaxPos,
         [k \in Handles |-> OpenFile(file'[k])]
              = [[k \in Handles |-> OpenFile(file[k])] EXCEPT
                   ![h] = [OpenFile(file[h]) EXCEPT !.out = <<>>, !.pos = pos]],
         stored' = stored
  PROVE  File!Seek(h)
BY DEF File!Seek, File!IsOpen

LEMMA SeekDoes ==
  ASSUME FileInv, NEW h \in Handles, NEW d \in Offsets, Seek(h, d)
  PROVE  FileInv' /\ File!Seek(h)
<1>1. PICK f : f = file[h]
  OBVIOUS
<1>2. /\ HandleOK(f) /\ f.mode \in {"read", "write", "reader"} /\ IsManifest(stored') /\ stored' = stored
      /\ file \in [Handles -> State] /\ IsManifest(f.manifest)
  BY <1>1 DEF FileInv, Seek, In, HandleOK
<1>3. f \in State /\ <<>> \in Seq(Bytes)
  BY <1>2 DEF HandleOK
<1>4. PICK pos \in 0..MaxPos :
        file' = IF f.mode = "reader"
                THEN [file EXCEPT ![h].reader = ReaderSeek(f.manifest, pos), ![h].out = <<>>]
                ELSE [file EXCEPT ![h].pos = pos, ![h].out = <<>>]
  <2>1. PICK from \in {0, IF In(h, {"reader"}) THEN Position(f.reader) ELSE f.pos, Length(h)} :
          /\ from + d >= 0 /\ from + d <= MaxPos
          /\ file' = IF f.mode = "reader"
                     THEN [file EXCEPT ![h].reader = ReaderSeek(f.manifest, from + d), ![h].out = <<>>]
                     ELSE [file EXCEPT ![h].pos = from + d, ![h].out = <<>>]
    BY <1>1 DEF Seek, In
  <2>2. f.pos \in Nat /\ f.len \in Nat /\ TotalSize(f.manifest) \in Nat /\ Position(f.reader) \in Nat
    BY <1>2, <1>3, StateFields, SizeFacts, ReaderFacts DEF HandleOK
  <2>3. from \in Nat
    BY <1>1, <2>2 DEF Length
  <2>4. from + d \in 0..MaxPos
    BY <2>1, <2>3, FileConstants
  <2>5. QED
    BY <2>1, <2>4
<1>5. pos \in Nat
  BY FileConstants
<1>6. CASE f.mode = "reader"
  <2>1. PICK r : r = ReaderSeek(f.manifest, pos)
    OBVIOUS
  <2>2. ReaderOK(f.manifest, r) /\ Position(r) = pos /\ r \in Reader
    BY <1>2, <1>5, <2>1, ReaderSeeks DEF ReaderOK
  <2>3. PICK g : g = [f EXCEPT !.reader = r, !.out = <<>>]
    OBVIOUS
  <2>4. file' = [file EXCEPT ![h] = g]
    BY <1>1, <1>2, <1>4, <1>6, <2>1, <2>3
  <2>5. g \in State
    BY <1>3, <2>2, <2>3 DEF State
  <2>6. /\ g.mode = "reader" /\ g.pos = f.pos /\ g.out = <<>> /\ g.manifest = f.manifest
        /\ g.cache = f.cache /\ g.want = f.want /\ g.filled = f.filled /\ g.reader = r
        /\ g.append = f.append /\ g.dirty = f.dirty
    BY <1>3, <1>6, <2>3 DEF State
  <2>7. HandleOK(g)
    BY <1>2, <1>6, <2>2, <2>5, <2>6 DEF HandleOK, CacheOK
  <2>8. /\ OpenFile(f).mode = "reader" /\ OpenFile(g).mode = "reader" /\ OpenFile(g).pos = pos
        /\ OpenFile(g).bytes = OpenFile(f).bytes
    BY <1>6, <2>2, <2>6 DEF OpenFile
  <2>9. OpenFile(g) = [OpenFile(f) EXCEPT !.out = <<>>, !.pos = pos]
    <3>1. /\ g.append = f.append /\ g.dirty = f.dirty /\ OpenFile(g).mode = OpenFile(f).mode
          /\ OpenFile(g).bytes = OpenFile(f).bytes
      BY <2>6, <2>8
    <3>2. OpenFile(g) = [OpenFile(f) EXCEPT !.out = g.out, !.pos = OpenFile(g).pos]
      BY <3>1, Moved, Zenon
    <3>3. QED
      BY <2>6, <2>8, <3>2
  <2>10. FileInv' /\ [k \in Handles |-> OpenFile(file'[k])]
                       = [[k \in Handles |-> OpenFile(file[k])] EXCEPT ![h] = OpenFile(g)]
    BY <1>2, <2>4, <2>7, Changed
  <2>11. /\ OpenFile(file[h]).mode = "reader"
         /\ OpenFile(g) = [OpenFile(file[h]) EXCEPT !.out = <<>>, !.pos = pos]
    BY <1>1, <2>8, <2>9
  <2>12. QED
    BY <1>2, <2>10, <2>11, SeekStep
<1>7. CASE f.mode # "reader"
  <2>1. PICK g : g = [f EXCEPT !.pos = pos, !.out = <<>>]
    OBVIOUS
  <2>2. file' = [file EXCEPT ![h] = g]
    BY <1>1, <1>2, <1>4, <1>7, <2>1
  <2>3. g \in State
    BY <1>3, <1>5, <2>1 DEF State
  <2>4. /\ g.mode = f.mode /\ g.pos = pos /\ g.out = <<>> /\ g.manifest = f.manifest
        /\ g.cache = f.cache /\ g.want = f.want /\ g.filled = f.filled /\ g.reader = f.reader
        /\ g.temp = f.temp /\ g.len = f.len /\ g.append = f.append /\ g.dirty = f.dirty
    BY <1>3, <2>1 DEF State
  <2>5. HandleOK(g)
    BY <1>2, <1>7, <2>3, <2>4 DEF HandleOK, CacheOK
  <2>6. /\ OpenFile(f).mode = f.mode /\ OpenFile(g).mode = f.mode /\ OpenFile(g).pos = pos
        /\ OpenFile(g).bytes = OpenFile(f).bytes
    BY <1>2, <1>7, <2>4 DEF OpenFile
  <2>7. OpenFile(g) = [OpenFile(f) EXCEPT !.out = <<>>, !.pos = pos]
    <3>1. /\ g.append = f.append /\ g.dirty = f.dirty /\ OpenFile(g).mode = OpenFile(f).mode
          /\ OpenFile(g).bytes = OpenFile(f).bytes
      BY <2>4, <2>6
    <3>2. OpenFile(g) = [OpenFile(f) EXCEPT !.out = g.out, !.pos = OpenFile(g).pos]
      BY <3>1, Moved, Zenon
    <3>3. QED
      BY <2>4, <2>6, <3>2
  <2>8. FileInv' /\ [k \in Handles |-> OpenFile(file'[k])]
                       = [[k \in Handles |-> OpenFile(file[k])] EXCEPT ![h] = OpenFile(g)]
    BY <1>2, <2>2, <2>5, Changed
  <2>9. /\ OpenFile(file[h]).mode # "closed"
        /\ OpenFile(g) = [OpenFile(file[h]) EXCEPT !.out = <<>>, !.pos = pos]
    BY <1>1, <1>2, <2>6, <2>7
  <2>10. QED
    BY <1>2, <2>8, <2>9, SeekStep
<1>8. QED
  BY <1>6, <1>7

\* What f becomes when only the answer to the last read changes, or when it
\* is clean as well.
LEMMA Answered ==
  ASSUME NEW f, NEW g, g.append = f.append, OpenFile(g).mode = OpenFile(f).mode,
         OpenFile(g).bytes = OpenFile(f).bytes, OpenFile(g).pos = OpenFile(f).pos
  PROVE  OpenFile(g) = [OpenFile(f) EXCEPT !.out = g.out, !.dirty = g.dirty]
<1>1. PICK c : c = OpenFile(f)
  OBVIOUS
<1>2. PICK r : r = [c EXCEPT !.out = g.out, !.dirty = g.dirty]
  OBVIOUS
<1>3. c = [mode |-> OpenFile(f).mode, bytes |-> OpenFile(f).bytes, pos |-> OpenFile(f).pos,
           out |-> f.out, append |-> f.append, dirty |-> f.dirty]
  BY <1>1, OpenFields
<1>4. r = [mode |-> OpenFile(f).mode, bytes |-> OpenFile(f).bytes, pos |-> OpenFile(f).pos,
           out |-> g.out, append |-> f.append, dirty |-> g.dirty]
  BY <1>2, <1>3
<1>5. OpenFile(g) = [mode |-> OpenFile(f).mode, bytes |-> OpenFile(f).bytes, pos |-> OpenFile(f).pos,
                     out |-> g.out, append |-> f.append, dirty |-> g.dirty]
  BY OpenFields
<1>6. QED
  BY <1>1, <1>2, <1>4, <1>5

\* What f becomes when only its answer changes.
LEMMA AnsweredOnly ==
  ASSUME NEW f, NEW g, g.append = f.append, g.dirty = f.dirty, OpenFile(g).mode = OpenFile(f).mode,
         OpenFile(g).bytes = OpenFile(f).bytes, OpenFile(g).pos = OpenFile(f).pos
  PROVE  OpenFile(g) = [OpenFile(f) EXCEPT !.out = g.out]
<1>1. PICK c : c = OpenFile(f)
  OBVIOUS
<1>2. PICK r : r = [c EXCEPT !.out = g.out]
  OBVIOUS
<1>3. c = [mode |-> OpenFile(f).mode, bytes |-> OpenFile(f).bytes, pos |-> OpenFile(f).pos,
           out |-> f.out, append |-> f.append, dirty |-> f.dirty]
  BY <1>1, OpenFields
<1>4. r = [mode |-> OpenFile(f).mode, bytes |-> OpenFile(f).bytes, pos |-> OpenFile(f).pos,
           out |-> g.out, append |-> f.append, dirty |-> f.dirty]
  BY <1>2, <1>3
<1>5. OpenFile(g) = [mode |-> OpenFile(f).mode, bytes |-> OpenFile(f).bytes, pos |-> OpenFile(f).pos,
                     out |-> g.out, append |-> f.append, dirty |-> f.dirty]
  BY OpenFields
<1>6. QED
  BY <1>1, <1>2, <1>4, <1>5

\* A handle with its staging file at its length.
Trimmed(f, dirty) == [f EXCEPT !.temp = SetLen(f.temp, f.len), !.dirty = dirty, !.out = <<>>]

\* Setting the length of the staging file shows nowhere.
LEMMA LengthSet ==
  ASSUME NEW f, HandleOK(f), f.mode = "write", NEW dirty \in BOOLEAN
  PROVE  /\ HandleOK(Trimmed(f, dirty))
         /\ OpenFile(Trimmed(f, dirty)).mode = OpenFile(f).mode
         /\ OpenFile(Trimmed(f, dirty)).pos = OpenFile(f).pos
         /\ OpenFile(Trimmed(f, dirty)).bytes = OpenFile(f).bytes
         /\ Trimmed(f, dirty).append = f.append /\ Trimmed(f, dirty).out = <<>>
         /\ Trimmed(f, dirty).dirty = dirty
<1>0. PICK g : g = Trimmed(f, dirty)
  OBVIOUS
<1>1. f \in State /\ <<>> \in Seq(Bytes) /\ f.temp \in Seq(Bytes) /\ f.len \in Nat
  BY StateFields DEF HandleOK
<1>2. PICK t : t = SetLen(f.temp, f.len)
  OBVIOUS
<1>3. t \in Seq(Bytes) /\ Len(t) = f.len /\ SetLen(t, f.len) = SetLen(f.temp, f.len)
  <2>1. SetLen(f.temp, f.len) \in Seq(Bytes) /\ Len(SetLen(f.temp, f.len)) = f.len
    BY <1>1, SetLenFacts
  <2>2. SetLen(SetLen(f.temp, f.len), f.len) = SetLen(f.temp, f.len)
    BY <1>1, SetLenAgain
  <2>3. QED
    BY <1>2, <2>1, <2>2
<1>4. g = [f EXCEPT !.temp = t, !.dirty = dirty, !.out = <<>>]
  BY <1>0, <1>2 DEF Trimmed
<1>5. g \in State
  BY <1>1, <1>3, <1>4 DEF State
<1>6. /\ g.mode = "write" /\ g.pos = f.pos /\ g.out = <<>> /\ g.manifest = f.manifest
      /\ g.cache = f.cache /\ g.want = f.want /\ g.filled = f.filled /\ g.reader = f.reader
      /\ g.temp = t /\ g.len = f.len
  BY <1>1, <1>4 DEF State
<1>7. g.append = f.append /\ g.dirty = dirty
  BY <1>1, <1>4, Zenon DEF State
<1>8. Len(g.temp) <= g.len
  BY <1>1, <1>3, <1>6
<1>9. HandleOK(g)
  BY <1>5, <1>6, <1>8 DEF HandleOK, CacheOK
<1>10. /\ OpenFile(g).mode = OpenFile(f).mode /\ OpenFile(g).pos = OpenFile(f).pos
       /\ OpenFile(g).bytes = OpenFile(f).bytes
  BY <1>3, <1>6 DEF OpenFile
<1>11. QED
  BY <1>0, <1>6, <1>7, <1>9, <1>10, Zenon

LEMMA FlushFailsDoes ==
  ASSUME FileInv, NEW h \in Handles, FlushFails(h)
  PROVE  FileInv' /\ File!Fails(h)
<1>1. PICK f : f = file[h]
  OBVIOUS
<1>2. /\ HandleOK(f) /\ f.mode = "write" /\ IsManifest(stored') /\ stored' = stored
      /\ file \in [Handles -> State]
  BY <1>1 DEF FileInv, FlushFails, In
<1>3. f \in State /\ f.dirty \in BOOLEAN
  BY <1>2, StateFields DEF HandleOK
<1>4. PICK dirty \in BOOLEAN : dirty = f.dirty
  BY <1>3
<1>5. PICK g :
        /\ g = Trimmed(f, dirty) /\ HandleOK(g) /\ OpenFile(g).mode = OpenFile(f).mode /\ OpenFile(g).pos = OpenFile(f).pos
        /\ OpenFile(g).bytes = OpenFile(f).bytes
        /\ g.append = f.append /\ g.out = <<>> /\ g.dirty = dirty
  <2>1. HandleOK(f) /\ f.mode = "write" /\ dirty \in BOOLEAN
    BY <1>2, <1>3, <1>4
  <2>2. /\ HandleOK(Trimmed(f, dirty))
        /\ OpenFile(Trimmed(f, dirty)).mode = OpenFile(f).mode
        /\ OpenFile(Trimmed(f, dirty)).pos = OpenFile(f).pos
        /\ OpenFile(Trimmed(f, dirty)).bytes = OpenFile(f).bytes
        /\ Trimmed(f, dirty).append = f.append /\ Trimmed(f, dirty).out = <<>>
        /\ Trimmed(f, dirty).dirty = dirty
    BY <2>1, LengthSet
  <2>3. QED
    BY <2>2, Zenon
<1>6. file' = [file EXCEPT ![h] = g]
  <2>1. file' = [file EXCEPT ![h] = [f EXCEPT !.temp = SetLen(f.temp, f.len), !.out = <<>>]]
    BY <1>1, <1>2 DEF FlushFails
  <2>2. g = [f EXCEPT !.temp = SetLen(f.temp, f.len), !.out = <<>>]
    BY <1>3, <1>4, <1>5 DEF State, Trimmed
  <2>3. QED
    BY <2>1, <2>2
<1>7. OpenFile(g) = [OpenFile(f) EXCEPT !.out = <<>>]
  <2>1. g.dirty = f.dirty
    BY <1>4, <1>5, Zenon
  <2>2. OpenFile(g) = [OpenFile(f) EXCEPT !.out = g.out]
    BY <1>5, <2>1, AnsweredOnly, Zenon
  <2>3. QED
    BY <1>5, <2>2
<1>8. FileInv' /\ [k \in Handles |-> OpenFile(file'[k])]
                    = [[k \in Handles |-> OpenFile(file[k])] EXCEPT ![h] = OpenFile(g)]
  BY <1>2, <1>6, <1>5, Changed
<1>9. OpenFile(file[h]).mode # "closed" /\ OpenFile(g) = [OpenFile(file[h]) EXCEPT !.out = <<>>]
  BY <1>1, <1>2, <1>7 DEF OpenFile
<1>10. QED
  BY <1>2, <1>8, <1>9, FailsStep

\* A flush.
LEMMA FlushStep ==
  ASSUME NEW h \in Handles, OpenFile(file[h]).mode = "write", OpenFile(file[h]).dirty,
         Content(stored') = OpenFile(file[h]).bytes,
         [k \in Handles |-> OpenFile(file'[k])]
              = [[k \in Handles |-> OpenFile(file[k])] EXCEPT
                   ![h] = [OpenFile(file[h]) EXCEPT !.out = <<>>, !.dirty = FALSE]]
  PROVE  File!Flush(h)
BY DEF File!Flush

LEMMA FlushDoes ==
  ASSUME FileInv, NEW h \in Handles, Flush(h)
  PROVE  FileInv' /\ File!Flush(h)
<1>1. PICK f : f = file[h]
  OBVIOUS
<1>2. /\ HandleOK(f) /\ f.mode = "write" /\ f.dirty /\ stored' \in StoreFile(SetLen(f.temp, f.len))
      /\ file \in [Handles -> State]
  BY <1>1 DEF FileInv, Flush, In
<1>3. f \in State /\ f.temp \in Seq(Bytes) /\ f.len \in Nat
  BY <1>2, StateFields DEF HandleOK
<1>4. IsManifest(stored') /\ Content(stored') = SetLen(f.temp, f.len)
  <2>1. SetLen(f.temp, f.len) \in Seq(Bytes)
    BY <1>3, SetLenFacts
  <2>2. QED
    BY <1>2, <2>1, StoredWhole
<1>5. PICK dirty \in BOOLEAN : dirty = FALSE
  OBVIOUS
<1>6. PICK g :
        /\ g = Trimmed(f, dirty) /\ HandleOK(g) /\ OpenFile(g).mode = OpenFile(f).mode /\ OpenFile(g).pos = OpenFile(f).pos
        /\ OpenFile(g).bytes = OpenFile(f).bytes
        /\ g.append = f.append /\ g.out = <<>> /\ g.dirty = dirty
  <2>1. HandleOK(f) /\ f.mode = "write" /\ dirty \in BOOLEAN
    BY <1>2, <1>5
  <2>2. /\ HandleOK(Trimmed(f, dirty))
        /\ OpenFile(Trimmed(f, dirty)).mode = OpenFile(f).mode
        /\ OpenFile(Trimmed(f, dirty)).pos = OpenFile(f).pos
        /\ OpenFile(Trimmed(f, dirty)).bytes = OpenFile(f).bytes
        /\ Trimmed(f, dirty).append = f.append /\ Trimmed(f, dirty).out = <<>>
        /\ Trimmed(f, dirty).dirty = dirty
    BY <2>1, LengthSet
  <2>3. QED
    BY <2>2, Zenon
<1>7. file' = [file EXCEPT ![h] = g]
  <2>1. file' = [file EXCEPT ![h] = [f EXCEPT !.temp = SetLen(f.temp, f.len), !.dirty = FALSE, !.out = <<>>]]
    BY <1>1, <1>2 DEF Flush
  <2>2. QED
    BY <1>5, <1>6, <2>1, Zenon DEF Trimmed
<1>8. OpenFile(g) = [OpenFile(f) EXCEPT !.out = <<>>, !.dirty = FALSE]
  <2>1. OpenFile(g) = [OpenFile(f) EXCEPT !.out = g.out, !.dirty = g.dirty]
    <3>1. /\ g.append = f.append /\ OpenFile(g).mode = OpenFile(f).mode
          /\ OpenFile(g).bytes = OpenFile(f).bytes /\ OpenFile(g).pos = OpenFile(f).pos
      BY <1>6
    <3>2. QED
      BY <3>1, Answered, Zenon
  <2>2. g.dirty = FALSE
    BY <1>5, <1>6, Zenon
  <2>3. QED
    BY <1>6, <2>1, <2>2, Zenon
<1>9. FileInv' /\ [k \in Handles |-> OpenFile(file'[k])]
                     = [[k \in Handles |-> OpenFile(file[k])] EXCEPT ![h] = OpenFile(g)]
  BY <1>4, <1>7, <1>6, Changed
<1>10. /\ OpenFile(file[h]).mode = "write" /\ OpenFile(file[h]).bytes = SetLen(f.temp, f.len)
       /\ OpenFile(g) = [OpenFile(file[h]) EXCEPT !.out = <<>>, !.dirty = FALSE]
  BY <1>1, <1>2, <1>8 DEF OpenFile
<1>11. OpenFile(file[h]).dirty
  BY <1>1, <1>2, OpenFields, Zenon
<1>12. QED
  BY <1>4, <1>9, <1>10, <1>11, FlushStep

\* A write.
LEMMA WriteStep ==
  ASSUME NEW h \in Handles, OpenFile(file[h]).mode = "write", NEW buf \in Bufs,
         [k \in Handles |-> OpenFile(file'[k])]
              = [[k \in Handles |-> OpenFile(file[k])] EXCEPT ![h] = File!Written(OpenFile(file[h]), buf)],
         stored' = stored
  PROVE  File!Write(h)
BY DEF File!Write

LEMMA WriteDoes ==
  ASSUME FileInv, NEW h \in Handles, NEW buf \in Bufs, Write(h, buf)
  PROVE  FileInv' /\ File!Write(h)
<1>1. PICK f : f = file[h]
  OBVIOUS
<1>2. /\ HandleOK(f) /\ f.mode = "write" /\ IsManifest(stored') /\ stored' = stored
      /\ file \in [Handles -> State] /\ Len(f.temp) <= f.len
  BY <1>1 DEF FileInv, Write, In, HandleOK
<1>3. /\ f \in State /\ f.temp \in Seq(Bytes) /\ f.len \in Nat /\ f.pos \in Nat /\ f.append \in BOOLEAN
      /\ <<>> \in Seq(Bytes) /\ buf \in Seq(Bytes)
  BY <1>2, StateFields, FileConstants DEF HandleOK
<1>4. PICK at : at = IF f.append THEN f.len ELSE f.pos
  OBVIOUS
<1>5. at \in Nat
  BY <1>3, <1>4
<1>6. PICK w, b : w = WriteAt(f.temp, at, buf) /\ b = File!Overwrite(SetLen(f.temp, f.len), at, buf)
  OBVIOUS
<1>7. PICK end \in Nat, max \in Nat :
        /\ end = at + Len(buf) /\ max = IF end > f.len THEN end ELSE f.len
        /\ w \in Seq(Bytes) /\ Len(w) <= max /\ SetLen(w, max) = b
  <2>1. ASSUME NEW t \in Seq(Bytes), NEW l \in Nat, Len(t) <= l
        PROVE  \E end \in Nat, max \in Nat :
                 /\ end = at + Len(buf) /\ max = IF end > l THEN end ELSE l
                 /\ WriteAt(t, at, buf) \in Seq(Bytes) /\ Len(WriteAt(t, at, buf)) <= max
                 /\ SetLen(WriteAt(t, at, buf), max) = File!Overwrite(SetLen(t, l), at, buf)
    BY <1>3, <1>5, <2>1, WriteIsOverwrite
  <2>2. \E end \in Nat, max \in Nat :
          /\ end = at + Len(buf) /\ max = IF end > f.len THEN end ELSE f.len
          /\ WriteAt(f.temp, at, buf) \in Seq(Bytes) /\ Len(WriteAt(f.temp, at, buf)) <= max
          /\ SetLen(WriteAt(f.temp, at, buf), max) = File!Overwrite(SetLen(f.temp, f.len), at, buf)
    <3>1. f.temp \in Seq(Bytes) /\ f.len \in Nat /\ Len(f.temp) <= f.len
      BY <1>2, <1>3
    <3>2. QED
      BY <2>1, <3>1, Zenon
  <2>3. QED
    BY <1>6, <2>2
<1>8. PICK dirty \in BOOLEAN : dirty = TRUE
  OBVIOUS
<1>9. PICK g : g = [f EXCEPT !.temp = w, !.pos = end, !.len = max, !.dirty = dirty, !.out = <<>>]
  OBVIOUS
<1>10. file' = [file EXCEPT ![h] = g]
  <2>1. WritePos(h) = at
    BY <1>1, <1>4 DEF WritePos
  <2>2. file' = [file EXCEPT ![h] = [f EXCEPT !.temp = w, !.pos = end, !.len = max, !.dirty = TRUE, !.out = <<>>]]
    BY <1>1, <1>2, <1>6, <1>7, <2>1 DEF Write
  <2>3. QED
    BY <1>8, <1>9, <2>2, Zenon
<1>11. g \in State
  BY <1>3, <1>7, <1>8, <1>9 DEF State
<1>12. /\ g.mode = "write" /\ g.pos = end /\ g.out = <<>> /\ g.manifest = f.manifest
       /\ g.cache = f.cache /\ g.want = f.want /\ g.filled = f.filled /\ g.reader = f.reader
       /\ g.temp = w /\ g.len = max
  BY <1>2, <1>3, <1>9 DEF State
<1>13. g.append = f.append /\ g.dirty = dirty
  BY <1>3, <1>9, Zenon DEF State
<1>14. HandleOK(g)
  BY <1>2, <1>7, <1>11, <1>12 DEF HandleOK, CacheOK
<1>15. /\ OpenFile(f).mode = "write" /\ OpenFile(f).pos = f.pos
       /\ OpenFile(f).bytes = SetLen(f.temp, f.len)
       /\ OpenFile(g).mode = "write" /\ OpenFile(g).pos = end
       /\ OpenFile(g).bytes = b
  BY <1>2, <1>7, <1>12 DEF OpenFile
<1>16. OpenFile(g) = File!Written(OpenFile(f), buf)
  <2>1. OpenFile(g) = [OpenFile(f) EXCEPT !.bytes = OpenFile(g).bytes, !.out = g.out,
                                          !.pos = OpenFile(g).pos, !.dirty = g.dirty]
    <3>1. g.append = f.append /\ OpenFile(g).mode = OpenFile(f).mode
      BY <1>13, <1>15
    <3>2. QED
      BY <3>1, Edited, Zenon
  <2>2. (IF OpenFile(f).append THEN Len(OpenFile(f).bytes) ELSE OpenFile(f).pos) = at
    <3>1. Len(OpenFile(f).bytes) = f.len
      <4>1. Len(SetLen(f.temp, f.len)) = f.len
        BY <1>3, SetLenFacts
      <4>2. QED
        BY <1>15, <4>1
    <3>2. OpenFile(f).append = f.append
      BY OpenFields, Zenon
    <3>3. QED
      BY <1>4, <1>15, <3>1, <3>2, Zenon
  <2>3. File!Written(OpenFile(f), buf)
          = [OpenFile(f) EXCEPT !.bytes = File!Overwrite(OpenFile(f).bytes, at, buf), !.out = <<>>,
                                !.pos = at + Len(buf), !.dirty = TRUE]
    BY <2>2, Zenon DEF File!Written
  <2>4. g.dirty = TRUE
    BY <1>8, <1>13, Zenon
  <2>5. OpenFile(g).bytes = File!Overwrite(OpenFile(f).bytes, at, buf) /\ g.out = <<>>
        /\ OpenFile(g).pos = at + Len(buf)
    BY <1>6, <1>7, <1>12, <1>15, Zenon
  <2>6. QED
    BY <2>1, <2>3, <2>4, <2>5, Zenon
<1>17. FileInv' /\ [k \in Handles |-> OpenFile(file'[k])]
                     = [[k \in Handles |-> OpenFile(file[k])] EXCEPT ![h] = OpenFile(g)]
  BY <1>2, <1>10, <1>14, Changed
<1>18. OpenFile(file[h]).mode = "write" /\ OpenFile(g) = File!Written(OpenFile(file[h]), buf)
  BY <1>1, <1>15, <1>16
<1>19. QED
  BY <1>2, <1>17, <1>18, WriteStep

\* What read_bytes takes of the chunk with the byte at q, of w bytes.
LEMMA PartFits ==
  ASSUME NEW m, IsManifest(m), NEW q \in Nat, q < TotalSize(m), NEW w \in Nat
  PROVE  \E n \in Nat :
           /\ n <= w /\ q + n <= TotalSize(m)
           /\ Part(m[ChunkAt(m, q)], q, w) \in Seq(Bytes) /\ Len(Part(m[ChunkAt(m, q)], q, w)) = n
           /\ Part(m[ChunkAt(m, q)], q, w) = SubSeq(Content(m), q + 1, q + n)
<1>1. PICK i : i = ChunkAt(m, q)
  OBVIOUS
<1>2. i \in 1..Len(m) /\ Holds(m[i], q)
  BY <1>1, ChunkFound
<1>3. PICK l, o : l = Len(m[i].data) /\ o = m[i].offset
  OBVIOUS
<1>4. l \in Nat /\ o \in Nat /\ End(m[i]) = o + l
  BY <1>2, <1>3, ChunkFacts
<1>5. o <= q /\ q < o + l
  BY <1>2, <1>3, <1>4 DEF Holds
<1>6. PICK from \in Nat : from = q - o /\ from <= l
  <2>1. q - o \in Nat /\ q - o <= l
    BY <1>4, <1>5
  <2>2. QED
    BY <2>1
<1>7. PICK n \in Nat : n = (IF l - from <= w THEN l - from ELSE w) /\ from + n <= l /\ n <= w
  <2>1. (IF l - from <= w THEN l - from ELSE w) \in Nat
    BY <1>4, <1>6
  <2>2. PICK n \in Nat : n = (IF l - from <= w THEN l - from ELSE w)
    BY <2>1
  <2>3. from + n <= l /\ n <= w
    BY <1>4, <1>6, <2>2
  <2>4. QED
    BY <2>2, <2>3
<1>8. /\ q + n <= TotalSize(m)
      /\ SubSeq(m[i].data, q - m[i].offset + 1, q - m[i].offset + n) \in Seq(Bytes)
      /\ Len(SubSeq(m[i].data, q - m[i].offset + 1, q - m[i].offset + n)) = n
      /\ SubSeq(m[i].data, q - m[i].offset + 1, q - m[i].offset + n) = SubSeq(Content(m), q + 1, q + n)
  <2>1. o <= q /\ q + n <= o + l
    BY <1>4, <1>5, <1>6, <1>7
  <2>2. m[i].offset <= q /\ q + n <= End(m[i])
    BY <1>3, <1>4, <2>1
  <2>3. i \in 1..Len(m) /\ IsManifest(m) /\ q \in Nat /\ n \in Nat
    BY <1>2, <1>7
  <2>4. QED
    BY <2>2, <2>3, ChunkBytes, ZenonT(40)
<1>9. Part(m[i], q, w) = SubSeq(m[i].data, q - m[i].offset + 1, q - m[i].offset + n)
  <2>1. n = Cap(Len(m[i].data) - (q - m[i].offset), w)
    BY <1>3, <1>6, <1>7 DEF Cap
  <2>2. QED
    BY <2>1, Zenon DEF Part
<1>10. QED
  BY <1>1, <1>7, <1>8, <1>9

\* u is of the w bytes from position p on the first k, and maybe more.
GoesOn(m, p, k, w, u) ==
  \E n \in Nat :
    /\ k + n <= w /\ u \in Seq(Bytes) /\ Len(u) = k + n /\ u = SubSeq(Content(m), p + 1, p + (k + n))

\* It goes on with what was read before.
LEMMA PartGoesOn ==
  ASSUME NEW m, IsManifest(m), NEW p \in Nat, NEW k \in Nat, NEW w \in Nat, k < w,
         p + w <= TotalSize(m)
  PROVE  GoesOn(m, p, k, w, SubSeq(Content(m), p + 1, p + k) \o Part(m[ChunkAt(m, p + k)], p + k, w - k))
<1>1. PICK c, l : c = Content(m) /\ l = TotalSize(m)
  OBVIOUS
<1>2. c \in Seq(Bytes) /\ Len(c) = l /\ l \in Nat /\ p + w <= l
  BY <1>1, ContentType, SizeFacts
<1>3. PICK b : b = Part(m[ChunkAt(m, p + k)], p + k, w - k)
  OBVIOUS
<1>4. PICK n \in Nat : n <= w - k /\ b \in Seq(Bytes) /\ Len(b) = n /\ b = SubSeq(c, p + k + 1, p + k + n)
  <2>1. p + k \in Nat /\ p + k < TotalSize(m) /\ w - k \in Nat
    BY <1>1, <1>2
  <2>2. \E n \in Nat :
           /\ n <= w - k /\ p + k + n <= TotalSize(m)
           /\ Part(m[ChunkAt(m, p + k)], p + k, w - k) \in Seq(Bytes)
           /\ Len(Part(m[ChunkAt(m, p + k)], p + k, w - k)) = n
           /\ Part(m[ChunkAt(m, p + k)], p + k, w - k) = SubSeq(Content(m), p + k + 1, p + k + n)
    BY <2>1, PartFits
  <2>3. QED
    BY <1>1, <1>3, <2>2
<1>5. PICK a : a = SubSeq(c, p + 1, p + k)
  OBVIOUS
<1>6. a \in Seq(Bytes) /\ Len(a) = k
  <2>1. p + k <= Len(c)
    BY <1>2
  <2>2. QED
    BY <1>2, <1>5, <2>1, PartOf
<1>7. a \o b \in Seq(Bytes) /\ Len(a \o b) = k + n
  BY <1>4, <1>6
<1>8. a \o b = SubSeq(c, p + 1, p + (k + n))
  <2>1. p + 1 \in 1..Len(c) + 1 /\ p + k \in (p + 1) - 1..Len(c) /\ p + k + n \in p + k..Len(c)
    BY <1>2, <1>4
  <2>2. SubSeq(c, p + 1, p + k) \o SubSeq(c, p + k + 1, p + k + n) = SubSeq(c, p + 1, p + k + n)
    BY <1>2, <2>1, ConcatAdjacentSubSeq
  <2>3. p + k + n = p + (k + n)
    OBVIOUS
  <2>4. QED
    BY <1>4, <1>5, <2>2, <2>3
<1>9. k + n <= w
  BY <1>4
<1>10. QED
  BY <1>1, <1>3, <1>5, <1>7, <1>8, <1>9 DEF GoesOn

LEMMA ReadChunkDoes ==
  ASSUME FileInv, NEW h \in Handles, ReadChunk(h)
  PROVE  /\ FileInv' /\ stored' = stored
         /\ [k \in Handles |-> OpenFile(file'[k])] = [k \in Handles |-> OpenFile(file[k])]
<1>1. PICK f : f = file[h]
  OBVIOUS
<1>2. /\ HandleOK(f) /\ f.mode = "reading" /\ Len(f.filled) < f.want /\ IsManifest(stored')
      /\ stored' = stored /\ file \in [Handles -> State] /\ IsManifest(f.manifest)
      /\ CacheOK(f) /\ ReadingOK(f)
  BY <1>1 DEF FileInv, ReadChunk, In, HandleOK
<1>3. PICK m, p, k, w : m = f.manifest /\ p = f.pos /\ k = Len(f.filled) /\ w = f.want
  OBVIOUS
<1>4. /\ f \in State /\ p \in Nat /\ w \in Nat /\ k \in Nat /\ k < w /\ p + w <= TotalSize(m)
      /\ IsManifest(m) /\ f.filled = SubSeq(Content(m), p + 1, p + k)
  <2>1. f \in State /\ f.filled \in Seq(Bytes) /\ f.pos \in Nat /\ f.want \in Nat
    BY <1>2, StateFields DEF HandleOK
  <2>2. f.pos + f.want <= TotalSize(f.manifest)
        /\ f.filled = SubSeq(Content(f.manifest), f.pos + 1, f.pos + Len(f.filled))
    BY <1>2 DEF ReadingOK
  <2>3. Len(f.filled) \in Nat
    BY <2>1
  <2>4. QED
    BY <1>2, <1>3, <2>1, <2>2, <2>3
<1>5. PICK i : i = ChunkAt(m, p + k)
  OBVIOUS
<1>6. i \in 1..Len(m) /\ i \in DOMAIN m /\ i \in Nat /\ i # 0 /\ m[i].data \in Seq(Bytes)
  <2>1. p + k \in Nat /\ p + k < TotalSize(m)
    BY <1>4, SizeFacts
  <2>2. i \in 1..Len(m)
    BY <1>4, <1>5, <2>1, ChunkFound
  <2>3. DOMAIN m = 1..Len(m) /\ Len(m) \in Nat
    BY <1>4 DEF IsManifest
  <2>4. m[i].data \in Seq(Bytes)
    BY <1>4, <2>2, ChunkFacts
  <2>5. QED
    BY <2>2, <2>3, <2>4
<1>7. ChunkData(f, i) = m[i].data
  BY <1>2, <1>3, <1>6 DEF ChunkData, CacheOK
<1>8. PICK u, v, s : u = f.filled \o s /\ v = [index |-> i, data |-> m[i].data] /\ s = Part(m[i], p + k, w - k)
  OBVIOUS
<1>9. v \in Cache /\ v.index = i /\ v.data = m[i].data
  BY <1>6, <1>8 DEF Cache
<1>10. PICK n \in Nat : k + n <= w /\ u \in Seq(Bytes) /\ Len(u) = k + n
                        /\ u = SubSeq(Content(m), p + 1, p + (k + n))
  <2>1. GoesOn(m, p, k, w, SubSeq(Content(m), p + 1, p + k) \o Part(m[ChunkAt(m, p + k)], p + k, w - k))
    <3>1. IsManifest(m) /\ p \in Nat /\ k \in Nat /\ w \in Nat /\ k < w /\ p + w <= TotalSize(m)
      BY <1>4
    <3>2. QED
      BY <3>1, PartGoesOn
  <2>2. u = SubSeq(Content(m), p + 1, p + k) \o Part(m[ChunkAt(m, p + k)], p + k, w - k)
    BY <1>4, <1>5, <1>8, Zenon
  <2>3. GoesOn(m, p, k, w, u)
    BY <2>1, <2>2, Zenon
  <2>4. QED
    BY <2>3 DEF GoesOn
<1>11. PICK g : g = [f EXCEPT !.cache = v, !.filled = u]
  OBVIOUS
<1>12. file' = [file EXCEPT ![h] = g]
  <2>1. Part([offset |-> m[i].offset, data |-> m[i].data], p + k, w - k) = Part(m[i], p + k, w - k)
    BY DEF Part
  <2>2. file' = [file EXCEPT ![h] = [f EXCEPT
                   !.cache = [index |-> i, data |-> ChunkData(f, i)],
                   !.filled = f.filled \o Part([offset |-> m[i].offset, data |-> ChunkData(f, i)], p + k, w - k)]]
    BY <1>1, <1>3, <1>5 DEF ReadChunk
  <2>3. QED
    BY <1>7, <1>8, <1>11, <2>1, <2>2
<1>13. g \in State
  BY <1>4, <1>9, <1>10, <1>11 DEF State
<1>14. /\ g.mode = "reading" /\ g.pos = f.pos /\ g.out = f.out /\ g.manifest = f.manifest
       /\ g.cache = v /\ g.want = f.want /\ g.filled = u /\ g.reader = f.reader
       /\ g.append = f.append /\ g.dirty = f.dirty
  BY <1>2, <1>4, <1>11 DEF State
<1>15. CacheOK(g)
  BY <1>3, <1>6, <1>9, <1>14 DEF CacheOK
<1>16. ReadingOK(g)
  <2>1. \E count \in Counts : g.want = Cap(count, TotalSize(g.manifest) - g.pos)
    BY <1>2, <1>14 DEF ReadingOK
  <2>2. g.pos + g.want <= TotalSize(g.manifest)
    BY <1>3, <1>4, <1>14
  <2>3. Len(g.filled) <= g.want
    BY <1>3, <1>10, <1>14
  <2>4. g.filled = SubSeq(Content(g.manifest), g.pos + 1, g.pos + Len(g.filled))
    BY <1>3, <1>10, <1>14, Zenon
  <2>5. QED
    BY <2>1, <2>2, <2>3, <2>4 DEF ReadingOK
<1>17. HandleOK(g)
  BY <1>2, <1>13, <1>14, <1>15, <1>16 DEF HandleOK
<1>18. OpenFile(g) = OpenFile(file[h])
  BY <1>1, <1>2, <1>14 DEF OpenFile
<1>19. QED
  BY <1>2, <1>12, <1>17, <1>18, Unseen

\* What new_write has copied when it has read on.
LEMMA Copied ==
  ASSUME NEW m, IsManifest(m), NEW p \in Nat, NEW n \in Nat, p + n <= TotalSize(m)
  PROVE  /\ SubSeq(Content(m), 1, p) \o SubSeq(Content(m), p + 1, p + n) = SubSeq(Content(m), 1, p + n)
         /\ SubSeq(Content(m), 1, p + n) \in Seq(Bytes)
         /\ SubSeq(Content(m), 1, TotalSize(m)) = Content(m)
<1>1. PICK c, l : c = Content(m) /\ l = TotalSize(m)
  OBVIOUS
<1>2. c \in Seq(Bytes) /\ Len(c) = l /\ l \in Nat
  BY <1>1, ContentType, SizeFacts
<1>3. SubSeq(c, 1, p) \o SubSeq(c, p + 1, p + n) = SubSeq(c, 1, p + n)
  <2>1. 1 \in 1..Len(c) + 1 /\ p \in 1 - 1..Len(c) /\ p + n \in p..Len(c)
    BY <1>1, <1>2
  <2>2. QED
    BY <1>2, <2>1, ConcatAdjacentSubSeq
<1>4. SubSeq(c, 1, p + n) \in Seq(Bytes)
  <2>1. 0 + (p + n) <= Len(c) /\ p + n \in Nat
    BY <1>1, <1>2
  <2>2. SubSeq(c, 0 + 1, 0 + (p + n)) \in Seq(Bytes)
    BY <1>2, <2>1, PartOf
  <2>3. 0 + 1 = 1 /\ 0 + (p + n) = p + n
    OBVIOUS
  <2>4. QED
    BY <2>2, <2>3
<1>5. SubSeq(c, 1, l) = c
  BY <1>2, SubSeqFull
<1>6. QED
  BY <1>1, <1>3, <1>4, <1>5

LEMMA StageDoes ==
  ASSUME FileInv, NEW h \in Handles, NEW count \in Counts, Stage(h, count)
  PROVE  /\ FileInv' /\ stored' = stored
         /\ [k \in Handles |-> OpenFile(file'[k])] = [k \in Handles |-> OpenFile(file[k])]
<1>1. PICK f : f = file[h]
  OBVIOUS
<1>2. /\ HandleOK(f) /\ f.mode = "staging" /\ count > 0 /\ IsManifest(stored')
      /\ stored' = stored /\ file \in [Handles -> State] /\ IsManifest(f.manifest)
      /\ ReaderOK(f.manifest, f.reader) /\ f.want = 0 /\ f.filled = <<>> /\ StagingOK(f)
  BY <1>1 DEF FileInv, Stage, In, HandleOK
<1>3. PICK m, p, l, c : m = f.manifest /\ p = Position(f.reader) /\ l = TotalSize(m) /\ c = Content(m)
  OBVIOUS
<1>4. PICK e : e = ReaderRead(m, f.reader, count)
  OBVIOUS
<1>5. /\ IsManifest(m) /\ count \in Nat /\ p \in Nat /\ l \in Nat /\ p <= l /\ f.temp = SubSeq(c, 1, p)
      /\ f.cache.index = 0 /\ c \in Seq(Bytes) /\ Len(c) = l
  <2>1. count \in Nat /\ p \in Nat /\ l \in Nat
    BY <1>2, <1>3, FileConstants, ReaderFacts, SizeFacts
  <2>2. c \in Seq(Bytes) /\ Len(c) = l
    BY <1>2, <1>3, ContentType
  <2>3. p <= l /\ f.temp = SubSeq(c, 1, p) /\ f.cache.index = 0
    BY <1>2, <1>3 DEF StagingOK
  <2>4. QED
    BY <1>2, <1>3, <2>1, <2>2, <2>3
<1>6. /\ f \in State /\ f.temp \in Seq(Bytes) /\ <<>> \in Seq(Chunk) /\ f.append \in BOOLEAN
  BY <1>2, StateFields DEF HandleOK
<1>7. PICK n \in Nat : Gives(m, p, count, n, e)
  <2>1. ReaderOK(m, f.reader)
    BY <1>2, <1>3
  <2>2. \E n \in Nat : Gives(m, Position(f.reader), count, n, ReaderRead(m, f.reader, count))
    BY <1>5, <2>1, ReaderReads
  <2>3. QED
    BY <1>3, <1>4, <2>2
<1>8. /\ e.out \in Seq(Bytes) /\ Len(e.out) = n /\ e.out = SubSeq(c, p + 1, p + n)
      /\ ReaderOK(m, e.reader) /\ e.reader \in Reader /\ Position(e.reader) = p + n
      /\ IF n = 0 THEN l <= p ELSE p + n <= l
  BY <1>2, <1>3, <1>7 DEF Gives, ReaderOK
<1>9. CASE e.out # <<>>
  <2>1. p + n <= l
    <3>1. n # 0
      BY <1>8, <1>9, EmptySeq
    <3>2. QED
      BY <1>8, <3>1
  <2>2. PICK t : t = f.temp \o e.out
    OBVIOUS
  <2>3. t = SubSeq(c, 1, p + n) /\ t \in Seq(Bytes)
    <3>1. SubSeq(c, 1, p) \o SubSeq(c, p + 1, p + n) = SubSeq(c, 1, p + n) /\ SubSeq(c, 1, p + n) \in Seq(Bytes)
      BY <1>3, <1>5, <2>1, Copied, ZenonT(60)
    <3>2. QED
      BY <1>5, <1>8, <2>2, <3>1, Zenon
  <2>4. PICK g : g = [f EXCEPT !.reader = e.reader, !.temp = t]
    OBVIOUS
  <2>5. file' = [file EXCEPT ![h] = g]
    <3>1. file' = [file EXCEPT ![h].reader = e.reader, ![h].temp = @ \o e.out]
      BY <1>1, <1>3, <1>4, <1>9 DEF Stage
    <3>2. QED
      BY <1>1, <1>2, <2>2, <2>4, <3>1
  <2>6. g \in State
    BY <1>6, <1>8, <2>3, <2>4 DEF State
  <2>7. /\ g.mode = "staging" /\ g.pos = f.pos /\ g.out = f.out /\ g.manifest = m
        /\ g.cache = f.cache /\ g.want = f.want /\ g.filled = f.filled /\ g.reader = e.reader
        /\ g.temp = t /\ g.append = f.append /\ g.dirty = f.dirty
    BY <1>2, <1>3, <1>6, <2>4 DEF State
  <2>8. StagingOK(g)
    BY <1>3, <1>5, <1>8, <2>1, <2>3, <2>7 DEF StagingOK
  <2>9. HandleOK(g)
    BY <1>2, <1>5, <1>8, <2>6, <2>7, <2>8 DEF HandleOK, CacheOK
  <2>10. OpenFile(g) = OpenFile(file[h])
    BY <1>1, <1>2, <1>3, <2>7 DEF OpenFile
  <2>11. QED
    BY <1>2, <2>5, <2>9, <2>10, Unseen
<1>10. CASE e.out = <<>>
  <2>1. p = l /\ f.temp = c
    <3>1. n = 0
      BY <1>8, <1>10, EmptySeq
    <3>2. p = l
      BY <1>5, <1>8, <3>1
    <3>3. p + 0 <= l /\ 0 \in Nat
      BY <1>5
    <3>4. SubSeq(c, 1, l) = c
      BY <1>3, <1>5, <3>3, Copied
    <3>5. QED
      BY <1>5, <3>2, <3>4
  <2>2. PICK pos \in Nat : pos = IF f.append THEN l ELSE 0
    BY <1>5
  <2>3. PICK g : g = [f EXCEPT !.mode = "write", !.len = l, !.pos = pos, !.manifest = <<>>, !.reader = NewReader]
    OBVIOUS
  <2>4. file' = [file EXCEPT ![h] = g]
    <3>1. Len(f.temp) = l
      BY <1>5, <2>1
    <3>2. file' = [file EXCEPT ![h].mode = "write", ![h].len = l, ![h].pos = pos,
                               ![h].manifest = <<>>, ![h].reader = NewReader]
      BY <1>1, <1>3, <1>4, <1>10, <2>2, <3>1 DEF Stage
    <3>3. QED
      BY <1>1, <1>2, <2>3, <3>2
  <2>5. NewReader \in Reader /\ IsManifest(<<>>) /\ ReaderOK(<<>>, NewReader)
    BY NothingToRead, ReaderStarts DEF ReaderOK
  <2>6. g \in State
    BY <1>5, <1>6, <2>3, <2>5 DEF State
  <2>7. /\ g.mode = "write" /\ g.pos = pos /\ g.out = f.out /\ g.manifest = <<>>
        /\ g.cache = f.cache /\ g.want = f.want /\ g.filled = f.filled /\ g.reader = NewReader
        /\ g.temp = f.temp /\ g.len = l /\ g.append = f.append /\ g.dirty = f.dirty
    BY <1>2, <1>6, <2>3 DEF State
  <2>8. Len(g.temp) <= g.len
    BY <1>5, <2>1, <2>7
  <2>9. HandleOK(g)
    BY <1>2, <1>5, <2>5, <2>6, <2>7, <2>8 DEF HandleOK, CacheOK
  <2>10. SetLen(g.temp, g.len) = c
    <3>1. SetLen(c, Len(c)) = c
      BY <1>5, SetLenAgain
    <3>2. QED
      BY <1>5, <2>1, <2>7, <3>1
  <2>11. OpenFile(g) = OpenFile(file[h])
    BY <1>1, <1>2, <1>3, <2>2, <2>7, <2>10 DEF OpenFile
  <2>12. QED
    BY <1>2, <2>4, <2>9, <2>11, Unseen
<1>11. QED
  BY <1>9, <1>10

-----------------------------------------------------------------------------
(* The theorems                                                            *)

\* What others see of the open files.
Opened == [h \in Handles |-> OpenFile(file[h])]

\* A step does what ByteFile says, or nothing that shows.
FileStepDoes == File!FileNext \/ (Content(stored)' = Content(stored) /\ Opened' = Opened)

LEMMA ReadNextDoes ==
  ASSUME FileInv, NEW h \in Handles, ReadNext(h)
  PROVE  FileInv' /\ FileStepDoes
<1>1. CASE OpenRead(h)
  BY <1>1, OpenReadDoes DEF FileStepDoes, File!FileNext
<1>2. ASSUME NEW count \in Counts, ReadBytes(h, count) PROVE FileInv' /\ FileStepDoes
  <2>1. /\ FileInv'
        /\ File!Read(h) \/ (stored' = stored /\ [k \in Handles |-> OpenFile(file'[k])]
                                                  = [k \in Handles |-> OpenFile(file[k])])
    BY <1>2, ReadBytesDoes
  <2>2. QED
    BY <2>1 DEF FileStepDoes, File!FileNext, Opened
<1>3. ASSUME NEW count \in Counts, ReadStaged(h, count) PROVE FileInv' /\ FileStepDoes
  BY <1>3, ReadStagedDoes DEF FileStepDoes, File!FileNext
<1>4. ASSUME NEW count \in Counts, ReadReader(h, count) PROVE FileInv' /\ FileStepDoes
  BY <1>4, ReadReaderDoes DEF FileStepDoes, File!FileNext
<1>5. CASE ReadChunk(h)
  <2>1. /\ FileInv' /\ stored' = stored
        /\ [k \in Handles |-> OpenFile(file'[k])] = [k \in Handles |-> OpenFile(file[k])]
    BY <1>5, ReadChunkDoes
  <2>2. QED
    BY <2>1 DEF FileStepDoes, Opened
<1>6. CASE ReadDone(h)
  BY <1>6, ReadDoneDoes DEF FileStepDoes, File!FileNext
<1>7. CASE ReadFails(h)
  BY <1>7, ReadFailsDoes DEF FileStepDoes, File!FileNext
<1>8. QED
  BY <1>1, <1>2, <1>3, <1>4, <1>5, <1>6, <1>7 DEF ReadNext

LEMMA WriteNextDoes ==
  ASSUME FileInv, NEW h \in Handles, WriteNext(h)
  PROVE  FileInv' /\ FileStepDoes
<1>1. ASSUME NEW append \in BOOLEAN, NEW truncate \in BOOLEAN, OpenWrite(h, append, truncate)
      PROVE  FileInv' /\ FileStepDoes
  BY <1>1, OpenWriteDoes DEF FileStepDoes, File!FileNext
<1>2. ASSUME NEW count \in Counts, Stage(h, count) PROVE FileInv' /\ FileStepDoes
  <2>1. /\ FileInv' /\ stored' = stored
        /\ [k \in Handles |-> OpenFile(file'[k])] = [k \in Handles |-> OpenFile(file[k])]
    BY <1>2, StageDoes
  <2>2. QED
    BY <2>1 DEF FileStepDoes, Opened
<1>3. ASSUME NEW buf \in Bufs, Write(h, buf) PROVE FileInv' /\ FileStepDoes
  BY <1>3, WriteDoes DEF FileStepDoes, File!FileNext
<1>4. CASE Flush(h)
  BY <1>4, FlushDoes DEF FileStepDoes, File!FileNext
<1>5. CASE FlushFails(h)
  BY <1>5, FlushFailsDoes DEF FileStepDoes, File!FileNext
<1>6. QED
  BY <1>1, <1>2, <1>3, <1>4, <1>5 DEF WriteNext

\* The invariant is inductive, and every step is one of ByteFile or shows
\* nothing: this is the step behind the theorems below.
THEOREM FileStep ==
  FileInv /\ [FileNext]_vars => FileInv' /\ [File!FileNext]_<<Content(stored), Opened>>
<1>1. SUFFICES ASSUME FileInv, [FileNext]_vars
               PROVE  FileInv' /\ FileStepDoes
  BY DEF FileStepDoes
<1>2. CASE UNCHANGED vars
  BY <1>1, <1>2 DEF vars, FileInv, FileStepDoes, Opened
<1>3. ASSUME NEW h \in Handles, ReadNext(h) PROVE FileInv' /\ FileStepDoes
  BY <1>1, <1>3, ReadNextDoes
<1>4. ASSUME NEW h \in Handles, WriteNext(h) PROVE FileInv' /\ FileStepDoes
  BY <1>1, <1>4, WriteNextDoes
<1>5. ASSUME NEW h \in Handles, Close(h) PROVE FileInv' /\ FileStepDoes
  BY <1>1, <1>5, CloseDoes DEF FileStepDoes, File!FileNext
<1>6. ASSUME NEW h \in Handles, NEW n \in Offsets, Seek(h, n) PROVE FileInv' /\ FileStepDoes
  BY <1>1, <1>6, SeekDoes DEF FileStepDoes, File!FileNext
<1>7. ASSUME NEW bytes \in Contents, Replace(bytes) PROVE FileInv' /\ FileStepDoes
  BY <1>1, <1>7, ReplaceDoes DEF FileStepDoes, File!FileNext
<1>8. QED
  BY <1>1, <1>2, <1>3, <1>4, <1>5, <1>6, <1>7 DEF FileNext

\* Initially the invariant holds and nothing is open.
LEMMA FileBegins == FileInit => FileInv /\ File!FileInit
<1>1. SUFFICES ASSUME FileInit PROVE FileInv /\ File!FileInit
  OBVIOUS
<1>2. PICK bytes \in Contents : stored \in StoreFile(bytes)
  BY <1>1 DEF FileInit
<1>3. IsManifest(stored)
  BY <1>2, FileConstants, StoredWhole
<1>4. file = [h \in Handles |-> Closed]
  BY <1>1 DEF FileInit
<1>5. FileInv
  BY <1>3, <1>4, ClosedOK DEF FileInv, HandleOK
<1>6. File!FileInit
  BY <1>4, ClosedOK DEF File!FileInit
<1>7. QED
  BY <1>5, <1>6

\* What is kept for each open file (the chunk it caches, where its reader is,
\* what read_bytes has so far, what new_write has copied) is that of the
\* manifest it was opened with, after any sequence of operations.
THEOREM FileInvariant == FileSpec => []FileInv
<1>1. FileInit => FileInv
  BY FileBegins
<1>2. FileInv /\ [FileNext]_vars => FileInv'
  BY FileStep
<1>3. QED
  BY <1>1, <1>2, PTL DEF FileSpec

\* Every state of every handle has its type, and every manifest, stored or
\* open, is one: chunk after chunk, none empty.
THEOREM FilesAreTyped == FileSpec => []FileTypeOK
<1>1. FileInv => FileTypeOK
  BY DEF FileInv, FileTypeOK, HandleOK
<1>2. QED
  BY <1>1, FileInvariant, PTL

\* FileHandle and ManifestReader give what plain bytes with a position would
\* give: chunk boundaries, the cached chunk, the staging file with its length,
\* and other handles of the same file never show.
THEOREM FilesAreBytes == FileSpec => ImplementsByteFile
<1>1. FileInit => FileInv /\ File!FileInit
  BY FileBegins
<1>2. FileInv /\ [FileNext]_vars
        => FileInv' /\ [File!FileNext]_<<Content(stored), [h \in Handles |-> OpenFile(file[h])]>>
  BY FileStep DEF Opened
<1>3. QED
  BY <1>1, <1>2, FileInvariant, PTL DEF FileSpec, ImplementsByteFile, File!FileSpec

=============================================================================
