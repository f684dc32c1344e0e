----------------------------- MODULE FileHandle -----------------------------
(***************************************************************************)
(* The ways content is read and written byte by byte: FileHandle, open for *)
(* reading or for writing (crates/vfs/src/file.rs), and ManifestReader     *)
(* (crates/blobstore/src/manifest.rs), over one file.                      *)
(*                                                                         *)
(* The hash of a chunk stands for its bytes: a chunk is read from the blob *)
(* store as it was put there or, when its blob is gone, not at all. What   *)
(* recording a new version does to the tables is the matter of MetaStore.  *)
(***************************************************************************)
EXTENDS Integers, Sequences

CONSTANTS
  Handles,     \* bound: files open at once
  Bytes,
  ZERO,        \* the byte a file is extended with
  Contents,    \* bound: contents the file may be given by others
  MaxPos,      \* bound: positions
  Counts,      \* bound: how much is read at once
  Bufs,        \* bound: what is written at once
  Offsets      \* bound: how far a seek goes

ASSUME FileConstants ==
  /\ ZERO \in Bytes
  /\ Contents \subseteq Seq(Bytes)
  /\ MaxPos \in Nat
  /\ Counts \subseteq Nat
  /\ Bufs \subseteq Seq(Bytes)
  /\ Offsets \subseteq Int

VARIABLES
  stored,   \* the manifest of the current version
  file      \* handle -> its state

vars == <<stored, file>>

-----------------------------------------------------------------------------
(* Manifests                                                               *)

Chunk == [offset : Nat, data : Seq(Bytes)]

End(chunk) == chunk.offset + Len(chunk.data)

TotalSize(m) == IF m = <<>> THEN 0 ELSE End(m[Len(m)])

\* The chunks lie one after the other, and none is empty.
IsManifest(m) ==
  /\ m \in Seq(Chunk)
  /\ \A i \in DOMAIN m : m[i].data # <<>> /\ m[i].offset = IF i = 1 THEN 0 ELSE End(m[i - 1])

\* The byte at pos is in the chunk.
Holds(chunk, pos) == chunk.offset <= pos /\ pos < End(chunk)

\* At each position there is the byte of the chunk that lies there.
Content(m) ==
  [k \in 1..TotalSize(m) |->
     LET chunk == m[CHOOSE i \in DOMAIN m : Holds(m[i], k - 1)] IN chunk.data[k - chunk.offset]]

\* The chunks of bytes that end where ends says.
Chunked(bytes, ends) ==
  LET start(i) == IF i = 1 THEN 0 ELSE ends[i - 1]
  IN [i \in DOMAIN ends |-> [offset |-> start(i), data |-> SubSeq(bytes, start(i) + 1, ends[i])]]

\* The ways to cut a size into n chunks.
Cuts(size, n) ==
  {ends \in [1..n -> 1..size] :
     /\ \A i \in 2..n : ends[i - 1] < ends[i]
     /\ size = IF n = 0 THEN 0 ELSE ends[n]}

\* store_file. Where the chunker cuts is its own affair.
StoreFile(bytes) == UNION {{Chunked(bytes, ends) : ends \in Cuts(Len(bytes), n)} : n \in 0..Len(bytes)}

Cap(n, bound) == IF n <= bound THEN n ELSE bound

\* (mutant) off by one at the end of a chunk
ChunkAt_Late(m, pos) ==
  CHOOSE i \in DOMAIN m : m[i].offset <= pos /\ pos <= m[i].offset + Len(m[i].data)

\* The binary search for the chunk that holds the byte at pos.
ChunkAt(m, pos) == CHOOSE i \in DOMAIN m : Holds(m[i], pos)

-----------------------------------------------------------------------------
(* ManifestReader                                                          *)

\* The chunk that is being read, where in it, where it begins, and which is next.
NewReader == [chunk |-> <<>>, cursor |-> 0, base |-> 0, next |-> 1]

Position(r) == r.base + r.cursor

\* The loop of read goes on to the next chunk when this one is exhausted;
\* no chunk is empty.
Advance(m, r) ==
  IF r.cursor < Len(r.chunk) \/ r.next > Len(m) THEN r
  ELSE [chunk |-> m[r.next].data, cursor |-> 0, base |-> m[r.next].offset, next |-> r.next + 1]

\* read: the bytes, and the reader after it.
ReaderRead(m, r, count) ==
  LET a == Advance(m, r)
      n == Cap(count, Len(a.chunk) - a.cursor)
  IN IF count = 0 THEN [out |-> <<>>, reader |-> r]
     ELSE [out |-> SubSeq(a.chunk, a.cursor + 1, a.cursor + n),
           reader |-> [a EXCEPT !.cursor = @ + n]]

\* seek, to a position that is not negative.
ReaderSeek(m, pos) ==
  IF pos >= TotalSize(m)
  THEN [chunk |-> <<>>, cursor |-> 0, base |-> pos, next |-> Len(m) + 1]
  ELSE LET i == ChunkAt(m, pos) IN
       [chunk |-> m[i].data, cursor |-> pos - m[i].offset, base |-> m[i].offset, next |-> i + 1]

-----------------------------------------------------------------------------
(* Handles                                                                 *)

Reader == [chunk : Seq(Bytes), cursor : Nat, base : Nat, next : Nat]
Cache  == [index : Nat, data : Seq(Bytes)]

State == [mode     : {"closed",                    \* no such handle
                      "read", "reading",           \* State::Read, in read_bytes or not
                      "staging", "write",          \* State::Write, in new_write or after it
                      "reader"},                   \* a ManifestReader
          pos      : Nat,
          out      : Seq(Bytes),                   \* what the last read gave
          manifest : Seq(Chunk),
          cache    : Cache,                        \* the chunk read last; index 0 is none
          want     : Nat,                          \* for read_bytes: how much,
          filled   : Seq(Bytes),                   \* and what there is of it
          reader   : Reader,
          temp     : Seq(Bytes),                   \* the staging file
          len      : Nat,
          append   : BOOLEAN,
          dirty    : BOOLEAN]

NoCache == [index |-> 0, data |-> <<>>]

Closed == [mode |-> "closed", pos |-> 0, out |-> <<>>, manifest |-> <<>>, cache |-> NoCache,
           want |-> 0, filled |-> <<>>, reader |-> NewReader, temp |-> <<>>, len |-> 0,
           append |-> FALSE, dirty |-> FALSE]

In(h, modes) == file[h].mode \in modes

\* FileHandle::len
Length(h) == IF In(h, {"write"}) THEN file[h].len ELSE TotalSize(file[h].manifest)

FileInit ==
  /\ stored \in UNION {StoreFile(bytes) : bytes \in Contents}
  /\ file = [h \in Handles |-> Closed]

OpenRead(h) ==
  /\ In(h, {"closed"})
  /\ \E mode \in {"read", "reader"} :
       file' = [file EXCEPT ![h].mode = mode, ![h].manifest = stored]
  /\ UNCHANGED stored

\* new_write. Unless it truncates, it copies the content first.
OpenWrite(h, append, truncate) ==
  /\ In(h, {"closed"})
  /\ file' = [file EXCEPT ![h].mode = IF truncate THEN "write" ELSE "staging",
                          ![h].manifest = IF truncate THEN <<>> ELSE stored,
                          ![h].append = append, ![h].dirty = truncate]
  /\ UNCHANGED stored

\* io::copy, a buffer at a time, until there is no more.
Stage(h, count) ==
  /\ In(h, {"staging"})
  /\ count > 0
  /\ LET f == file[h]
         r == ReaderRead(f.manifest, f.reader, count)
     IN file' = IF r.out # <<>>
                THEN [file EXCEPT ![h].reader = r.reader, ![h].temp = @ \o r.out]
                ELSE [file EXCEPT ![h].mode = "write", ![h].len = Len(f.temp),
                                  ![h].pos = IF f.append THEN Len(f.temp) ELSE 0,
                                  ![h].manifest = <<>>, ![h].reader = NewReader]
  /\ UNCHANGED stored

\* (mutant) a position beyond the end is not looked for
ReadBytes_PastEnd(h, count) ==
  /\ In(h, {"read"})
  /\ LET want == Cap(count, Length(h) - file[h].pos)
     IN file' = IF want = 0 THEN [file EXCEPT ![h].out = <<>>]
                ELSE [file EXCEPT ![h].mode = "reading", ![h].want = want]
  /\ UNCHANGED stored

\* read_bytes, of a handle for reading: how much there is to read, ...
ReadBytes(h, count) ==
  /\ In(h, {"read"})
  /\ LET f    == file[h]
         want == Cap(count, Length(h) - f.pos)
     IN file' = IF f.pos >= Length(h) \/ want = 0 THEN [file EXCEPT ![h].out = <<>>]
                ELSE [file EXCEPT ![h].mode = "reading", ![h].want = want]
  /\ UNCHANGED stored

\* (mutant) whatever is cached is good
ChunkData_AnyCached(f, i) == IF f.cache.index # 0 THEN f.cache.data ELSE f.manifest[i].data

ChunkData(f, i) == IF f.cache.index = i THEN f.cache.data ELSE f.manifest[i].data

\* What a chunk has of the w bytes from pos on.
Part(chunk, pos, w) ==
  LET from == pos - chunk.offset IN
  SubSeq(chunk.data, from + 1, from + Cap(Len(chunk.data) - from, w))

\* ... and then chunk by chunk, ...
ReadChunk(h) ==
  LET f    == file[h]
      abs  == f.pos + Len(f.filled)
      i    == ChunkAt(f.manifest, abs)
      data == ChunkData(f, i)
      part == Part([offset |-> f.manifest[i].offset, data |-> data], abs, f.want - Len(f.filled))
  IN
  /\ In(h, {"reading"}) /\ Len(f.filled) < f.want
  /\ file' = [file EXCEPT ![h] = [f EXCEPT !.cache = [index |-> i, data |-> data],
                                           !.filled = f.filled \o part]]
  /\ UNCHANGED stored

\* ... until that is done, ...
ReadDone(h) ==
  LET f == file[h] IN
  /\ In(h, {"reading"}) /\ Len(f.filled) = f.want
  /\ file' = [file EXCEPT ![h].mode = "read", ![h].out = f.filled, ![h].pos = @ + f.want,
                          ![h].want = 0, ![h].filled = <<>>]
  /\ UNCHANGED stored

\* ... or a blob cannot be read.
ReadFails(h) ==
  /\ In(h, {"reading"})
  /\ file' = [file EXCEPT ![h].mode = "read", ![h].out = <<>>, ![h].want = 0, ![h].filled = <<>>]
  /\ UNCHANGED stored

\* read_bytes, of a handle for writing. read_exact fails if the staging file
\* is shorter than len.
ReadStaged(h, count) ==
  LET f    == file[h]
      want == IF f.pos >= f.len THEN 0 ELSE Cap(count, f.len - f.pos)
  IN
  /\ In(h, {"write"})
  /\ want > 0 => f.pos + want <= Len(f.temp)
  /\ file' = [file EXCEPT ![h].out = SubSeq(f.temp, f.pos + 1, f.pos + want), ![h].pos = @ + want]
  /\ UNCHANGED stored

\* The read of a ManifestReader. A blob that cannot be read leaves it as it is.
ReadReader(h, count) ==
  LET r == ReaderRead(file[h].manifest, file[h].reader, count) IN
  /\ In(h, {"reader"})
  /\ file' = [file EXCEPT ![h].out = r.out, ![h].reader = r.reader]
  /\ UNCHANGED stored

\* Both seeks: from the start, from here, from the end. The target may be
\* beyond the end, and fails below 0.
Seek(h, n) ==
  LET f    == file[h]
      here == IF In(h, {"reader"}) THEN Position(f.reader) ELSE f.pos
  IN
  /\ In(h, {"read", "write", "reader"})
  /\ \E from \in {0, here, Length(h)} :
       LET target == from + n IN
       /\ target >= 0
       /\ target <= MaxPos
       /\ file' = IF In(h, {"reader"})
                  THEN [file EXCEPT ![h].reader = ReaderSeek(f.manifest, target), ![h].out = <<>>]
                  ELSE [file EXCEPT ![h].pos = target, ![h].out = <<>>]
  /\ UNCHANGED stored

\* A file, with buf written at position pos; a gap before it reads as zeros.
WriteAt(temp, pos, buf) ==
  IF buf = <<>> THEN temp
  ELSE [i \in 1..(IF pos + Len(buf) > Len(temp) THEN pos + Len(buf) ELSE Len(temp)) |->
          IF i > pos /\ i <= pos + Len(buf) THEN buf[i - pos]
          ELSE IF i <= Len(temp) THEN temp[i] ELSE ZERO]

\* set_len: cut off, or extended with zeros.
SetLen(temp, len) == [i \in 1..len |-> IF i <= Len(temp) THEN temp[i] ELSE ZERO]

WritePos(h) == IF file[h].append THEN file[h].len ELSE file[h].pos

\* write_bytes and write_buf. When one fails, dav-server drops the handle: Close(h).
Write(h, buf) ==
  LET end == WritePos(h) + Len(buf) IN
  /\ In(h, {"write"})
  /\ end <= MaxPos
  /\ file' = [file EXCEPT ![h].temp = WriteAt(@, WritePos(h), buf), ![h].pos = end,
                          ![h].len = IF end > @ THEN end ELSE @, ![h].dirty = TRUE,
                          ![h].out = <<>>]
  /\ UNCHANGED stored

\* flush, of a handle with something to commit; any other does nothing.
Flush(h) ==
  LET bytes == SetLen(file[h].temp, file[h].len) IN
  /\ In(h, {"write"}) /\ file[h].dirty
  /\ stored' \in StoreFile(bytes)
  /\ file' = [file EXCEPT ![h].temp = bytes, ![h].dirty = FALSE, ![h].out = <<>>]

\* The chunks cannot be stored, or not be recorded.
FlushFails(h) ==
  /\ In(h, {"write"}) /\ file[h].dirty
  /\ file' = [file EXCEPT ![h].temp = SetLen(@, file[h].len), ![h].out = <<>>]
  /\ UNCHANGED stored

\* Another request records a content: a PUT, a COPY or a revert.
Replace(bytes) ==
  /\ stored' \in StoreFile(bytes)
  /\ UNCHANGED file

\* The handle is dropped, and its staging file with it.
Close(h) ==
  /\ ~In(h, {"closed"})
  /\ file' = [file EXCEPT ![h] = Closed]
  /\ UNCHANGED stored

ReadNext(h) ==
  \/ OpenRead(h)
  \/ \E count \in Counts : ReadBytes(h, count) \/ ReadStaged(h, count) \/ ReadReader(h, count)
  \/ ReadChunk(h) \/ ReadDone(h) \/ ReadFails(h)

WriteNext(h) ==
  \/ \E append \in BOOLEAN, truncate \in BOOLEAN : OpenWrite(h, append, truncate)
  \/ \E count \in Counts : Stage(h, count)
  \/ \E buf \in Bufs : Write(h, buf)
  \/ Flush(h) \/ FlushFails(h)

FileNext ==
  \/ \E h \in Handles :
       \/ ReadNext(h) \/ WriteNext(h) \/ Close(h)
       \/ \E n \in Offsets : Seek(h, n)
  \/ \E bytes \in Contents : Replace(bytes)

\* read_bytes runs on to its end once it is called: there is no await in it.
FileSpec ==
  /\ FileInit /\ [][FileNext]_vars
  /\ \A h \in Handles : WF_vars(ReadChunk(h)) /\ WF_vars(ReadDone(h))

-----------------------------------------------------------------------------

FileTypeOK ==
  /\ IsManifest(stored)
  /\ file \in [Handles -> State]
  /\ \A h \in Handles : IsManifest(file[h].manifest)

\* However the chunks lie, an open file is a sequence of bytes with a position.
\* While new_write copies, nobody has the handle, and it is as good as open.
OpenFile(f) ==
  [mode   |-> CASE f.mode = "reading" -> "read" [] f.mode = "staging" -> "write" [] OTHER -> f.mode,
   bytes  |-> IF f.mode = "write" THEN SetLen(f.temp, f.len) ELSE Content(f.manifest),
   pos    |-> CASE f.mode = "reader" -> Position(f.reader)
                [] f.mode = "staging" -> IF f.append THEN TotalSize(f.manifest) ELSE 0
                [] OTHER -> f.pos,
   out    |-> f.out,
   append |-> f.append,
   dirty  |-> f.dirty]

File == INSTANCE ByteFile WITH
          stored <- Content(stored), open <- [h \in Handles |-> OpenFile(file[h])], Positions <- 0..MaxPos

\* Reads, seeks, writes and flushes are those of plain bytes: chunk boundaries,
\* the cache, the staging file and other handles of the file do not show.
ImplementsByteFile == File!FileSpec

\* A read ends: its loop over the chunks gets ahead each time.
ReadsEnd == \A h \in Handles : In(h, {"reading"}) ~> ~In(h, {"reading"})
=============================================================================
