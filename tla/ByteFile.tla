------------------------------ MODULE ByteFile ------------------------------
(***************************************************************************)
(* What the open files of a server promise, without chunks, caches and     *)
(* staging files: each is a sequence of bytes of its own, taken when it    *)
(* was opened, with a position in it; and what was written to it becomes   *)
(* the stored content, as a whole, when it is flushed.                     *)
(***************************************************************************)
EXTENDS Integers, Sequences

CONSTANTS
  Handles,
  ZERO,        \* the byte that fills gaps
  Positions,   \* bound: where a seek may end up
  Counts,      \* bound: how much is read at once
  Bufs,        \* bound: what is written at once
  Contents     \* bound: what others may store

VARIABLES
  stored,   \* the content of the file
  open      \* handle -> what it has open

Closed == [mode |-> "closed", bytes |-> <<>>, pos |-> 0, out |-> <<>>,
           append |-> FALSE, dirty |-> FALSE]

IsOpen(h) == open[h].mode # "closed"

Cap(n, bound) == IF n <= bound THEN n ELSE bound

\* s, with buf written at position pos, after as many zeros as it takes to get there.
Overwrite(s, pos, buf) ==
  LET end == pos + Len(buf) IN
  [i \in 1..(IF end > Len(s) THEN end ELSE Len(s)) |->
     IF i > pos /\ i <= end THEN buf[i - pos] ELSE IF i <= Len(s) THEN s[i] ELSE ZERO]

-----------------------------------------------------------------------------

\* To read, at once or in pieces, or to write, with or without what is stored.
Open(h) ==
  /\ open[h] = Closed
  /\ \/ \E mode \in {"read", "reader"} :
          open' = [open EXCEPT ![h] = [Closed EXCEPT !.mode = mode, !.bytes = stored]]
     \/ \E append \in BOOLEAN, truncate \in BOOLEAN :
          LET bytes == IF truncate THEN <<>> ELSE stored IN
          open' = [open EXCEPT ![h] = [Closed EXCEPT !.mode = "write", !.bytes = bytes,
                                         !.append = append, !.dirty = truncate,
                                         !.pos = IF append THEN Len(bytes) ELSE 0]]
  /\ UNCHANGED stored

\* How much there is from the position on.
Left(f) == IF f.pos < Len(f.bytes) THEN Len(f.bytes) - f.pos ELSE 0

\* The file after n bytes were read from it.
Taken(f, n) == [f EXCEPT !.out = SubSeq(f.bytes, f.pos + 1, f.pos + n), !.pos = f.pos + n]

\* What is asked for, as far as there is as much; a reader may give less,
\* but not nothing.
Read(h) ==
  /\ IsOpen(h)
  /\ \E count \in Counts, n \in 0..Left(open[h]) :
       /\ IF open[h].mode = "reader" THEN n <= count /\ (n = 0 => count = 0 \/ Left(open[h]) = 0)
                                     ELSE n = Cap(count, Left(open[h]))
       /\ open' = [open EXCEPT ![h] = Taken(open[h], n)]
  /\ UNCHANGED stored

Seek(h) ==
  /\ IsOpen(h)
  /\ \E pos \in Positions : open' = [open EXCEPT ![h] = [open[h] EXCEPT !.out = <<>>, !.pos = pos]]
  /\ UNCHANGED stored

\* A read or a flush fails.
Fails(h) ==
  /\ IsOpen(h)
  /\ open' = [open EXCEPT ![h] = [open[h] EXCEPT !.out = <<>>]]
  /\ UNCHANGED stored

\* The file after buf was written to it, at the end or at the position; the
\* position follows.
Written(f, buf) ==
  LET at == IF f.append THEN Len(f.bytes) ELSE f.pos IN
  [f EXCEPT !.bytes = Overwrite(f.bytes, at, buf), !.out = <<>>, !.pos = at + Len(buf), !.dirty = TRUE]

Write(h) ==
  /\ open[h].mode = "write"
  /\ \E buf \in Bufs : open' = [open EXCEPT ![h] = Written(open[h], buf)]
  /\ UNCHANGED stored

Flush(h) ==
  /\ open[h].mode = "write" /\ open[h].dirty
  /\ stored' = open[h].bytes
  /\ open' = [open EXCEPT ![h] = [open[h] EXCEPT !.out = <<>>, !.dirty = FALSE]]

\* The content is replaced by somebody else; no open file notices.
Replace(bytes) == stored' = bytes /\ UNCHANGED open

\* Nothing is stored on the way.
Close(h) ==
  /\ open' = [open EXCEPT ![h] = Closed]
  /\ UNCHANGED stored

FileInit == open = [h \in Handles |-> Closed]

FileNext ==
  \/ \E h \in Handles : Open(h) \/ Close(h) \/ Read(h) \/ Fails(h) \/ Seek(h) \/ Write(h) \/ Flush(h)
  \/ \E bytes \in Contents : Replace(bytes)

FileSpec == FileInit /\ [][FileNext]_<<stored, open>>
=============================================================================
