-------------------------- MODULE BlobCommit_proofs --------------------------
(***************************************************************************)
(* Blobs are whole and needed ones are there, for any number of writers    *)
(* and hashes.                                                             *)
(***************************************************************************)
EXTENDS BlobCommit, TLAPS

Whole == [whole |-> TRUE, synced |-> TRUE]

\* Every entry of dir leads to a file that is all there, and on the disk.
IsSound(dir) == dir \in Directory /\ \A c \in DOMAIN dir : dir[c] = Whole

\* A writer that is busy knows its hash, and one that is about to rename has a
\* file that is all there.
IsReady(r) ==
  /\ r \in Put
  /\ r.pc # "idle" => r.chunk \in Chunks
  /\ r.pc \in {"commit", "sync", "persist"} => r.temp.whole
  /\ r.pc = "persist" => r.temp = Whole

\* A sweep runs while no writer does, and has nothing on its list that is needed.
SweepsApart ==
  /\ gc \in [on : BOOLEAN, todo : SUBSET Chunks]
  /\ gc.on => \A w \in Writers : At(w, "idle")
  /\ ~gc.on => gc.todo = {}
  /\ gc.todo \cap needed = {}

BlobInv ==
  /\ IsSound(names)
  /\ IsSound(onDisk)
  /\ put \in [Writers -> Put]
  /\ \A w \in Writers : IsReady(put[w])
  /\ SweepsApart
  /\ needed \subseteq DOMAIN names

-----------------------------------------------------------------------------
(* Directories                                                             *)

LEMMA DirectoryIs ==
  ASSUME NEW dir
  PROVE  dir \in Directory <=> /\ dir = [c \in DOMAIN dir |-> dir[c]]
                               /\ DOMAIN dir \subseteq Chunks
                               /\ \A c \in DOMAIN dir : dir[c] \in File
BY DEF Directory

LEMMA WholeIsFile == Whole \in File
BY DEF Whole, File

\* A new entry that is sound leaves the directory sound.
LEMMA SoundWith ==
  ASSUME NEW dir, IsSound(dir), NEW c \in Chunks
  PROVE  IsSound(With(dir, c, Whole)) /\ DOMAIN With(dir, c, Whole) = DOMAIN dir \cup {c}
<1> DEFINE S == DOMAIN dir \cup {c}
           new == [d \in S |-> IF d = c THEN Whole ELSE dir[d]]
<1>1. DOMAIN dir \subseteq Chunks /\ \A d \in DOMAIN dir : dir[d] = Whole
  BY DirectoryIs DEF IsSound
<1>2. new \in [S -> File]
  BY <1>1, WholeIsFile
<1>3. new \in Directory
  BY <1>1, <1>2 DEF Directory
<1>4. DOMAIN new = S /\ \A d \in S : new[d] = Whole
  BY <1>1
<1>5. With(dir, c, Whole) = new
  BY DEF With
<1>6. QED
  BY <1>3, <1>4, <1>5 DEF IsSound

LEMMA SoundWithout ==
  ASSUME NEW dir, IsSound(dir), NEW c
  PROVE  IsSound(Without(dir, c)) /\ DOMAIN Without(dir, c) = DOMAIN dir \ {c}
<1> DEFINE S == DOMAIN dir \ {c}
           new == [d \in S |-> dir[d]]
<1>1. DOMAIN dir \subseteq Chunks /\ \A d \in DOMAIN dir : dir[d] = Whole
  BY DirectoryIs DEF IsSound
<1>2. new \in [S -> File]
  BY <1>1, WholeIsFile
<1>3. new \in Directory
  BY <1>1, <1>2 DEF Directory
<1>4. DOMAIN new = S /\ \A d \in S : new[d] = Whole
  BY <1>1
<1>5. Without(dir, c) = new
  BY DEF Without
<1>6. QED
  BY <1>3, <1>4, <1>5 DEF IsSound

-----------------------------------------------------------------------------
(* Steps                                                                   *)

LEMMA InitIsSound == BlobInit => BlobInv
<1> SUFFICES ASSUME BlobInit PROVE BlobInv
  OBVIOUS
<1>1. IsSound(names) /\ IsSound(onDisk)
  BY DirectoryIs DEF BlobInit, IsSound, Directory
<1>2. Idle \in Put
  BY DEF Idle, Put, NULL, Empty, File
<1>3. QED
  BY <1>1, <1>2 DEF BlobInit, BlobInv, IsReady, Idle, SweepsApart, NoSweep, At

\* What a writer does: its own record changes and stays in order, the directory
\* loses nothing, and what is needed is there. Its sweep is not on.
LEMMA WriterStep ==
  ASSUME BlobInv, NEW w \in Writers, ~gc.on, NEW r, IsReady(r),
         put' = [put EXCEPT ![w] = r], UNCHANGED <<onDisk, gc>>,
         IsSound(names'), needed' \subseteq DOMAIN names'
  PROVE  BlobInv'
<1>1. put' \in [Writers -> Put] /\ \A v \in Writers : IsReady(put'[v])
  BY DEF BlobInv, IsReady
<1>2. SweepsApart'
  BY DEF BlobInv, SweepsApart
<1>3. QED
  BY <1>1, <1>2 DEF BlobInv, IsSound

\* A writer that is busy finds no sweep going on.
LEMMA BusyMeansNoSweep ==
  ASSUME BlobInv, NEW w \in Writers, ~At(w, "idle")
  PROVE  ~gc.on
BY DEF BlobInv, SweepsApart

LEMMA IdleIsReady == IsReady(Idle)
BY DEF IsReady, Idle, Put, NULL, Empty, File

LEMMA StartIsSound ==
  ASSUME BlobInv, NEW w \in Writers, NEW c \in Chunks, Start(w, c)
  PROVE  BlobInv'
<1>1. CASE c \in DOMAIN names
  BY <1>1 DEF Start, BlobInv, SweepsApart, Store, At, IsSound
<1>2. CASE c \notin DOMAIN names
  <2> DEFINE r == [pc |-> "write", chunk |-> c, temp |-> Empty]
  <2>1. IsReady(r)
    BY DEF IsReady, Put, Empty, File
  <2>2. put' = [put EXCEPT ![w] = r] /\ ~gc.on /\ UNCHANGED <<names, onDisk, gc, needed>>
    BY <1>2 DEF Start, Store
  <2>3. IsSound(names') /\ needed' \subseteq DOMAIN names'
    BY <2>2 DEF BlobInv
  <2> HIDE DEF r
  <2>4. QED
    BY <2>1, <2>2, <2>3, WriterStep
<1>3. QED
  BY <1>1, <1>2

\* The steps in which a writer only goes on.
LEMMA WritingIsSound ==
  ASSUME BlobInv, NEW w \in Writers,
         WriteTemp(w) \/ SyncTemp(w) \/ PutFails(w) \/ (CommitCheck(w) /\ put[w].chunk \notin DOMAIN names)
  PROVE  BlobInv'
<1>1. put[w] \in Put /\ IsReady(put[w]) /\ ~gc.on /\ put \in [Writers -> Put]
  BY BusyMeansNoSweep DEF BlobInv, WriteTemp, SyncTemp, PutFails, CommitCheck, At
<1>2. UNCHANGED <<names, onDisk, gc, needed>>
  BY DEF WriteTemp, SyncTemp, PutFails, CommitCheck, Store
<1>3. IsSound(names') /\ needed' \subseteq DOMAIN names'
  BY <1>2 DEF BlobInv
<1>4. PICK r : IsReady(r) /\ put' = [put EXCEPT ![w] = r]
  <2>1. CASE WriteTemp(w)
    <3> DEFINE r == [put[w] EXCEPT !.pc = "commit", !.temp.whole = TRUE]
    <3>1. IsReady(r)
      BY <1>1, <2>1 DEF WriteTemp, IsReady, Put, File, At
    <3>2. put' = [put EXCEPT ![w] = r]
      BY <1>1, <2>1 DEF WriteTemp, Put, File
    <3> HIDE DEF r
    <3>3. QED
      BY <3>1, <3>2
  <2>2. CASE SyncTemp(w)
    <3> DEFINE r == [put[w] EXCEPT !.pc = "persist", !.temp.synced = TRUE]
    <3>1. IsReady(r)
      BY <1>1, <2>2 DEF SyncTemp, IsReady, Put, File, At, Whole
    <3>2. put' = [put EXCEPT ![w] = r]
      BY <1>1, <2>2 DEF SyncTemp, Put, File
    <3> HIDE DEF r
    <3>3. QED
      BY <3>1, <3>2
  <2>3. CASE PutFails(w)
    BY <2>3, IdleIsReady DEF PutFails
  <2>4. CASE CommitCheck(w) /\ put[w].chunk \notin DOMAIN names
    <3> DEFINE r == [put[w] EXCEPT !.pc = "sync"]
    <3>1. IsReady(r)
      BY <1>1, <2>4 DEF CommitCheck, IsReady, Put, At
    <3>2. put' = [put EXCEPT ![w] = r]
      BY <1>1, <2>4 DEF CommitCheck, Goto
    <3> HIDE DEF r
    <3>3. QED
      BY <3>1, <3>2
  <2>5. QED
    BY <2>1, <2>2, <2>3, <2>4
<1>5. QED
  BY <1>1, <1>2, <1>3, <1>4, WriterStep

\* The steps in which a writer answers, or gives up a rename: the blob is there.
LEMMA AnswerIsSound ==
  ASSUME BlobInv, NEW w \in Writers,
         Persist(w) \/ PersistFails(w) \/ (CommitCheck(w) /\ put[w].chunk \in DOMAIN names)
  PROVE  BlobInv'
<1>1. ~gc.on /\ put[w].chunk \in Chunks /\ UNCHANGED <<onDisk, gc>>
  BY BusyMeansNoSweep DEF BlobInv, Persist, PersistFails, CommitCheck, At, IsReady, Store
<1>2. put' = [put EXCEPT ![w] = Idle]
  BY DEF Persist, PersistFails, CommitCheck, Answer
<1>3. IsSound(names') /\ needed' \subseteq DOMAIN names'
  <2>1. CASE Persist(w)
    <3>1. names' = With(names, put[w].chunk, Whole) /\ needed' = needed \cup {put[w].chunk}
      BY <2>1 DEF Persist, Answer, BlobInv, IsReady, At
    <3>2. QED
      BY <1>1, <3>1, SoundWith DEF BlobInv
  <2>2. CASE ~Persist(w)
    BY <2>2 DEF PersistFails, CommitCheck, Answer, Store, BlobInv
  <2>3. QED
    BY <2>1, <2>2
<1>4. QED
  BY <1>1, <1>2, <1>3, IdleIsReady, WriterStep

LEMMA WriterIsSound ==
  ASSUME BlobInv, NEW w \in Writers,
         \/ \E c \in Chunks : Start(w, c)
         \/ WriteTemp(w) \/ CommitCheck(w) \/ SyncTemp(w)
         \/ Persist(w) \/ PersistFails(w) \/ PutFails(w)
  PROVE  BlobInv'
BY StartIsSound, WritingIsSound, AnswerIsSound

LEMMA SweepIsSound ==
  ASSUME BlobInv, List \/ GcEnd \/ \E c \in Chunks : Forget(c) \/ Remove(c)
  PROVE  BlobInv'
<1>1. CASE List
  BY <1>1, DirectoryIs DEF List, BlobInv, SweepsApart, Store, IsSound, At
<1>2. CASE GcEnd
  BY <1>2 DEF GcEnd, NoSweep, BlobInv, SweepsApart, Store, At, IsSound
<1>3. ASSUME NEW c \in Chunks, Forget(c) PROVE BlobInv'
  BY <1>3 DEF Forget, BlobInv, SweepsApart, Store, At, IsSound
<1>4. ASSUME NEW c \in Chunks, Remove(c) PROVE BlobInv'
  <2>1. IsSound(names') /\ needed' \subseteq DOMAIN names'
    <3>1. IsSound(Without(names, c)) /\ DOMAIN Without(names, c) = DOMAIN names \ {c}
      BY SoundWithout DEF BlobInv
    <3>2. c \notin needed /\ needed' = needed /\ names' \in {names, Without(names, c)}
      BY <1>4 DEF Remove, BlobInv, SweepsApart
    <3>3. needed \subseteq DOMAIN names /\ IsSound(names)
      BY DEF BlobInv
    <3>4. CASE names' = names
      BY <3>2, <3>3, <3>4
    <3>5. CASE names' = Without(names, c)
      BY <3>1, <3>2, <3>3, <3>5
    <3>6. QED
      BY <3>2, <3>4, <3>5
  <2>2. SweepsApart'
    BY <1>4 DEF Remove, BlobInv, SweepsApart, At
  <2>3. QED
    BY <1>4, <2>1, <2>2 DEF Remove, BlobInv, IsSound
<1>5. QED
  BY <1>1, <1>2, <1>3, <1>4

LEMMA StopIsSound ==
  ASSUME BlobInv, Stop, IsSound(names'), IsSound(onDisk'), needed' \subseteq DOMAIN names'
  PROVE  BlobInv'
<1>1. put' \in [Writers -> Put] /\ \A w \in Writers : IsReady(put'[w]) /\ put'[w].pc = "idle"
  BY IdleIsReady DEF Stop, IsReady, Idle
<1>2. SweepsApart'
  BY <1>1 DEF Stop, NoSweep, SweepsApart, At
<1>3. QED
  BY <1>1, <1>2 DEF BlobInv, IsSound

LEMMA FailureIsSound ==
  ASSUME BlobInv, Kill \/ PowerLoss \/ \E c \in Chunks : WriteBack(c)
  PROVE  BlobInv'
<1>1. CASE Kill
  BY <1>1, StopIsSound DEF Kill, BlobInv
<1>2. ASSUME NEW c \in Chunks, WriteBack(c) PROVE BlobInv'
  <2>1. IsSound(onDisk')
    <3>1. IsSound(names) /\ IsSound(onDisk)
      BY DEF BlobInv
    <3>2. CASE c \in DOMAIN names
      <4>1. onDisk' = With(onDisk, c, Whole)
        BY <1>2, <3>1, <3>2 DEF WriteBack, IsSound
      <4>2. IsSound(With(onDisk, c, Whole))
        BY <3>1, SoundWith
      <4>3. QED
        BY <4>1, <4>2
    <3>3. CASE c \notin DOMAIN names
      <4>1. onDisk' = Without(onDisk, c)
        BY <1>2, <3>3 DEF WriteBack
      <4>2. IsSound(Without(onDisk, c))
        BY <3>1, SoundWithout
      <4>3. QED
        BY <4>1, <4>2
    <3>4. QED
      BY <3>2, <3>3
  <2>2. QED
    BY <1>2, <2>1 DEF WriteBack, BlobInv, SweepsApart, At, IsSound
<1>3. CASE PowerLoss
  <2>1. PICK new \in SUBSET Chunks, lucky \in SUBSET Chunks :
          LET there == (DOMAIN names \cap new) \cup (DOMAIN onDisk \ new)
              entry(c) == IF c \in new THEN names[c] ELSE onDisk[c]
              whole(c) == entry(c).whole /\ (entry(c).synced \/ c \in lucky)
          IN names' = [c \in there |-> [whole |-> whole(c), synced |-> TRUE]]
    BY <1>3 DEF PowerLoss
  <2> DEFINE there == (DOMAIN names \cap new) \cup (DOMAIN onDisk \ new)
  <2>2. \A c \in there : (IF c \in new THEN names[c] ELSE onDisk[c]) = Whole
    BY DEF BlobInv, IsSound
  <2>3. names' = [c \in there |-> Whole]
    <3> DEFINE entry(c) == IF c \in new THEN names[c] ELSE onDisk[c]
               whole(c) == entry(c).whole /\ (entry(c).synced \/ c \in lucky)
    <3>1. names' = [c \in there |-> [whole |-> whole(c), synced |-> TRUE]]
      BY <2>1
    <3>2. \A c \in there : entry(c) = Whole
      BY <2>2
    <3>3. \A c \in there : entry(c).whole = TRUE /\ entry(c).synced = TRUE
      BY <3>2 DEF Whole
    <3>4. \A c \in there : whole(c) = TRUE
      BY <3>3
    <3> HIDE DEF whole, there
    <3>5. \A c \in there : [whole |-> whole(c), synced |-> TRUE] = Whole
      BY <3>4 DEF Whole
    <3>6. QED
      BY <3>1, <3>5
  <2>4. there \subseteq Chunks
    BY DirectoryIs DEF BlobInv, IsSound
  <2>5. IsSound(names')
    BY <2>3, <2>4, DirectoryIs DEF IsSound, Whole, File, Directory
  <2>6. Stop /\ onDisk' = names' /\ needed' \subseteq DOMAIN names'
    BY <1>3 DEF PowerLoss
  <2>7. IsSound(onDisk')
    BY <2>5, <2>6
  <2>8. QED
    BY <2>5, <2>6, <2>7, StopIsSound
<1>4. QED
  BY <1>1, <1>2, <1>3

LEMMA StepIsSound == BlobInv /\ [BlobNext]_vars => BlobInv'
<1> SUFFICES ASSUME BlobInv, [BlobNext]_vars PROVE BlobInv'
  OBVIOUS
<1>1. CASE BlobNext
  BY <1>1, WriterIsSound, SweepIsSound, FailureIsSound DEF BlobNext
<1>2. CASE UNCHANGED vars
  BY <1>2 DEF vars, BlobInv, IsSound, SweepsApart, At
<1>3. QED
  BY <1>1, <1>2

-----------------------------------------------------------------------------

LEMMA InvGives == BlobInv => BlobTypeOK /\ BlobsAreWhole /\ NeededIsThere
<1> SUFFICES ASSUME BlobInv PROVE BlobTypeOK /\ BlobsAreWhole /\ NeededIsThere
  OBVIOUS
<1>1. needed \subseteq Chunks
  BY DirectoryIs DEF BlobInv, IsSound
<1>2. BlobTypeOK
  BY <1>1 DEF BlobInv, BlobTypeOK, IsSound, SweepsApart, IsReady, At, Whole
<1>3. BlobsAreWhole /\ NeededIsThere
  BY DEF BlobInv, BlobsAreWhole, NeededIsThere, IsSound, Whole
<1>4. QED
  BY <1>2, <1>3

\* Whoever writes, fails, sweeps, kills the server or cuts the power, no blob is
\* ever there by half (lib.rs:15), and every one a version needs is there.
THEOREM BlobsStayWhole == BlobSpec => [](BlobTypeOK /\ BlobsAreWhole /\ NeededIsThere)
<1>1. BlobSpec => []BlobInv
  BY InitIsSound, StepIsSound, PTL DEF BlobSpec
<1>2. QED
  BY <1>1, InvGives, PTL
=============================================================================
