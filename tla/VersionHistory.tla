--------------------------- MODULE VersionHistory ---------------------------
(***************************************************************************)
(* What auto-versioning promises of a file, with no row ids, no pointer to *)
(* a current row and no tables: every change of content gets the next      *)
(* number, a number never denotes a second content, the newest version is  *)
(* the file's content and cannot be pruned, and a write of the content the *)
(* file already has leaves no trace (docs/specs/0002).                     *)
(*                                                                         *)
(* MetaStore implements this module.                                       *)
(***************************************************************************)
EXTENDS Naturals, Functions

CONSTANTS
  Files,     \* identities a file can have; an identity can be used again
  Contents   \* what a version can hold

VARIABLE hist   \* live file -> [last |-> highest number, kept |-> number -> content]

NoHistory == [last |-> 0, kept |-> [n \in {} |-> 0]]

Content(f) == hist[f].kept[hist[f].last]

HistInit == \E F \in SUBSET Files : hist = [f \in F |-> NoHistory]

\* A file comes to life, unwritten.
Create(f) ==
  /\ f \notin DOMAIN hist
  /\ hist' = [g \in DOMAIN hist \cup {f} |-> IF g = f THEN NoHistory ELSE hist[g]]

\* New content takes the number after the highest ever used.
Append(f, c) ==
  /\ f \in DOMAIN hist
  /\ hist[f].last > 0 => Content(f) # c
  /\ LET n == hist[f].last + 1 IN
     hist' = [hist EXCEPT ![f] =
       [last |-> n,
        kept |-> [k \in DOMAIN hist[f].kept \cup {n} |->
                    IF k = n THEN c ELSE hist[f].kept[k]]]]

\* An old version is forgotten; the newest one never is.
Prune(f, n) ==
  /\ f \in DOMAIN hist
  /\ n \in DOMAIN hist[f].kept \ {hist[f].last}
  /\ hist' = [hist EXCEPT ![f].kept = Restrict(@, DOMAIN @ \ {n})]

\* Files disappear, a whole collection of them at once if need be.
Remove(F) ==
  /\ F # {}
  /\ hist' = Restrict(hist, DOMAIN hist \ F)

HistNext ==
  \/ \E f \in Files : Create(f)
  \/ \E f \in DOMAIN hist, c \in Contents : Append(f, c)
  \/ \E f \in DOMAIN hist : \E n \in DOMAIN hist[f].kept : Prune(f, n)
  \/ \E F \in SUBSET DOMAIN hist : Remove(F)

HistSpec == HistInit /\ [][HistNext]_hist

-----------------------------------------------------------------------------

\* A file's history: numbers up to the highest, which is kept once there is one.
HistoryOK ==
  /\ hist = [f \in DOMAIN hist |-> hist[f]]
  /\ DOMAIN hist \subseteq Files
  /\ \A f \in DOMAIN hist :
       /\ hist[f].last \in Nat
       /\ \A n \in DOMAIN hist[f].kept :
            n \in Nat \ {0} /\ n <= hist[f].last /\ hist[f].kept[n] \in Contents
       /\ hist[f].last > 0 => hist[f].last \in DOMAIN hist[f].kept
=============================================================================
