-------------------------- MODULE MetaStore_proofs --------------------------
(***************************************************************************)
(* The metadata store, for any number of rows, names and manifests: the    *)
(* tables stay consistent (MetaInv is inductive), a way down the tree is   *)
(* known by its names and by its end, NumbersAreStable and                 *)
(* ModifiedIsEarned hold, and the tables implement VersionHistory.         *)
(***************************************************************************)
EXTENDS MetaStore, FiniteSetTheorems, TLAPS

\* Nothing is above the root, and everything else is below something: the
\* cascade of a delete can then not reach the root.
RootIsTop == nodes[ROOT_ID].parent = NULL

MetaInv ==
  /\ MetaTypeOK
  /\ RootIsTop
  /\ ReferentialIntegrity
  /\ UniqueNames
  /\ CurrentIsHighest
  /\ UniqueNumbers
  /\ SizeCache

\* A row id that SQLite hands out is positive, and above every row.
LEMMA NextRowIdFact ==
  ASSUME NEW S, S \subseteq Nat, NEW n \in NextRowId(S)
  PROVE  n \in Nat \ {0} /\ n \notin S /\ \A k \in S : k < n
BY DEF NextRowId

-----------------------------------------------------------------------------
(* Subtrees                                                                *)

\* What a delete leaves is closed upwards: if a node stays, its parent stays.
LEMMA SubtreeIsClosed ==
  ASSUME NEW id, NEW n \in DOMAIN nodes, nodes[n].parent \in Subtree(id)
  PROVE  n \in Subtree(id)
BY DEF Subtree

\* A set of nodes that holds a node and the children of its members holds
\* the node's subtree, and the subtree is such a set.
LEMMA SubtreeIsLeast ==
  ASSUME NEW id, NEW S \in SUBSET DOMAIN nodes, id \in S,
         \A m \in DOMAIN nodes : nodes[m].parent \in S => m \in S
  PROVE  Subtree(id) \subseteq S
BY DEF Subtree

LEMMA SubtreeHoldsNode ==
  ASSUME NEW id \in DOMAIN nodes
  PROVE  id \in Subtree(id)
BY DEF Subtree

\* Whatever else is in the subtree has its parent there too.
LEMMA SubtreeHoldsParents ==
  ASSUME NEW id \in DOMAIN nodes, NEW n \in Subtree(id), n # id
  PROVE  nodes[n].parent \in Subtree(id)
<1> DEFINE S == {m \in Subtree(id) : m = id \/ nodes[m].parent \in Subtree(id)}
<1>1. S \in SUBSET DOMAIN nodes /\ id \in S
  BY SubtreeHoldsNode DEF Subtree
<1>2. ASSUME NEW m \in DOMAIN nodes, nodes[m].parent \in S
      PROVE  m \in S
  BY <1>2, SubtreeIsClosed
<1>3. Subtree(id) \subseteq S
  BY <1>1, <1>2, SubtreeIsLeast
<1>4. QED
  BY <1>3

\* A node without children is all of its subtree.
LEMMA LeafSubtree ==
  ASSUME NEW id \in DOMAIN nodes, \A m \in DOMAIN nodes : nodes[m].parent # id
  PROVE  Subtree(id) = {id}
<1>1. Subtree(id) \subseteq {id}
  <2>1. \A m \in DOMAIN nodes : nodes[m].parent \in {id} => m \in {id}
    OBVIOUS
  <2>2. {id} \in SUBSET DOMAIN nodes /\ id \in {id}
    OBVIOUS
  <2>3. QED
    BY <2>1, <2>2, SubtreeIsLeast
<1>2. QED
  BY <1>1, SubtreeHoldsNode

\* The root is in no other node's subtree.
LEMMA SubtreeSparesRoot ==
  ASSUME MetaInv, NEW id \in DOMAIN nodes \ {ROOT_ID}
  PROVE  ROOT_ID \notin Subtree(id)
<1> DEFINE S == DOMAIN nodes \ {ROOT_ID}
<1>1. S \in SUBSET DOMAIN nodes /\ id \in S
  OBVIOUS
<1>2. \A m \in DOMAIN nodes : nodes[m].parent \in S => m \in S
  BY MetaConstants DEF MetaInv, MetaTypeOK, RootIsTop, NULL
<1>3. QED
  BY <1>1, <1>2 DEF Subtree

-----------------------------------------------------------------------------
(* Ways down from the root                                                 *)

\* A set of numbers has a least one, ...
LEMMA Least ==
  ASSUME NEW S, S \subseteq Nat, S # {}
  PROVE  \E x \in S : \A y \in S : x <= y
<1>1. PICK x \in S : \A y \in S : ~(<<y, x>> \in OpToRel(<, Nat))
  BY NatLessThanWellFounded, WFMin
<1>2. \A y \in S : ~(y < x)
  BY <1>1 DEF OpToRel
<1>3. QED
  BY <1>2

\* ... so that what holds at 0 and goes on from one to the next holds up to n.
LEMMA Climb ==
  ASSUME NEW n \in Nat, NEW S, 0 \in S, \A i \in 0 .. n : i < n /\ i \in S => i + 1 \in S
  PROVE  0 .. n \subseteq S
<1> DEFINE T == (0 .. n) \ S
<1>1. SUFFICES ASSUME T # {} PROVE FALSE
  OBVIOUS
<1>2. PICK x \in T : \A y \in T : x <= y
  <2>1. T \subseteq Nat
    OBVIOUS
  <2> HIDE DEF T
  <2>2. QED
    BY <1>1, <2>1, Least
<1>3. x \in Nat /\ x <= n /\ x # 0
  BY <1>2
<1>4. x - 1 \in 0 .. n /\ x - 1 < n /\ ~(x <= x - 1)
  BY <1>3
<1>5. x - 1 \in S
  BY <1>2, <1>4
<1>6. (x - 1) + 1 \in S
  BY <1>4, <1>5
<1>7. QED
  BY <1>2, <1>3, <1>6

\* The root is a row, and not a child of one.
RootIsNoChild == ROOT_ID \in DOMAIN nodes /\ nodes[ROOT_ID].parent \notin DOMAIN nodes

\* The rows of a way.
LEMMA WayRows ==
  ASSUME NEW n \in Nat, NEW w \in Ways(n)
  PROVE  /\ w \in Seq(DOMAIN nodes) /\ Len(w) = n /\ DOMAIN w = 1 .. n
         /\ \A i \in 1 .. n : /\ w[i] \in DOMAIN nodes
                              /\ nodes[w[i]].parent = Stop(w, i - 1)
         /\ EndOf(w) = Stop(w, n)
         /\ DOMAIN NamesAlong(w) = 1 .. n /\ Len(NamesAlong(w)) = n
         /\ \A i \in 1 .. n : NamesAlong(w)[i] = nodes[w[i]].name
<1>1. w \in [1 .. n -> DOMAIN nodes] /\ \A i \in 1 .. n : nodes[w[i]].parent = Stop(w, i - 1)
  BY DEF Ways
<1>2. w \in Seq(DOMAIN nodes) /\ Len(w) = n /\ DOMAIN w = 1 .. n
  BY <1>1
<1>3. DOMAIN NamesAlong(w) = 1 .. n /\ \A i \in 1 .. n : NamesAlong(w)[i] = nodes[w[i]].name
  BY <1>2 DEF NamesAlong
<1>4. Len(NamesAlong(w)) = n
  <2>1. NamesAlong(w) \in [1 .. n -> {nodes[m].name : m \in DOMAIN nodes}]
    BY <1>1, <1>2 DEF NamesAlong
  <2>2. QED
    BY <2>1
<1>5. QED
  BY <1>1, <1>2, <1>3, <1>4, Zenon DEF EndOf

LEMMA StopIsRow ==
  ASSUME RootIsNoChild, NEW n \in Nat, NEW w \in Ways(n), NEW i \in 0 .. n
  PROVE  Stop(w, i) \in DOMAIN nodes /\ (Stop(w, i) = ROOT_ID <=> i = 0)
<1>1. CASE i = 0
  BY <1>1 DEF Stop, RootIsNoChild
<1>2. CASE i # 0
  <2>1. i \in 1 .. n /\ i - 1 \in 0 .. n
    BY <1>2
  <2>2. w[i] \in DOMAIN nodes /\ nodes[w[i]].parent = Stop(w, i - 1)
    BY <2>1, WayRows
  <2>3. Stop(w, i - 1) \in DOMAIN nodes
    <3>1. CASE i - 1 = 0
      BY <3>1 DEF Stop, RootIsNoChild
    <3>2. CASE i - 1 # 0
      <4>1. i - 1 \in 1 .. n
        BY <2>1, <3>2
      <4>2. QED
        BY <3>2, <4>1, WayRows DEF Stop
    <3>3. QED
      BY <3>1, <3>2
  <2>4. QED
    BY <1>2, <2>2, <2>3 DEF Stop, RootIsNoChild
<1>3. QED
  BY <1>1, <1>2

\* Two ways are the same if they have the same names, as siblings have
\* different ones, ...
LEMMA SameNamesSameWay ==
  ASSUME UniqueNames, NEW n \in Nat, NEW v \in Ways(n), NEW w \in Ways(n),
         NamesAlong(v) = NamesAlong(w)
  PROVE  v = w
<1> DEFINE S == {i \in 0 .. n : Stop(v, i) = Stop(w, i)}
<1>1. 0 \in S
  BY DEF Stop
<1>2. ASSUME NEW i \in 0 .. n, i < n, i \in S PROVE i + 1 \in S
  <2>1. i + 1 \in 1 .. n /\ (i + 1) - 1 = i /\ i + 1 # 0
    BY <1>2
  <2>2. /\ v[i + 1] \in DOMAIN nodes /\ nodes[v[i + 1]].parent = Stop(v, i)
        /\ nodes[v[i + 1]].name = NamesAlong(v)[i + 1]
    BY <2>1, WayRows
  <2>3. /\ w[i + 1] \in DOMAIN nodes /\ nodes[w[i + 1]].parent = Stop(w, i)
        /\ nodes[w[i + 1]].name = NamesAlong(w)[i + 1]
    BY <2>1, WayRows
  <2>4. v[i + 1] = w[i + 1]
    BY <1>2, <2>2, <2>3 DEF UniqueNames
  <2>5. QED
    BY <2>1, <2>4 DEF Stop
<1>3. 0 .. n \subseteq S
  <2> HIDE DEF S
  <2>1. QED
    BY <1>1, <1>2, Climb
<1>4. ASSUME NEW i \in 1 .. n PROVE v[i] = w[i]
  <2>1. i \in 0 .. n /\ i # 0
    OBVIOUS
  <2>2. Stop(v, i) = Stop(w, i)
    BY <1>3, <2>1
  <2>3. QED
    BY <2>1, <2>2 DEF Stop
<1>5. v \in [1 .. n -> DOMAIN nodes] /\ w \in [1 .. n -> DOMAIN nodes]
  BY DEF Ways
<1>6. QED
  BY <1>4, <1>5

(* ... or if they have the same end, as nothing has two parents: looking   *)
(* back from there, both pass the same rows.                               *)
HangTogether(rows, n) == \A i \in 2 .. n : nodes[rows[i]].parent = rows[i - 1]

LEMMA SameEndSameRows ==
  ASSUME NEW k \in Nat, NEW m \in Nat, k <= m, NEW c, NEW d,
         HangTogether(c, k), HangTogether(d, m), c[k] = d[m], NEW i \in 1 .. k
  PROVE  c[i] = d[i + (m - k)]
<1> DEFINE S == {j \in 0 .. k : j < k => c[k - j] = d[m - j]}
<1>1. 0 \in S
  OBVIOUS
<1>2. ASSUME NEW j \in 0 .. k, j < k, j \in S PROVE j + 1 \in S
  <2>1. SUFFICES ASSUME j + 1 < k PROVE c[k - (j + 1)] = d[m - (j + 1)]
    BY <1>2
  <2>2. /\ k - j \in 2 .. k /\ m - j \in 2 .. m
        /\ (k - j) - 1 = k - (j + 1) /\ (m - j) - 1 = m - (j + 1)
    BY <2>1
  <2>3. c[k - j] = d[m - j]
    BY <1>2
  <2>4. nodes[c[k - j]].parent = c[(k - j) - 1] /\ nodes[d[m - j]].parent = d[(m - j) - 1]
    BY <2>2 DEF HangTogether
  <2>5. QED
    BY <2>2, <2>3, <2>4
<1>3. 0 .. k \subseteq S
  <2> HIDE DEF S
  <2>1. QED
    BY <1>1, <1>2, Climb
<1>4. k - i \in 0 .. k /\ k - i < k /\ k - (k - i) = i /\ m - (k - i) = i + (m - k)
  OBVIOUS
<1>5. c[k - (k - i)] = d[m - (k - i)]
  BY <1>3, <1>4
<1>6. QED
  BY <1>4, <1>5

LEMMA SameEndSameWay ==
  ASSUME RootIsNoChild, NEW k \in Nat, NEW m \in Nat, NEW v \in Ways(k), NEW w \in Ways(m),
         EndOf(v) = EndOf(w)
  PROVE  k = m /\ v = w
<1>1. ASSUME NEW a \in Nat, NEW b \in Nat, a <= b, NEW x \in Ways(a), NEW y \in Ways(b),
             EndOf(x) = EndOf(y)
      PROVE  a = b /\ x = y
  <2>0. Stop(x, a) = Stop(y, b)
    BY <1>1, WayRows
  <2>1. CASE a = 0
    <3>1. Stop(y, b) = ROOT_ID
      BY <2>0, <2>1 DEF Stop
    <3>2. b = 0
      BY <3>1, StopIsRow
    <3>3. x \in [1 .. 0 -> DOMAIN nodes] /\ y \in [1 .. 0 -> DOMAIN nodes]
      BY <2>1, <3>2 DEF Ways
    <3>4. QED
      BY <2>1, <3>2, <3>3
  <2>2. CASE a # 0
    <3>1. /\ \A i \in 1 .. a : nodes[x[i]].parent = Stop(x, i - 1)
          /\ \A i \in 1 .. b : nodes[y[i]].parent = Stop(y, i - 1)
      BY WayRows
    <3>2. HangTogether(x, a) /\ HangTogether(y, b)
      BY <3>1 DEF Stop, HangTogether
    <3>3. x[a] = y[b]
      BY <1>1, <2>0, <2>2 DEF Stop
    <3>4. \A i \in 1 .. a : x[i] = y[i + (b - a)]
      BY <1>1, <3>2, <3>3, SameEndSameRows
    <3>5. 1 \in 1 .. a /\ 1 + (b - a) \in 1 .. b /\ (1 + (b - a)) - 1 = b - a /\ b - a \in 0 .. b
      BY <1>1, <2>2
    <3>6. ROOT_ID = Stop(y, b - a)
      <4>1. nodes[x[1]].parent = Stop(x, 0) /\ nodes[y[1 + (b - a)]].parent = Stop(y, (1 + (b - a)) - 1)
        BY <3>1, <3>5
      <4>2. x[1] = y[1 + (b - a)]
        BY <3>4, <3>5
      <4>3. Stop(x, 0) = ROOT_ID
        BY DEF Stop
      <4>4. QED
        BY <3>5, <4>1, <4>2, <4>3
    <3>7. a = b
      <4>1. b - a = 0
        BY <3>5, <3>6, StopIsRow
      <4>2. QED
        BY <4>1
    <3>8. x \in [1 .. a -> DOMAIN nodes] /\ y \in [1 .. a -> DOMAIN nodes]
      BY <3>7 DEF Ways
    <3>9. \A i \in 1 .. a : x[i] = y[i]
      BY <3>4, <3>7
    <3>10. QED
      BY <3>7, <3>8, <3>9
  <2>3. QED
    BY <2>1, <2>2
<1>2. CASE k <= m
  BY <1>1, <1>2
<1>3. CASE m <= k
  BY <1>1, <1>3
<1>4. QED
  BY <1>2, <1>3

\* A way goes on to every child of its end.
LEMMA WayGoesOn ==
  ASSUME NEW n \in Nat, NEW w \in Ways(n), NEW m \in DOMAIN nodes, nodes[m].parent = EndOf(w)
  PROVE  /\ Append(w, m) \in Ways(n + 1)
         /\ EndOf(Append(w, m)) = m
         /\ \A i \in 0 .. n : Stop(Append(w, m), i) = Stop(w, i)
         /\ NamesAlong(Append(w, m)) = Append(NamesAlong(w), nodes[m].name)
<1> DEFINE u == Append(w, m)
<1>1. w \in Seq(DOMAIN nodes) /\ Len(w) = n /\ DOMAIN w = 1 .. n /\ EndOf(w) = Stop(w, n)
  BY WayRows
<1>2. /\ u \in Seq(DOMAIN nodes) /\ Len(u) = n + 1 /\ DOMAIN u = 1 .. n + 1
      /\ u[n + 1] = m /\ \A i \in 1 .. n : u[i] = w[i]
  BY <1>1
<1> HIDE DEF u
<1>3. u \in [1 .. n + 1 -> DOMAIN nodes]
  BY <1>2
<1>4. \A i \in 0 .. n : Stop(u, i) = Stop(w, i)
  BY <1>2 DEF Stop
<1>5. ASSUME NEW i \in 1 .. n + 1 PROVE nodes[u[i]].parent = Stop(u, i - 1)
  <2>1. CASE i = n + 1
    <3>1. i - 1 = n /\ n \in 0 .. n /\ u[i] = m
      BY <1>2, <2>1
    <3>2. QED
      BY <1>1, <1>4, <3>1
  <2>2. CASE i # n + 1
    <3>1. i \in 1 .. n /\ i - 1 \in 0 .. n
      BY <2>2
    <3>2. nodes[w[i]].parent = Stop(w, i - 1)
      BY <3>1, WayRows
    <3>3. QED
      BY <1>2, <1>4, <3>1, <3>2
  <2>3. QED
    BY <2>1, <2>2
<1>6. u \in Ways(n + 1)
  BY <1>3, <1>5 DEF Ways
<1>7. EndOf(u) = m
  BY <1>2 DEF EndOf, Stop
<1>8. NamesAlong(u) = Append(NamesAlong(w), nodes[m].name)
  <2> DEFINE names == NamesAlong(w)
             X     == {nodes[x].name : x \in DOMAIN nodes}
  <2>1. names \in [1 .. n -> X]
    BY <1>1 DEF NamesAlong
  <2>2. names \in Seq(X) /\ Len(names) = n /\ nodes[m].name \in X
    BY <2>1
  <2>3. \A i \in 1 .. n : names[i] = nodes[w[i]].name
    BY WayRows
  <2> HIDE DEF names, X
  <2>4. /\ DOMAIN Append(names, nodes[m].name) = 1 .. n + 1
        /\ \A i \in 1 .. n : Append(names, nodes[m].name)[i] = names[i]
        /\ Append(names, nodes[m].name)[n + 1] = nodes[m].name
        /\ Append(names, nodes[m].name) \in [1 .. n + 1 -> X]
    <3> DEFINE long == Append(names, nodes[m].name)
    <3>1. /\ long \in Seq(X) /\ DOMAIN long = 1 .. n + 1 /\ Len(long) = n + 1
          /\ \A i \in 1 .. n : long[i] = names[i]
          /\ long[n + 1] = nodes[m].name
      BY <2>2
    <3> HIDE DEF long
    <3>2. long \in [1 .. n + 1 -> X]
      BY <3>1
    <3>3. QED
      BY <3>1, <3>2 DEF long
  <2>5. NamesAlong(u) = [i \in 1 .. n + 1 |-> nodes[u[i]].name]
    BY <1>2 DEF NamesAlong
  <2>6. \A i \in 1 .. n + 1 : Append(names, nodes[m].name)[i] = nodes[u[i]].name
    BY <1>2, <2>3, <2>4
  <2>7. Append(names, nodes[m].name) = [i \in 1 .. n + 1 |-> nodes[u[i]].name]
    BY <2>4, <2>6, Zenon
  <2>8. QED
    BY <2>5, <2>7 DEF names
<1>9. QED
  BY <1>4, <1>6, <1>7, <1>8 DEF u

\* The first rows of a way are a way.
LEMMA WayPart ==
  ASSUME NEW n \in Nat, NEW w \in Ways(n), NEW k \in 0 .. n
  PROVE  \E v \in Ways(k) : EndOf(v) = Stop(w, k) /\ \A i \in 1 .. k : v[i] = w[i]
<1> DEFINE v == [i \in 1 .. k |-> w[i]]
<1>1. \A i \in 1 .. k : i \in 1 .. n /\ i - 1 \in 0 .. k
  OBVIOUS
<1>2. v \in [1 .. k -> DOMAIN nodes]
  BY <1>1, WayRows
<1>3. \A i \in 0 .. k : Stop(v, i) = Stop(w, i)
  BY DEF Stop
<1>4. ASSUME NEW i \in 1 .. k PROVE nodes[v[i]].parent = Stop(v, i - 1)
  BY <1>1, <1>3, WayRows
<1>5. v \in Ways(k)
  BY <1>2, <1>4 DEF Ways
<1>6. EndOf(v) = Stop(w, k)
  <2>1. k \in 0 .. k /\ k \in Nat
    OBVIOUS
  <2>2. QED
    BY <1>3, <1>5, <2>1, WayRows
<1>7. QED
  BY <1>5, <1>6

\* A way passes through the subtrees of all its rows, ...
LEMMA WayStaysBelow ==
  ASSUME RootIsNoChild, NEW n \in Nat, NEW w \in Ways(n), NEW k \in 0 .. n
  PROVE  EndOf(w) \in Subtree(Stop(w, k))
<1> DEFINE top == Stop(w, k)
           S   == {j \in 0 .. n - k : Stop(w, k + j) \in Subtree(top)}
<1>1. n - k \in Nat
  OBVIOUS
<1>2. 0 \in S
  <2>1. top \in DOMAIN nodes /\ k + 0 = k
    BY StopIsRow
  <2>2. QED
    BY <1>1, <2>1, SubtreeHoldsNode
<1>3. ASSUME NEW j \in 0 .. n - k, j < n - k, j \in S PROVE j + 1 \in S
  <2>1. /\ k + (j + 1) \in 1 .. n /\ k + (j + 1) # 0 /\ (k + (j + 1)) - 1 = k + j
        /\ j + 1 \in 0 .. n - k
    BY <1>3
  <2>2. w[k + (j + 1)] \in DOMAIN nodes /\ nodes[w[k + (j + 1)]].parent = Stop(w, k + j)
    BY <2>1, WayRows
  <2>3. Stop(w, k + j) \in Subtree(top)
    BY <1>3
  <2>4. w[k + (j + 1)] \in Subtree(top)
    BY <2>2, <2>3, SubtreeIsClosed
  <2>5. QED
    BY <2>1, <2>4 DEF Stop
<1>4. 0 .. n - k \subseteq S
  <2> HIDE DEF S
  <2>1. QED
    BY <1>1, <1>2, <1>3, Climb
<1>5. n - k \in 0 .. n - k /\ k + (n - k) = n
  BY <1>1
<1>6. Stop(w, n) \in Subtree(top)
  BY <1>4, <1>5
<1>7. QED
  BY <1>6, WayRows

\* ... and to everything in the subtree of its end goes a way that begins with it.
LEMMA WayToSubtree ==
  ASSUME RootIsNoChild, NEW n \in Nat, NEW w \in Ways(n), NEW m \in Subtree(EndOf(w))
  PROVE  \E k \in Nat : \E u \in Ways(k) :
           n <= k /\ EndOf(u) = m /\ \A i \in 0 .. n : Stop(u, i) = Stop(w, i)
<1> DEFINE Reaches(x) == \E k \in Nat : \E u \in Ways(k) :
                           n <= k /\ EndOf(u) = x /\ \A i \in 0 .. n : Stop(u, i) = Stop(w, i)
           S == {x \in DOMAIN nodes : Reaches(x)}
<1>1. EndOf(w) \in S
  <2>1. EndOf(w) \in DOMAIN nodes
    <3>1. n \in 0 .. n
      OBVIOUS
    <3>2. QED
      BY <3>1, StopIsRow, WayRows
  <2>2. n <= n
    OBVIOUS
  <2>3. QED
    BY <2>1, <2>2
<1>2. ASSUME NEW x \in DOMAIN nodes, nodes[x].parent \in S PROVE x \in S
  <2>0. PICK k \in Nat : \E u \in Ways(k) :
          n <= k /\ EndOf(u) = nodes[x].parent /\ \A i \in 0 .. n : Stop(u, i) = Stop(w, i)
    BY <1>2
  <2>1. PICK u \in Ways(k) :
          n <= k /\ EndOf(u) = nodes[x].parent /\ \A i \in 0 .. n : Stop(u, i) = Stop(w, i)
    BY <2>0
  <2>2. /\ Append(u, x) \in Ways(k + 1) /\ EndOf(Append(u, x)) = x
        /\ \A i \in 0 .. k : Stop(Append(u, x), i) = Stop(u, i)
    BY <2>1, WayGoesOn
  <2>3. k + 1 \in Nat /\ n <= k + 1 /\ \A i \in 0 .. n : i \in 0 .. k
    BY <2>1
  <2>4. \A i \in 0 .. n : Stop(Append(u, x), i) = Stop(w, i)
    BY <2>1, <2>2, <2>3
  <2>5. QED
    BY <2>2, <2>3, <2>4
<1>3. S \in SUBSET DOMAIN nodes
  OBVIOUS
<1>4. Subtree(EndOf(w)) \subseteq S
  <2> HIDE DEF S
  <2>1. QED
    BY <1>1, <1>2, <1>3, SubtreeIsLeast
<1>5. QED
  BY <1>4

-----------------------------------------------------------------------------
(* The tables are consistent                                               *)

LEMMA MetaInitInv == MetaInit => MetaInv
<1> SUFFICES ASSUME MetaInit PROVE MetaInv
  OBVIOUS
<1> USE MetaConstants
<1>1. DOMAIN nodes = {ROOT_ID} /\ DOMAIN versions = {}
  BY DEF MetaInit
<1>2. MetaTypeOK
  BY <1>1 DEF MetaInit, MetaTypeOK, NodeRow, NULL
<1>3. nodes[ROOT_ID].parent = NULL /\ nodes[ROOT_ID].current = NULL /\ nodes[ROOT_ID].size = 0
  BY DEF MetaInit
<1>4. RootIsTop /\ ReferentialIntegrity /\ UniqueNames /\ CurrentIsHighest /\ UniqueNumbers
  BY <1>1, <1>3 DEF RootIsTop, ReferentialIntegrity, UniqueNames, CurrentIsHighest,
     UniqueNumbers, VersionsOf
<1>5. SizeCache
  BY <1>1, <1>3 DEF SizeCache, LoadManifest
<1>6. QED
  BY <1>2, <1>4, <1>5 DEF MetaInv

LEMMA InsertNodeInv ==
  ASSUME MetaInv, NEW id \in NodeIds, NEW parent \in DOMAIN nodes, NEW name \in Names \cup {RootName},
         NEW isDir \in BOOLEAN, NEW now \in Times, InsertNode(id, parent, name, isDir, now)
  PROVE  MetaInv'
<1> DEFINE row == [parent |-> parent, name |-> name, isDir |-> isDir,
                   size |-> 0, modified |-> now, current |-> NULL]
<1> USE MetaConstants
<1>1. id \notin DOMAIN nodes
  BY NextRowIdFact DEF InsertNode, MetaInv, MetaTypeOK
<1>2. /\ DOMAIN nodes' = DOMAIN nodes \cup {id}
      /\ nodes' = [i \in DOMAIN nodes \cup {id} |-> IF i = id THEN row ELSE nodes[i]]
      /\ nodes'[id] = row
      /\ \A n \in DOMAIN nodes : nodes'[n] = nodes[n]
      /\ versions' = versions
  BY <1>1 DEF InsertNode, PutRow
<1>3. row \in NodeRow
  BY DEF NodeRow, MetaInv, MetaTypeOK
<1>4. MetaTypeOK'
  BY <1>1, <1>2, <1>3 DEF MetaInv, MetaTypeOK
<1>5. RootIsTop'
  BY <1>2 DEF MetaInv, MetaTypeOK, RootIsTop
<1>6. VersionsOf(id) = {}
  BY <1>1 DEF MetaInv, ReferentialIntegrity, VersionsOf
<1>7. \A n : VersionsOf(n)' = VersionsOf(n)
  BY <1>2 DEF VersionsOf
<1>8. ReferentialIntegrity'
  BY <1>2, <1>7 DEF MetaInv, ReferentialIntegrity
<1>9. UniqueNames'
  <2>1. \A n \in DOMAIN nodes : ~(nodes[n].parent = parent /\ nodes[n].name = name)
    BY DEF InsertNode, NameTaken, IsChild
  <2>2. QED
    BY <1>2, <2>1 DEF MetaInv, UniqueNames
<1>10. CurrentIsHighest' /\ UniqueNumbers'
  BY <1>2, <1>6, <1>7 DEF MetaInv, CurrentIsHighest, UniqueNumbers
<1>11. SizeCache'
  BY <1>2 DEF MetaInv, SizeCache, LoadManifest, ReadManifest
<1>12. QED
  BY <1>4, <1>5, <1>8, <1>9, <1>10, <1>11 DEF MetaInv

\* The new version row: above every row, numbered above every version of its node.
LEMMA AppendVersionInv ==
  ASSUME MetaInv, NEW id \in DOMAIN nodes, NEW m \in Manifests, NEW now \in Times,
         AppendVersion(id, m, now)
  PROVE  MetaInv'
<1> USE MetaConstants
<1>1. PICK vid \in NextRowId(DOMAIN versions) \cap VersionIds, number \in NextNumber(id) :
        /\ versions' = PutRow(versions, vid, [node |-> id, number |-> number, chunks |-> m])
        /\ nodes' = [nodes EXCEPT ![id].current = vid, ![id].size = Len(m), ![id].modified = now]
  BY DEF AppendVersion
<1> DEFINE row == [node |-> id, number |-> number, chunks |-> m]
<1>2. vid \notin DOMAIN versions /\ vid \in Nat \ {0}
  BY NextRowIdFact DEF MetaInv, MetaTypeOK
<1>3. /\ number \in Nat \ {0}
      /\ \A v \in VersionsOf(id) : versions[v].number < number
  <2> DEFINE numbers == {versions[v].number : v \in VersionsOf(id)}
  <2>1. numbers \subseteq Nat
    BY DEF MetaInv, MetaTypeOK, VersionRow, VersionsOf
  <2>2. number \in NextRowId(numbers)
    BY DEF NextNumber
  <2>3. number \in Nat \ {0} /\ \A k \in numbers : k < number
    BY <2>1, <2>2, NextRowIdFact
  <2>4. QED
    BY <2>3
<1>4. /\ DOMAIN versions' = DOMAIN versions \cup {vid}
      /\ versions' = [v \in DOMAIN versions \cup {vid} |-> IF v = vid THEN row ELSE versions[v]]
      /\ versions'[vid] = row
      /\ \A v \in DOMAIN versions : versions'[v] = versions[v]
  BY <1>1, <1>2 DEF PutRow
<1>5. /\ DOMAIN nodes' = DOMAIN nodes
      /\ \A n \in DOMAIN nodes \ {id} : nodes'[n] = nodes[n]
      /\ nodes'[id] = [nodes[id] EXCEPT !.current = vid, !.size = Len(m), !.modified = now]
      /\ nodes' = [n \in DOMAIN nodes |-> nodes'[n]]
  BY <1>1 DEF MetaInv, MetaTypeOK, NodeRow
<1>6. /\ nodes'[id].current = vid
      /\ nodes'[id].size = Len(m)
      /\ nodes'[id] \in NodeRow
      /\ \A n \in DOMAIN nodes : nodes'[n].parent = nodes[n].parent /\ nodes'[n].name = nodes[n].name
  <2>1. nodes[id] \in NodeRow /\ Len(m) \in Nat /\ vid \in VersionIds
    BY <1>1 DEF MetaInv, MetaTypeOK
  <2>2. QED
    BY <1>5, <2>1, ZenonT(60) DEF NodeRow
<1>7. /\ VersionsOf(id)' = VersionsOf(id) \cup {vid}
      /\ \A n \in DOMAIN nodes \ {id} : VersionsOf(n)' = VersionsOf(n)
  BY <1>2, <1>4 DEF VersionsOf
<1>8. row \in VersionRow
  BY <1>3 DEF VersionRow, MetaInv, MetaTypeOK
<1>9. MetaTypeOK'
  <2>1. \A n \in DOMAIN nodes : nodes'[n] \in NodeRow
    BY <1>5, <1>6 DEF MetaInv, MetaTypeOK
  <2>2. nodes' \in [DOMAIN nodes' -> NodeRow]
    BY <1>5, <2>1
  <2>3. versions' \in [DOMAIN versions' -> VersionRow]
    BY <1>4, <1>8 DEF MetaInv, MetaTypeOK
  <2>4. QED
    BY <1>4, <1>5, <2>2, <2>3 DEF MetaInv, MetaTypeOK
<1>10. RootIsTop'
  BY <1>5, <1>6 DEF MetaInv, MetaTypeOK, RootIsTop
<1>11. ReferentialIntegrity'
  <2>1. \A n \in DOMAIN nodes' \ {ROOT_ID} : nodes'[n].parent \in DOMAIN nodes'
    BY <1>5, <1>6 DEF MetaInv, ReferentialIntegrity
  <2>2. \A v \in DOMAIN versions' : versions'[v].node \in DOMAIN nodes'
    BY <1>4, <1>5 DEF MetaInv, ReferentialIntegrity
  <2>3. \A n \in DOMAIN nodes' : nodes'[n].current # NULL => nodes'[n].current \in VersionsOf(n)'
    BY <1>5, <1>6, <1>7 DEF MetaInv, ReferentialIntegrity
  <2>4. QED
    BY <2>1, <2>2, <2>3 DEF ReferentialIntegrity
<1>12. UniqueNames'
  BY <1>5, <1>6 DEF MetaInv, UniqueNames
<1>13. CurrentIsHighest'
  <2> SUFFICES ASSUME NEW n \in DOMAIN nodes', NEW v \in VersionsOf(n)'
               PROVE  /\ nodes'[n].current \in VersionsOf(n)'
                      /\ versions'[v].number <= versions'[nodes'[n].current].number
                      /\ v # nodes'[n].current => versions'[v].number # versions'[nodes'[n].current].number
    BY DEF CurrentIsHighest
  <2>1. CASE n = id
    <3>1. versions'[vid].number = number
      BY <1>4
    <3>2. v # vid => v \in VersionsOf(id) /\ versions'[v].number < number
      BY <2>1, <1>3, <1>4, <1>7 DEF VersionsOf
    <3>3. v \in DOMAIN versions' /\ versions'[v].number \in Nat
      BY <1>9 DEF MetaTypeOK, VersionRow, VersionsOf
    <3>4. QED
      BY <2>1, <1>3, <1>6, <1>7, <3>1, <3>2, <3>3
  <2>2. CASE n # id
    <3>1. n \in DOMAIN nodes /\ v \in VersionsOf(n) /\ nodes'[n] = nodes[n]
      BY <2>2, <1>5, <1>7
    <3>2. nodes[n].current \in VersionsOf(n)
      BY <3>1 DEF MetaInv, CurrentIsHighest
    <3>3. versions'[v] = versions[v] /\ versions'[nodes[n].current] = versions[nodes[n].current]
      BY <3>1, <3>2, <1>4 DEF VersionsOf
    <3>4. QED
      BY <2>2, <1>7, <3>1, <3>2, <3>3 DEF MetaInv, CurrentIsHighest
  <2>3. QED
    BY <2>1, <2>2
<1>14. UniqueNumbers'
  <2>1. \A v \in DOMAIN versions : versions[v].node = id => versions[v].number # number
    BY <1>3 DEF VersionsOf, MetaInv, MetaTypeOK, VersionRow
  <2>2. QED
    BY <1>4, <2>1 DEF MetaInv, UniqueNumbers
<1>15. SizeCache'
  <2>1. LoadManifest(id)' = m
    BY <1>2, <1>4, <1>6 DEF LoadManifest, ReadManifest, NULL
  <2>2. \A n \in DOMAIN nodes \ {id} : LoadManifest(n)' = LoadManifest(n)
    BY <1>2, <1>4, <1>5 DEF LoadManifest, ReadManifest, MetaInv, ReferentialIntegrity, VersionsOf
  <2>3. nodes'[id].size = Len(LoadManifest(id)')
    BY <1>6, <2>1
  <2>4. \A n \in DOMAIN nodes \ {id} : nodes'[n].size = Len(LoadManifest(n)')
    BY <1>5, <2>2 DEF MetaInv, SizeCache
  <2>5. \A n \in DOMAIN nodes' : nodes'[n].size = Len(LoadManifest(n)')
    BY <1>5, <2>3, <2>4
  <2>6. QED
    BY <2>5 DEF SizeCache
<1>16. QED
  BY <1>9, <1>10, <1>11, <1>12, <1>13, <1>14, <1>15 DEF MetaInv

LEMMA DeleteVersionInv ==
  ASSUME MetaInv, NEW id, NEW number, DeleteVersion(id, number)
  PROVE  MetaInv'
<1> USE MetaConstants
<1>1. PICK d \in VersionsOf(id) :
        /\ versions[d].number = number
        /\ nodes[id].current # d
        /\ versions' = DropRows(versions, {d})
  BY DEF DeleteVersion
<1>2. /\ nodes' = nodes
      /\ id \in DOMAIN nodes
      /\ DOMAIN versions' = DOMAIN versions \ {d}
      /\ versions' = [v \in DOMAIN versions \ {d} |-> versions[v]]
      /\ \A v \in DOMAIN versions' : versions'[v] = versions[v]
  BY <1>1 DEF DeleteVersion, DropRows, Restrict
<1>3. \A n : VersionsOf(n)' = VersionsOf(n) \ {d}
  BY <1>2 DEF VersionsOf
\* d is one version of one node, and not that node's current one.
<1>4. \A n \in DOMAIN nodes : nodes[n].current # d
  BY <1>1, <1>2 DEF MetaInv, MetaTypeOK, VersionsOf, NULL, ReferentialIntegrity
<1>5. MetaTypeOK'
  BY <1>2 DEF MetaInv, MetaTypeOK
<1>6. RootIsTop' /\ UniqueNames'
  BY <1>2 DEF MetaInv, RootIsTop, UniqueNames
<1>7. ReferentialIntegrity'
  BY <1>2, <1>3, <1>4 DEF MetaInv, ReferentialIntegrity
<1>8. CurrentIsHighest' /\ UniqueNumbers'
  <2>1. UniqueNumbers'
    BY <1>2 DEF MetaInv, UniqueNumbers
  <2>2. CurrentIsHighest'
    BY <1>2, <1>3, <1>4 DEF MetaInv, CurrentIsHighest, VersionsOf
  <2>3. QED
    BY <2>1, <2>2
<1>9. SizeCache'
  BY <1>2, <1>4 DEF MetaInv, SizeCache, LoadManifest, ReadManifest
<1>10. QED
  BY <1>5, <1>6, <1>7, <1>8, <1>9 DEF MetaInv

LEMMA DeleteNodeInv ==
  ASSUME MetaInv, NEW id \in DOMAIN nodes \ {ROOT_ID}, DeleteNode(id)
  PROVE  MetaInv'
<1> USE MetaConstants
<1>1. /\ DOMAIN nodes' = DOMAIN nodes \ Subtree(id)
      /\ nodes' = [n \in DOMAIN nodes \ Subtree(id) |-> nodes[n]]
      /\ \A n \in DOMAIN nodes' : nodes'[n] = nodes[n]
  BY DEF DeleteNode, DropRows, Restrict
<1>2. /\ DOMAIN versions' = {v \in DOMAIN versions : versions[v].node \notin Subtree(id)}
      /\ versions' = [v \in DOMAIN versions' |-> versions[v]]
      /\ \A v \in DOMAIN versions' : versions'[v] = versions[v]
  BY DEF DeleteNode, DropRows, Restrict
<1>3. \A n \in DOMAIN nodes' : VersionsOf(n)' = VersionsOf(n)
  BY <1>1, <1>2 DEF VersionsOf
<1>4. ROOT_ID \in DOMAIN nodes'
  BY <1>1, SubtreeSparesRoot DEF MetaInv, MetaTypeOK
<1>5. MetaTypeOK'
  BY <1>1, <1>2, <1>4 DEF MetaInv, MetaTypeOK
<1>6. RootIsTop' /\ UniqueNames'
  BY <1>1, <1>4 DEF MetaInv, RootIsTop, UniqueNames
<1>7. ReferentialIntegrity'
  <2>1. \A n \in DOMAIN nodes' \ {ROOT_ID} : nodes'[n].parent \in DOMAIN nodes'
    BY <1>1, SubtreeIsClosed DEF MetaInv, ReferentialIntegrity
  <2>2. \A v \in DOMAIN versions' : versions'[v].node \in DOMAIN nodes'
    BY <1>1, <1>2 DEF MetaInv, ReferentialIntegrity
  <2>3. \A n \in DOMAIN nodes' : nodes'[n].current # NULL => nodes'[n].current \in VersionsOf(n)'
    BY <1>1, <1>3 DEF MetaInv, ReferentialIntegrity
  <2>4. QED
    BY <2>1, <2>2, <2>3 DEF ReferentialIntegrity
<1>8. CurrentIsHighest' /\ UniqueNumbers'
  <2>1. UniqueNumbers'
    BY <1>2 DEF MetaInv, UniqueNumbers
  <2>2. \A n \in DOMAIN nodes' : \A v \in VersionsOf(n) : versions'[v] = versions[v]
    BY <1>2, <1>3 DEF VersionsOf
  <2>3. CurrentIsHighest'
    BY <1>1, <1>3, <2>2 DEF MetaInv, CurrentIsHighest
  <2>4. QED
    BY <2>1, <2>3
<1>9. SizeCache'
  <2>1. \A n \in DOMAIN nodes' : LoadManifest(n)' = LoadManifest(n)
    <3> SUFFICES ASSUME NEW n \in DOMAIN nodes' PROVE LoadManifest(n)' = LoadManifest(n)
      OBVIOUS
    <3>1. nodes'[n] = nodes[n]
      BY <1>1
    <3>2. nodes[n].current # NULL =>
            /\ nodes[n].current \in DOMAIN versions /\ nodes[n].current \in DOMAIN versions'
            /\ versions'[nodes[n].current] = versions[nodes[n].current]
      BY <1>1, <1>2, <1>3, <1>7, <3>1 DEF ReferentialIntegrity, VersionsOf
    <3>3. QED
      BY <3>1, <3>2 DEF LoadManifest, ReadManifest
  <2>2. QED
    BY <1>1, <2>1 DEF MetaInv, SizeCache
<1>10. QED
  BY <1>5, <1>6, <1>7, <1>8, <1>9 DEF MetaInv

LEMMA RenameInv ==
  ASSUME MetaInv, NEW id \in DOMAIN nodes \ {ROOT_ID}, NEW parent \in DOMAIN nodes,
         NEW name \in Names, Rename(id, parent, name)
  PROVE  MetaInv'
<1> USE MetaConstants
<1>1. /\ DOMAIN nodes' = DOMAIN nodes
      /\ nodes' = [n \in DOMAIN nodes |-> nodes'[n]]
      /\ \A n \in DOMAIN nodes \ {id} : nodes'[n] = nodes[n]
      /\ nodes'[id] = [nodes[id] EXCEPT !.parent = parent, !.name = name]
      /\ versions' = versions
  BY DEF Rename, MetaInv, MetaTypeOK, NodeRow
<1>2. /\ nodes'[id] \in NodeRow
      /\ nodes'[id].parent = parent /\ nodes'[id].name = name
      /\ nodes'[id].current = nodes[id].current /\ nodes'[id].size = nodes[id].size
  <2>1. nodes[id] \in NodeRow /\ parent \in NodeIds
    BY DEF MetaInv, MetaTypeOK
  <2>2. QED
    BY <1>1, <2>1 DEF NodeRow
<1>3. MetaTypeOK'
  BY <1>1, <1>2 DEF MetaInv, MetaTypeOK
<1>4. \A n : VersionsOf(n)' = VersionsOf(n)
  BY <1>1 DEF VersionsOf
<1>5. RootIsTop' /\ ReferentialIntegrity'
  BY <1>1, <1>2, <1>4 DEF MetaInv, MetaTypeOK, RootIsTop, ReferentialIntegrity
<1>6. UniqueNames'
  <2>1. \A n \in DOMAIN nodes \ {id} : ~(nodes[n].parent = parent /\ nodes[n].name = name)
    BY DEF Rename, IsChild
  <2> SUFFICES ASSUME NEW m \in DOMAIN nodes, NEW n \in DOMAIN nodes, m # n,
                      nodes'[m].parent = nodes'[n].parent, nodes'[m].name = nodes'[n].name
               PROVE  FALSE
    BY <1>1 DEF UniqueNames
  <2>2. CASE m # id /\ n # id
    BY <1>1, <2>2 DEF MetaInv, UniqueNames
  <2>3. CASE m = id
    BY <1>1, <1>2, <2>1, <2>3
  <2>4. CASE n = id
    BY <1>1, <1>2, <2>1, <2>4
  <2>5. QED
    BY <2>2, <2>3, <2>4
<1>7. \A n \in DOMAIN nodes : nodes'[n].current = nodes[n].current /\ nodes'[n].size = nodes[n].size
  BY <1>1, <1>2
<1>8. CurrentIsHighest' /\ UniqueNumbers' /\ SizeCache'
  BY <1>1, <1>4, <1>7 DEF MetaInv, CurrentIsHighest, UniqueNumbers, SizeCache, LoadManifest, ReadManifest
<1>9. QED
  BY <1>3, <1>5, <1>6, <1>8 DEF MetaInv

LEMMA SetModifiedInv ==
  ASSUME MetaInv, NEW id \in DOMAIN nodes, NEW tm \in Times, SetModified(id, tm)
  PROVE  MetaInv'
<1> USE MetaConstants
<1>1. /\ DOMAIN nodes' = DOMAIN nodes
      /\ nodes' = [n \in DOMAIN nodes |-> nodes'[n]]
      /\ \A n \in DOMAIN nodes \ {id} : nodes'[n] = nodes[n]
      /\ nodes'[id] = [nodes[id] EXCEPT !.modified = tm]
      /\ versions' = versions
  BY DEF SetModified, MetaInv, MetaTypeOK, NodeRow
<1>2. /\ nodes'[id] \in NodeRow
      /\ \A n \in DOMAIN nodes :
           /\ nodes'[n].parent = nodes[n].parent /\ nodes'[n].name = nodes[n].name
           /\ nodes'[n].current = nodes[n].current /\ nodes'[n].size = nodes[n].size
  <2>1. nodes[id] \in NodeRow
    BY DEF MetaInv, MetaTypeOK
  <2>2. QED
    BY <1>1, <2>1 DEF NodeRow
<1>3. MetaTypeOK'
  BY <1>1, <1>2 DEF MetaInv, MetaTypeOK
<1>4. \A n : VersionsOf(n)' = VersionsOf(n)
  BY <1>1 DEF VersionsOf
<1>5. RootIsTop' /\ ReferentialIntegrity' /\ UniqueNames'
  BY <1>1, <1>2, <1>4 DEF MetaInv, MetaTypeOK, RootIsTop, ReferentialIntegrity, UniqueNames
<1>6. CurrentIsHighest' /\ UniqueNumbers' /\ SizeCache'
  BY <1>1, <1>2, <1>4 DEF MetaInv, CurrentIsHighest, UniqueNumbers, SizeCache, LoadManifest, ReadManifest
<1>7. QED
  BY <1>3, <1>5, <1>6 DEF MetaInv

\* Every statement keeps the tables consistent.
THEOREM MetaStep == MetaInv /\ [MetaNext]_metaVars => MetaInv'
<1> SUFFICES ASSUME MetaInv, [MetaNext]_metaVars PROVE MetaInv'
  OBVIOUS
<1> USE MetaConstants
<1>1. ASSUME NEW id \in NodeIds, NEW parent \in DOMAIN nodes, NEW name \in Names,
             NEW isDir \in BOOLEAN, NEW now \in Times, InsertNode(id, parent, name, isDir, now)
      PROVE  MetaInv'
  BY <1>1, InsertNodeInv
<1>2. CASE UNCHANGED metaVars
  BY <1>2 DEF metaVars, MetaInv, MetaTypeOK, RootIsTop, ReferentialIntegrity, UniqueNames,
     CurrentIsHighest, UniqueNumbers, SizeCache, VersionsOf, LoadManifest, ReadManifest
<1>3. ASSUME NEW id \in DOMAIN nodes, NEW m \in Manifests, NEW now \in Times, SetFileContent(id, m, now)
      PROVE  MetaInv'
  BY <1>2, <1>3, AppendVersionInv DEF SetFileContent
<1>4. ASSUME NEW v \in DOMAIN versions, DeleteVersion(versions[v].node, versions[v].number)
      PROVE  MetaInv'
  BY <1>4, DeleteVersionInv
<1>5. ASSUME NEW id \in DOMAIN nodes \ {ROOT_ID}, DeleteNode(id)
      PROVE  MetaInv'
  BY <1>5, DeleteNodeInv
<1>6. ASSUME NEW id \in DOMAIN nodes \ {ROOT_ID}, RemoveDir(id)
      PROVE  MetaInv'
  BY <1>6, DeleteNodeInv DEF RemoveDir
<1>7. ASSUME NEW id \in DOMAIN nodes \ {ROOT_ID}, NEW parent \in DOMAIN nodes, NEW name \in Names,
             Rename(id, parent, name)
      PROVE  MetaInv'
  BY <1>7, RenameInv
<1>8. ASSUME NEW id \in DOMAIN nodes, NEW tm \in Times, SetModified(id, tm)
      PROVE  MetaInv'
  BY <1>8, SetModifiedInv
<1>9. QED
  BY <1>1, <1>2, <1>3, <1>4, <1>5, <1>6, <1>7, <1>8 DEF MetaNext

\* The tables are well typed and consistent in every state that any sequence
\* of calls to the store can reach.
THEOREM MetaIntegrity == MetaSpec => []MetaInv
<1>1. MetaInit => MetaInv
  BY MetaInitInv
<1>2. MetaInv /\ [MetaNext]_metaVars => MetaInv'
  BY MetaStep
<1>3. QED
  BY <1>1, <1>2, PTL DEF MetaSpec

\* The parts that the runs check, each in its own right.
THEOREM TablesAreSound ==
  MetaSpec => [](/\ MetaTypeOK /\ ReferentialIntegrity /\ UniqueNames
                 /\ CurrentIsHighest /\ UniqueNumbers /\ SizeCache)
<1>1. MetaInv => /\ MetaTypeOK /\ ReferentialIntegrity /\ UniqueNames
                 /\ CurrentIsHighest /\ UniqueNumbers /\ SizeCache
  BY DEF MetaInv
<1>2. QED
  BY <1>1, MetaIntegrity, PTL

-----------------------------------------------------------------------------
(* Version numbers                                                         *)

(* What a step does to the rows of a node that outlives it. Every step     *)
(* but one leaves the current version of every such node alone, and only   *)
(* takes versions away.                                                    *)
KeepsCurrent ==
  /\ \A n \in DOMAIN nodes \cap DOMAIN nodes' : nodes'[n].current = nodes[n].current
  /\ \A v \in DOMAIN versions' : v \in DOMAIN versions /\ versions'[v] = versions[v]

\* What NumbersAreStable says of one step.
StableStep ==
  \A n \in DOMAIN nodes \cap DOMAIN nodes' :
    nodes[n].current # NULL =>
      /\ nodes'[n].current # NULL
      /\ versions'[nodes'[n].current].number >= versions[nodes[n].current].number
      /\ \A v \in DOMAIN versions' :
           versions'[v].node = n /\ versions'[v].number <= versions[nodes[n].current].number
             => v \in DOMAIN versions /\ versions[v] = versions'[v]

LEMMA KeepsCurrentIsStable ==
  ASSUME MetaInv, MetaInv', KeepsCurrent
  PROVE  StableStep
<1> SUFFICES ASSUME NEW n \in DOMAIN nodes \cap DOMAIN nodes', nodes[n].current # NULL
             PROVE  /\ nodes'[n].current # NULL
                    /\ versions'[nodes'[n].current].number >= versions[nodes[n].current].number
  BY DEF KeepsCurrent, StableStep
<1>1. nodes'[n].current = nodes[n].current
  BY DEF KeepsCurrent
<1>2. nodes[n].current \in DOMAIN versions'
  BY <1>1 DEF MetaInv, ReferentialIntegrity, VersionsOf
<1>3. versions'[nodes[n].current] = versions[nodes[n].current]
  BY <1>2 DEF KeepsCurrent
<1>4. versions[nodes[n].current].number \in Nat
  BY <1>2, <1>3 DEF KeepsCurrent, MetaInv, MetaTypeOK, VersionRow
<1>5. QED
  BY <1>1, <1>3, <1>4

LEMMA DropsKeepCurrent ==
  ASSUME NEW N, NEW V, nodes' = DropRows(nodes, N), versions' = DropRows(versions, V)
  PROVE  KeepsCurrent
BY DEF KeepsCurrent, DropRows, Restrict

(* The row that AppendVersion adds, and what becomes of the others. *)
LEMMA AppendedRow ==
  ASSUME MetaInv, NEW id \in DOMAIN nodes, NEW m \in Manifests, NEW now \in Times,
         AppendVersion(id, m, now)
  PROVE  \E vid \in VersionIds \ DOMAIN versions, number \in Nat \ {0} :
           /\ number \in NextNumber(id)
           /\ \A v \in DOMAIN versions : v < vid
           /\ \A v \in VersionsOf(id) : versions[v].number < number
           /\ DOMAIN versions' = DOMAIN versions \cup {vid}
           /\ versions'[vid] = [node |-> id, number |-> number, chunks |-> m]
           /\ \A v \in DOMAIN versions : versions'[v] = versions[v]
           /\ DOMAIN nodes' = DOMAIN nodes
           /\ nodes'[id].current = vid
           /\ \A n \in DOMAIN nodes \ {id} : nodes'[n] = nodes[n]
<1> USE MetaConstants
<1>1. PICK vid \in NextRowId(DOMAIN versions) \cap VersionIds, number \in NextNumber(id) :
        /\ versions' = PutRow(versions, vid, [node |-> id, number |-> number, chunks |-> m])
        /\ nodes' = [nodes EXCEPT ![id].current = vid, ![id].size = Len(m), ![id].modified = now]
  BY DEF AppendVersion
<1>2. vid \notin DOMAIN versions /\ \A v \in DOMAIN versions : v < vid
  BY NextRowIdFact DEF MetaInv, MetaTypeOK
<1> DEFINE numbers == {versions[v].number : v \in VersionsOf(id)}
<1>3. numbers \subseteq Nat
  BY DEF MetaInv, MetaTypeOK, VersionRow, VersionsOf
<1>4. number \in NextRowId(numbers)
  BY DEF NextNumber
<1>5. number \in Nat \ {0} /\ \A k \in numbers : k < number
  BY <1>3, <1>4, NextRowIdFact
<1>6. /\ DOMAIN versions' = DOMAIN versions \cup {vid}
      /\ versions'[vid] = [node |-> id, number |-> number, chunks |-> m]
      /\ \A v \in DOMAIN versions : versions'[v] = versions[v]
  BY <1>1, <1>2 DEF PutRow
<1>7. nodes[id] \in NodeRow
  BY DEF MetaInv, MetaTypeOK
<1>8. /\ DOMAIN nodes' = DOMAIN nodes
      /\ nodes'[id].current = vid
      /\ \A n \in DOMAIN nodes \ {id} : nodes'[n] = nodes[n]
  BY <1>1, <1>7 DEF MetaInv, MetaTypeOK, NodeRow
<1>9. QED
  BY <1>1, <1>2, <1>5, <1>6, <1>8

LEMMA AppendIsStable ==
  ASSUME MetaInv, NEW id \in DOMAIN nodes, NEW m \in Manifests, NEW now \in Times,
         AppendVersion(id, m, now)
  PROVE  StableStep
<1>1. PICK vid \in VersionIds \ DOMAIN versions, number \in Nat \ {0} :
        /\ \A v \in VersionsOf(id) : versions[v].number < number
        /\ DOMAIN versions' = DOMAIN versions \cup {vid}
        /\ versions'[vid] = [node |-> id, number |-> number, chunks |-> m]
        /\ \A v \in DOMAIN versions : versions'[v] = versions[v]
        /\ DOMAIN nodes' = DOMAIN nodes
        /\ nodes'[id].current = vid
        /\ \A n \in DOMAIN nodes \ {id} : nodes'[n] = nodes[n]
  BY AppendedRow, ZenonT(60)
<1> SUFFICES ASSUME NEW n \in DOMAIN nodes, nodes[n].current # NULL
             PROVE  /\ nodes'[n].current # NULL
                    /\ versions'[nodes'[n].current].number >= versions[nodes[n].current].number
                    /\ \A v \in DOMAIN versions' :
                         versions'[v].node = n /\ versions'[v].number <= versions[nodes[n].current].number
                           => v \in DOMAIN versions /\ versions[v] = versions'[v]
  BY DEF StableStep
<1>2. nodes[n].current \in VersionsOf(n) /\ versions[nodes[n].current].number \in Nat
  BY DEF MetaInv, MetaTypeOK, ReferentialIntegrity, VersionsOf, VersionRow
<1>3. CASE n = id
  BY <1>1, <1>2, <1>3, MetaConstants DEF NULL
<1>4. CASE n # id
  BY <1>1, <1>2, <1>4 DEF VersionsOf
<1>5. QED
  BY <1>3, <1>4

LEMMA MetaStepIsStable ==
  ASSUME MetaInv, MetaInv', MetaNext
  PROVE  StableStep
<1> USE MetaConstants
<1>1. ASSUME NEW id \in NodeIds, NEW parent \in DOMAIN nodes, NEW name \in Names,
             NEW isDir \in BOOLEAN, NEW now \in Times, InsertNode(id, parent, name, isDir, now)
      PROVE  StableStep
  <2>1. id \notin DOMAIN nodes
    BY <1>1, NextRowIdFact DEF InsertNode, MetaInv, MetaTypeOK
  <2>2. QED
    BY <1>1, <2>1, KeepsCurrentIsStable DEF InsertNode, PutRow, KeepsCurrent
<1>2. ASSUME NEW id \in DOMAIN nodes, NEW m \in Manifests, NEW now \in Times, SetFileContent(id, m, now)
      PROVE  StableStep
  <2>1. CASE UNCHANGED metaVars
    BY <2>1, KeepsCurrentIsStable DEF metaVars, KeepsCurrent
  <2>2. QED
    BY <1>2, <2>1, AppendIsStable DEF SetFileContent
<1>3. ASSUME NEW v \in DOMAIN versions, DeleteVersion(versions[v].node, versions[v].number)
      PROVE  StableStep
  BY <1>3, KeepsCurrentIsStable DEF DeleteVersion, KeepsCurrent, DropRows, Restrict
<1>4. ASSUME NEW id \in DOMAIN nodes \ {ROOT_ID}, DeleteNode(id)
      PROVE  StableStep
  BY <1>4, DropsKeepCurrent, KeepsCurrentIsStable DEF DeleteNode
<1>5. ASSUME NEW id \in DOMAIN nodes \ {ROOT_ID}, NEW parent \in DOMAIN nodes, NEW name \in Names,
             Rename(id, parent, name)
      PROVE  StableStep
  <2>1. nodes[id] \in NodeRow
    BY DEF MetaInv, MetaTypeOK
  <2>2. \A n \in DOMAIN nodes : nodes'[n].current = nodes[n].current
    BY <1>5, <2>1 DEF Rename, NodeRow, MetaInv, MetaTypeOK
  <2>3. QED
    BY <1>5, <2>2, KeepsCurrentIsStable DEF Rename, KeepsCurrent
<1>6. ASSUME NEW id \in DOMAIN nodes, NEW tm \in Times, SetModified(id, tm)
      PROVE  StableStep
  <2>1. nodes[id] \in NodeRow
    BY DEF MetaInv, MetaTypeOK
  <2>2. \A n \in DOMAIN nodes : nodes'[n].current = nodes[n].current
    BY <1>6, <2>1 DEF SetModified, NodeRow, MetaInv, MetaTypeOK
  <2>3. QED
    BY <1>6, <2>2, KeepsCurrentIsStable DEF SetModified, KeepsCurrent
<1>7. QED
  BY <1>1, <1>2, <1>3, <1>4, <1>5, <1>6 DEF MetaNext, RemoveDir

\* A node that lives on keeps its content, and no number is ever given to a
\* second content: ?version=N means today what it meant yesterday.
THEOREM NumbersStayStable == MetaSpec => NumbersAreStable
<1>1. MetaInv /\ MetaInv' /\ [MetaNext]_metaVars => [StableStep]_metaVars
  BY MetaStepIsStable
<1>2. [StableStep]_metaVars =>
        [\A n \in DOMAIN nodes \cap DOMAIN nodes' :
           nodes[n].current # NULL =>
             /\ nodes'[n].current # NULL
             /\ versions'[nodes'[n].current].number >= versions[nodes[n].current].number
             /\ \A v \in DOMAIN versions' :
                  versions'[v].node = n /\ versions'[v].number <= versions[nodes[n].current].number
                    => v \in DOMAIN versions /\ versions[v] = versions'[v]]_metaVars
  BY DEF StableStep
<1>3. QED
  BY <1>1, <1>2, MetaIntegrity, PTL DEF MetaSpec, NumbersAreStable
(* What ModifiedIsEarned says of one step. *)
EarnedStep ==
  \A n \in DOMAIN nodes \cap DOMAIN nodes' :
    nodes'[n].modified # nodes[n].modified =>
      \/ nodes'[n].current # nodes[n].current
      \/ \E tm \in Times : SetModified(n, tm)

LEMMA MetaStepIsEarned ==
  ASSUME MetaInv, [MetaNext]_metaVars
  PROVE  EarnedStep
<1> USE MetaConstants
<1>1. ASSUME NEW id \in NodeIds, NEW parent \in DOMAIN nodes, NEW name \in Names,
             NEW isDir \in BOOLEAN, NEW now \in Times, InsertNode(id, parent, name, isDir, now)
      PROVE  EarnedStep
  <2>1. id \notin DOMAIN nodes
    BY <1>1, NextRowIdFact DEF InsertNode, MetaInv, MetaTypeOK
  <2>2. QED
    BY <1>1, <2>1 DEF InsertNode, PutRow, EarnedStep
<1>2. ASSUME NEW id \in DOMAIN nodes, NEW m \in Manifests, NEW now \in Times, SetFileContent(id, m, now)
      PROVE  EarnedStep
  <2>1. CASE UNCHANGED metaVars
    BY <2>1 DEF metaVars, EarnedStep
  <2>2. CASE AppendVersion(id, m, now)
    <3>1. PICK vid \in VersionIds \ DOMAIN versions :
            /\ DOMAIN nodes' = DOMAIN nodes
            /\ nodes'[id].current = vid
            /\ \A n \in DOMAIN nodes \ {id} : nodes'[n] = nodes[n]
      BY <2>2, AppendedRow
    <3>2. nodes[id].current # vid
      BY <3>1 DEF MetaInv, ReferentialIntegrity, VersionsOf, NULL
    <3>3. QED
      BY <3>1, <3>2 DEF EarnedStep
  <2>3. QED
    BY <1>2, <2>1, <2>2 DEF SetFileContent
<1>3. ASSUME NEW v \in DOMAIN versions, DeleteVersion(versions[v].node, versions[v].number)
      PROVE  EarnedStep
  BY <1>3 DEF DeleteVersion, EarnedStep
<1>4. ASSUME NEW id \in DOMAIN nodes \ {ROOT_ID}, DeleteNode(id)
      PROVE  EarnedStep
  BY <1>4 DEF DeleteNode, DropRows, Restrict, EarnedStep
<1>5. ASSUME NEW id \in DOMAIN nodes \ {ROOT_ID}, NEW parent \in DOMAIN nodes, NEW name \in Names,
             Rename(id, parent, name)
      PROVE  EarnedStep
  <2>1. nodes[id] \in NodeRow
    BY DEF MetaInv, MetaTypeOK
  <2>2. \A n \in DOMAIN nodes : nodes'[n].modified = nodes[n].modified
    BY <1>5, <2>1 DEF Rename, NodeRow, MetaInv, MetaTypeOK
  <2>3. QED
    BY <2>2 DEF EarnedStep
<1>6. ASSUME NEW id \in DOMAIN nodes, NEW tm \in Times, SetModified(id, tm)
      PROVE  EarnedStep
  <2>1. \A n \in DOMAIN nodes \ {id} : nodes'[n] = nodes[n]
    BY <1>6 DEF SetModified, MetaInv, MetaTypeOK
  <2>2. QED
    BY <1>6, <2>1 DEF EarnedStep
<1>7. CASE UNCHANGED metaVars
  BY <1>7 DEF metaVars, EarnedStep
<1>8. QED
  BY <1>1, <1>2, <1>3, <1>4, <1>5, <1>6, <1>7 DEF MetaNext, RemoveDir

\* Nothing but new content and PROPPATCH ever touches a modification time.
THEOREM ModificationIsEarned == MetaSpec => ModifiedIsEarned
<1>1. MetaInv /\ [MetaNext]_metaVars => [EarnedStep]_metaVars
  BY MetaStepIsEarned
<1>2. [EarnedStep]_metaVars =>
        [\A n \in DOMAIN nodes \cap DOMAIN nodes' :
           nodes'[n].modified # nodes[n].modified =>
             \/ nodes'[n].current # nodes[n].current
             \/ \E tm \in Times : SetModified(n, tm)]_metaVars
  BY DEF EarnedStep
<1>3. QED
  BY <1>1, <1>2, MetaIntegrity, PTL DEF MetaSpec, ModifiedIsEarned

-----------------------------------------------------------------------------
(* The tables implement VersionHistory *)

LastNumber(n) == IF nodes[n].current = NULL THEN 0 ELSE versions[nodes[n].current].number
Numbers(n) == {versions[v].number : v \in VersionsOf(n)}
Kept(n) == History(n).kept

\* A history read off the tables: the content of a number is that of the one
\* version row that has it.
HistoryReadsBack ==
  \A n \in DOMAIN nodes :
    /\ History(n) = [last |-> LastNumber(n), kept |-> Kept(n)]
    /\ Kept(n) = [k \in Numbers(n) |-> Kept(n)[k]]
    /\ \A v \in VersionsOf(n) : Kept(n)[versions[v].number] = versions[v].chunks

LEMMA HistoryRead == MetaInv => HistoryReadsBack
<1> SUFFICES ASSUME MetaInv, NEW n \in DOMAIN nodes
             PROVE  /\ History(n) = [last |-> LastNumber(n), kept |-> Kept(n)]
                    /\ Kept(n) = [k \in Numbers(n) |-> Kept(n)[k]]
                    /\ \A v \in VersionsOf(n) : Kept(n)[versions[v].number] = versions[v].chunks
  BY DEF HistoryReadsBack
<1> DEFINE Row(k) == CHOOSE v \in VersionsOf(n) : versions[v].number = k
<1>1. Kept(n) = [k \in Numbers(n) |-> versions[Row(k)].chunks]
  BY DEF Kept, History, Numbers
<1>2. ASSUME NEW v \in VersionsOf(n) PROVE Row(versions[v].number) = v
  <2>1. Row(versions[v].number) \in VersionsOf(n) /\ versions[Row(versions[v].number)].number = versions[v].number
    OBVIOUS
  <2>2. QED
    BY <2>1 DEF MetaInv, UniqueNumbers, VersionsOf
<1>3. ASSUME NEW v \in VersionsOf(n) PROVE Kept(n)[versions[v].number] = versions[v].chunks
  <2>1. versions[v].number \in Numbers(n)
    BY DEF Numbers
  <2>2. Kept(n)[versions[v].number] = versions[Row(versions[v].number)].chunks
    BY <1>1, <2>1
  <2>3. QED
    BY <1>2, <2>2
<1>4. Kept(n) = [k \in Numbers(n) |-> Kept(n)[k]]
  BY <1>1
<1>5. QED
  BY <1>3, <1>4 DEF History, Kept, LastNumber

\* Two histories with the same numbers and the same content under each are one.
LEMMA SameHistory ==
  ASSUME MetaInv, MetaInv', NEW n \in DOMAIN nodes, n \in DOMAIN nodes',
         nodes'[n].current = nodes[n].current, VersionsOf(n)' = VersionsOf(n),
         \A v \in VersionsOf(n) : versions'[v] = versions[v]
  PROVE  History(n)' = History(n)
<1>1. HistoryReadsBack
  BY HistoryRead
<1>2. HistoryReadsBack'
  BY HistoryRead, PTL
<1>3. Numbers(n)' = Numbers(n)
  BY DEF Numbers
<1>4. ASSUME NEW k \in Numbers(n) PROVE Kept(n)'[k] = Kept(n)[k]
  <2>1. PICK v \in VersionsOf(n) : versions[v].number = k
    BY DEF Numbers
  <2>2. Kept(n)[k] = versions[v].chunks
    BY <1>1, <2>1 DEF HistoryReadsBack
  <2>3. Kept(n)'[k] = versions'[v].chunks
    BY <1>2, <2>1 DEF HistoryReadsBack
  <2>4. QED
    BY <2>2, <2>3
<1>5. Kept(n)' = Kept(n)
  BY <1>1, <1>2, <1>3, <1>4 DEF HistoryReadsBack
<1>6. LastNumber(n)' = LastNumber(n)
  BY DEF LastNumber, MetaInv, ReferentialIntegrity
<1>7. QED
  BY <1>1, <1>2, <1>5, <1>6 DEF HistoryReadsBack
HistoryMap == [n \in DOMAIN nodes |-> History(n)]

\* The numbers of a node run up to its last one, which is there once there is one.
LEMMA LastIsHighest ==
  ASSUME MetaInv, NEW n \in DOMAIN nodes
  PROVE  /\ LastNumber(n) \in Nat
         /\ Numbers(n) \subseteq 1 .. LastNumber(n)
         /\ IF nodes[n].current = NULL THEN VersionsOf(n) = {} /\ LastNumber(n) = 0
            ELSE /\ nodes[n].current \in VersionsOf(n)
                 /\ LastNumber(n) = versions[nodes[n].current].number
                 /\ LastNumber(n) \in Numbers(n)
<1>1. \A v \in VersionsOf(n) : versions[v].number \in Nat \ {0}
  BY DEF MetaInv, MetaTypeOK, VersionRow, VersionsOf
<1>2. CASE nodes[n].current = NULL
  <2>1. VersionsOf(n) = {}
    BY <1>2, MetaConstants DEF MetaInv, CurrentIsHighest, VersionsOf, MetaTypeOK, NULL
  <2>2. QED
    BY <1>2, <2>1 DEF LastNumber, Numbers
<1>3. CASE nodes[n].current # NULL
  <2>1. nodes[n].current \in VersionsOf(n)
    BY <1>3 DEF MetaInv, ReferentialIntegrity
  <2>2. \A v \in VersionsOf(n) : versions[v].number <= versions[nodes[n].current].number
    BY DEF MetaInv, CurrentIsHighest
  <2>3. LastNumber(n) = versions[nodes[n].current].number
    BY <1>3 DEF LastNumber
  <2>4. QED
    BY <1>1, <1>3, <2>1, <2>2, <2>3 DEF Numbers
<1>4. QED
  BY <1>2, <1>3

LEMMA InitRefines == MetaInit => Hist!HistInit
<1> SUFFICES ASSUME MetaInit PROVE Hist!HistInit
  OBVIOUS
<1>1. DOMAIN nodes = {ROOT_ID} /\ DOMAIN versions = {} /\ nodes[ROOT_ID].current = NULL
  BY DEF MetaInit
<1>2. History(ROOT_ID) = Hist!NoHistory
  BY <1>1 DEF History, Hist!NoHistory, VersionsOf
<1>3. HistoryMap = [f \in {ROOT_ID} |-> Hist!NoHistory]
  BY <1>1, <1>2 DEF HistoryMap
<1>4. QED
  BY <1>3, MetaConstants DEF Hist!HistInit, HistoryMap

LEMMA InsertRefines ==
  ASSUME MetaInv, MetaInv', NEW id \in NodeIds, NEW parent, NEW name, NEW isDir, NEW now,
         InsertNode(id, parent, name, isDir, now)
  PROVE  Hist!Create(id)
<1>1. id \notin DOMAIN nodes
  BY NextRowIdFact, MetaConstants DEF InsertNode, MetaInv, MetaTypeOK
<1>2. /\ DOMAIN nodes' = DOMAIN nodes \cup {id} /\ versions' = versions
      /\ nodes'[id].current = NULL
      /\ \A n \in DOMAIN nodes : nodes'[n] = nodes[n]
  BY <1>1 DEF InsertNode, PutRow
<1>3. \A n : VersionsOf(n)' = VersionsOf(n)
  BY <1>2 DEF VersionsOf
<1>4. VersionsOf(id)' = {}
  <2>1. VersionsOf(id) = {}
    BY <1>1 DEF VersionsOf, MetaInv, ReferentialIntegrity
  <2>2. QED
    BY <1>3, <2>1
<1>5. History(id)' = Hist!NoHistory
  BY <1>2, <1>4 DEF History, Hist!NoHistory
<1>6. \A n \in DOMAIN nodes : History(n)' = History(n)
  BY <1>2, <1>3, SameHistory
<1>7. HistoryMap' = [n \in DOMAIN nodes \cup {id} |-> IF n = id THEN Hist!NoHistory ELSE History(n)]
  BY <1>2, <1>5, <1>6 DEF HistoryMap
<1>8. QED
  BY <1>1, <1>7 DEF Hist!Create, HistoryMap

LEMMA DeleteVersionRefines ==
  ASSUME MetaInv, MetaInv', NEW id, NEW number, DeleteVersion(id, number)
  PROVE  number \in DOMAIN HistoryMap[id].kept /\ id \in DOMAIN nodes /\ Hist!Prune(id, number)
<1>1. PICK d \in VersionsOf(id) :
        /\ versions[d].number = number
        /\ nodes[id].current # d
        /\ versions' = DropRows(versions, {d})
  BY DEF DeleteVersion
<1>2. /\ nodes' = nodes
      /\ id \in DOMAIN nodes
      /\ DOMAIN versions' = DOMAIN versions \ {d}
      /\ \A v \in DOMAIN versions' : versions'[v] = versions[v]
  BY <1>1 DEF DeleteVersion, DropRows, Restrict
<1>3. \A n : VersionsOf(n)' = VersionsOf(n) \ {d}
  BY <1>2 DEF VersionsOf
<1>4. \A n \in DOMAIN nodes \ {id} : VersionsOf(n)' = VersionsOf(n)
  BY <1>1, <1>3 DEF VersionsOf
<1>5. \A n \in DOMAIN nodes \ {id} : History(n)' = History(n)
  <2> SUFFICES ASSUME NEW n \in DOMAIN nodes \ {id} PROVE History(n)' = History(n)
    OBVIOUS
  <2>1. \A v \in VersionsOf(n) : versions'[v] = versions[v]
    BY <1>2, <1>4 DEF VersionsOf
  <2>2. QED
    BY <1>2, <1>4, <2>1, SameHistory
<1>6. HistoryReadsBack /\ HistoryReadsBack'
  BY HistoryRead, PTL
<1>7. \A v \in VersionsOf(id) : v # d => versions[v].number # number
  BY <1>1 DEF MetaInv, UniqueNumbers, VersionsOf
<1>8. Numbers(id)' = Numbers(id) \ {number} /\ number \in Numbers(id)
  <2>1. Numbers(id)' = {versions'[v].number : v \in VersionsOf(id) \ {d}}
    BY <1>3 DEF Numbers
  <2>2. \A v \in VersionsOf(id) \ {d} : versions'[v] = versions[v]
    BY <1>2, <1>3 DEF VersionsOf
  <2>3. Numbers(id)' = {versions[v].number : v \in VersionsOf(id) \ {d}}
    BY <2>1, <2>2
  <2>4. QED
    BY <1>1, <1>7, <2>3 DEF Numbers
<1>9. number # LastNumber(id) /\ LastNumber(id)' = LastNumber(id)
  <2>1. nodes[id].current \in VersionsOf(id) /\ LastNumber(id) = versions[nodes[id].current].number
    BY <1>1, <1>2, LastIsHighest
  <2>2. nodes[id].current \in VersionsOf(id)'
    BY <1>1, <1>3, <2>1
  <2>3. QED
    BY <1>1, <1>2, <1>7, <2>1, <2>2 DEF LastNumber, VersionsOf
<1>10. ASSUME NEW k \in Numbers(id)' PROVE Kept(id)'[k] = Kept(id)[k]
  <2>1. PICK v \in VersionsOf(id)' : versions'[v].number = k
    BY DEF Numbers
  <2>2. Kept(id)'[k] = versions'[v].chunks
    BY <1>2, <1>6, <2>1 DEF HistoryReadsBack
  <2>3. v \in VersionsOf(id) /\ versions'[v] = versions[v]
    BY <1>2, <1>3, <2>1 DEF VersionsOf
  <2>4. Kept(id)[k] = versions[v].chunks
    BY <1>2, <1>6, <2>1, <2>3 DEF HistoryReadsBack
  <2>5. QED
    BY <2>2, <2>3, <2>4
<1>11. Kept(id) = [k \in Numbers(id) |-> Kept(id)[k]] /\ Kept(id)' = [k \in Numbers(id)' |-> Kept(id)'[k]]
  BY <1>2, <1>6 DEF HistoryReadsBack
<1>12. Kept(id)' = [k \in Numbers(id) \ {number} |-> Kept(id)[k]]
  BY <1>8, <1>10, <1>11
<1>13. History(id) = [last |-> LastNumber(id), kept |-> Kept(id)]
       /\ History(id)' = [last |-> LastNumber(id), kept |-> Kept(id)']
  BY <1>2, <1>6, <1>9 DEF HistoryReadsBack
<1>14. DOMAIN Kept(id) = Numbers(id)
  BY <1>11
<1>15. Kept(id)' = Hist!Restrict(Kept(id), DOMAIN Kept(id) \ {number})
  BY <1>12, <1>14 DEF Hist!Restrict
<1>16. HistoryMap' = [HistoryMap EXCEPT ![id].kept = Kept(id)']
  <2>1. History(id)' = [History(id) EXCEPT !.kept = Kept(id)']
    BY <1>13
  <2>2. HistoryMap' = [n \in DOMAIN nodes |-> IF n = id THEN History(id)' ELSE History(n)]
    BY <1>2, <1>5 DEF HistoryMap
  <2>3. HistoryMap' = [HistoryMap EXCEPT ![id] = [History(id) EXCEPT !.kept = Kept(id)']]
    BY <1>2, <2>1, <2>2 DEF HistoryMap
  <2>4. HistoryMap[id] = History(id)
    BY <1>2 DEF HistoryMap
  <2>5. QED
    BY <2>3, <2>4
<1>17. /\ id \in DOMAIN HistoryMap
       /\ HistoryMap[id].kept = Kept(id) /\ HistoryMap[id].last = LastNumber(id)
  BY <1>2, <1>13 DEF HistoryMap
<1>18. HistoryMap' = [HistoryMap EXCEPT ![id].kept = Hist!Restrict(@, DOMAIN @ \ {number})]
  BY <1>15, <1>16, <1>17
<1>19. number \in DOMAIN HistoryMap[id].kept \ {HistoryMap[id].last}
  BY <1>8, <1>9, <1>14, <1>17
<1>20. QED
  BY <1>2, <1>17, <1>18, <1>19 DEF Hist!Prune, HistoryMap
LEMMA AppendRefines ==
  ASSUME MetaInv, MetaInv', NEW id \in DOMAIN nodes, NEW m \in Manifests, NEW now \in Times,
         ~SameContent(id, m), AppendVersion(id, m, now)
  PROVE  Hist!Append(id, m)
<1> DEFINE n == LastNumber(id) + 1
<1>1. PICK vid \in VersionIds \ DOMAIN versions, number \in Nat \ {0} :
        /\ number \in NextNumber(id)
        /\ \A v \in VersionsOf(id) : versions[v].number < number
        /\ DOMAIN versions' = DOMAIN versions \cup {vid}
        /\ versions'[vid] = [node |-> id, number |-> number, chunks |-> m]
        /\ \A v \in DOMAIN versions : versions'[v] = versions[v]
        /\ DOMAIN nodes' = DOMAIN nodes
        /\ nodes'[id].current = vid
        /\ \A k \in DOMAIN nodes \ {id} : nodes'[k] = nodes[k]
  BY AppendedRow, ZenonT(60)
<1>2. number = n
  <2>1. number \in {k + 1 : k \in Numbers(id) \cup {0}} /\ \A k \in Numbers(id) : k < number
    BY <1>1 DEF NextNumber, NextRowId, Numbers
  <2>2. /\ LastNumber(id) \in Nat /\ Numbers(id) \subseteq 1 .. LastNumber(id)
        /\ LastNumber(id) \in Numbers(id) \/ (LastNumber(id) = 0 /\ Numbers(id) = {})
    BY LastIsHighest DEF Numbers
  <2>3. PICK k \in Numbers(id) \cup {0} : number = k + 1
    BY <2>1
  <2>4. k <= LastNumber(id) /\ k \in Nat
    BY <2>2
  <2>5. LastNumber(id) < number
    BY <2>1, <2>2, <1>1
  <2>6. QED
    BY <2>2, <2>3, <2>4, <2>5
<1>3. /\ VersionsOf(id)' = VersionsOf(id) \cup {vid}
      /\ \A k \in DOMAIN nodes \ {id} : VersionsOf(k)' = VersionsOf(k)
  BY <1>1 DEF VersionsOf
<1>4. \A k \in DOMAIN nodes \ {id} : History(k)' = History(k)
  <2> SUFFICES ASSUME NEW k \in DOMAIN nodes \ {id} PROVE History(k)' = History(k)
    OBVIOUS
  <2>1. \A v \in VersionsOf(k) : versions'[v] = versions[v]
    BY <1>1 DEF VersionsOf
  <2>2. QED
    BY <1>1, <1>3, <2>1, SameHistory
<1>5. HistoryReadsBack /\ HistoryReadsBack'
  BY HistoryRead, PTL
<1>6. Numbers(id)' = Numbers(id) \cup {n}
  <2>1. Numbers(id)' = {versions'[v].number : v \in VersionsOf(id) \cup {vid}}
    BY <1>3 DEF Numbers
  <2>2. \A v \in VersionsOf(id) : versions'[v] = versions[v]
    BY <1>1 DEF VersionsOf
  <2>3. versions'[vid].number = n
    BY <1>1, <1>2
  <2>4. QED
    BY <2>1, <2>2, <2>3 DEF Numbers
<1>7. LastNumber(id)' = n
  BY <1>1, <1>2, MetaConstants DEF LastNumber, NULL
<1>8. Kept(id)'[n] = m
  <2>1. vid \in VersionsOf(id)' /\ versions'[vid].number = n /\ versions'[vid].chunks = m
    BY <1>1, <1>2, <1>3
  <2>2. QED
    BY <1>1, <1>5, <2>1 DEF HistoryReadsBack
<1>9. ASSUME NEW k \in Numbers(id) PROVE Kept(id)'[k] = Kept(id)[k]
  <2>1. PICK v \in VersionsOf(id) : versions[v].number = k
    BY DEF Numbers
  <2>2. v \in VersionsOf(id)' /\ versions'[v] = versions[v]
    BY <1>1, <1>3 DEF VersionsOf
  <2>3. Kept(id)[k] = versions[v].chunks
    BY <1>5, <2>1 DEF HistoryReadsBack
  <2>4. Kept(id)'[k] = versions'[v].chunks
    BY <1>1, <1>5, <2>1, <2>2 DEF HistoryReadsBack
  <2>5. QED
    BY <2>2, <2>3, <2>4
<1>10. n \notin Numbers(id) /\ LastNumber(id) \in Nat
  BY LastIsHighest
<1>11. /\ Kept(id) = [k \in Numbers(id) |-> Kept(id)[k]]
       /\ Kept(id)' = [k \in Numbers(id)' |-> Kept(id)'[k]]
       /\ History(id) = [last |-> LastNumber(id), kept |-> Kept(id)]
       /\ History(id)' = [last |-> n, kept |-> Kept(id)']
  BY <1>1, <1>5, <1>7 DEF HistoryReadsBack
<1>12. Kept(id)' = [k \in DOMAIN Kept(id) \cup {n} |-> IF k = n THEN m ELSE Kept(id)[k]]
  <2>1. DOMAIN Kept(id) = Numbers(id)
    BY <1>11
  <2>2. QED
    BY <1>6, <1>8, <1>9, <1>10, <1>11, <2>1
<1>13. /\ id \in DOMAIN HistoryMap /\ HistoryMap[id] = History(id)
       /\ HistoryMap[id].kept = Kept(id) /\ HistoryMap[id].last = LastNumber(id)
  BY <1>11 DEF HistoryMap
<1>14. HistoryMap' = [HistoryMap EXCEPT ![id] =
         [last |-> n,
          kept |-> [k \in DOMAIN HistoryMap[id].kept \cup {n} |->
                      IF k = n THEN m ELSE HistoryMap[id].kept[k]]]]
  <2>1. HistoryMap' = [HistoryMap EXCEPT ![id] = [last |-> n, kept |-> Kept(id)']]
    BY <1>1, <1>4, <1>11 DEF HistoryMap
  <2>2. QED
    BY <1>12, <1>13, <2>1
<1>15. HistoryMap[id].last > 0 => HistoryMap[id].kept[HistoryMap[id].last] # m
  <2> SUFFICES ASSUME LastNumber(id) > 0 PROVE Kept(id)[LastNumber(id)] # m
    BY <1>13
  <2>1. /\ nodes[id].current # NULL /\ nodes[id].current \in VersionsOf(id)
        /\ LastNumber(id) = versions[nodes[id].current].number
    BY LastIsHighest
  <2>2. Kept(id)[LastNumber(id)] = versions[nodes[id].current].chunks
    BY <1>5, <2>1 DEF HistoryReadsBack
  <2>3. QED
    BY <2>1, <2>2 DEF SameContent, ReadManifest, VersionsOf
<1>16. QED
  <2>1. /\ id \in DOMAIN HistoryMap
        /\ HistoryMap[id].last > 0 => HistoryMap[id].kept[HistoryMap[id].last] # m
        /\ HistoryMap' = [HistoryMap EXCEPT ![id] =
             [last |-> HistoryMap[id].last + 1,
              kept |-> [k \in DOMAIN HistoryMap[id].kept \cup {HistoryMap[id].last + 1} |->
                          IF k = HistoryMap[id].last + 1 THEN m ELSE HistoryMap[id].kept[k]]]]
    BY <1>13, <1>14, <1>15
  <2>2. QED
    BY <2>1, ZenonT(30) DEF Hist!Append, Hist!Content, HistoryMap

LEMMA DeleteNodeRefines ==
  ASSUME MetaInv, MetaInv', NEW id \in DOMAIN nodes, DeleteNode(id)
  PROVE  Subtree(id) \in SUBSET DOMAIN HistoryMap /\ Hist!Remove(Subtree(id))
<1>1. Subtree(id) \subseteq DOMAIN nodes /\ id \in Subtree(id)
  BY DEF Subtree
<1>2. /\ DOMAIN nodes' = DOMAIN nodes \ Subtree(id)
      /\ \A n \in DOMAIN nodes' : nodes'[n] = nodes[n]
  BY DEF DeleteNode, DropRows, Restrict
<1>3. /\ DOMAIN versions' = {v \in DOMAIN versions : versions[v].node \notin Subtree(id)}
      /\ \A v \in DOMAIN versions' : versions'[v] = versions[v]
  BY DEF DeleteNode, DropRows, Restrict
<1>4. \A n \in DOMAIN nodes' : History(n)' = History(n)
  <2> SUFFICES ASSUME NEW n \in DOMAIN nodes' PROVE History(n)' = History(n)
    OBVIOUS
  <2>1. VersionsOf(n)' = VersionsOf(n)
    BY <1>2, <1>3 DEF VersionsOf
  <2>2. \A v \in VersionsOf(n) : versions'[v] = versions[v]
    BY <1>3, <2>1 DEF VersionsOf
  <2>3. QED
    BY <1>2, <2>1, <2>2, SameHistory
<1>5. HistoryMap' = [n \in DOMAIN HistoryMap \ Subtree(id) |-> HistoryMap[n]]
  BY <1>2, <1>4 DEF HistoryMap
<1>6. QED
  BY <1>1, <1>5 DEF Hist!Remove, Hist!Restrict, HistoryMap

\* A step that leaves the versions and current_version_id alone.
LEMMA OthersStutter ==
  ASSUME MetaInv, MetaInv', versions' = versions, DOMAIN nodes' = DOMAIN nodes,
         \A n \in DOMAIN nodes : nodes'[n].current = nodes[n].current
  PROVE  HistoryMap' = HistoryMap
<1>1. \A n \in DOMAIN nodes : History(n)' = History(n)
  BY SameHistory DEF VersionsOf
<1>2. QED
  BY <1>1 DEF HistoryMap

LEMMA NextRefines ==
  ASSUME MetaInv, MetaInv', [MetaNext]_metaVars
  PROVE  [Hist!HistNext]_HistoryMap
<1> USE MetaConstants
<1>1. ASSUME NEW id \in NodeIds, NEW parent \in DOMAIN nodes, NEW name \in Names,
             NEW isDir \in BOOLEAN, NEW now \in Times, InsertNode(id, parent, name, isDir, now)
      PROVE  Hist!HistNext
  BY <1>1, InsertRefines DEF Hist!HistNext
<1>2. CASE UNCHANGED metaVars
  BY <1>2, OthersStutter DEF metaVars
<1>3. ASSUME NEW id \in DOMAIN nodes, NEW m \in Manifests, NEW now \in Times, SetFileContent(id, m, now)
      PROVE  [Hist!HistNext]_HistoryMap
  <2>1. CASE SameContent(id, m)
    BY <1>2, <1>3, <2>1 DEF SetFileContent
  <2>2. CASE ~SameContent(id, m)
    <3>1. Hist!Append(id, m)
      BY <1>3, <2>2, AppendRefines DEF SetFileContent
    <3>2. id \in DOMAIN HistoryMap
      BY DEF HistoryMap
    <3>3. QED
      BY <3>1, <3>2 DEF Hist!HistNext, HistoryMap
  <2>3. QED
    BY <2>1, <2>2
<1>4. ASSUME NEW v \in DOMAIN versions, DeleteVersion(versions[v].node, versions[v].number)
      PROVE  Hist!HistNext
  <2> DEFINE id == versions[v].node
  <2>1. id \in DOMAIN HistoryMap
    BY <1>4 DEF DeleteVersion, HistoryMap
  <2>2. versions[v].number \in DOMAIN HistoryMap[id].kept /\ Hist!Prune(id, versions[v].number)
    BY <1>4, DeleteVersionRefines
  <2>3. QED
    BY <2>1, <2>2 DEF Hist!HistNext, HistoryMap
<1>5. ASSUME NEW id \in DOMAIN nodes \ {ROOT_ID}, DeleteNode(id)
      PROVE  Hist!HistNext
  BY <1>5, DeleteNodeRefines DEF Hist!HistNext, HistoryMap
<1>6. ASSUME NEW id \in DOMAIN nodes \ {ROOT_ID}, NEW parent \in DOMAIN nodes, NEW name \in Names,
             Rename(id, parent, name)
      PROVE  HistoryMap' = HistoryMap
  <2>1. nodes[id] \in NodeRow
    BY DEF MetaInv, MetaTypeOK
  <2>2. DOMAIN nodes' = DOMAIN nodes /\ \A n \in DOMAIN nodes : nodes'[n].current = nodes[n].current
    BY <1>6, <2>1 DEF Rename, NodeRow, MetaInv, MetaTypeOK
  <2>3. QED
    BY <1>6, <2>2, OthersStutter DEF Rename
<1>7. ASSUME NEW id \in DOMAIN nodes, NEW tm \in Times, SetModified(id, tm)
      PROVE  HistoryMap' = HistoryMap
  <2>1. nodes[id] \in NodeRow
    BY DEF MetaInv, MetaTypeOK
  <2>2. DOMAIN nodes' = DOMAIN nodes /\ \A n \in DOMAIN nodes : nodes'[n].current = nodes[n].current
    BY <1>7, <2>1 DEF SetModified, NodeRow, MetaInv, MetaTypeOK
  <2>3. QED
    BY <1>7, <2>2, OthersStutter DEF SetModified
<1>8. QED
  BY <1>1, <1>2, <1>3, <1>4, <1>5, <1>6, <1>7 DEF MetaNext, RemoveDir

\* Every sequence of calls to the store is, read off its tables, a history
\* that VersionHistory allows.
THEOREM MetaImplementsHistory == MetaSpec => ImplementsVersionHistory
<1>1. MetaInit => Hist!HistInit
  BY InitRefines
<1>2. MetaInv /\ MetaInv' /\ [MetaNext]_metaVars => [Hist!HistNext]_HistoryMap
  BY NextRefines
<1>3. QED
  BY <1>1, <1>2, MetaIntegrity, PTL DEF MetaSpec, ImplementsVersionHistory, Hist!HistSpec, HistoryMap
=============================================================================
