---------------------------- MODULE Search_proofs ----------------------------
(***************************************************************************)
(* Full-text search, for any number of nodes, names, hits and statements   *)
(* of others: the walks up read ways of the tree (PathOfIsRight), and a    *)
(* search that nothing disturbs finds the best hits below its scope        *)
(* (QuietSearchIsExact).                                                   *)
(***************************************************************************)
EXTENDS Search, MetaStore_proofs

-----------------------------------------------------------------------------
(* What a search remembers                                                 *)

Steps == {"idle", "scope", "prefix", "query", "hit", "done", "corrupt", "notFound", "badQuery", "failed"}

SearchRecord ==
  [pc : Steps, asked : Scopes \cup {<<>>}, at : NodeIds, rest : Seq(Names),
   prefix : SUBSET Seq(Names), ranked : Seq(NodeIds \ {ROOT_ID}), fetched : Nat, next : Nat \ {0},
   names : Seq(Names), results : Seq(Seq(Names)), seen : Seq(NodeIds),
   touched : BOOLEAN, stirs : Nat, renamed : BOOLEAN]

\* The bounds are kept, and touched is a matter of the statements of others.
Bounded(r) ==
  /\ r.prefix = {} \/ \E path \in Seq(Names) : r.prefix = {path}
  /\ r.fetched <= Len(r.ranked)
  /\ r.next <= r.fetched + 1
  /\ Len(r.names) < MAX_WALK
  /\ Len(r.results) <= LIMIT
  /\ r.pc = "hit" => Len(r.results) < LIMIT
  /\ r.pc \in {"idle", "scope", "prefix", "query"} => r.next = 1 /\ r.results = <<>>
  /\ r.stirs = 0 => ~r.touched

\* The rows a walk has read hang together, from `at` down, by the names it has.
Traced(r) ==
  /\ Len(r.names) = Len(r.seen)
  /\ \A i \in 1 .. Len(r.seen) :
       /\ r.seen[i] \in DOMAIN nodes \ {ROOT_ID}
       /\ nodes[r.seen[i]].parent = IF i = 1 THEN r.at ELSE r.seen[i - 1]
       /\ nodes[r.seen[i]].name = r.names[i]

Remembers(r) ==
  /\ r \in SearchRecord
  /\ Bounded(r)
  /\ r.pc \in {"prefix", "hit"} /\ ~r.touched => Traced(r)

SearchInv == SoundRows(nodes) /\ Remembers(search)

-----------------------------------------------------------------------------
(* The steps of a search                                                   *)

LEMMA SetToSeqOfOne ==
  ASSUME NEW x
  PROVE  SetToSeq({}) = <<>> /\ SetToSeq({x}) = <<x>>
<1>1. SetToSeq({}) = <<>>
  <2>1. Cardinality({}) = 0
    BY FS_EmptySet
  <2>2. \A f \in [1 .. 0 -> {}] : f = <<>>
    OBVIOUS
  <2>3. <<>> \in [1 .. 0 -> {}] /\ IsInjective(<<>>)
    BY DEF IsInjective
  <2>4. QED
    BY <2>1, <2>2, <2>3 DEF SetToSeq
<1>2. SetToSeq({x}) = <<x>>
  <2>1. Cardinality({x}) = 1
    BY FS_Singleton
  <2>2. \A f \in [1 .. 1 -> {x}] : f = <<x>>
    OBVIOUS
  <2>3. <<x>> \in [1 .. 1 -> {x}] /\ IsInjective(<<x>>)
    BY DEF IsInjective
  <2>4. QED
    BY <2>1, <2>2, <2>3 DEF SetToSeq
<1>3. QED
  BY <1>1, <1>2

LEMMA AtMostOneMore ==
  ASSUME NEW X, NEW s \in Seq(X), NEW x \in X, NEW t, t = <<>> \/ t = <<x>>
  PROVE  s \o t \in Seq(X) /\ Len(s \o t) <= Len(s) + 1 /\ Len(s \o t) \in Nat
<1>1. CASE t = <<>>
  BY <1>1
<1>2. CASE t = <<x>>
  BY <1>2
<1>3. QED
  BY <1>1, <1>2

LEMMA IdleRemembers == Remembers(Idle)
<1>1. Idle \in SearchRecord
  BY MetaConstants DEF Idle, SearchRecord, Steps
<1>2. Bounded(Idle)
  BY SearchConstants DEF Idle, Bounded
<1>3. QED
  BY <1>1, <1>2 DEF Remembers, Idle

\* A walk begins with nothing read.
LEMMA WalkFromRemembers ==
  ASSUME NEW r \in SearchRecord, Bounded(r), NEW pc \in Steps \ {"idle", "scope"}, NEW id \in NodeIds,
         pc = "hit" => Len(r.results) < LIMIT,
         pc \in {"prefix", "query"} => r.next = 1 /\ r.results = <<>>
  PROVE  Remembers(WalkFrom(r, pc, id))
<1> DEFINE w == WalkFrom(r, pc, id)
<1>1. w = [r EXCEPT !.pc = pc, !.at = id, !.names = <<>>, !.seen = <<>>, !.touched = FALSE]
  BY DEF WalkFrom
<1>2. w \in SearchRecord
  <2> DEFINE a == [r EXCEPT !.pc = pc, !.at = id]
             b == [a EXCEPT !.names = <<>>, !.seen = <<>>]
  <2>1. <<>> \in Seq(Names) /\ <<>> \in Seq(NodeIds)
    OBVIOUS
  <2>2. a \in SearchRecord
    BY Zenon DEF SearchRecord
  <2>3. w = [b EXCEPT !.touched = FALSE]
    BY <1>1 DEF SearchRecord
  <2> HIDE DEF a, w
  <2>4. b \in SearchRecord
    BY <2>1, <2>2, Zenon DEF SearchRecord
  <2> HIDE DEF b
  <2>5. QED
    BY <2>3, <2>4, Zenon DEF SearchRecord
<1>3. /\ w.names = <<>> /\ w.seen = <<>> /\ ~w.touched /\ w.pc = pc
      /\ w.prefix = r.prefix /\ w.ranked = r.ranked /\ w.fetched = r.fetched /\ w.next = r.next
      /\ w.results = r.results /\ w.stirs = r.stirs
  BY <1>1 DEF SearchRecord
<1>4. Bounded(w)
  <2>1. pc \notin {"idle", "scope"}
    OBVIOUS
  <2>2. QED
    BY <1>3, <2>1, SearchConstants DEF Bounded
<1>5. Traced(w)
  BY <1>3 DEF Traced
<1>6. QED
  BY <1>2, <1>4, <1>5 DEF Remembers

\* A search that ends, or goes on from the scope, keeps what it has.
LEMMA MovesOnRemembers ==
  ASSUME NEW r \in SearchRecord, Bounded(r),
         NEW pc \in {"query", "notFound", "badQuery", "failed", "corrupt"}, pc = "query" => r.pc = "scope"
  PROVE  Remembers([r EXCEPT !.pc = pc])
<1> DEFINE s == [r EXCEPT !.pc = pc]
<1>1. s \in SearchRecord
  <2>1. pc \in Steps
    BY DEF Steps
  <2>2. QED
    BY <2>1, Zenon DEF SearchRecord
<1>2. /\ s.pc = pc /\ s.prefix = r.prefix /\ s.ranked = r.ranked /\ s.fetched = r.fetched /\ s.next = r.next
      /\ s.results = r.results /\ s.stirs = r.stirs /\ s.names = r.names /\ s.touched = r.touched
  BY Zenon DEF SearchRecord
<1> HIDE DEF s
<1>3. Bounded(s)
  BY <1>2 DEF Bounded
<1>4. QED
  BY <1>1, <1>2, <1>3 DEF Remembers, s

LEMMA NextHitRemembers ==
  ASSUME NEW r \in SearchRecord, Bounded([r EXCEPT !.pc = "failed"])
  PROVE  Remembers(NextHit(r))
<1> DEFINE q == [r EXCEPT !.pc = "failed"]
<1>0. /\ q.prefix = r.prefix /\ q.ranked = r.ranked /\ q.fetched = r.fetched /\ q.next = r.next
      /\ q.results = r.results /\ q.stirs = r.stirs /\ q.names = r.names /\ q.touched = r.touched
  BY DEF SearchRecord
<1>1. CASE Len(r.results) < LIMIT /\ r.next <= r.fetched
  <2> DEFINE s == [r EXCEPT !.pc = "failed", !.next = @ + 1]
  <2>1. NextHit(r) = WalkFrom([r EXCEPT !.next = @ + 1], "hit", r.ranked[r.next])
    BY <1>1 DEF NextHit
  <2>2. WalkFrom([r EXCEPT !.next = @ + 1], "hit", r.ranked[r.next]) = WalkFrom(s, "hit", r.ranked[r.next])
    BY DEF WalkFrom, SearchRecord
  <2>3. s \in SearchRecord
    <3>1. r.next + 1 \in Nat \ {0} /\ "failed" \in Steps
      BY DEF SearchRecord, Steps
    <3>2. QED
      BY <3>1, Zenon DEF SearchRecord
  <2>4. /\ s.pc = "failed" /\ s.prefix = r.prefix /\ s.ranked = r.ranked /\ s.fetched = r.fetched /\ s.next = r.next + 1
        /\ s.results = r.results /\ s.stirs = r.stirs /\ s.names = r.names /\ s.touched = r.touched
    BY DEF SearchRecord
  <2>5. r.next \in Nat /\ r.fetched \in Nat
    BY DEF SearchRecord
  <2>6. Bounded(s)
    BY <1>0, <1>1, <2>4, <2>5 DEF Bounded
  <2>7. r.ranked[r.next] \in NodeIds
    <3>1. r.next \in 1 .. Len(r.ranked) /\ r.ranked \in Seq(NodeIds \ {ROOT_ID})
      BY <1>0, <1>1, <2>5 DEF Bounded, SearchRecord
    <3>2. QED
      BY <3>1
  <2>8. QED
    BY <1>1, <2>1, <2>2, <2>3, <2>4, <2>6, <2>7, WalkFromRemembers DEF Steps
<1>2. CASE ~(Len(r.results) < LIMIT /\ r.next <= r.fetched)
  <2> DEFINE s == [q EXCEPT !.prefix = {}]
  <2>1. NextHit(r) = [WalkFrom(r, "done", ROOT_ID) EXCEPT !.prefix = {}]
    BY <1>2 DEF NextHit
  <2>2. [WalkFrom(r, "done", ROOT_ID) EXCEPT !.prefix = {}] = WalkFrom(s, "done", ROOT_ID)
    BY DEF WalkFrom, SearchRecord
  <2>3. s \in SearchRecord
    BY DEF SearchRecord, Steps
  <2>4. /\ s.pc = "failed" /\ s.prefix = {} /\ s.ranked = r.ranked /\ s.fetched = r.fetched /\ s.next = r.next
        /\ s.results = r.results /\ s.stirs = r.stirs /\ s.names = r.names /\ s.touched = r.touched
    BY DEF SearchRecord
  <2>5. Bounded(s)
    BY <1>0, <2>4 DEF Bounded
  <2>6. QED
    BY <2>1, <2>2, <2>3, <2>4, <2>5, MetaConstants, WalkFromRemembers DEF Steps
<1>3. QED
  BY <1>1, <1>2

\* path_of answers.
LEMMA AnsweredRemembers ==
  ASSUME SearchInv, Walking, NEW paths, paths = {} \/ paths = {search.names}
  PROVE  Remembers(Answered(paths))
<1>1. search \in SearchRecord /\ Bounded(search) /\ search.names \in Seq(Names)
  BY DEF SearchInv, Remembers, SearchRecord
<1>2. CASE search.pc = "prefix"
  <2> DEFINE s == [search EXCEPT !.prefix = paths]
  <2>1. Answered(paths) = [WalkFrom(search, "query", ROOT_ID) EXCEPT !.prefix = paths]
    BY <1>2 DEF Answered, At
  <2>2. [WalkFrom(search, "query", ROOT_ID) EXCEPT !.prefix = paths] = WalkFrom(s, "query", ROOT_ID)
    BY <1>1 DEF WalkFrom, SearchRecord
  <2>3. s \in SearchRecord
    <3>1. paths \in SUBSET Seq(Names)
      BY <1>1
    <3>2. QED
      BY <1>1, <3>1, Zenon DEF SearchRecord
  <2>4. /\ s.pc = "prefix" /\ s.prefix = paths /\ s.ranked = search.ranked /\ s.fetched = search.fetched
        /\ s.next = search.next /\ s.results = search.results /\ s.stirs = search.stirs
        /\ s.names = search.names /\ s.touched = search.touched
    BY <1>1, <1>2 DEF SearchRecord
  <2>5. Bounded(s)
    BY <1>1, <2>4 DEF Bounded
  <2>6. s.next = 1 /\ s.results = <<>>
    BY <1>1, <1>2, <2>4 DEF Bounded
  <2> HIDE DEF s
  <2>7. Remembers(WalkFrom(s, "query", ROOT_ID))
    <3>1. ROOT_ID \in NodeIds /\ "query" \in Steps \ {"idle", "scope"} /\ "query" # "hit"
      BY MetaConstants DEF Steps
    <3>2. QED
      BY <2>3, <2>5, <2>6, <3>1, WalkFromRemembers
  <2>8. QED
    BY <2>1, <2>2, <2>7 DEF s
<1>3. CASE search.pc = "hit"
  <2> DEFINE kept == {path \in paths : \A prefix \in search.prefix : IsWithin(path, prefix)}
             more == search.results \o SetToSeq(kept)
             s    == [search EXCEPT !.results = more]
             q    == [s EXCEPT !.pc = "failed"]
  <2>1. Answered(paths) = NextHit(s)
    BY <1>3 DEF Answered, At
  <2>2. SetToSeq(kept) = <<>> \/ SetToSeq(kept) = <<search.names>>
    <3>1. kept = {} \/ kept = {search.names}
      OBVIOUS
    <3>2. QED
      BY <3>1, SetToSeqOfOne
  <2> HIDE DEF kept
  <2>3. more \in Seq(Seq(Names)) /\ Len(more) <= Len(search.results) + 1 /\ Len(more) \in Nat
    <3>1. search.results \in Seq(Seq(Names))
      BY <1>1 DEF SearchRecord
    <3>2. QED
      BY <1>1, <2>2, <3>1, AtMostOneMore
  <2> HIDE DEF more
  <2>4. s \in SearchRecord
    BY <1>1, <2>3, Zenon DEF SearchRecord
  <2>5. /\ q.pc = "failed" /\ q.prefix = search.prefix /\ q.ranked = search.ranked /\ q.fetched = search.fetched
        /\ q.next = search.next /\ q.results = more /\ q.stirs = search.stirs
        /\ q.names = search.names /\ q.touched = search.touched
    BY <1>1, <2>3 DEF SearchRecord
  <2>6. Len(more) <= LIMIT
    <3>1. Len(search.results) < LIMIT /\ Len(search.results) \in Nat
      BY <1>1, <1>3 DEF Bounded, SearchRecord
    <3>2. QED
      BY <2>3, <3>1, SearchConstants
  <2>7. Bounded(q)
    BY <1>1, <2>5, <2>6 DEF Bounded
  <2>8. QED
    BY <2>1, <2>4, <2>7, NextHitRemembers
<1>4. QED
  BY <1>2, <1>3 DEF Walking

LEMMA SearchStepRemembers ==
  ASSUME SearchInv, SearchStep \/ \E scope \in Scopes : Begin(scope)
  PROVE  SearchInv' /\ UNCHANGED metaVars
<1>1. search \in SearchRecord /\ Bounded(search) /\ SoundRows(nodes)
  BY DEF SearchInv, Remembers
<1>2. DOMAIN nodes \subseteq NodeIds /\ nodes \in [DOMAIN nodes -> NodeRow]
  BY <1>1 DEF SoundRows
<1>3. UNCHANGED metaVars
  BY DEF SearchStep, Begin, LookUp, ScopeFound, Gone, RootReached, WalkUp, GiveUp, Query, Fail, Respond
<1>4. SUFFICES ASSUME NEW r, search' = r PROVE Remembers(r)
  <2>1. Remembers(search') /\ UNCHANGED nodes => SearchInv'
    BY <1>1 DEF SearchInv, Remembers, Traced
  <2>2. QED
    BY <1>3, <1>4, <2>1 DEF metaVars
\* Only pc and fields that say nothing of a walk change.
<1>5. ASSUME NEW s \in SearchRecord, s.pc \notin {"prefix", "hit"}, Bounded(s), r = s
      PROVE  Remembers(r)
  BY <1>5 DEF Remembers
<1>6. ASSUME NEW scope \in Scopes, Begin(scope) PROVE Remembers(r)
  <2> DEFINE s == [Idle EXCEPT !.pc = "scope", !.asked = scope, !.rest = scope]
  <2>1. s \in SearchRecord
    <3>1. Idle \in SearchRecord /\ "scope" \in Steps /\ scope \in Seq(Names) /\ scope \in Scopes \cup {<<>>}
      BY IdleRemembers, SearchConstants DEF Remembers, Steps
    <3>2. QED
      BY <3>1, Zenon DEF SearchRecord
  <2>2. Bounded(s) /\ s.pc = "scope"
    BY SearchConstants DEF Idle, Bounded
  <2>3. QED
    BY <1>4, <1>5, <1>6, <2>1, <2>2 DEF Begin
<1>7. ASSUME LookUp PROVE Remembers(r)
  <2>1. ASSUME NEW n \in DOMAIN nodes, r = [search EXCEPT !.at = n, !.rest = Tail(@)]
        PROVE  Remembers(r)
    <3>1. search.rest \in Seq(Names) /\ search.rest # <<>> /\ search.pc = "scope"
      BY <1>1, <1>7 DEF LookUp, At, SearchRecord
    <3>2. Tail(search.rest) \in Seq(Names) /\ n \in NodeIds
      BY <1>2, <3>1
    <3>3. r \in SearchRecord
      BY <1>1, <2>1, <3>2, Zenon DEF SearchRecord
    <3>4. Bounded(r) /\ r.pc = "scope"
      BY <1>1, <2>1, <3>1 DEF Bounded, SearchRecord
    <3>5. QED
      BY <1>5, <3>3, <3>4
  <2>2. ASSUME r = [search EXCEPT !.pc = "notFound"] PROVE Remembers(r)
    BY <1>1, <2>2, MovesOnRemembers
  <2>3. QED
    BY <1>4, <1>7, <2>1, <2>2 DEF LookUp
<1>8. ASSUME ScopeFound PROVE Remembers(r)
  <2>1. CASE r = [search EXCEPT !.pc = "query"]
    BY <1>1, <1>8, <2>1, MovesOnRemembers DEF ScopeFound, At
  <2>2. CASE r = WalkFrom(search, "prefix", search.at)
    <3>1. search.at \in NodeIds /\ search.next = 1 /\ search.results = <<>>
      BY <1>1, <1>8 DEF ScopeFound, At, Bounded, SearchRecord
    <3>2. QED
      BY <1>1, <2>2, <3>1, WalkFromRemembers DEF Steps
  <2>3. QED
    BY <1>4, <1>8, <2>1, <2>2 DEF ScopeFound
<1>9. ASSUME Gone \/ RootReached PROVE Remembers(r)
  BY <1>4, <1>9, AnsweredRemembers DEF Gone, RootReached
<1>10. ASSUME WalkUp PROVE Remembers(r)
  <2> DEFINE names == <<nodes[search.at].name>> \o search.names
             seen  == <<search.at>> \o search.seen
             up    == nodes[search.at].parent
  <2>1. /\ search.at \in DOMAIN nodes /\ up # NULL
        /\ Len(search.names) + 1 < MAX_WALK
        /\ r = [search EXCEPT !.names = names, !.seen = seen, !.at = up]
        /\ search.pc \in {"prefix", "hit"}
    BY <1>4, <1>10 DEF WalkUp, Walking
  <2>2. search.at # ROOT_ID /\ nodes[search.at] \in NodeRow /\ nodes[search.at].name \in Names
    BY <1>1, <1>2, <2>1 DEF SoundRows
  <2>3. up \in NodeIds
    BY <2>1, <2>2 DEF NodeRow
  <2>4. search.names \in Seq(Names) /\ search.seen \in Seq(NodeIds) /\ search.at \in NodeIds
    BY <1>1 DEF SearchRecord
  <2>5. /\ names \in Seq(Names) /\ Len(names) = Len(search.names) + 1
        /\ names[1] = nodes[search.at].name
        /\ \A i \in 1 .. Len(search.names) : names[i + 1] = search.names[i]
    BY <2>2, <2>4
  <2>6. /\ seen \in Seq(NodeIds) /\ Len(seen) = Len(search.seen) + 1
        /\ seen[1] = search.at
        /\ \A i \in 1 .. Len(search.seen) : seen[i + 1] = search.seen[i]
    BY <2>4
  <2> HIDE DEF names, seen, up
  <2>7. r \in SearchRecord
    BY <1>1, <2>1, <2>3, <2>5, <2>6, Zenon DEF SearchRecord
  <2>8. /\ r.names = names /\ r.seen = seen /\ r.at = up /\ r.pc = search.pc /\ r.touched = search.touched
        /\ r.prefix = search.prefix /\ r.ranked = search.ranked /\ r.fetched = search.fetched
        /\ r.next = search.next /\ r.results = search.results /\ r.stirs = search.stirs
    BY <1>1, <2>1 DEF SearchRecord
  <2>9. Bounded(r)
    BY <1>1, <2>1, <2>5, <2>8 DEF Bounded
  <2>10. ASSUME ~search.touched PROVE Traced(r)
    <3>1. Traced(search)
      BY <2>1, <2>10 DEF SearchInv, Remembers
    <3>2. Len(seen) = Len(names) /\ Len(search.seen) \in Nat
      BY <2>4, <2>5, <2>6, <3>1 DEF Traced
    <3>3. ASSUME NEW i \in 1 .. Len(seen)
          PROVE  /\ seen[i] \in DOMAIN nodes \ {ROOT_ID}
                 /\ nodes[seen[i]].parent = IF i = 1 THEN up ELSE seen[i - 1]
                 /\ nodes[seen[i]].name = names[i]
      <4>1. CASE i = 1
        BY <2>1, <2>2, <2>5, <2>6, <4>1 DEF up
      <4>2. CASE i # 1
        <5>1. PICK j \in 1 .. Len(search.seen) : i = j + 1
          <6>1. i - 1 \in 1 .. Len(search.seen) /\ i = (i - 1) + 1
            BY <2>6, <3>2, <4>2
          <6>2. QED
            BY <6>1
        <5>2. /\ search.seen[j] \in DOMAIN nodes \ {ROOT_ID}
              /\ nodes[search.seen[j]].parent = IF j = 1 THEN search.at ELSE search.seen[j - 1]
              /\ nodes[search.seen[j]].name = search.names[j]
          BY <3>1 DEF Traced
        <5>3. seen[i] = search.seen[j] /\ names[i] = search.names[j]
          BY <2>5, <2>6, <3>1, <5>1 DEF Traced
        <5>4. seen[i - 1] = IF j = 1 THEN search.at ELSE search.seen[j - 1]
          <6>1. CASE j = 1
            BY <2>6, <5>1, <6>1
          <6>2. CASE j # 1
            <7>1. j - 1 \in 1 .. Len(search.seen) /\ i - 1 = (j - 1) + 1
              BY <3>2, <5>1, <6>2
            <7>2. QED
              BY <2>6, <6>2, <7>1
          <6>3. QED
            BY <6>1, <6>2
        <5>5. QED
          BY <4>2, <5>2, <5>3, <5>4
      <4>3. QED
        BY <4>1, <4>2
    <3>4. QED
      BY <2>8, <3>2, <3>3 DEF Traced
  <2>11. QED
    BY <2>7, <2>8, <2>9, <2>10 DEF Remembers
<1>11. ASSUME GiveUp PROVE Remembers(r)
  BY <1>1, <1>4, <1>11, MovesOnRemembers DEF GiveUp
<1>12. ASSUME NEW ranked \in Rankings, Query(ranked) PROVE Remembers(r)
  <2> DEFINE fetched == IF Len(ranked) < Fetch THEN Len(ranked) ELSE Fetch
             s       == [search EXCEPT !.ranked = ranked, !.fetched = fetched]
             q       == [s EXCEPT !.pc = "failed"]
  <2>1. CASE r = NextHit(s)
    <3>1. ranked \in Seq(NodeIds \ {ROOT_ID}) /\ Len(ranked) \in Nat
      <4>1. PICK n \in Nat : ranked \in [1 .. n -> NodeIds \ {ROOT_ID}]
        BY SearchConstants DEF Rankings, BoundedSeq, SeqOf
      <4>2. QED
        BY <4>1
    <3>2. Fetch \in Nat
      BY SearchConstants DEF Fetch
    <3>3. fetched \in Nat /\ fetched <= Len(ranked)
      BY <3>1, <3>2
    <3> HIDE DEF fetched
    <3>4. s \in SearchRecord
      BY <1>1, <3>1, <3>3, Zenon DEF SearchRecord
    <3>5. /\ q.pc = "failed" /\ q.prefix = search.prefix /\ q.ranked = ranked /\ q.fetched = fetched
          /\ q.next = search.next /\ q.results = search.results /\ q.stirs = search.stirs
          /\ q.names = search.names /\ q.touched = search.touched
      BY <1>1 DEF SearchRecord
    <3>6. search.next = 1
      BY <1>1, <1>12 DEF Query, At, Bounded
    <3>7. Bounded(q)
      BY <1>1, <3>3, <3>5, <3>6 DEF Bounded
    <3>8. QED
      BY <2>1, <3>4, <3>7, NextHitRemembers
  <2>2. CASE r = [search EXCEPT !.pc = "badQuery"]
    BY <1>1, <2>2, MovesOnRemembers
  <2>3. QED
    BY <1>4, <1>12, <2>1, <2>2 DEF Query
<1>13. ASSUME Fail PROVE Remembers(r)
  BY <1>1, <1>4, <1>13, MovesOnRemembers DEF Fail
<1>14. ASSUME Respond PROVE Remembers(r)
  BY <1>4, <1>14, IdleRemembers DEF Respond
<1>15. QED
  BY <1>6, <1>7, <1>8, <1>9, <1>10, <1>11, <1>12, <1>13, <1>14 DEF SearchStep

-----------------------------------------------------------------------------
(* The statements of others                                                *)

\* A statement that leaves the rows outside `ids` alone leaves a walk that has
\* read none of them as it is.
LEMMA StirsRemembers ==
  ASSUME SearchInv, NEW ids, NEW renames \in BOOLEAN, Stirs(ids, renames), SoundRows(nodes'),
         \A n \in DOMAIN nodes \ ids : n \in DOMAIN nodes' /\ nodes'[n] = nodes[n]
  PROVE  SearchInv'
<1>1. search \in SearchRecord /\ Bounded(search)
  BY DEF SearchInv, Remembers
<1>2. PICK r : /\ search' = r
               /\ r = [search EXCEPT !.stirs = @ + 1, !.touched = @ \/ ids \cap ToSet(search.seen) # {},
                                     !.renamed = @ \/ renames]
  BY DEF Stirs
<1>3. search.stirs + 1 \in Nat \ {0} /\ search.touched \in BOOLEAN /\ search.renamed \in BOOLEAN
  BY <1>1 DEF SearchRecord
<1>4. r \in SearchRecord
  <2>1. /\ (search.touched \/ ids \cap ToSet(search.seen) # {}) \in BOOLEAN
        /\ (search.renamed \/ renames) \in BOOLEAN
    OBVIOUS
  <2>2. QED
    BY <1>1, <1>2, <1>3, <2>1, Zenon DEF SearchRecord
<1>5. /\ r.stirs = search.stirs + 1 /\ (~r.touched => ~search.touched /\ ids \cap ToSet(search.seen) = {})
      /\ r.pc = search.pc /\ r.at = search.at /\ r.names = search.names /\ r.seen = search.seen
      /\ r.prefix = search.prefix /\ r.ranked = search.ranked /\ r.fetched = search.fetched
      /\ r.next = search.next /\ r.results = search.results
  BY <1>1, <1>2 DEF SearchRecord
<1>6. Bounded(r)
  BY <1>1, <1>3, <1>5 DEF Bounded
<1>7. ASSUME r.pc \in {"prefix", "hit"}, ~r.touched PROVE Traced(r)'
  <2>1. Traced(search)
    BY <1>5, <1>7 DEF SearchInv, Remembers
  <2>2. ASSUME NEW i \in 1 .. Len(r.seen)
        PROVE  r.seen[i] \in DOMAIN nodes' /\ nodes'[r.seen[i]] = nodes[r.seen[i]]
    <3>1. r.seen[i] \in DOMAIN nodes
      BY <1>5, <2>1 DEF Traced
    <3>2. r.seen \in Seq(NodeIds)
      BY <1>4 DEF SearchRecord
    <3>3. r.seen[i] \in ToSet(search.seen)
      BY <1>5, <3>2 DEF ToSet
    <3>4. r.seen[i] \notin ids
      BY <1>5, <1>7, <3>3
    <3>5. QED
      BY <3>1, <3>4
  <2>3. ASSUME NEW i \in 1 .. Len(r.seen)
        PROVE  /\ r.seen[i] \in DOMAIN nodes' \ {ROOT_ID}
               /\ nodes'[r.seen[i]].parent = IF i = 1 THEN r.at ELSE r.seen[i - 1]
               /\ nodes'[r.seen[i]].name = r.names[i]
    <3>1. /\ r.seen[i] \in DOMAIN nodes \ {ROOT_ID}
          /\ nodes[r.seen[i]].parent = IF i = 1 THEN r.at ELSE r.seen[i - 1]
          /\ nodes[r.seen[i]].name = r.names[i]
      BY <1>5, <2>1 DEF Traced
    <3>2. QED
      BY <2>2, <3>1
  <2>4. Len(r.names) = Len(r.seen)
    BY <1>5, <2>1 DEF Traced
  <2>5. QED
    BY <1>5, <2>3, <2>4 DEF Traced
<1>8. Remembers(r)'
  BY <1>4, <1>6, <1>7 DEF Remembers
<1>9. QED
  BY <1>2, <1>8 DEF SearchInv, Remembers, Traced

LEMMA OthersStepRemembers ==
  ASSUME SearchInv, OthersStep
  PROVE  SearchInv'
<1>1. /\ nodes \in [DOMAIN nodes -> NodeRow] /\ ROOT_ID \in DOMAIN nodes /\ DOMAIN nodes \subseteq NodeIds
      /\ nodes[ROOT_ID].parent = NULL
      /\ \A n \in DOMAIN nodes \ {ROOT_ID} : nodes[n].parent \in DOMAIN nodes /\ nodes[n].name \in Names
      /\ \A m, n \in DOMAIN nodes : nodes[m].parent = nodes[n].parent /\ nodes[m].name = nodes[n].name => m = n
      /\ NULL \notin NodeIds
  BY MetaConstants DEF SearchInv, SoundRows
<1>2. ASSUME NEW id \in NodeIds, NEW parent \in DOMAIN nodes, NEW name \in NewNames, NEW isDir \in BOOLEAN,
             NEW now \in Times, Insert(id, parent, name, isDir, now)
      PROVE  SearchInv'
  <2> DEFINE row == [parent |-> parent, name |-> name, isDir |-> isDir,
                     size |-> 0, modified |-> now, current |-> NULL]
  <2>1. InsertNode(id, parent, name, isDir, now) /\ Stirs({}, FALSE)
    BY <1>2 DEF Insert
  <2>2. id \notin DOMAIN nodes
    <3>1. DOMAIN nodes \subseteq Nat
      BY <1>1, MetaConstants
    <3>2. QED
      BY <2>1, <3>1, NextRowIdFact DEF InsertNode
  <2>3. /\ nodes' = [i \in DOMAIN nodes \cup {id} |-> IF i = id THEN row ELSE nodes[i]]
        /\ ~NameTaken(parent, name)
    BY <2>1 DEF InsertNode, PutRow
  <2>4. row \in NodeRow /\ row.parent = parent /\ row.name = name /\ name \in Names
    BY <1>1, SearchConstants DEF NodeRow
  <2> HIDE DEF row
  <2>5. DOMAIN nodes' = DOMAIN nodes \cup {id} /\ nodes'[id] = row
        /\ \A n \in DOMAIN nodes : nodes'[n] = nodes[n]
    BY <2>2, <2>3
  <2>6. nodes' \in [DOMAIN nodes' -> NodeRow]
    BY <1>1, <2>3, <2>4
  <2>7. \A n \in DOMAIN nodes : ~(nodes[n].parent = parent /\ nodes[n].name = name)
    BY <2>3 DEF NameTaken, IsChild
  <2>8. \A m, n \in DOMAIN nodes' : nodes'[m].parent = nodes'[n].parent /\ nodes'[m].name = nodes'[n].name => m = n
    BY <1>1, <2>4, <2>5, <2>7
  <2>9. SoundRows(nodes')
    BY <1>1, <2>4, <2>5, <2>6, <2>8 DEF SoundRows
  <2>10. QED
    BY <2>1, <2>5, <2>9, StirsRemembers
<1>3. ASSUME NEW id \in DOMAIN nodes \ {ROOT_ID}, Delete(id)
      PROVE  SearchInv'
  <2>1. DeleteNode(id) /\ Stirs(Subtree(id), FALSE)
    BY <1>3 DEF Delete
  <2>2. /\ DOMAIN nodes' = DOMAIN nodes \ Subtree(id)
        /\ nodes' = [n \in DOMAIN nodes \ Subtree(id) |-> nodes[n]]
        /\ \A n \in DOMAIN nodes' : nodes'[n] = nodes[n]
    BY <2>1 DEF DeleteNode, DropRows, Restrict
  <2>3. ROOT_ID \notin Subtree(id)
    <3> DEFINE S == DOMAIN nodes \ {ROOT_ID}
    <3>1. S \in SUBSET DOMAIN nodes /\ id \in S
      OBVIOUS
    <3>2. \A m \in DOMAIN nodes : nodes[m].parent \in S => m \in S
      BY <1>1
    <3>3. Subtree(id) \subseteq S
      BY <3>1, <3>2, SubtreeIsLeast
    <3>4. QED
      BY <3>3
  <2>4. \A n \in DOMAIN nodes' \ {ROOT_ID} : nodes'[n].parent \in DOMAIN nodes' /\ nodes'[n].name \in Names
    BY <1>1, <2>2, SubtreeIsClosed
  <2>5. SoundRows(nodes')
    BY <1>1, <2>2, <2>3, <2>4 DEF SoundRows
  <2>6. QED
    BY <2>1, <2>2, <2>5, StirsRemembers
<1>4. ASSUME NEW id \in DOMAIN nodes \ {ROOT_ID}, NEW parent \in DOMAIN nodes, NEW name \in NewNames,
             Move(id, parent, name)
      PROVE  SearchInv'
  <2> DEFINE row == [nodes[id] EXCEPT !.parent = parent, !.name = name]
  <2>1. Rename(id, parent, name) /\ Stirs({id}, TRUE)
    BY <1>4 DEF Move
  <2>2. row \in NodeRow /\ row.parent = parent /\ row.name = name /\ name \in Names
    <3>1. nodes[id] \in NodeRow /\ parent \in NodeIds /\ name \in Names
      BY <1>1, SearchConstants
    <3>2. QED
      BY <3>1 DEF NodeRow
  <2>3. /\ DOMAIN nodes' = DOMAIN nodes /\ nodes'[id] = row
        /\ \A n \in DOMAIN nodes \ {id} : nodes'[n] = nodes[n]
        /\ nodes' = [n \in DOMAIN nodes |-> nodes'[n]]
    BY <1>1, <2>1 DEF Rename, NodeRow
  <2> HIDE DEF row
  <2>4. nodes' \in [DOMAIN nodes' -> NodeRow]
    BY <1>1, <2>2, <2>3
  <2>5. \A n \in DOMAIN nodes \ {id} : ~(nodes[n].parent = parent /\ nodes[n].name = name)
    BY <2>1 DEF Rename, IsChild
  <2>6. \A m, n \in DOMAIN nodes' : nodes'[m].parent = nodes'[n].parent /\ nodes'[m].name = nodes'[n].name => m = n
    BY <1>1, <2>2, <2>3, <2>5
  <2>7. SoundRows(nodes')
    BY <1>1, <2>2, <2>3, <2>4, <2>6 DEF SoundRows
  <2>8. QED
    BY <2>1, <2>3, <2>7, StirsRemembers
<1>5. QED
  BY <1>2, <1>3, <1>4 DEF OthersStep

\* Searches read what they should have types for, whatever the others do.
THEOREM SearchIsSound == SearchSpec => []SearchInv
<1>1. SearchInit => SearchInv
  BY SearchConstants, IdleRemembers DEF SearchInit, SearchInv
<1>2. SearchInv /\ [SearchNext]_searchVars => SearchInv'
  <2> SUFFICES ASSUME SearchInv, [SearchNext]_searchVars PROVE SearchInv'
    OBVIOUS
  <2>1. CASE UNCHANGED searchVars
    BY <2>1 DEF searchVars, SearchInv, Remembers, Traced, Bounded
  <2>2. QED
    BY <2>1, SearchStepRemembers, OthersStepRemembers DEF SearchNext
<1>3. QED
  BY <1>1, <1>2, PTL DEF SearchSpec

\* SearchReads is part of it.
THEOREM SearchTypes == SearchSpec => []SearchReads
<1>1. ASSUME SearchInv PROVE SearchReads
  <2>1. search \in SearchRecord /\ Bounded(search)
    BY <1>1 DEF SearchInv, Remembers
  <2>2. Cardinality(search.prefix) <= 1
    <3>1. CASE search.prefix = {}
      BY <3>1, FS_EmptySet
    <3>2. ASSUME NEW path, search.prefix = {path} PROVE Cardinality(search.prefix) <= 1
      BY <3>2, FS_Singleton
    <3>3. QED
      BY <2>1, <3>1, <3>2 DEF Bounded
  <2>3. search.ranked \in Seq(NodeIds)
    <3>1. search.ranked \in Seq(NodeIds \ {ROOT_ID})
      BY <2>1 DEF SearchRecord
    <3>2. QED
      BY <3>1
  <2>4. Len(search.ranked) \in Nat
    BY <2>3
  <2>5. search.fetched \in 0 .. Len(search.ranked) /\ search.next \in 1 .. search.fetched + 1
    BY <2>1, <2>4 DEF SearchRecord, Bounded
  <2>6. QED
    BY <2>1, <2>2, <2>3, <2>5 DEF SearchReads, SearchRecord, Steps, Bounded
<1>2. QED
  BY <1>1, SearchIsSound, PTL

-----------------------------------------------------------------------------
(* path_of undoes lookup_path                                              *)

LEMMA SoundTree ==
  ASSUME SoundRows(nodes)
  PROVE  RootIsNoChild /\ UniqueNames
BY MetaConstants DEF SoundRows, RootIsNoChild, UniqueNames

\* A path leads to the end of the way it names.
LEMMA NamesLead ==
  ASSUME UniqueNames, NEW n \in Nat, NEW w \in Ways(n)
  PROVE  Leads(NamesAlong(w)) = {EndOf(w)}
<1>1. Len(NamesAlong(w)) = n
  BY WayRows
<1>2. \A v \in Ways(n) : NamesAlong(v) = NamesAlong(w) => v = w
  BY SameNamesSameWay
<1>3. QED
  BY <1>1, <1>2 DEF Leads

\* What a walk up to the root has read is the way to where it began.
LEMMA TraceIsWay ==
  ASSUME NEW r \in SearchRecord, Traced(r), r.at = ROOT_ID, r.seen # <<>>
  PROVE  /\ r.seen \in Ways(Len(r.seen)) /\ Len(r.seen) \in Nat
         /\ NamesAlong(r.seen) = r.names
         /\ EndOf(r.seen) = Last(r.seen)
<1> DEFINE n == Len(r.seen)
<1>1. /\ r.seen \in Seq(NodeIds) /\ r.names \in Seq(Names) /\ n \in Nat
      /\ DOMAIN r.seen = 1 .. n /\ DOMAIN r.names = 1 .. n
  BY DEF SearchRecord, Traced
<1>2. \A i \in 1 .. n : /\ r.seen[i] \in DOMAIN nodes
                        /\ nodes[r.seen[i]].parent = IF i = 1 THEN ROOT_ID ELSE r.seen[i - 1]
                        /\ nodes[r.seen[i]].name = r.names[i]
  BY DEF Traced
<1>3. r.seen \in [1 .. n -> DOMAIN nodes]
  BY <1>1, <1>2
<1>4. r.seen \in Ways(n)
  BY <1>2, <1>3 DEF Ways, Stop
<1>5. NamesAlong(r.seen) = r.names
  <2>1. NamesAlong(r.seen) = [i \in 1 .. n |-> nodes[r.seen[i]].name]
    BY <1>1 DEF NamesAlong
  <2>2. r.names = [i \in 1 .. n |-> r.names[i]]
    BY <1>1
  <2>3. QED
    BY <1>2, <2>1, <2>2
<1>6. n # 0
  BY <1>1
<1>7. QED
  BY <1>1, <1>4, <1>5, <1>6 DEF EndOf, Stop, Last

\* A walk of more rows than a way to where it began does not exist.
LEMMA TraceIsShort ==
  ASSUME RootIsNoChild, NEW r \in SearchRecord, Traced(r), r.at # ROOT_ID, r.seen # <<>>,
         NEW n \in Nat, n <= Len(r.seen), NEW way \in Ways(n)
  PROVE  EndOf(way) # Last(r.seen)
<1> DEFINE k == Len(r.seen)
<1>1. SUFFICES ASSUME EndOf(way) = Last(r.seen) PROVE FALSE
  OBVIOUS
<1>2. k \in Nat \ {0} /\ n <= k /\ Last(r.seen) = r.seen[k]
  BY DEF SearchRecord, Last
<1>3. \A i \in 1 .. k : /\ r.seen[i] # ROOT_ID
                        /\ nodes[r.seen[i]].parent = IF i = 1 THEN r.at ELSE r.seen[i - 1]
  BY DEF Traced
<1>4. EndOf(way) = Stop(way, n) /\ \A i \in 1 .. n : nodes[way[i]].parent = Stop(way, i - 1)
  BY WayRows
<1> HIDE DEF k
<1>5. n # 0
  BY <1>1, <1>2, <1>3, <1>4 DEF Stop
<1>6. ASSUME NEW i \in 1 .. n PROVE way[i] = r.seen[i + (k - n)]
  <2>1. way[n] = r.seen[k]
    BY <1>1, <1>2, <1>4, <1>5 DEF Stop
  <2>2. HangTogether(way, n)
    BY <1>4 DEF Stop, HangTogether
  <2>3. HangTogether(r.seen, k)
    BY <1>3 DEF HangTogether
  <2>4. k \in Nat /\ n <= k
    BY <1>2
  <2> HIDE <1>1, <1>2, <1>3, <1>4, <1>5
  <2>5. QED
    BY <2>1, <2>2, <2>3, <2>4, SameEndSameRows
<1>7. /\ 1 \in 1 .. n /\ 1 + (k - n) \in 1 .. k
      /\ (1 + (k - n) # 1 => (1 + (k - n)) - 1 \in 1 .. k)
  BY <1>2, <1>5
<1>8. nodes[way[1]].parent = ROOT_ID
  BY <1>4, <1>7 DEF Stop
<1>9. nodes[r.seen[1 + (k - n)]].parent # ROOT_ID
  BY <1>3, <1>7
<1>10. QED
  BY <1>6, <1>7, <1>8, <1>9

\* A path that path_of answers with leads to the node it was asked about, and
\* it gives up only where no shorter path leads, as long as no statement of
\* another touches what it has read.
THEOREM WalksAreRight == SearchSpec => []PathOfIsRight
<1>1. ASSUME SearchInv PROVE PathOfIsRight
  <2>1. search \in SearchRecord /\ RootIsNoChild /\ UniqueNames
    BY <1>1, SoundTree DEF SearchInv, Remembers
  <2> SUFFICES ASSUME Walking, ~search.touched, search.seen # <<>>
               PROVE  /\ search.at = ROOT_ID => Leads(search.names) = {Last(search.seen)}
                      /\ Len(search.names) + 1 >= MAX_WALK /\ search.at \in DOMAIN nodes \ {ROOT_ID}
                           => \A n \in 0 .. MAX_WALK - 1 : \A way \in Ways(n) : EndOf(way) # Last(search.seen)
    BY DEF PathOfIsRight
  <2>2. Traced(search)
    BY <1>1 DEF SearchInv, Remembers, Walking
  <2>3. ASSUME search.at = ROOT_ID PROVE Leads(search.names) = {Last(search.seen)}
    BY <2>1, <2>2, <2>3, TraceIsWay, NamesLead
  <2>4. ASSUME Len(search.names) + 1 >= MAX_WALK, search.at # ROOT_ID,
               NEW n \in 0 .. MAX_WALK - 1, NEW way \in Ways(n)
        PROVE  EndOf(way) # Last(search.seen)
    <3>1. Len(search.names) = Len(search.seen) /\ Len(search.seen) \in Nat
      BY <2>1, <2>2 DEF Traced, SearchRecord
    <3>2. n \in Nat /\ n <= Len(search.seen)
      BY <2>4, <3>1, SearchConstants
    <3>3. QED
      BY <2>1, <2>2, <2>4, <3>2, TraceIsShort
  <2>5. QED
    BY <2>3, <2>4
<1>2. QED
  BY <1>1, SearchIsSound, PTL

-----------------------------------------------------------------------------
(* A search that nothing disturbs                                          *)

\* The ranks of the hits that count, of those in `ranked`.
Below(asked, ranked) ==
  {i \in DOMAIN ranked : \E scope \in Leads(asked) : ranked[i] \in Subtree(scope) \ {scope}}

(* The results are those of the first n hits; below the root, every hit     *)
(* that is alive counts.                                                    *)
Found(asked, ranked, results, n) ==
  LET counts == Below(asked, ranked) IN
  /\ Len(results) = Cardinality(counts \cap 1 .. n)
  /\ \A k \in DOMAIN results :
       \E i \in counts : Cardinality(counts \cap 1 .. i) = k /\ Leads(results[k]) = {ranked[i]}
  /\ asked = <<>> => \A i \in 1 .. n : ranked[i] \in DOMAIN nodes => i \in counts

\* What is looked up so far is a way, by the names that are not left to look up.
LooksUp(r) ==
  \E n \in Nat : \E way \in Ways(n) :
    /\ EndOf(way) = r.at
    /\ Len(r.asked) = n + Len(r.rest)
    /\ \A i \in 1 .. n : nodes[way[i]].name = r.asked[i]
    /\ \A i \in 1 .. Len(r.rest) : r.rest[i] = r.asked[n + i]

\* The node a walk up began with.
Origin(r) == IF r.seen = <<>> THEN r.at ELSE Last(r.seen)

AtMost(n, limit) == IF n < limit THEN n ELSE limit

\* A search that nothing disturbs knows the scope, and its results are exact.
Exact(r) ==
  /\ r.pc = "scope" => r.prefix = {} /\ LooksUp(r)
  /\ r.pc = "prefix" => r.asked # <<>> /\ Leads(r.asked) = {Origin(r)}
  /\ r.pc \in {"query", "hit"} =>
       /\ \E scope \in DOMAIN nodes : Leads(r.asked) = {scope}
       /\ r.prefix = IF r.asked = <<>> THEN {} ELSE {r.asked}
  /\ r.pc \in {"hit", "done"} =>
       r.fetched = AtMost(Len(r.ranked), IF r.asked = <<>> THEN LIMIT ELSE MAX_SEARCH_FETCH)
  /\ r.pc = "hit" =>
       /\ r.next > 1
       /\ Origin(r) = r.ranked[r.next - 1]
       /\ Found(r.asked, r.ranked, r.results, r.next - 2)
  /\ r.pc = "done" =>
       /\ Found(r.asked, r.ranked, r.results, r.next - 1)
       /\ Len(r.results) = LIMIT \/ r.next > r.fetched

QuietInv == search.stirs = 0 => Exact(search)

\* The nodes strictly below a scope are those with longer paths that begin
\* with the scope's.
LEMMA BelowIsLonger ==
  ASSUME RootIsNoChild, UniqueNames, NEW asked, NEW scope, Leads(asked) = {scope}, Len(asked) \in Nat,
         NEW n \in Nat, NEW way \in Ways(n)
  PROVE  EndOf(way) \in Subtree(scope) \ {scope} <=> IsStrictPrefix(asked, NamesAlong(way))
<1> DEFINE k     == Len(asked)
           names == NamesAlong(way)
<1>1. PICK top \in Ways(k) : NamesAlong(top) = asked /\ EndOf(top) = scope
  BY DEF Leads
<1>2. /\ DOMAIN asked = 1 .. k /\ \A i \in 1 .. k : asked[i] = nodes[top[i]].name
      /\ EndOf(top) = Stop(top, k)
      /\ top \in [1 .. k -> DOMAIN nodes]
  BY <1>1, WayRows DEF Ways
<1>3. /\ Len(names) = n /\ DOMAIN names = 1 .. n /\ \A i \in 1 .. n : names[i] = nodes[way[i]].name
  BY WayRows
<1> HIDE DEF names, k
<1>4. ASSUME EndOf(way) \in Subtree(scope) \ {scope} PROVE IsStrictPrefix(asked, names)
  <2>1. PICK m \in Nat : \E u \in Ways(m) :
          k <= m /\ EndOf(u) = EndOf(way) /\ \A i \in 0 .. k : Stop(u, i) = Stop(top, i)
    BY <1>1, <1>4, WayToSubtree DEF k
  <2>2. PICK u \in Ways(m) :
          k <= m /\ EndOf(u) = EndOf(way) /\ \A i \in 0 .. k : Stop(u, i) = Stop(top, i)
    BY <2>1
  <2>3. m = n /\ u = way
    BY <2>2, SameEndSameWay
  <2>4. ASSUME NEW i \in 1 .. k PROVE asked[i] = names[i]
    <3>1. i \in 0 .. k /\ i # 0 /\ i \in 1 .. n
      BY <2>2, <2>3 DEF k
    <3>2. Stop(way, i) = Stop(top, i)
      BY <2>2, <2>3, <3>1
    <3>3. way[i] = top[i]
      BY <3>1, <3>2 DEF Stop
    <3>4. QED
      BY <1>2, <1>3, <3>1, <3>3
  <2>5. n # k
    <3>1. SUFFICES ASSUME n = k PROVE FALSE
      OBVIOUS
    <3>2. k \in 0 .. k
      BY DEF k
    <3>3. Stop(way, k) = scope
      BY <1>1, <1>2, <2>2, <2>3, <3>2
    <3>4. EndOf(way) = scope
      BY <3>1, <3>3, WayRows
    <3>5. QED
      BY <1>4, <3>4
  <2>6. asked # names
    BY <1>3, <2>5 DEF k
  <2>7. SubSeq(asked, 1, k) = SubSeq(names, 1, k)
    BY <2>4 DEF k
  <2>8. k <= n
    BY <2>2, <2>3
  <2>9. QED
    BY <1>3, <2>6, <2>7, <2>8 DEF IsStrictPrefix, IsPrefix, k
<1>5. ASSUME IsStrictPrefix(asked, names) PROVE EndOf(way) \in Subtree(scope) \ {scope}
  <2>1. k <= n /\ SubSeq(asked, 1, k) = SubSeq(names, 1, k) /\ asked # names
    BY <1>3, <1>5 DEF IsStrictPrefix, IsPrefix, k
  <2>2. \A i \in 1 .. k : asked[i] = names[i]
    <3>1. \A i \in 1 .. k : SubSeq(asked, 1, k)[i] = asked[i] /\ SubSeq(names, 1, k)[i] = names[i]
      BY DEF k
    <3>2. QED
      BY <2>1, <3>1
  <2>3. k \in 0 .. n
    BY <2>1 DEF k
  <2>4. PICK v \in Ways(k) : EndOf(v) = Stop(way, k) /\ \A i \in 1 .. k : v[i] = way[i]
    BY <2>3, WayPart
  <2>5. NamesAlong(v) = asked
    <3>1. NamesAlong(v) = [i \in 1 .. k |-> nodes[v[i]].name] /\ asked = [i \in 1 .. k |-> nodes[top[i]].name]
      <4>1. k \in Nat /\ DOMAIN v = 1 .. k /\ DOMAIN top = 1 .. k
        BY WayRows DEF k
      <4>2. QED
        BY <1>1, <4>1 DEF NamesAlong
    <3>2. ASSUME NEW i \in 1 .. k PROVE nodes[v[i]].name = nodes[top[i]].name
      <4>1. i \in 1 .. n
        BY <2>1 DEF k
      <4>2. names[i] = nodes[way[i]].name /\ asked[i] = nodes[top[i]].name
        BY <1>2, <1>3, <4>1
      <4>3. v[i] = way[i] /\ asked[i] = names[i]
        BY <2>2, <2>4
      <4>4. QED
        BY <4>2, <4>3
    <3>3. QED
      BY <3>1, <3>2
  <2>6. Stop(way, k) = scope
    BY <1>1, <2>4, <2>5, SameNamesSameWay DEF k
  <2>7. EndOf(way) \in Subtree(scope)
    BY <2>3, <2>6, WayStaysBelow
  <2>8. EndOf(way) # scope
    <3>1. SUFFICES ASSUME EndOf(way) = EndOf(top) PROVE FALSE
      BY <1>1
    <3>2. way = top
      BY <3>1, SameEndSameWay DEF k
    <3>3. QED
      BY <1>1, <2>1, <3>2 DEF names
  <2>9. QED
    BY <2>7, <2>8
<1>6. QED
  BY <1>4, <1>5 DEF names

\* What is exact says nothing but of the tables' nodes.
LEMMA SameTables ==
  ASSUME nodes' = nodes, NEW r
  PROVE  Exact(r)' <=> Exact(r)
<1>1. \A n : Ways(n)' = Ways(n)
  BY DEF Ways, Stop
<1>2. \A way : NamesAlong(way)' = NamesAlong(way)
  BY DEF NamesAlong
<1>3. \A path : Leads(path)' = Leads(path)
  BY <1>1, <1>2 DEF Leads, EndOf, Stop
<1>4. \A n : Subtree(n)' = Subtree(n)
  BY DEF Subtree
<1>5. \A asked, ranked : Below(asked, ranked)' = Below(asked, ranked)
  BY <1>3, <1>4 DEF Below
<1>6. \A asked, ranked, results, n : Found(asked, ranked, results, n)' <=> Found(asked, ranked, results, n)
  <2> SUFFICES ASSUME NEW asked, NEW ranked, NEW results, NEW n
               PROVE  Found(asked, ranked, results, n)' <=> Found(asked, ranked, results, n)
    OBVIOUS
  <2>1. PICK counts : counts = Below(asked, ranked) /\ counts = Below(asked, ranked)'
    BY <1>5
  <2>2. Found(asked, ranked, results, n) <=>
          /\ Len(results) = Cardinality(counts \cap 1 .. n)
          /\ \A k \in DOMAIN results :
               \E i \in counts : Cardinality(counts \cap 1 .. i) = k /\ Leads(results[k]) = {ranked[i]}
          /\ asked = <<>> => \A i \in 1 .. n : ranked[i] \in DOMAIN nodes => i \in counts
    BY <2>1 DEF Found
  <2>3. Found(asked, ranked, results, n)' <=>
          /\ Len(results) = Cardinality(counts \cap 1 .. n)
          /\ \A k \in DOMAIN results :
               \E i \in counts : Cardinality(counts \cap 1 .. i) = k /\ Leads(results[k])' = {ranked[i]}
          /\ asked = <<>> => \A i \in 1 .. n : ranked[i] \in DOMAIN nodes' => i \in counts
    BY <2>1 DEF Found
  <2>4. QED
    BY <1>3, <2>2, <2>3
<1>7. LooksUp(r)' <=> LooksUp(r)
  BY <1>1 DEF LooksUp, EndOf, Stop
<1>8. QED
  BY <1>3, <1>6, <1>7 DEF Exact, Origin, AtMost

\* A search begins at the root, with every name left to look up, ...
LEMMA BeginIsExact ==
  ASSUME NEW scope \in Scopes
  PROVE  Exact([Idle EXCEPT !.pc = "scope", !.asked = scope, !.rest = scope])
<1> DEFINE r == [Idle EXCEPT !.pc = "scope", !.asked = scope, !.rest = scope]
<1>1. /\ r.pc = "scope" /\ r.prefix = {} /\ r.at = ROOT_ID /\ r.asked = scope /\ r.rest = scope
      /\ scope \in Seq(Names)
  BY SearchConstants DEF Idle
<1>2. <<>> \in Ways(0) /\ EndOf(<<>>) = ROOT_ID
  <2>1. <<>> \in [1 .. 0 -> DOMAIN nodes] /\ Len(<<>>) = 0
    OBVIOUS
  <2>2. QED
    BY <2>1 DEF Ways, EndOf, Stop
<1> HIDE DEF r
<1>3. Len(scope) = 0 + Len(scope) /\ \A i \in 1 .. Len(scope) : scope[i] = scope[0 + i]
  BY <1>1
<1>4. LooksUp(r)
  <2>1. /\ 0 \in Nat /\ <<>> \in Ways(0) /\ EndOf(<<>>) = r.at
        /\ Len(r.asked) = 0 + Len(r.rest)
        /\ \A i \in 1 .. 0 : nodes[<<>>[i]].name = r.asked[i]
        /\ \A i \in 1 .. Len(r.rest) : r.rest[i] = r.asked[0 + i]
    BY <1>1, <1>2, <1>3
  <2>2. QED
    BY <2>1 DEF LooksUp
<1>5. QED
  BY <1>1, <1>4 DEF Exact, r

\* ... goes down by one of them at a time, ...
LEMMA LookUpIsExact ==
  ASSUME NEW s \in SearchRecord, s.pc = "scope", Exact(s), s.rest # <<>>,
         NEW m \in DOMAIN nodes, IsChild(m, s.at, Head(s.rest)),
         NEW r, r = [s EXCEPT !.at = m, !.rest = Tail(@)]
  PROVE  Exact(r)
<1>1. /\ r.pc = "scope" /\ r.prefix = s.prefix /\ r.at = m /\ r.asked = s.asked
      /\ r.rest = Tail(s.rest) /\ s.rest \in Seq(Names)
  BY DEF SearchRecord
<1>2. PICK n \in Nat : \E way \in Ways(n) :
        /\ EndOf(way) = s.at
        /\ Len(s.asked) = n + Len(s.rest)
        /\ \A i \in 1 .. n : nodes[way[i]].name = s.asked[i]
        /\ \A i \in 1 .. Len(s.rest) : s.rest[i] = s.asked[n + i]
  BY DEF Exact, LooksUp
<1>3. PICK way \in Ways(n) :
        /\ EndOf(way) = s.at
        /\ Len(s.asked) = n + Len(s.rest)
        /\ \A i \in 1 .. n : nodes[way[i]].name = s.asked[i]
        /\ \A i \in 1 .. Len(s.rest) : s.rest[i] = s.asked[n + i]
  BY <1>2
<1>4. nodes[m].parent = EndOf(way) /\ nodes[m].name = s.rest[1] /\ 1 \in 1 .. Len(s.rest)
  BY <1>1, <1>3 DEF IsChild
<1> DEFINE u == Append(way, m)
<1>5. u \in Ways(n + 1) /\ EndOf(u) = m
  BY <1>4, WayGoesOn
<1>6. u[n + 1] = m /\ \A i \in 1 .. n : u[i] = way[i]
  <2>1. way \in Seq(DOMAIN nodes) /\ Len(way) = n
    BY WayRows
  <2>2. QED
    BY <2>1
<1> HIDE DEF u
<1>7. /\ Len(r.rest) = Len(s.rest) - 1 /\ Len(s.rest) \in Nat
      /\ \A i \in 1 .. Len(r.rest) : r.rest[i] = s.rest[i + 1] /\ i + 1 \in 1 .. Len(s.rest)
                                     /\ n + (i + 1) = (n + 1) + i
  BY <1>1
<1>8. Len(r.asked) = (n + 1) + Len(r.rest)
  BY <1>1, <1>3, <1>7
<1>9. \A i \in 1 .. n + 1 : nodes[u[i]].name = r.asked[i]
  <2>1. nodes[u[n + 1]].name = r.asked[n + 1]
    BY <1>1, <1>3, <1>4, <1>6
  <2>2. \A i \in 1 .. n : nodes[u[i]].name = r.asked[i]
    BY <1>1, <1>3, <1>6
  <2>3. \A i \in 1 .. n + 1 : i = n + 1 \/ i \in 1 .. n
    OBVIOUS
  <2>4. QED
    BY <2>1, <2>2, <2>3
<1>10. \A i \in 1 .. Len(r.rest) : r.rest[i] = r.asked[(n + 1) + i]
  BY <1>1, <1>3, <1>7
<1>11. LooksUp(r)
  <2>1. n + 1 \in Nat /\ EndOf(u) = r.at
    BY <1>1, <1>5
  <2>2. QED
    BY <1>5, <1>8, <1>9, <1>10, <2>1 DEF LooksUp
<1>12. QED
  BY <1>1, <1>11 DEF Exact

\* ... and has found the scope when none is left.
LEMMA ScopeIsFound ==
  ASSUME RootIsNoChild, UniqueNames, NEW s \in SearchRecord, s.pc = "scope", Exact(s), s.rest = <<>>
  PROVE  /\ s.at \in DOMAIN nodes
         /\ Leads(s.asked) = {s.at}
         /\ s.at = ROOT_ID <=> s.asked = <<>>
<1>1. PICK n \in Nat : \E way \in Ways(n) :
        /\ EndOf(way) = s.at
        /\ Len(s.asked) = n + Len(s.rest)
        /\ \A i \in 1 .. n : nodes[way[i]].name = s.asked[i]
  BY DEF Exact, LooksUp
<1>2. PICK way \in Ways(n) :
        /\ EndOf(way) = s.at
        /\ Len(s.asked) = n + Len(s.rest)
        /\ \A i \in 1 .. n : nodes[way[i]].name = s.asked[i]
  BY <1>1
<1>3. s.asked \in Seq(Names) /\ Len(s.asked) = n
  BY <1>2, SearchConstants DEF SearchRecord
<1>4. NamesAlong(way) = s.asked
  <2>1. DOMAIN way = 1 .. n
    BY WayRows
  <2>2. s.asked = [i \in 1 .. n |-> s.asked[i]]
    BY <1>3
  <2>3. NamesAlong(way) = [i \in 1 .. n |-> nodes[way[i]].name]
    BY <2>1 DEF NamesAlong
  <2>4. QED
    BY <1>2, <2>2, <2>3
<1>5. Leads(s.asked) = {s.at}
  BY <1>2, <1>4, NamesLead
<1>6. s.at = Stop(way, n) /\ n \in 0 .. n
  BY <1>2, WayRows
<1>7. s.at \in DOMAIN nodes /\ (s.at = ROOT_ID <=> n = 0)
  BY <1>6, StopIsRow
<1>8. n = 0 <=> s.asked = <<>>
  BY <1>3
<1>9. QED
  BY <1>5, <1>7, <1>8

LEMMA AppendIsConcat ==
  ASSUME NEW X, NEW s \in Seq(X), NEW x \in X
  PROVE  s \o <<x>> = Append(s, x)
<1> DEFINE n == Len(s)
           a == s \o <<x>>
           b == Append(s, x)
<1>1. /\ a \in Seq(X) /\ Len(a) = n + 1 /\ a[n + 1] = x /\ n \in Nat
      /\ \A i \in 1 .. n : a[i] = s[i]
  OBVIOUS
<1>2. /\ b \in Seq(X) /\ Len(b) = n + 1 /\ b[n + 1] = x
      /\ \A i \in 1 .. n : b[i] = s[i]
  OBVIOUS
<1> HIDE DEF a, b, n
<1>3. a \in [1 .. n + 1 -> X] /\ b \in [1 .. n + 1 -> X]
  BY <1>1, <1>2
<1>4. \A i \in 1 .. n + 1 : a[i] = b[i]
  <2>1. \A i \in 1 .. n + 1 : i = n + 1 \/ i \in 1 .. n
    BY <1>1
  <2>2. QED
    BY <1>1, <1>2, <2>1
<1>5. a = b
  BY <1>3, <1>4
<1>6. QED
  BY <1>5 DEF a, b

\* Another hit: it does not count, ...
LEMMA HitIsPassed ==
  ASSUME NEW asked, NEW ranked, NEW results, NEW i \in Nat \ {0},
         Found(asked, ranked, results, i - 1), i \notin Below(asked, ranked),
         asked = <<>> => ranked[i] \notin DOMAIN nodes
  PROVE  Found(asked, ranked, results, i)
<1> DEFINE counts == Below(asked, ranked)
<1> HIDE DEF counts
<1>1. counts \cap 1 .. i = counts \cap 1 .. i - 1
  BY DEF counts
<1>2. \A j \in 1 .. i : j = i \/ j \in 1 .. i - 1
  OBVIOUS
<1>3. asked = <<>> => \A j \in 1 .. i : ranked[j] \in DOMAIN nodes => j \in counts
  BY <1>2 DEF Found, counts
<1>4. QED
  BY <1>1, <1>3 DEF Found, counts

\* ... or it does, and its path is the next result.
LEMMA HitIsFound ==
  ASSUME NEW asked, NEW ranked, NEW results \in Seq(Seq(Names)), NEW i \in Nat \ {0},
         Found(asked, ranked, results, i - 1), i \in Below(asked, ranked),
         NEW path \in Seq(Names), Leads(path) = {ranked[i]}
  PROVE  Found(asked, ranked, Append(results, path), i)
<1> DEFINE counts == Below(asked, ranked)
           before == counts \cap 1 .. i - 1
           more   == Append(results, path)
           n      == Len(results)
<1>1. /\ n = Cardinality(before)
      /\ \A k \in DOMAIN results :
           \E j \in counts : Cardinality(counts \cap 1 .. j) = k /\ Leads(results[k]) = {ranked[j]}
      /\ asked = <<>> => \A j \in 1 .. i - 1 : ranked[j] \in DOMAIN nodes => j \in counts
  BY DEF Found
<1>2. /\ n \in Nat /\ DOMAIN results = 1 .. n /\ DOMAIN more = 1 .. n + 1 /\ Len(more) = n + 1
      /\ more[n + 1] = path /\ \A k \in 1 .. n : more[k] = results[k]
  OBVIOUS
<1>3. i \in counts
  OBVIOUS
<1> HIDE DEF counts, more, n
<1>4. counts \cap 1 .. i = before \cup {i} /\ i \notin before
  BY <1>3
<1>5. IsFiniteSet(before)
  <2>1. IsFiniteSet(1 .. i - 1)
    BY FS_Interval
  <2>2. before \in SUBSET (1 .. i - 1)
    OBVIOUS
  <2>3. QED
    BY <2>1, <2>2, FS_Subset
<1>6. Cardinality(counts \cap 1 .. i) = n + 1
  <2> HIDE DEF before
  <2>1. Cardinality(before \cup {i}) = Cardinality(before) + 1
    BY <1>4, <1>5, FS_AddElement
  <2>2. QED
    BY <1>1, <1>4, <2>1
<1>7. ASSUME NEW k \in 1 .. n + 1
      PROVE  \E j \in counts : Cardinality(counts \cap 1 .. j) = k /\ Leads(more[k]) = {ranked[j]}
  <2>1. CASE k = n + 1
    BY <1>2, <1>3, <1>6, <2>1
  <2>2. CASE k # n + 1
    <3>1. k \in 1 .. n /\ more[k] = results[k] /\ k \in DOMAIN results
      BY <1>2, <2>2
    <3>2. QED
      BY <1>1, <3>1
  <2>3. QED
    BY <2>1, <2>2
<1>8. asked = <<>> => \A j \in 1 .. i : ranked[j] \in DOMAIN nodes => j \in counts
  <2>1. \A j \in 1 .. i : j = i \/ j \in 1 .. i - 1
    OBVIOUS
  <2>2. QED
    BY <1>1, <1>3, <2>1
<1>9. QED
  BY <1>2, <1>6, <1>7, <1>8 DEF Found, counts, more

\* A search goes on to the next hit, or is done.
LEMMA NextHitIsExact ==
  ASSUME NEW r \in SearchRecord,
         Len(r.results) <= LIMIT, r.next <= r.fetched + 1,
         \E scope \in DOMAIN nodes : Leads(r.asked) = {scope},
         r.prefix = IF r.asked = <<>> THEN {} ELSE {r.asked},
         r.fetched = AtMost(Len(r.ranked), IF r.asked = <<>> THEN LIMIT ELSE MAX_SEARCH_FETCH),
         Found(r.asked, r.ranked, r.results, r.next - 1)
  PROVE  Exact(NextHit(r))
<1>0. r.next \in Nat \ {0} /\ r.fetched \in Nat /\ Len(r.results) \in Nat /\ LIMIT \in Nat
  BY SearchConstants DEF SearchRecord
<1>1. CASE Len(r.results) < LIMIT /\ r.next <= r.fetched
  <2>1. PICK s : s = WalkFrom([r EXCEPT !.next = @ + 1], "hit", r.ranked[r.next])
    OBVIOUS
  <2>2. NextHit(r) = s
    BY <1>1, <2>1 DEF NextHit
  <2>3. /\ s.pc = "hit" /\ s.asked = r.asked /\ s.prefix = r.prefix /\ s.ranked = r.ranked
        /\ s.fetched = r.fetched /\ s.next = r.next + 1 /\ s.results = r.results
        /\ s.at = r.ranked[r.next] /\ s.seen = <<>>
    BY <2>1 DEF WalkFrom, SearchRecord
  <2>4. s.next - 1 = r.next /\ s.next - 2 = r.next - 1 /\ s.next > 1
    BY <1>0, <2>3
  <2>5. QED
    BY <2>2, <2>3, <2>4 DEF Exact, Origin
<1>2. CASE ~(Len(r.results) < LIMIT /\ r.next <= r.fetched)
  <2>1. PICK s : s = [WalkFrom(r, "done", ROOT_ID) EXCEPT !.prefix = {}]
    OBVIOUS
  <2>2. NextHit(r) = s
    BY <1>2, <2>1 DEF NextHit
  <2>3. /\ s.pc = "done" /\ s.asked = r.asked /\ s.ranked = r.ranked
        /\ s.fetched = r.fetched /\ s.next = r.next /\ s.results = r.results
    BY <2>1 DEF WalkFrom, SearchRecord
  <2>4. Len(s.results) = LIMIT \/ s.next > s.fetched
    BY <1>0, <1>2, <2>3
  <2>5. QED
    BY <2>2, <2>3, <2>4 DEF Exact
<1>3. QED
  BY <1>1, <1>2

\* The first thing a walk up reads is the only one that may be gone.
LEMMA GoneAtOnce ==
  ASSUME SoundRows(nodes), NEW r \in SearchRecord, Traced(r), r.at \notin DOMAIN nodes
  PROVE  r.seen = <<>>
<1>1. SUFFICES ASSUME r.seen # <<>> PROVE FALSE
  OBVIOUS
<1>2. 1 \in 1 .. Len(r.seen)
  BY <1>1 DEF SearchRecord
<1>3. r.seen[1] \in DOMAIN nodes \ {ROOT_ID} /\ nodes[r.seen[1]].parent = r.at
  BY <1>2 DEF Traced
<1>4. QED
  BY <1>3 DEF SoundRows

\* A path leads to a row, and only the empty one to the root.
LEMMA LeadsToRow ==
  ASSUME RootIsNoChild, NEW path, Len(path) \in Nat, NEW n, n \in Leads(path)
  PROVE  n \in DOMAIN nodes /\ (n = ROOT_ID <=> Len(path) = 0)
<1>1. PICK way \in Ways(Len(path)) : EndOf(way) = n
  BY DEF Leads
<1>2. n = Stop(way, Len(path)) /\ Len(path) \in 0 .. Len(path)
  BY <1>1, WayRows
<1>3. QED
  BY <1>2, StopIsRow

\* The path of the scope is the path that was asked for.
LEMMA PrefixIsExact ==
  ASSUME SearchInv, search.stirs = 0, Exact(search), search.pc = "prefix", NEW paths,
         \/ search.at \notin DOMAIN nodes
         \/ search.at \in DOMAIN nodes /\ nodes[search.at].parent = NULL /\ paths = {search.names}
  PROVE  Exact(Answered(paths))
<1>1. /\ search \in SearchRecord /\ Traced(search) /\ SoundRows(nodes)
      /\ RootIsNoChild /\ UniqueNames
  BY SoundTree DEF SearchInv, Remembers, Bounded
<1>2. /\ search.asked # <<>> /\ Leads(search.asked) = {Origin(search)}
      /\ search.asked \in Seq(Names) /\ Len(search.asked) \in Nat
  BY <1>1, SearchConstants DEF Exact, SearchRecord
<1>3. Origin(search) \in DOMAIN nodes /\ Origin(search) # ROOT_ID
  <2>1. Len(search.asked) # 0
    BY <1>2
  <2>2. QED
    BY <1>1, <1>2, <2>1, LeadsToRow
<1>4. search.at \in DOMAIN nodes
  <2>1. search.at \notin DOMAIN nodes => search.seen = <<>>
    BY <1>1, GoneAtOnce
  <2>2. QED
    BY <1>3, <2>1 DEF Origin
<1>5. search.at = ROOT_ID
  BY <1>1, <1>4, MetaConstants DEF SoundRows
<1>6. search.seen # <<>> /\ Origin(search) = Last(search.seen)
  BY <1>3, <1>5 DEF Origin
<1>7. search.names = search.asked
  <2>1. /\ search.seen \in Ways(Len(search.seen)) /\ Len(search.seen) \in Nat
        /\ NamesAlong(search.seen) = search.names
        /\ EndOf(search.seen) = Last(search.seen)
    BY <1>1, <1>5, <1>6, TraceIsWay
  <2>2. PICK way \in Ways(Len(search.asked)) : NamesAlong(way) = search.asked /\ EndOf(way) = Origin(search)
    BY <1>2 DEF Leads
  <2>3. way = search.seen
    BY <1>1, <1>2, <1>6, <2>1, <2>2, SameEndSameWay
  <2>4. QED
    BY <2>1, <2>2, <2>3
<1>8. PICK r : r = Answered(paths)
  OBVIOUS
<1>9. r = [WalkFrom(search, "query", ROOT_ID) EXCEPT !.prefix = {search.asked}]
  BY <1>4, <1>7, <1>8 DEF Answered, At
<1>10. r.pc = "query" /\ r.asked = search.asked /\ r.prefix = {search.asked}
  BY <1>1, <1>9 DEF WalkFrom, SearchRecord
<1>11. QED
  BY <1>2, <1>3, <1>8, <1>10 DEF Exact

\* A hit is a result if it is below the scope, and is not if it is not.
LEMMA HitIsExact ==
  ASSUME SearchInv, search.stirs = 0, Exact(search), search.pc = "hit", NEW paths,
         \/ search.at \notin DOMAIN nodes /\ paths = {}
         \/ search.at \in DOMAIN nodes /\ nodes[search.at].parent = NULL /\ paths = {search.names}
  PROVE  Exact(Answered(paths))
<1> DEFINE asked   == search.asked
           ranked  == search.ranked
           results == search.results
           i       == search.next - 1
           kept    == {path \in paths : \A prefix \in search.prefix : IsWithin(path, prefix)}
<1>1. /\ search \in SearchRecord /\ Bounded(search) /\ Traced(search) /\ SoundRows(nodes)
      /\ RootIsNoChild /\ UniqueNames
  BY SoundTree DEF SearchInv, Remembers, Bounded
<1>2. /\ search.prefix = IF asked = <<>> THEN {} ELSE {asked}
      /\ search.fetched = AtMost(Len(ranked), IF asked = <<>> THEN LIMIT ELSE MAX_SEARCH_FETCH)
      /\ search.next > 1
      /\ Origin(search) = ranked[i]
      /\ Found(asked, ranked, results, search.next - 2)
  BY DEF Exact
<1>3. PICK scope \in DOMAIN nodes : Leads(asked) = {scope}
  BY DEF Exact
<1>4. /\ search.next \in Nat /\ search.fetched \in Nat /\ ranked \in Seq(NodeIds \ {ROOT_ID})
      /\ results \in Seq(Seq(Names)) /\ search.names \in Seq(Names)
      /\ asked \in Seq(Names) /\ Len(asked) \in Nat
  <2>1. /\ search.next \in Nat /\ search.fetched \in Nat /\ ranked \in Seq(NodeIds \ {ROOT_ID})
        /\ results \in Seq(Seq(Names)) /\ search.names \in Seq(Names)
        /\ asked \in Scopes \cup {<<>>}
    BY <1>1 DEF SearchRecord
  <2>2. asked \in Seq(Names)
    <3>1. Scopes \subseteq Seq(Names)
      BY SearchConstants
    <3>2. <<>> \in Seq(Names)
      OBVIOUS
    <3>3. QED
      BY <2>1, <3>1, <3>2, Zenon
  <2>3. QED
    BY <2>1, <2>2
<1>5. i \in Nat \ {0} /\ search.next - 2 = i - 1 /\ i \in DOMAIN ranked
  <2>1. search.next <= Len(ranked) + 1 /\ Len(ranked) \in Nat /\ DOMAIN ranked = 1 .. Len(ranked)
    BY <1>1, <1>4 DEF Bounded
  <2>2. search.next \in Nat /\ search.next > 1
    BY <1>2, <1>4
  <2> HIDE DEF ranked
  <2>3. QED
    BY <2>1, <2>2
<1>6. Found(asked, ranked, results, i - 1) /\ ranked[i] \in NodeIds \ {ROOT_ID}
  BY <1>2, <1>4, <1>5
<1>7. i \in Below(asked, ranked) <=> ranked[i] \in Subtree(scope) \ {scope}
  BY <1>3, <1>5 DEF Below
<1> HIDE DEF asked, ranked, results, i
<1>8. SetToSeq({}) = <<>> /\ SetToSeq({search.names}) = <<search.names>>
  BY SetToSeqOfOne
<1> DEFINE more == results \o SetToSeq(kept)
<1>9. /\ Found(asked, ranked, more, i)
      /\ more \in Seq(Seq(Names))
      /\ Len(more) <= LIMIT
  <2>1. CASE search.at \notin DOMAIN nodes
    <3>1. kept = {}
      BY <2>1
    <3>2. more = results
      <4> HIDE DEF kept
      <4>1. more = results \o <<>>
        BY <1>8, <3>1
      <4>2. QED
        BY <1>4, <4>1
    <3>3. ranked[i] \notin DOMAIN nodes
      BY <1>1, <1>2, <2>1, GoneAtOnce DEF Origin
    <3>4. i \notin Below(asked, ranked)
      BY <1>7, <3>3 DEF Subtree
    <3>5. Found(asked, ranked, results, i)
      BY <1>5, <1>6, <3>3, <3>4, HitIsPassed
    <3>6. Len(results) <= LIMIT
      BY <1>1 DEF Bounded, results
    <3>7. QED
      BY <1>4, <3>2, <3>5, <3>6
  <2>2. CASE search.at \in DOMAIN nodes
    <3>1. paths = {search.names} /\ search.at = ROOT_ID
      BY <1>1, <2>2, MetaConstants DEF SoundRows
    <3>2. search.seen # <<>> /\ Last(search.seen) = ranked[i]
      BY <1>2, <1>6, <3>1 DEF Origin
    <3>3. /\ search.seen \in Ways(Len(search.seen)) /\ Len(search.seen) \in Nat
          /\ NamesAlong(search.seen) = search.names
          /\ EndOf(search.seen) = ranked[i]
      BY <1>1, <3>1, <3>2, TraceIsWay
    <3>4. Leads(search.names) = {ranked[i]}
      BY <1>1, <3>3, NamesLead
    <3>5. i \in Below(asked, ranked) <=> IsStrictPrefix(asked, search.names)
      <4>1. EndOf(search.seen) \in Subtree(scope) \ {scope} <=> IsStrictPrefix(asked, NamesAlong(search.seen))
        BY <1>1, <1>3, <1>4, <3>3, BelowIsLonger
      <4>2. QED
        BY <1>7, <3>3, <4>1
    <3>6. asked = <<>> => IsStrictPrefix(asked, search.names)
      <4>1. SUFFICES ASSUME asked = <<>> PROVE IsStrictPrefix(asked, search.names)
        OBVIOUS
      <4>2. Len(search.names) = Len(search.seen) /\ search.seen \in Seq(NodeIds)
        BY <1>1 DEF Traced, SearchRecord
      <4>3. Len(search.names) # 0 /\ search.names # <<>>
        BY <3>2, <4>2
      <4>4. SubSeq(<<>>, 1, 0) = SubSeq(search.names, 1, 0)
        OBVIOUS
      <4>5. QED
        BY <1>4, <4>1, <4>3, <4>4 DEF IsStrictPrefix, IsPrefix
    <3>7. kept = IF i \in Below(asked, ranked) THEN {search.names} ELSE {}
      BY <1>2, <3>1, <3>5, <3>6 DEF IsWithin, asked
    <3> HIDE DEF kept
    <3>8. CASE i \in Below(asked, ranked)
      <4>1. more = Append(results, search.names)
        <5>1. more = results \o <<search.names>>
          BY <1>8, <3>7, <3>8
        <5>2. QED
          BY <1>4, <5>1, AppendIsConcat
      <4>2. Found(asked, ranked, Append(results, search.names), i)
        BY <1>4, <1>5, <1>6, <3>4, <3>8, HitIsFound
      <4>3. Len(results) < LIMIT
        BY <1>1 DEF Bounded, results
      <4>4. QED
        BY <1>4, <4>1, <4>2, <4>3, SearchConstants
    <3>9. CASE i \notin Below(asked, ranked)
      <4>1. more = results
        BY <1>4, <1>8, <3>7, <3>9
      <4>2. asked # <<>>
        BY <3>5, <3>6, <3>9
      <4>3. Found(asked, ranked, results, i)
        BY <1>5, <1>6, <3>9, <4>2, HitIsPassed
      <4>4. Len(results) <= LIMIT
        BY <1>1 DEF Bounded, results
      <4>5. QED
        BY <1>4, <4>1, <4>3, <4>4
    <3>10. QED
      BY <3>8, <3>9
  <2>3. QED
    BY <2>1, <2>2
<1> HIDE DEF more
<1>10. PICK s : s = [search EXCEPT !.results = more]
  OBVIOUS
<1>11. s \in SearchRecord
  BY <1>1, <1>9, <1>10, Zenon DEF SearchRecord
<1>12. /\ s.asked = asked /\ s.ranked = ranked /\ s.next = i + 1 /\ s.prefix = search.prefix
       /\ s.fetched = search.fetched /\ s.results = more /\ s.next = search.next
  BY <1>1, <1>4, <1>10 DEF SearchRecord, asked, ranked, i
<1>13. s.next - 1 = i /\ s.next <= s.fetched + 1
  BY <1>1, <1>5, <1>12 DEF Bounded
<1>14. Exact(NextHit(s))
  BY <1>2, <1>3, <1>9, <1>11, <1>12, <1>13, NextHitIsExact
<1>15. Answered(paths) = NextHit(s)
  BY <1>10 DEF Answered, At, more, results
<1>16. QED
  BY <1>14, <1>15

\* A search that nothing disturbs stays exact.
LEMMA SearchStaysExact ==
  ASSUME SearchInv, QuietInv, SearchStep \/ \E scope \in Scopes : Begin(scope)
  PROVE  QuietInv'
<1>1. /\ search \in SearchRecord /\ Bounded(search) /\ SoundRows(nodes)
      /\ RootIsNoChild /\ UniqueNames
  BY SoundTree DEF SearchInv, Remembers
<1>2. nodes' = nodes
  BY DEF SearchStep, Begin, LookUp, ScopeFound, Gone, RootReached, WalkUp, GiveUp, Query, Fail, Respond, metaVars
<1>3. SUFFICES ASSUME NEW r, search' = r, r.stirs = 0 PROVE Exact(r)
  <2>1. SUFFICES ASSUME search'.stirs = 0 PROVE Exact(search)'
    BY DEF QuietInv
  <2>2. PICK r : search' = r
    OBVIOUS
  <2>3. Exact(r)
    BY <1>3, <2>1, <2>2
  <2>4. Exact(r)'
    BY <1>2, <2>3, SameTables
  <2>5. QED
    BY <2>2, <2>4
<1>4. ASSUME r.pc \in {"idle", "notFound", "badQuery", "corrupt", "failed"} PROVE Exact(r)
  BY <1>4 DEF Exact
<1>5. ASSUME NEW scope \in Scopes, Begin(scope) PROVE Exact(r)
  <2>1. search' = [Idle EXCEPT !.pc = "scope", !.asked = scope, !.rest = scope]
    BY <1>5 DEF Begin
  <2>2. Exact([Idle EXCEPT !.pc = "scope", !.asked = scope, !.rest = scope])
    BY BeginIsExact
  <2>3. QED
    BY <1>3, <2>1, <2>2
<1>6. ASSUME Respond PROVE Exact(r)
  BY <1>3, <1>4, <1>6 DEF Respond, Idle
<1>7. ASSUME GiveUp \/ Fail PROVE Exact(r)
  BY <1>1, <1>3, <1>4, <1>7 DEF GiveUp, Fail, SearchRecord
<1>8. ASSUME LookUp PROVE Exact(r)
  <2>1. ASSUME NEW m \in DOMAIN nodes, IsChild(m, search.at, Head(search.rest)),
               r = [search EXCEPT !.at = m, !.rest = Tail(@)]
        PROVE  Exact(r)
    <3>1. search.pc = "scope" /\ search.rest # <<>>
      BY <1>8 DEF LookUp, At
    <3>2. search.stirs = 0
      BY <1>1, <1>3, <2>1 DEF SearchRecord
    <3>3. QED
      BY <1>1, <2>1, <3>1, <3>2, LookUpIsExact DEF QuietInv
  <2>2. CASE r = [search EXCEPT !.pc = "notFound"]
    BY <1>1, <1>4, <2>2 DEF SearchRecord
  <2>3. QED
    BY <1>3, <1>8, <2>1, <2>2 DEF LookUp
<1>9. ASSUME ScopeFound PROVE Exact(r)
  <2>1. search.pc = "scope" /\ search.rest = <<>>
    BY <1>9 DEF ScopeFound, At
  <2>2. search.stirs = 0
    BY <1>1, <1>3, <1>9 DEF ScopeFound, WalkFrom, SearchRecord
  <2>3. Exact(search)
    BY <2>2 DEF QuietInv
  <2>4. /\ search.at \in DOMAIN nodes
        /\ Leads(search.asked) = {search.at}
        /\ search.at = ROOT_ID <=> search.asked = <<>>
    BY <1>1, <2>1, <2>3, ScopeIsFound
  <2>5. CASE search.at = ROOT_ID
    <3>1. r = [search EXCEPT !.pc = "query"]
      BY <1>3, <1>9, <2>5 DEF ScopeFound
    <3>2. r.pc = "query" /\ r.asked = search.asked /\ r.prefix = {}
      BY <1>1, <2>1, <2>3, <3>1 DEF SearchRecord, Exact
    <3>3. QED
      BY <2>4, <2>5, <3>2 DEF Exact
  <2>6. CASE search.at # ROOT_ID
    <3>1. r = WalkFrom(search, "prefix", search.at)
      BY <1>3, <1>9, <2>6 DEF ScopeFound
    <3>2. r.pc = "prefix" /\ r.asked = search.asked /\ r.seen = <<>> /\ r.at = search.at
      BY <1>1, <3>1 DEF SearchRecord, WalkFrom
    <3>3. QED
      BY <2>4, <2>6, <3>2 DEF Exact, Origin
  <2>7. QED
    BY <2>5, <2>6
<1>10. ASSUME NEW paths, Walking, r = Answered(paths),
              \/ search.at \notin DOMAIN nodes /\ paths = {}
              \/ search.at \in DOMAIN nodes /\ nodes[search.at].parent = NULL /\ paths = {search.names}
       PROVE  Exact(r)
  <2>1. search.stirs = 0
    BY <1>1, <1>3, <1>10 DEF Answered, NextHit, WalkFrom, SearchRecord
  <2>2. Exact(search)
    BY <2>1 DEF QuietInv
  <2>3. CASE search.pc = "prefix"
    BY <1>10, <2>1, <2>2, <2>3, PrefixIsExact
  <2>4. CASE search.pc = "hit"
    BY <1>10, <2>1, <2>2, <2>4, HitIsExact
  <2>5. QED
    BY <1>10, <2>3, <2>4 DEF Walking
<1>11. ASSUME Gone \/ RootReached PROVE Exact(r)
  BY <1>3, <1>10, <1>11 DEF Gone, RootReached
<1>12. ASSUME WalkUp PROVE Exact(r)
  <2>1. /\ search.pc \in {"prefix", "hit"}
        /\ r = [search EXCEPT !.names = <<nodes[search.at].name>> \o @,
                              !.seen = <<search.at>> \o @,
                              !.at = nodes[search.at].parent]
    BY <1>3, <1>12 DEF WalkUp, Walking
  <2>2. /\ r.pc = search.pc /\ r.asked = search.asked /\ r.prefix = search.prefix /\ r.ranked = search.ranked
        /\ r.fetched = search.fetched /\ r.next = search.next /\ r.results = search.results
        /\ r.stirs = search.stirs /\ r.seen = <<search.at>> \o search.seen
    BY <1>1, <2>1 DEF SearchRecord
  <2>3. Exact(search)
    BY <1>3, <2>2 DEF QuietInv
  <2>4. Origin(r) = Origin(search)
    <3>1. search.seen \in Seq(NodeIds) /\ search.at \in NodeIds
      BY <1>1 DEF SearchRecord
    <3>2. CASE search.seen = <<>>
      BY <2>2, <3>1, <3>2 DEF Origin, Last
    <3>3. CASE search.seen # <<>>
      <4>1. /\ Len(r.seen) = Len(search.seen) + 1 /\ r.seen # <<>> /\ Len(search.seen) \in Nat
            /\ \A i \in 1 .. Len(search.seen) : r.seen[i + 1] = search.seen[i]
        BY <2>2, <3>1
      <4>2. Len(search.seen) \in 1 .. Len(search.seen)
        BY <3>1, <3>3
      <4>3. r.seen[Len(r.seen)] = search.seen[Len(search.seen)]
        BY <4>1, <4>2
      <4>4. QED
        BY <3>3, <4>1, <4>3 DEF Origin, Last
    <3>4. QED
      BY <3>2, <3>3
  <2>5. QED
    BY <2>1, <2>2, <2>3, <2>4 DEF Exact
<1>13. ASSUME NEW ranked \in Rankings, Query(ranked) PROVE Exact(r)
  <2> DEFINE fetched == IF Len(ranked) < Fetch THEN Len(ranked) ELSE Fetch
             s       == [search EXCEPT !.ranked = ranked, !.fetched = fetched]
  <2>1. CASE r = NextHit(s)
    <3>1. ranked \in Seq(NodeIds \ {ROOT_ID}) /\ Len(ranked) \in Nat
      <4>1. PICK n \in Nat : ranked \in [1 .. n -> NodeIds \ {ROOT_ID}]
        BY SearchConstants DEF Rankings, BoundedSeq, SeqOf
      <4>2. QED
        BY <4>1
    <3>2. Fetch \in Nat
      BY SearchConstants DEF Fetch
    <3>3. fetched \in Nat
      BY <3>1, <3>2
    <3>4. fetched = AtMost(Len(ranked), Fetch)
      BY DEF AtMost
    <3> HIDE DEF fetched
    <3>5. s \in SearchRecord
      BY <1>1, <3>1, <3>3, Zenon DEF SearchRecord
    <3>6. /\ s.prefix = search.prefix /\ s.ranked = ranked /\ s.fetched = fetched /\ s.next = search.next
          /\ s.results = search.results /\ s.stirs = search.stirs /\ s.asked = search.asked
      BY <1>1 DEF SearchRecord
    <3>7. search.pc = "query" /\ search.next = 1 /\ search.results = <<>>
      BY <1>1, <1>13 DEF Query, At, Bounded
    <3>8. search.stirs = 0
      BY <1>3, <2>1, <3>5, <3>6 DEF NextHit, WalkFrom, SearchRecord
    <3>9. /\ \E scope \in DOMAIN nodes : Leads(search.asked) = {scope}
          /\ search.prefix = IF search.asked = <<>> THEN {} ELSE {search.asked}
      BY <3>7, <3>8 DEF QuietInv, Exact
    <3>10. Fetch = IF search.asked = <<>> THEN LIMIT ELSE MAX_SEARCH_FETCH
      BY <3>9 DEF Fetch
    <3>11. Found(s.asked, s.ranked, s.results, s.next - 1)
      <4>1. 1 .. s.next - 1 = {} /\ s.results = <<>>
        BY <3>6, <3>7
      <4>2. Below(s.asked, s.ranked) \cap 1 .. s.next - 1 = {}
        BY <4>1
      <4>3. Len(<<>>) = 0 /\ DOMAIN <<>> = {}
        OBVIOUS
      <4>4. QED
        BY <4>1, <4>2, <4>3, FS_EmptySet DEF Found
    <3>12. Len(s.results) <= LIMIT /\ s.next <= s.fetched + 1
      BY <3>3, <3>6, <3>7, SearchConstants
    <3> HIDE DEF s
    <3>13. QED
      BY <2>1, <3>4, <3>5, <3>6, <3>9, <3>10, <3>11, <3>12, NextHitIsExact
  <2>2. CASE r = [search EXCEPT !.pc = "badQuery"]
    BY <1>1, <1>4, <2>2 DEF SearchRecord
  <2>3. QED
    BY <1>3, <1>13, <2>1, <2>2 DEF Query
<1>14. QED
  BY <1>5, <1>6, <1>7, <1>8, <1>9, <1>11, <1>12, <1>13 DEF SearchStep

\* What is found when a search is done is all there is to find, or enough.
LEMMA DoneIsExact ==
  ASSUME SearchInv, QuietInv
  PROVE  QuietSearchIsExact
<1> DEFINE asked   == search.asked
           ranked  == search.ranked
           results == search.results
           m       == search.next - 1
           n       == Len(ranked)
<1>1. SUFFICES ASSUME search.pc = "done", search.stirs = 0,
                      IF asked = <<>> THEN ToSet(ranked) \subseteq DOMAIN nodes ELSE n <= MAX_SEARCH_FETCH
               PROVE  /\ Len(results) = Min({LIMIT, Cardinality(InScope)})
                      /\ \A k \in DOMAIN results :
                           \E i \in InScope :
                             /\ Cardinality(InScope \cap 1 .. i) = k
                             /\ Leads(results[k]) = {ranked[i]}
  BY DEF QuietSearchIsExact, At
<1>2. PICK counts : counts = Below(asked, ranked) /\ counts = InScope
  BY DEF Below, InScope
<1>3. /\ Found(asked, ranked, results, m)
      /\ Len(results) = LIMIT \/ search.next > search.fetched
      /\ search.fetched = AtMost(n, IF asked = <<>> THEN LIMIT ELSE MAX_SEARCH_FETCH)
  BY <1>1 DEF QuietInv, Exact
<1>4. /\ Len(results) = Cardinality(counts \cap 1 .. m)
      /\ \A k \in DOMAIN results :
           \E i \in counts : Cardinality(counts \cap 1 .. i) = k /\ Leads(results[k]) = {ranked[i]}
      /\ asked = <<>> => \A i \in 1 .. m : ranked[i] \in DOMAIN nodes => i \in counts
  BY <1>2, <1>3 DEF Found
<1>5. /\ search.next \in Nat \ {0} /\ search.fetched \in Nat /\ ranked \in Seq(NodeIds \ {ROOT_ID})
      /\ search.next <= search.fetched + 1 /\ search.fetched <= n
      /\ Len(results) <= LIMIT /\ LIMIT \in Nat /\ MAX_SEARCH_FETCH \in Nat
  BY SearchConstants DEF SearchInv, Remembers, Bounded, SearchRecord
<1>6. m \in Nat /\ m <= n /\ n \in Nat /\ DOMAIN ranked = 1 .. n /\ search.next = m + 1
  BY <1>5
<1>7. counts \subseteq 1 .. n
  BY <1>2, <1>6 DEF Below
<1> HIDE DEF asked, ranked, results, m, n
<1>8. IsFiniteSet(counts) /\ Cardinality(counts) \in Nat
  <2>1. IsFiniteSet(1 .. n)
    BY <1>6, FS_Interval
  <2>2. IsFiniteSet(counts)
    BY <1>7, <2>1, FS_Subset
  <2>3. QED
    BY <2>2, FS_CardinalityType
<1>9. Len(results) <= Cardinality(counts) /\ Len(results) \in Nat
  <2>1. counts \cap 1 .. m \in SUBSET counts
    OBVIOUS
  <2>2. IsFiniteSet(counts \cap 1 .. m) /\ Cardinality(counts \cap 1 .. m) <= Cardinality(counts)
    BY <1>8, <2>1, FS_Subset
  <2>3. QED
    BY <1>4, <2>2, FS_CardinalityType
<1>10. Len(results) = LIMIT \/ Len(results) = Cardinality(counts)
  <2>1. SUFFICES ASSUME Len(results) # LIMIT PROVE Len(results) = Cardinality(counts)
    OBVIOUS
  <2>2. m = search.fetched
    BY <1>3, <1>5, <1>6, <2>1
  <2>3. m = n
    <3>1. CASE asked = <<>>
      <4>1. SUFFICES ASSUME m # n PROVE FALSE
        OBVIOUS
      <4>2. m = LIMIT
        BY <1>3, <1>6, <2>2, <3>1, <4>1 DEF AtMost
      <4>3. \A i \in 1 .. m : ranked[i] \in DOMAIN nodes
        <5>1. \A i \in 1 .. m : i \in 1 .. n
          BY <1>6
        <5>2. ToSet(ranked) \subseteq DOMAIN nodes
          BY <1>1, <3>1
        <5>3. QED
          BY <1>6, <5>1, <5>2 DEF ToSet
      <4>4. counts \cap 1 .. m = 1 .. m
        BY <1>4, <3>1, <4>3
      <4>5. Cardinality(1 .. m) = m
        BY <1>6, FS_Interval
      <4>6. QED
        BY <1>4, <2>1, <4>2, <4>4, <4>5
    <3>2. CASE asked # <<>>
      BY <1>1, <1>3, <1>5, <1>6, <2>2, <3>2 DEF AtMost
    <3>3. QED
      BY <3>1, <3>2
  <2>4. counts \cap 1 .. m = counts
    BY <1>7, <2>3
  <2>5. QED
    BY <1>4, <2>4
<1>11. Len(results) = Min({LIMIT, Cardinality(counts)})
  <2> DEFINE both == {LIMIT, Cardinality(counts)}
  <2>1. Len(results) \in both /\ \A y \in both : Len(results) <= y
    BY <1>5, <1>9, <1>10
  <2>2. \A x \in both : (\A y \in both : x <= y) => x = Len(results)
    BY <1>5, <1>8, <1>9, <2>1
  <2> HIDE DEF both
  <2>3. Min(both) = Len(results)
    BY <2>1, <2>2 DEF Min
  <2>4. QED
    BY <2>3 DEF both
<1>12. QED
  BY <1>2, <1>4, <1>11

\* A search that nothing disturbs returns the best hits below its scope, in
\* order and at their paths (DavFs::search, davfs.rs:460).
THEOREM QuietSearchesAreExact == SearchSpec => []QuietSearchIsExact
<1>1. SearchInit => QuietInv
  BY DEF SearchInit, QuietInv, Exact, Idle
<1>2. SearchInv /\ QuietInv /\ [SearchNext]_searchVars => QuietInv'
  <2> SUFFICES ASSUME SearchInv, QuietInv, [SearchNext]_searchVars PROVE QuietInv'
    OBVIOUS
  <2>1. CASE UNCHANGED searchVars
    <3>1. PICK r : r = search
      OBVIOUS
    <3>2. nodes' = nodes /\ search' = r
      BY <2>1, <3>1 DEF searchVars
    <3>3. QED
      BY <3>1, <3>2, SameTables DEF QuietInv
  <2>2. CASE OthersStep
    <3>1. search \in SearchRecord
      BY DEF SearchInv, Remembers
    <3>2. PICK ids, renames : Stirs(ids, renames)
      BY <2>2 DEF OthersStep, Insert, Delete, Move
    <3>3. search'.stirs = search.stirs + 1 /\ search.stirs \in Nat
      BY <3>1, <3>2 DEF Stirs, SearchRecord
    <3>4. QED
      BY <3>3 DEF QuietInv
  <2>3. QED
    BY <2>1, <2>2, SearchStaysExact DEF SearchNext
<1>3. QED
  BY <1>1, <1>2, SearchIsSound, DoneIsExact, PTL DEF SearchSpec
=============================================================================
