------------------------------- MODULE Search -------------------------------
(***************************************************************************)
(* A full-text search, DavFs::search over MetaStore::path_of and           *)
(* SearchIndex::search (crates/vfs/src/davfs.rs, meta.rs;                  *)
(* crates/index/src/lib.rs), beside the requests on names that change the  *)
(* tables under it.                                                        *)
(*                                                                         *)
(* Every node a walk up or down reads is a turn of the metadata mutex of   *)
(* its own. What other requests do in between are the statements they end  *)
(* in: they check before, in other turns, so that any statement may come   *)
(* at any time, a move below itself included (see Namespace).              *)
(*                                                                         *)
(* The index answers with node ids, best first. An id may be stale: its    *)
(* node is gone, or another node has it (see SearchSync).                  *)
(***************************************************************************)
EXTENDS MetaStore, SequencesExt

CONSTANTS
  Scopes,           \* paths to search below, as sequences of names; <<>> is the root
  LIMIT,            \* SEARCH_LIMIT: hits returned
  MAX_SEARCH_FETCH, \* hits fetched to be filtered by scope
  MAX_WALK,         \* nodes read before path_of gives up
  Tables,           \* bound: tables, [nodes, versions], that a search may find
  NewNames,         \* bound: names that others give during a search
  MaxHits,          \* bound: documents that match
  MaxStirs          \* bound: statements of others during one search

\* What the rows of a table are, whatever has happened to it (see MetaStore).
SoundRows(rows) ==
  /\ rows \in [DOMAIN rows -> NodeRow]
  /\ ROOT_ID \in DOMAIN rows /\ DOMAIN rows \subseteq NodeIds
  /\ rows[ROOT_ID].parent = NULL
  /\ \A n \in DOMAIN rows \ {ROOT_ID} : rows[n].parent \in DOMAIN rows /\ rows[n].name \in Names
  /\ \A m, n \in DOMAIN rows : rows[m].parent = rows[n].parent /\ rows[m].name = rows[n].name => m = n

ASSUME SearchConstants ==
  /\ Scopes \subseteq Seq(Names)
  /\ NewNames \subseteq Names
  /\ LIMIT \in Nat \ {0}
  /\ MAX_SEARCH_FETCH \in Nat \ {0}
  /\ MAX_WALK \in Nat \ {0}
  /\ MaxHits \in Nat
  /\ MaxStirs \in Nat
  /\ \A tables \in Tables : SoundRows(tables.nodes)

VARIABLE search

searchVars == <<nodes, versions, search>>

(* The search and its local variables. seen, touched, stirs and renamed    *)
(* are not in the code: the nodes the present walk has read, whether one   *)
(* of them has been renamed or deleted since, how many statements others   *)
(* have made during the search, and whether one of these was a rename.     *)
Idle == [pc |-> "idle", asked |-> <<>>, at |-> ROOT_ID, rest |-> <<>>, prefix |-> {},
         ranked |-> <<>>, fetched |-> 0, next |-> 1, names |-> <<>>, results |-> <<>>,
         seen |-> <<>>, touched |-> FALSE, stirs |-> 0, renamed |-> FALSE]

At(pc) == search.pc = pc
Walking == search.pc \in {"prefix", "hit"}
Over == search.pc \in {"done", "corrupt", "notFound", "badQuery", "failed"}

SearchInit ==
  /\ \E tables \in Tables : nodes = tables.nodes /\ versions = tables.versions
  /\ search = Idle

-----------------------------------------------------------------------------
(* The steps of a search                                                   *)

Begin(scope) ==
  /\ At("idle")
  /\ [nodes |-> nodes, versions |-> versions] \in Tables
  /\ search' = [Idle EXCEPT !.pc = "scope", !.asked = scope, !.rest = scope]
  /\ UNCHANGED metaVars

\* path_of, from the node `id`.
WalkFrom(s, pc, id) ==
  [s EXCEPT !.pc = pc, !.at = id, !.names = <<>>, !.seen = <<>>, !.touched = FALSE]

\* The loop over the hits: on to the next one, unless there is none or the
\* results are full.
NextHit(s) ==
  IF Len(s.results) < LIMIT /\ s.next <= s.fetched
  THEN WalkFrom([s EXCEPT !.next = @ + 1], "hit", s.ranked[s.next])
  ELSE [WalkFrom(s, "done", ROOT_ID) EXCEPT !.prefix = {}]

\* lookup_path, one segment.
LookUp ==
  /\ At("scope")
  /\ search.rest # <<>>
  /\ \/ \E n \in DOMAIN nodes :
          /\ IsChild(n, search.at, Head(search.rest))
          /\ search' = [search EXCEPT !.at = n, !.rest = Tail(@)]
     \/ /\ ~NameTaken(search.at, Head(search.rest))
        /\ search' = [search EXCEPT !.pc = "notFound"]
  /\ UNCHANGED metaVars

\* The root needs no prefix.
ScopeFound ==
  /\ At("scope")
  /\ search.rest = <<>>
  /\ search' = IF search.at = ROOT_ID THEN [search EXCEPT !.pc = "query"]
               ELSE WalkFrom(search, "prefix", search.at)
  /\ UNCHANGED metaVars

\* path_of answers: with a path, or with none as the node is gone.
IsWithin(path, prefix) == IsStrictPrefix(prefix, path)

Answered(paths) ==
  IF At("prefix")
  THEN [WalkFrom(search, "query", ROOT_ID) EXCEPT !.prefix = paths]
  ELSE LET kept == {path \in paths : \A prefix \in search.prefix : IsWithin(path, prefix)}
       IN NextHit([search EXCEPT !.results = @ \o SetToSeq(kept)])

Gone ==
  /\ Walking
  /\ search.at \notin DOMAIN nodes
  /\ search' = Answered({})
  /\ UNCHANGED metaVars

RootReached ==
  /\ Walking
  /\ search.at \in DOMAIN nodes
  /\ nodes[search.at].parent = NULL
  /\ search' = Answered({search.names})
  /\ UNCHANGED metaVars

\* (mutant) the path is put together in the order of the walk
WalkUp_Unreversed ==
  /\ Walking
  /\ search.at \in DOMAIN nodes
  /\ nodes[search.at].parent # NULL
  /\ Len(search.names) + 1 < MAX_WALK
  /\ search' = [search EXCEPT !.names = Append(@, nodes[search.at].name),
                              !.seen = <<search.at>> \o @,
                              !.at = nodes[search.at].parent]
  /\ UNCHANGED metaVars

WalkUp ==
  /\ Walking
  /\ search.at \in DOMAIN nodes
  /\ nodes[search.at].parent # NULL
  /\ Len(search.names) + 1 < MAX_WALK
  /\ search' = [search EXCEPT !.names = <<nodes[search.at].name>> \o @,
                              !.seen = <<search.at>> \o @,
                              !.at = nodes[search.at].parent]
  /\ UNCHANGED metaVars

\* (mutant) the walk that is too long starts again
GiveUp_Retry ==
  /\ Walking
  /\ search.at \in DOMAIN nodes
  /\ nodes[search.at].parent # NULL
  /\ Len(search.names) + 1 >= MAX_WALK
  /\ search' = [search EXCEPT !.names = <<>>, !.seen = <<>>]
  /\ UNCHANGED metaVars

\* The last node path_of reads is not the root either: Corrupt, which ends
\* the whole search.
GiveUp ==
  /\ Walking
  /\ search.at \in DOMAIN nodes
  /\ nodes[search.at].parent # NULL
  /\ Len(search.names) + 1 >= MAX_WALK
  /\ search' = [search EXCEPT !.pc = "corrupt"]
  /\ UNCHANGED metaVars

\* (mutant) a scoped search fetches no more than it returns
Fetch_Limit == LIMIT

Fetch == IF search.prefix = {} THEN LIMIT ELSE MAX_SEARCH_FETCH

\* One document for each node id.
Rankings == {ids \in BoundedSeq(NodeIds \ {ROOT_ID}, MaxHits) : IsInjective(ids)}

\* SearchIndex::search: the best of the documents that match, or a query
\* that does not parse.
Query(ranked) ==
  /\ At("query")
  /\ \/ search' = NextHit([search EXCEPT !.ranked = ranked,
                                         !.fetched = IF Len(ranked) < Fetch THEN Len(ranked) ELSE Fetch])
     \/ search' = [search EXCEPT !.pc = "badQuery"]
  /\ UNCHANGED metaVars

\* A SQLite or index error in any step ends the search.
Fail ==
  /\ search.pc \in {"scope", "prefix", "query", "hit"}
  /\ search' = [search EXCEPT !.pc = "failed"]
  /\ UNCHANGED metaVars

\* The response is sent.
Respond ==
  /\ Over
  /\ search' = Idle
  /\ UNCHANGED metaVars

SearchStep ==
  \/ LookUp
  \/ ScopeFound
  \/ Gone
  \/ RootReached
  \/ WalkUp
  \/ GiveUp
  \/ \E ranked \in Rankings : Query(ranked)
  \/ Fail
  \/ Respond

-----------------------------------------------------------------------------
(* What the other requests do in between                                   *)

\* A statement that changes or deletes the rows `ids`.
Stirs(ids, renames) ==
  /\ ~At("idle") /\ ~Over
  /\ search.stirs < MaxStirs
  /\ search' = [search EXCEPT !.stirs = @ + 1,
                              !.touched = @ \/ ids \cap ToSet(search.seen) # {},
                              !.renamed = @ \/ renames]

Insert(id, parent, name, isDir, now) == InsertNode(id, parent, name, isDir, now) /\ Stirs({}, FALSE)

Delete(id) == DeleteNode(id) /\ Stirs(Subtree(id), FALSE)

Move(id, parent, name) == Rename(id, parent, name) /\ Stirs({id}, TRUE)

OthersStep ==
  \/ \E id \in NodeIds, parent \in DOMAIN nodes, name \in NewNames, isDir \in BOOLEAN, now \in Times :
       Insert(id, parent, name, isDir, now)
  \/ \E id \in DOMAIN nodes \ {ROOT_ID} : Delete(id)
  \/ \E id \in DOMAIN nodes \ {ROOT_ID}, parent \in DOMAIN nodes, name \in NewNames : Move(id, parent, name)

SearchNext ==
  \/ \E scope \in Scopes : Begin(scope)
  \/ SearchStep
  \/ OthersStep

SearchSpec == SearchInit /\ [][SearchNext]_searchVars /\ WF_searchVars(SearchStep)

-----------------------------------------------------------------------------

\* The local variables have their types; no more is returned than asked for.
SearchReads ==
  /\ search.pc \in {"idle", "scope", "prefix", "query", "hit",
                     "done", "corrupt", "notFound", "badQuery", "failed"}
  /\ search.asked \in Scopes \cup {<<>>}
  /\ search.at \in NodeIds
  /\ search.rest \in Seq(Names)
  /\ search.prefix \in SUBSET Seq(Names) /\ Cardinality(search.prefix) <= 1
  /\ search.ranked \in Seq(NodeIds)
  /\ search.fetched \in 0 .. Len(search.ranked)
  /\ search.next \in 1 .. search.fetched + 1
  /\ search.names \in Seq(Names) /\ Len(search.names) < MAX_WALK
  /\ search.results \in Seq(Seq(Names)) /\ Len(search.results) <= LIMIT
  /\ search.seen \in Seq(NodeIds)
  /\ search.touched \in BOOLEAN /\ search.stirs \in Nat /\ search.renamed \in BOOLEAN

\* path_of undoes lookup_path (meta.rs:446), however many statements come
\* between its reads: as long as none of them touches a node the walk has
\* read, the path it ends with leads to the node it began with; and it gives
\* up, which fails the whole search, only on a node to which no path of fewer
\* than MAX_WALK names leads, on a cycle then or too far down (meta.rs:453).
PathOfIsRight ==
  Walking /\ ~search.touched /\ search.seen # <<>> =>
    /\ search.at = ROOT_ID => Leads(search.names) = {Last(search.seen)}
    /\ Len(search.names) + 1 >= MAX_WALK /\ search.at \in DOMAIN nodes \ {ROOT_ID}
         => \A n \in 0 .. MAX_WALK - 1 : \A way \in Ways(n) : EndOf(way) # Last(search.seen)

\* The hits that count, by rank: below the scope, and alive.
InScope ==
  {i \in DOMAIN search.ranked :
     \E scope \in Leads(search.asked) : search.ranked[i] \in Subtree(scope) \ {scope}}

\* A search nothing disturbs finds exactly what it should: the best LIMIT hits
\* below its scope, in order and at their paths, whatever stale ids and hits
\* from elsewhere come between (davfs.rs:460), unless more match than a scoped
\* search fetches, or stale ids take up room in an unscoped one.
QuietSearchIsExact ==
  /\ At("done")
  /\ search.stirs = 0
  /\ IF search.asked = <<>> THEN ToSet(search.ranked) \subseteq DOMAIN nodes
     ELSE Len(search.ranked) <= MAX_SEARCH_FETCH
  => /\ Len(search.results) = Min({LIMIT, Cardinality(InScope)})
     /\ \A k \in DOMAIN search.results :
          \E i \in InScope :
            /\ Cardinality(InScope \cap 1 .. i) = k
            /\ Leads(search.results[k]) = {search.ranked[i]}

\* "Results are scoped to the collection at `scope` (its subtree)"
\* (davfs.rs:462): as long as nothing is renamed meanwhile, every path in the
\* answer lies below the path that was asked for.
ResultsInScope ==
  At("done") /\ ~search.renamed =>
    \A k \in DOMAIN search.results : IsStrictPrefix(search.asked, search.results[k])

\* Every search is answered, cycles and other requests or not.
SearchEnds == ~At("idle") ~> At("idle")
=============================================================================
