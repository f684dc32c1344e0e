------------------------------- MODULE MCHttp -------------------------------
(***************************************************************************)
(* Http for TLC: names of every kind, some with characters that have a     *)
(* meaning in a URL; tables of one or two nodes with every history up to   *)
(* two versions for pages, and those of MCSearch for searches.             *)
(***************************************************************************)
EXTENDS Http, TLC

CONSTANTS a, b, readme, hidden, image, missing, half, MaxNode

MCNodeIds == 1 .. MaxNode
MCVersionIds == 1 .. 2
\* No node has the last two; `half` is what is left of `a` when it is cut off.
MCShown == {a, b, readme, hidden, image}
MCNames == MCShown \cup {missing, half}
MCManifests == {<<>>}
MCNewNames == {a, b}
MCScopes == BoundedSeq({a, b}, 3) \cup BoundedSeq(MCNames, 2)

MCSpelling ==
  (a :> <<"a", "&", "b">>) @@ (b :> <<"b", "?", ".", "md">>) @@ (readme :> <<"README", ".", "MD">>)
  @@ (hidden :> <<".", "c", ".", "md">>) @@ (image :> <<"d", "%", "#", ".", "PNG">>)
  @@ (missing :> <<"missing">>) @@ (half :> <<"a", "&">>)

MCWritten ==
  (a :> <<"a", "%26", "b">>) @@ (b :> <<"b", "%3F", ".", "md">>) @@ (readme :> <<"README", ".", "MD">>)
  @@ (hidden :> <<".", "c", ".", "md">>) @@ (image :> <<"d", "%25", "%23", ".", "PNG">>)
  @@ (missing :> <<"missing">>) @@ (half :> <<"a", "%26">>)

-----------------------------------------------------------------------------
(* Tables                                                                  *)

Row(parent, name, isDir, current) ==
  [parent |-> parent, name |-> name, isDir |-> isDir, size |-> 0, modified |-> 1, current |-> current]

Root == ROOT_ID :> Row(NULL, RootName, TRUE, NULL)

SiblingsDiffer(t) ==
  \A m, n \in DOMAIN t : t[m].parent = t[n].parent /\ t[m].name = t[n].name => m = n

Arrangements(ids) ==
  {[n \in ids |-> Row(parent[n], name[n], n < MaxNode, NULL)] :
     parent \in [ids -> (ids \cup {ROOT_ID}) \ {MaxNode}], name \in [ids -> {a, b}]}

MCTables ==
  {[nodes |-> rows @@ Root, versions |-> [v \in {} |-> 0]] :
     rows \in {t \in UNION {Arrangements(ids) : ids \in SUBSET (2 .. MaxNode)} : SiblingsDiffer(t)}}

Version(n, number) == [node |-> n, number |-> number, chunks |-> <<>>]

\* No version, one, two, or the second of two.
Histories(n) ==
  {[v \in {} |-> 0], 1 :> Version(n, 1), (1 :> Version(n, 1)) @@ (2 :> Version(n, 2)), 1 :> Version(n, 2)}

Current(history) == IF DOMAIN history = {} THEN NULL ELSE Max(DOMAIN history)

PageRows ==
  {t \in {<<Row(ROOT_ID, n2, TRUE, NULL), Row(p3, n3, d3, NULL)>> :
            n2, n3 \in MCShown, p3 \in {ROOT_ID, 2}, d3 \in BOOLEAN} :
     t[1].name # t[2].name \/ t[2].parent = 2}

MCPageTables ==
  UNION {{[nodes |-> Root @@ (2 :> Row(ROOT_ID, n, FALSE, Current(h))), versions |-> h] : h \in Histories(2)} : n \in MCShown}
  \cup UNION {{[nodes |-> Root @@ (2 :> t[1]) @@ (3 :> [t[2] EXCEPT !.current = Current(h)]), versions |-> h] :
                 h \in IF t[2].isDir THEN {[v \in {} |-> 0]} ELSE Histories(3)} : t \in PageRows}

-----------------------------------------------------------------------------
(* Requests                                                                *)

MCQueries ==
  {<<>>, <<"raw">>, <<"print">>, <<"q", "=", "word">>, <<"q", "=", "+">>, <<"versions">>,
   <<"version", "=", "1">>, <<"version", "=", "2">>, <<"version", "=", "word">>,
   <<"version", "=", "1", "&", "versions">>, <<"versions", "&", "version", "=", "2">>,
   <<"raw", "&", "version", "=", "2">>, <<"version", "=", "1", "&", "print">>,
   <<"versions", "&", "q", "=", "word">>, <<"q", "=", "+", "&", "version", "=", "1">>,
   <<"version", "=", "1", "&", "version", "=", "2">>, <<"version", "=", "2", "&", "version", "=", "word">>,
   <<"version", "=", "word", "&", "version", "=", "2">>}

MCActions ==
  {<<>>, <<"gc">>, <<"revert", "=", "1">>, <<"prune", "=", "1">>, <<"prune", "=", "2">>,
   <<"revert", "=", "word">>, <<"prune">>, <<"q", "=", "word", "&", "revert", "=", "1">>,
   <<"prune", "=", "1", "&", "revert", "=", "2">>, <<"revert", "=", "2", "&", "prune", "=", "1">>,
   <<"prune", "=", "1", "&", "prune", "=", "2">>, <<"gc", "&", "prune", "=", "1">>,
   <<"prune", "=", "1", "&", "gc">>, <<"revert", "=", "word", "&", "revert", "=", "1">>}

MCTimes ==
  {[days |-> d, seconds |-> s] : d \in -1 .. 1, s \in {0, 59, 3599, 3600, 86399}} \cup
  {[days |-> d, seconds |-> 0] : d \in (0 .. 800) \cup (10900 .. 11100) \cup (47400 .. 47600) \cup (157000 .. 157200)}

\* basicsearch, with a scope, none or two, and a term of either kind, both, two or
\* none, the scope before the term or after it.
Element(name, body) == <<StartTag(name)>> \o body \o <<EndTag(name)>>

Texts(name, texts) == {Element(name, <<TextEvent(text)>>) : text \in texts}

Href(path) == Element(<<"D", ":", "href">>, <<TextEvent(path)>>)

Scope(path) == Element(<<"D", ":", "scope">>, Href(path))

From(scopes) == Element(<<"D", ":", "from">>, scopes)

Froms ==
  {<<>>, From(Scope(<<"/", "a", "%26", "b">>) \o Scope(<<"/", "missing">>)),
   Element(<<"select">>, Href(<<"/", "missing">>)) \o From(Scope(<<"/", "a", "%26", "b">>))} \cup
  {From(Scope(path)) :
     path \in {<<"/", "a", "%26", "b", "/">>, <<" ", "/", "missing">>, <<"http", "://", "host", "/", "a", "%26", "b">>,
               <<"http", "://", "host">>, <<"a", "%26", "b">>}}

Wheres ==
  {Element(<<"where">>, term) :
     term \in {<<>>} \cup Texts(<<"contains">>, {<<"word">>, <<" ">>, <<"two", " ", "words">>})
              \cup {Element(<<"like">>, e) : e \in Texts(<<"literal">>, {<<"%", "word", "%">>, <<"%">>})}
              \cup {Element(<<"or">>, x \o y) :
                      x \in Texts(<<"contains">>, {<<"word">>}), y \in Texts(<<"contains">>, {<<"other">>})}
              \cup {Element(<<"or">>, x \o Element(<<"like">>, y)) :
                      x \in Texts(<<"contains">>, {<<"word">>}), y \in Texts(<<"literal">>, {<<"%", "other">>})}
              \cup {Element(<<"or">>, Element(<<"like">>, y) \o x) :
                      x \in Texts(<<"contains">>, {<<"word">>}), y \in Texts(<<"literal">>, {<<"%", "other">>})}}

MCBodies ==
  {Element(<<"D", ":", "basicsearch">>, body) :
     body \in UNION {{from \o where, where \o from} : from \in Froms, where \in Wheres}}
=============================================================================
