-------------------------------- MODULE Http --------------------------------
(***************************************************************************)
(* The HTTP front of the server (crates/webdav-server/src/main.rs): which  *)
(* handler a request reaches, what it answers with, and the searches it    *)
(* starts.                                                                 *)
(*                                                                         *)
(* A request is dispatched, and answered from the tables, in one step; a   *)
(* search then runs step by step (Search). What an action does to the      *)
(* tables is the matter of ContentStore, and how a version's bytes are     *)
(* sent that of VersionStream. What dav-server does with what falls        *)
(* through to it is left out but for a GET of a file.                      *)
(***************************************************************************)
EXTENDS Search, Pages, SearchBody

CONSTANTS
  Written,   \* how a client writes each name in a URL
  Queries,   \* bound: query strings of GETs
  Actions,   \* bound: query strings of POSTs
  Bodies,    \* bound: bodies of SEARCHes
  PageTables, \* bound: tables, [nodes, versions], that other requests find
  ShownTimes \* bound: times of modification shown, as days since 1970 and seconds

VARIABLE exchange

httpVars == <<nodes, versions, search, exchange>>

-----------------------------------------------------------------------------
(* Answers                                                                 *)

\* What is answered, about which node and version, and the links that the
\* page or the redirect has.
Answer(kind, id, number) ==
  [kind |-> kind, node |-> id, number |-> number, links |-> {}, term |-> <<>>, scope |-> <<>>,
   shown |-> {}]

Error(kind) == Answer(kind, NULL, 0)

WithLinks(answer, links) == [answer EXCEPT !.links = links]

The(S) == CHOOSE x \in S : TRUE

\* An answer about the file that was found at a path, for what only files have.
OfFile(found, answer) ==
  IF found = {} THEN Error("notFound")
  ELSE IF nodes[The(found)].isDir THEN Error("badRequest")
  ELSE answer

SearchAnswer(segments, found, term) ==
  [Answer("search", IF found = {} THEN NULL ELSE The(found), 0)
     EXCEPT !.term = term, !.scope = NamesOf(segments)]

-----------------------------------------------------------------------------
(* GET. `segments` are those of the path, `found` the node it leads to.    *)

\* DavHandler: the bytes of a file.
DavGet(found) ==
  IF found = {} THEN Error("notFound")
  ELSE Answer(IF nodes[The(found)].isDir THEN "dav" ELSE "raw", The(found), 0)

\* Only for what is shown as text. The node need not be there, or be a file:
\* the page then has no preview.
print_page_response(segments, found) ==
  IF ~reads_text(file_kind(basename(segments))) THEN Error("notFound")
  ELSE IF \E id \in found : ~nodes[id].isDir THEN Answer("print", The(found), 0)
  ELSE Error("noPreview")

version_page_response(r, path, segments, found) ==
  OfFile(found, WithLinks(Answer("versions", The(found), 0),
                          IF r.html THEN version_page(path, segments, The(found)) ELSE {}))

serve_version(found, number) ==
  OfFile(found, IF \E v \in VersionsOf(The(found)) : versions[v].number = number
                THEN Answer("version", The(found), number)
                ELSE Error("notFound"))

\* A collection without its trailing slash is redirected to itself with it.
Collection(r, path, segments, id) ==
  IF needs_trailing_slash(path) = {}
  THEN [WithLinks(Answer("directory", id, 0), directory_page(path, segments, r.readable))
          EXCEPT !.shown = {format_time(r.time)}]
  ELSE WithLinks(Answer("redirect", id, 0),
                 {Link(name \o <<"/">>, To("directory", id, 0)) : name \in needs_trailing_slash(path)})

\* Without a selector, or with a version selector only.
ByVersion(r, path, segments, found, selector) ==
  IF selector.ask = "bad" THEN Error("badRequest")
  ELSE IF selector.ask = "list" THEN version_page_response(r, path, segments, found)
  ELSE IF selector.ask = "version" THEN serve_version(found, selector.number)
  ELSE IF \E id \in found : nodes[id].isDir THEN Collection(r, path, segments, The(found))
  ELSE IF found # {} /\ r.html
  THEN WithLinks(Answer("file", The(found), 0), file_page(path, segments, The(found)))
  ELSE DavGet(found)

handle_browser_get(r, path, segments, found, pairs) ==
  IF has_raw(pairs) THEN DavGet(found)
  ELSE IF has_print(pairs) THEN print_page_response(segments, found)
  ELSE IF parse_search_query(pairs) # {}
  THEN SearchAnswer(segments, found, The(parse_search_query(pairs)))
  ELSE ByVersion(r, path, segments, found, parse_version_query(pairs))

-----------------------------------------------------------------------------
(* POST                                                                    *)

\* A browser sends the Origin of the page a form is on. Its authority, what
\* follows "://", has to be the Host.
is_cross_origin(r) ==
  /\ r.origin # <<>>
  /\ ~Contains(r.origin, "://") \/ After(r.origin, "://") # r.host

\* revert_to_version and prune_version, and the redirect after either.
OnVersion(path, id, action) ==
  LET named == {v \in VersionsOf(id) : versions[v].number = action.number} IN
  IF named = {} THEN Error("notFound")
  ELSE IF action.ask = "prune" /\ nodes[id].current \in named THEN Error("badRequest")
  ELSE WithLinks(Answer(action.ask, id, action.number),
                 {Link(path \o <<"?", "versions">>, To("versions", id, 0))})

VersionAction(path, found, action) == OfFile(found, OnVersion(path, The(found), action))

handle_post_action(r, path, found, action) ==
  IF action.ask = "none" THEN Error("dav")
  ELSE IF is_cross_origin(r) THEN Error("forbidden")
  ELSE IF action.ask = "bad" THEN Error("badRequest")
  ELSE IF action.ask = "gc" THEN IF path = <<"/">> THEN Answer("gc", NULL, 0) ELSE Error("badRequest")
  ELSE VersionAction(path, found, action)

-----------------------------------------------------------------------------
(* SEARCH, and all                                                         *)

SearchOf(segments, term) == SearchAnswer(segments, NodeAt(segments), term)

SearchScope(parsed, path) ==
  IF parsed.query = <<>> \/ ~IsDavPath(path) THEN Error("badRequest")
  ELSE SearchOf(decoded_segments(path), parsed.query)

SearchRequest(parsed, path) == SearchScope(parsed, ScopePath(parsed.scope_href, path))

\* A body over MAX_SEARCH_BODY is not read.
handle_search_method(r, path) ==
  IF r.fits THEN SearchRequest(parse_search_request(r.body), path) ELSE Error("badRequest")

OfMethod(r, path, segments, found, pairs) ==
  IF r.method = "GET" THEN handle_browser_get(r, path, segments, found, pairs)
  ELSE IF r.method = "POST" THEN handle_post_action(r, path, found, parse_action_query(pairs))
  ELSE IF r.method = "SEARCH" THEN handle_search_method(r, path)
  ELSE Error("dav")

OfPath(r, path, segments) == OfMethod(r, path, segments, NodeAt(segments), Pairs(QueryOf(r.url)))

handle(r) == OfPath(r, PathOf(r.url), decoded_segments(PathOf(r.url)))

\* A request. `whole` is not in it: the body before it was cut off. Whether
\* the index document can be read, and what time a listed entry has, are
\* taken here for what the store says.
Request(method, url) ==
  [method |-> method, url |-> url, html |-> TRUE, origin |-> <<>>, host |-> <<"host">>,
   body |-> <<>>, whole |-> <<>>, fits |-> TRUE, readable |-> TRUE, time |-> [days |-> 0, seconds |-> 0]]

NoExchange == [request |-> Request("none", <<"/">>), answer |-> Error("none")]

-----------------------------------------------------------------------------
(* The exchange of a request and its answer                                *)

AllTables == Tables \cup PageTables

InTables == [nodes |-> nodes, versions |-> versions] \in AllTables

HttpInit ==
  /\ \E tables \in AllTables : nodes = tables.nodes /\ versions = tables.versions
  /\ search = Idle
  /\ exchange = NoExchange

\* The path from the root to a node, as a client writes it.
Climb(step) ==
  IF step.at \in DOMAIN nodes \ {ROOT_ID}
  THEN [at |-> nodes[step.at].parent, path |-> <<"/">> \o Written[nodes[step.at].name] \o step.path]
  ELSE step

PathTo(id) == FoldLeft(LAMBDA step, k : Climb(step), [at |-> id, path |-> <<>>], [k \in 1 .. Cardinality(NodeIds) |-> k]).path

Slash(id) == IF nodes[id].isDir THEN {<<"/">>} \cup (IF id = ROOT_ID THEN {} ELSE {<<>>}) ELSE {<<>>}

\* The URLs that are asked for: of every node below the root, with a slash at
\* the end or without one if it is a collection, and one of none. (Bound)
Paths ==
  UNION {{PathTo(id) \o slash : slash \in Slash(id)} : id \in Subtree(ROOT_ID)} \cup {<<"/", "missing">>}

Url(path, query) == IF query = <<>> THEN path ELSE path \o <<"?">> \o query

\* Whether the index document can be read is only varied without a query. (Bound)
Gets ==
  {[Request("GET", Url(path, query)) EXCEPT !.html = html] :
     path \in Paths, query \in Queries, html \in BOOLEAN}
  \cup {[Request("GET", path) EXCEPT !.readable = FALSE] : path \in Paths}

\* Only the first page is asked for at every time. (Bound)
TimedGets == {[Request("GET", <<"/">>) EXCEPT !.time = time] : time \in ShownTimes}

Origins == {<<>>, <<"null">>, <<"http", "://", "host">>, <<"http", "://", "other">>}

Posts ==
  {[Request("POST", Url(path, query)) EXCEPT !.origin = origin] :
     path \in Paths, query \in Actions, origin \in Origins}

\* A body may be cut off before any event and within a text.
Cuts(body) ==
  Prefixes(body) \cup
  {Append(Front(start), TextEvent(SubSeq(Last(start).text, 1, Len(Last(start).text) - 1))) :
     start \in {p \in Prefixes(body) : p # <<>> /\ Last(p).event = "text"}}

Searches ==
  UNION {{[Request("SEARCH", <<"/">>) EXCEPT !.body = body, !.whole = whole] : body \in Cuts(whole)} :
           whole \in Bodies}
  \cup {[Request("SEARCH", <<"/">>) EXCEPT !.body = body, !.whole = body, !.fits = FALSE] : body \in Bodies}

\* Neither times nor bodies depend on the tables: the smallest do. (Bound)
Requests ==
  Gets \cup Posts \cup {Request("OPTIONS", path) : path \in Paths} \cup
  (IF DOMAIN nodes = {ROOT_ID} THEN TimedGets \cup Searches ELSE {})

Dispatch ==
  /\ exchange = NoExchange
  /\ At("idle")
  /\ InTables
  /\ \E r \in Requests : exchange' = [request |-> r, answer |-> handle(r)]
  /\ UNCHANGED searchVars

\* The answer is sent, or the search begins: one on Tables is followed.
SendAnswer ==
  /\ exchange # NoExchange
  /\ exchange' = NoExchange
  /\ UNCHANGED searchVars

StartSearch ==
  /\ exchange.answer.kind = "search"
  /\ exchange' = NoExchange
  /\ Begin(exchange.answer.scope)

HttpNext ==
  \/ Dispatch
  \/ SendAnswer
  \/ StartSearch
  \/ SearchStep /\ UNCHANGED exchange
  \/ OthersStep /\ UNCHANGED exchange

HttpSpec == HttpInit /\ [][HttpNext]_httpVars /\ WF_httpVars(SearchStep /\ UNCHANGED exchange)

-----------------------------------------------------------------------------

HttpTypeOK ==
  /\ exchange.request.method \in {"none", "GET", "POST", "SEARCH", "OPTIONS"}
  /\ exchange.answer.kind \in
       {"none", "directory", "file", "raw", "print", "noPreview", "versions", "version", "search",
        "revert", "prune", "gc", "redirect", "notFound", "badRequest", "forbidden", "dav"}
  /\ exchange.answer.node \in DOMAIN nodes \cup {NULL}
  /\ exchange.answer.number \in Nat
  /\ exchange.answer.scope \in Scopes
  /\ exchange.answer.kind = "search" => exchange.answer.term # <<>>
  /\ exchange # NoExchange => At("idle")
  /\ SearchReads

\* What a link leads to when a browser follows it from the page at a URL.
Followed(url, link) ==
  handle([Request(IF link.post THEN "POST" ELSE "GET", Resolve(url, link.href))
            EXCEPT !.origin = IF link.post THEN <<"http", "://", "host">> ELSE <<>>])

\* The links that are seen, each with the page it is on.
LinksSeen ==
  {[url |-> exchange.request.url, link |-> link] : link \in exchange.answer.links} \cup
  {[url |-> <<"/", "?", "q", "=", "word">>, link |-> link] :
     link \in IF At("done") /\ search.stirs = 0
               THEN search_page([k \in DOMAIN search.asked |-> Spelling[search.asked[k]]], ToSet(search.results))
               ELSE {}}

\* Every link and form on a page leads to what it stands for: the collection,
\* file, history or version it names, at once and not to an error, a redirect
\* or another node, whatever characters the names have, and the buttons of
\* the version page do what they say (web.rs writes them, main.rs reads them).
\* The links of the results of an undisturbed search lead to the files found,
\* those to the collections that stale ids are of by way of a redirect.
EveryLinkLeads ==
  \A seen \in LinksSeen :
    LET answer == Followed(seen.url, seen.link) IN To(answer.kind, answer.node, answer.number) = seen.link.to

\* A request is taken for one thing only, whatever selectors its query has, in
\* whatever order. An action is a POST that no other site has made (main.rs:283),
\* gc is asked of the root (main.rs:295), and of several actions the first one is
\* done and no other. What is answered about a version is a version that the query
\* names, and not the list; contradictory selectors are refused, and none of them
\* is "silently falling through to a normal GET" (main.rs:751): the content as it
\* is now is shown beside a version selector only to who asks for raw or print.
RequestsMeanWhatTheySay ==
  LET r == exchange.request
      answer == exchange.answer
      pairs == Pairs(QueryOf(r.url))
      keys == {pair.key : pair \in ToSet(pairs)}
      actions == With(pairs, {<<"revert">>, <<"prune">>, <<"gc">>})
  IN /\ answer.kind \in {"revert", "prune", "gc"} =>
          /\ r.method = "POST" /\ r.origin \in {<<>>, <<"http", "://">> \o r.host}
          /\ Head(actions).key = <<answer.kind>>
          /\ answer.kind = "gc" => PathOf(r.url) = <<"/">>
          /\ answer.kind # "gc" => Head(actions).value = <<Numeral(answer.number)>>
     /\ answer.kind = "version" =>
          /\ [key |-> <<"version">>, value |-> <<Numeral(answer.number)>>] \in ToSet(pairs)
          /\ <<"versions">> \notin keys
     /\ answer.kind = "versions" => <<"version">> \notin keys
     /\ answer.kind \in {"raw", "file", "directory", "redirect"} =>
          keys \cap {<<"version">>, <<"versions">>} = {} \/ <<"raw">> \in keys

\* The elements a text of a body is in, outermost first.
Enclosing(body, k) ==
  FoldLeft(LAMBDA open, e : IF e.event = "start" THEN Append(open, local_name(e.text))
                            ELSE IF e.event = "end" THEN Front(open) ELSE open,
           <<>>, SubSeq(body, 1, k - 1))

\* Where a body has a text directly in some elements, and those texts.
PlacesIn(body, inner) ==
  {k \in DOMAIN body : body[k].event = "text" /\ IsSuffix(inner, Enclosing(body, k))}

TextsIn(body, inner) == {Trim(body[k].text, {" "}) : k \in PlacesIn(body, inner)}

ScopePlaces(body) == PlacesIn(body, <<<<"scope">>, <<"href">>>>)

TermPlaces(body) == PlacesIn(body, <<<<"contains">>>>) \cup PlacesIn(body, <<<<"like">>, <<"literal">>>>)

\* Each thing is said once at most. Of several the first should count
\* (main.rs:526, main.rs:568), and the code puts them one after the other.
SaysOnce(body) ==
  \A places \in {ScopePlaces(body), PlacesIn(body, <<<<"contains">>>>),
                 PlacesIn(body, <<<<"like">>, <<"literal">>>>)} : Cardinality(places) <= 1

\* The text of DAV:contains, or without one that of a DAV:literal in a
\* DAV:like; and that of DAV:href in DAV:scope, as the path of a collection.
MeantQueries(body) ==
  IF TextsIn(body, <<<<"contains">>>>) # {} THEN TextsIn(body, <<<<"contains">>>>)
  ELSE {Trim(text, {"%", " "}) : text \in TextsIn(body, <<<<"like">>, <<"literal">>>>)}

MeantScopes(body) ==
  {NodeAt(decoded_segments(href_to_path(text))) : text \in TextsIn(body, <<<<"scope">>, <<"href">>>>)}


\* "a partial body still does something sensible" (main.rs:570): a body cut off
\* anywhere that is answered at all is answered for the scope of the whole, but in
\* one case. A scope that comes after the term, which the grammar of RFC 5323 does
\* not have, can be cut off with the term read: the search is then of what was read
\* of the scope, or of the path of the request. With the scope first there is no
\* such cut, within its text or after it.
OnlyLateScopesAreLost ==
  LET r == exchange.request IN
  r.method = "SEARCH" /\ exchange.answer.kind = "search" =>
    \/ exchange.answer.scope = handle_search_method([r EXCEPT !.body = r.whole], <<"/">>).scope
    \/ \E k \in ScopePlaces(r.whole), j \in TermPlaces(r.body) :
         j < k /\ (k \notin DOMAIN r.body \/ r.body[k] # r.whole[k])

\* What is indexed, so that a search can find it, is listed where it is, and
\* never chunked as media (davfs.rs:166: hidden names "would only pollute
\* search").
IndexedIsListed ==
  exchange.answer.kind = "directory" =>
    \A id \in DOMAIN nodes :
      /\ nodes[id].parent = exchange.answer.node
      /\ ~nodes[id].isDir
      /\ is_indexable_name(Spelling[nodes[id].name])
      => /\ \E link \in exchange.answer.links : link.to = To("file", id, 0)
         /\ chunker_for(Spelling[nodes[id].name]) = "chunker"

IsLeap(year) == year % 4 = 0 /\ (year % 100 # 0 \/ year % 400 = 0)

MonthLength(year, month) ==
  IF month = 2 THEN IF IsLeap(year) THEN 29 ELSE 28
  ELSE IF month \in {4, 6, 9, 11} THEN 30 ELSE 31

\* The days from 1970 to the first of a month.
DaysBefore(year, month) ==
  365 * (year - 1970) + Cardinality({y \in 1970 .. year - 1 : IsLeap(y)})
    + FoldLeft(LAMBDA sum, m : sum + MonthLength(year, m), 0, [m \in 1 .. month - 1 |-> m])

\* The date and the time of day shown are the Gregorian ones: counting the
\* days of years and months up to it gives back the day (web.rs:465).
DatesAreRight ==
  \A shown \in exchange.answer.shown :
    LET date == shown.date IN
    /\ date.month \in 1 .. 12 /\ date.day \in 1 .. MonthLength(date.year, date.month)
    /\ shown.hour < 24 /\ shown.minute < 60 /\ shown.second < 60
    /\ exchange.request.time.days >= 0 =>
         /\ DaysBefore(date.year, date.month) + date.day - 1 = exchange.request.time.days
         /\ shown.hour * 3600 + shown.minute * 60 + shown.second = exchange.request.time.seconds
=============================================================================
