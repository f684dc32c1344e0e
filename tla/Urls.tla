-------------------------------- MODULE Urls --------------------------------
(***************************************************************************)
(* URLs as the router and the pages write and read them, as sequences of   *)
(* tokens: paths (crates/webdav-server/src/main.rs, web.rs), query strings *)
(* and their selectors (main.rs), and what a browser and dav-server make   *)
(* of them.                                                                *)
(***************************************************************************)
EXTENDS Integers, Sequences, SequencesExt

\* str::split: the pieces of s between the separators; one more than those.
Split(s, sep) ==
  LET cuts == SetToSortSeq({0, Len(s) + 1} \cup {i \in DOMAIN s : s[i] = sep}, <)
  IN [k \in 1 .. Len(cuts) - 1 |-> SubSeq(s, cuts[k] + 1, cuts[k + 1] - 1)]

NonEmpty(pieces) == SelectSeq(pieces, LAMBDA piece : piece # <<>>)

EndsWithSlash(path) == Last(path) = "/"

-----------------------------------------------------------------------------
(* Percent-encoding                                                        *)

\* The tokens outside RFC 3986 unreserved, and what is written for them.
Encoded == [t \in {"?", "%", "&", "#", " "} |->
              CHOOSE e \in {"%3F", "%25", "%26", "%23", "%20"} :
                <<t, e>> \in {<<"?", "%3F">>, <<"%", "%25">>, <<"&", "%26">>, <<"#", "%23">>,
                              <<" ", "%20">>}]

\* (mutant) names are put into links as they are
encode_segment_Raw(name) == name

encode_segment(name) ==
  [i \in DOMAIN name |-> IF name[i] \in DOMAIN Encoded THEN Encoded[name[i]] ELSE name[i]]

Decode(text) ==
  [i \in DOMAIN text |->
     IF \E t \in DOMAIN Encoded : Encoded[t] = text[i]
     THEN CHOOSE t \in DOMAIN Encoded : Encoded[t] = text[i]
     ELSE text[i]]

\* DavPath::new wants an absolute path; as_bytes gives its decoded segments.
IsDavPath(path) == path # <<>> /\ Head(path) = "/"

decoded_segments(path) ==
  LET pieces == NonEmpty(Split(path, "/")) IN [k \in DOMAIN pieces |-> Decode(pieces[k])]

\* The decoded name a path ends with; empty for the root.
basename(segments) == IF segments = <<>> THEN <<>> ELSE Last(segments)

-----------------------------------------------------------------------------
(* Following a link                                                        *)

\* str::split_once, with all of s as the first part if sep is not in it.
UpTo(s, sep) ==
  LET cut == SelectInSeq(s, LAMBDA t : t = sep) IN
  IF cut = 0 THEN s ELSE SubSeq(s, 1, cut - 1)

After(s, sep) ==
  LET cut == SelectInSeq(s, LAMBDA t : t = sep) IN
  IF cut = 0 THEN <<>> ELSE SubSeq(s, cut + 1, Len(s))

\* The path and the query of a URL. A fragment is never sent.
PathOf(url) == UpTo(UpTo(url, "#"), "?")

QueryOf(url) == After(UpTo(url, "#"), "?")

UpToLastSlash(path) == SubSeq(path, 1, SelectLastInSeq(path, LAMBDA t : t = "/"))

\* What a browser makes of a reference on the page at a URL.
Resolve(url, href) ==
  IF href = <<>> THEN url
  ELSE IF Head(href) = "/" THEN href
  ELSE IF Head(href) = "?" THEN PathOf(url) \o href
  ELSE UpToLastSlash(PathOf(url)) \o href

-----------------------------------------------------------------------------
(* Paths                                                                   *)

\* The last segment, to be redirected to; none if the path ends with "/".
needs_trailing_slash(path) ==
  IF EndsWithSlash(path) THEN {} ELSE {Last(NonEmpty(Split(path, "/")))}

TrimSlashes(path) == SubSeq(path, 1, SelectLastInSeq(path, LAMBDA t : t # "/"))

\* The collection a path is in.
parent_encoded(path) ==
  IF Contains(TrimSlashes(path), "/") THEN UpToLastSlash(TrimSlashes(path)) ELSE <<"/">>

child_path(parent, name) ==
  parent \o (IF EndsWithSlash(parent) THEN <<>> ELSE <<"/">>) \o encode_segment(name)

dir_href(segments) ==
  LET href == FlattenSeq([k \in DOMAIN segments |-> <<"/">> \o encode_segment(segments[k])])
  IN IF href = <<>> THEN <<"/">> ELSE href

file_href(segments, name) ==
  LET base == dir_href(segments) IN
  base \o (IF EndsWithSlash(base) THEN <<>> ELSE <<"/">>) \o encode_segment(name)

-----------------------------------------------------------------------------
(* Query strings                                                           *)

\* The pairs of a query: split at "&", without empty ones, and each at its
\* first "=". A key or a value is a sequence of tokens. Every function below
\* begins with this; it is given the pairs here.
Pairs(query) ==
  LET pieces == NonEmpty(Split(query, "&"))
  IN [k \in DOMAIN pieces |-> [key |-> UpTo(pieces[k], "="), value |-> After(pieces[k], "=")]]

With(pairs, keys) == SelectSeq(pairs, LAMBDA pair : pair.key \in keys)

HasKey(pairs, key) == With(pairs, {<<key>>}) # <<>>

has_raw(pairs) == HasKey(pairs, "raw")

has_print(pairs) == HasKey(pairs, "print")

\* The values of u64 in use.
Number == [t \in {"1", "2", "3"} |-> CHOOSE n \in 1 .. 3 : <<t, n>> \in {<<"1", 1>>, <<"2", 2>>, <<"3", 3>>}]

Numeral(number) == CHOOSE t \in DOMAIN Number : Number[t] = number

IsNumber(value) == Len(value) = 1 /\ value[1] \in DOMAIN Number

\* str::trim and str::trim_matches.
Trim(text, chars) ==
  LET first == SelectInSeq(text, LAMBDA t : t \notin chars)
      last == SelectLastInSeq(text, LAMBDA t : t \notin chars)
  IN IF first = 0 THEN <<>> ELSE SubSeq(text, first, last)

decode_query_value(value) ==
  Decode([i \in DOMAIN value |-> IF value[i] = "+" THEN " " ELSE value[i]])

\* (mutant) a blank term is searched for
parse_search_query_Blank(pairs) ==
  IF HasKey(pairs, "q")
  THEN {Trim(decode_query_value(Head(With(pairs, {<<"q">>})).value), {" "})}
  ELSE {}

\* The first q= of a query, or nothing if that is blank.
parse_search_query(pairs) ==
  IF HasKey(pairs, "q")
  THEN {Trim(decode_query_value(Head(With(pairs, {<<"q">>})).value), {" "})} \ {<<>>}
  ELSE {}

\* The version that a value is the number of.
Numbered(ask, value) ==
  IF IsNumber(value) THEN [ask |-> ask, number |-> Number[value[1]]] ELSE [ask |-> "bad"]

\* (mutant) both selectors at once are taken for the list
parse_version_query_Lax(pairs) ==
  IF HasKey(pairs, "versions") THEN [ask |-> "list"]
  ELSE IF HasKey(pairs, "version") THEN Numbered("version", Last(With(pairs, {<<"version">>})).value)
  ELSE [ask |-> "none"]

\* The last version= of a query, or the list, and not both.
parse_version_query(pairs) ==
  IF HasKey(pairs, "versions")
  THEN [ask |-> IF HasKey(pairs, "version") THEN "bad" ELSE "list"]
  ELSE IF HasKey(pairs, "version") THEN Numbered("version", Last(With(pairs, {<<"version">>})).value)
  ELSE [ask |-> "none"]

\* The first action of a query decides.
parse_action_query(pairs) ==
  LET actions == With(pairs, {<<"revert">>, <<"prune">>, <<"gc">>}) IN
  IF actions = <<>> THEN [ask |-> "none"]
  ELSE IF Head(actions).key = <<"gc">> THEN [ask |-> "gc"]
  ELSE Numbered(Head(actions).key[1], Head(actions).value)
=============================================================================
