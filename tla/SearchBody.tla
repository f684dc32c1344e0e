----------------------------- MODULE SearchBody -----------------------------
(***************************************************************************)
(* The body of a SEARCH request (RFC 5323 basicsearch) as the router reads *)
(* it: parse_search_request and href_to_path of                            *)
(* crates/webdav-server/src/main.rs. A body is the sequence of the events  *)
(* of the XML reader; one that is cut off or malformed ends where the      *)
(* reader stops.                                                           *)
(***************************************************************************)
EXTENDS Urls

\* An element name or a text is a sequence of tokens.
StartTag(name) == [event |-> "start", text |-> name]

EndTag(name) == [event |-> "end", text |-> name]

TextEvent(text) == [event |-> "text", text |-> text]

\* What follows the last ":".
local_name(name) == SubSeq(name, SelectLastInSeq(name, LAMBDA t : t = ":") + 1, Len(name))

Spaces == {" "}

\* The flags in_contains, in_literal, in_scope and in_href are the set `in`.
Nothing == [in |-> {}, contains |-> <<>>, literal |-> <<>>, scope_href |-> <<>>]


Closed(s, name) == [s EXCEPT !.in = @ \ {name}]

Opened(s, name) ==
  IF name \in {<<"contains">>, <<"literal">>, <<"scope">>} \/ (name = <<"href">> /\ <<"scope">> \in s.in)
  THEN [s EXCEPT !.in = @ \cup {name}]
  ELSE s

\* The text of the innermost element that counts, by rank and not by nesting.
WithText(s, text) ==
  IF <<"contains">> \in s.in THEN [s EXCEPT !.contains = @ \o text]
  ELSE IF <<"literal">> \in s.in THEN [s EXCEPT !.literal = @ \o text]
  ELSE IF <<"href">> \in s.in THEN [s EXCEPT !.scope_href = @ \o text]
  ELSE s

AfterEvent(s, e) ==
  IF e.event = "start" THEN Opened(s, local_name(e.text))
  ELSE IF e.event = "end" THEN Closed(s, local_name(e.text))
  ELSE WithText(s, Trim(e.text, Spaces))

ReadEvents(body) == FoldLeft(AfterEvent, Nothing, body)

Collected(s) ==
  [query |-> IF Trim(s.contains, Spaces) # <<>> THEN Trim(s.contains, Spaces)
             ELSE Trim(Trim(Trim(s.literal, Spaces), {"%", "_"}), Spaces),
   scope_href |-> Trim(s.scope_href, Spaces)]

\* (mutant) the scope counts once the body is over
parse_search_request_Whole(body) ==
  LET s == ReadEvents(body) IN
  Collected(IF s.in = {} THEN s ELSE [s EXCEPT !.scope_href = <<>>])

parse_search_request(body) == Collected(ReadEvents(body))

\* An absolute path stays as it is; of a URL, what follows the authority.
href_to_path(href) ==
  IF Contains(href, "://") THEN <<"/">> \o After(After(href, "://"), "/") ELSE href

\* The scope that a body names, or else the request's path.
ScopePath(scope_href, path) == IF scope_href = <<>> THEN path ELSE href_to_path(scope_href)
=============================================================================
