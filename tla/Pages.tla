-------------------------------- MODULE Pages --------------------------------
(***************************************************************************)
(* The pages of the browser interface (crates/webdav-server/src/web.rs,    *)
(* and the functions of main.rs that gather what they show), as the links  *)
(* on them and the dates. A link has the reference that is written into    *)
(* the page, whether it is a form that posts, and what it says it leads    *)
(* to, which the page shows as its text, its place or its button.          *)
(*                                                                         *)
(* A page is made from the tables as they stand: that they may change      *)
(* between the calls that make one page is left out.                       *)
(***************************************************************************)
EXTENDS MetaStore, Urls, FileNames

CONSTANT Spelling   \* the tokens of each name

ASSUME SpellingTells ==
  \A m, n \in Names : Spelling[m] = Spelling[n] => m = n

-----------------------------------------------------------------------------
(* Reading the tables                                                      *)

\* The names of a path; every segment of a request is some name.
NamesOf(segments) == [k \in DOMAIN segments |-> CHOOSE n \in Names : Spelling[n] = segments[k]]

\* lookup_path: the node at a path, if there is one.
NodeAt(segments) ==
  FoldLeft(LAMBDA found, segment :
             {n \in DOMAIN nodes : \E parent \in found :
                /\ nodes[n].parent = parent
                /\ Spelling[nodes[n].name] = segment},
           {ROOT_ID}, segments)

\* Without the entries whose name begins with a dot; nothing unless it is a
\* collection.
list_dir(segments) ==
  {n \in DOMAIN nodes : \E dir \in NodeAt(segments) :
     /\ nodes[dir].isDir
     /\ nodes[n].parent = dir
     /\ Head(Spelling[nodes[n].name]) # "."}

\* list_versions, and which of them is current.
list_versions(segments) ==
  UNION {{[number |-> versions[v].number, is_current |-> nodes[n].current = v] : v \in VersionsOf(n)} :
           n \in NodeAt(segments)}

-----------------------------------------------------------------------------
(* Links                                                                   *)

\* What an answer is about: a node, and a version of it or 0.
To(kind, id, number) == [kind |-> kind, node |-> id, number |-> number]

Link(href, to) == [href |-> href, post |-> FALSE, to |-> to]

Form(href, to) == [href |-> href, post |-> TRUE, to |-> to]

\* A collection or a file of a listing.
EntryHref(segments, id) ==
  file_href(segments, Spelling[nodes[id].name]) \o (IF nodes[id].isDir THEN <<"/">> ELSE <<>>)

PageKind(id) == IF nodes[id].isDir THEN "directory" ELSE "file"

EntryLink(segments, id) == Link(EntryHref(segments, id), To(PageKind(id), id, 0))

\* The form searches for what is typed into it, everywhere.
search_box == Link(<<"/", "?", "q", "=", "word">>, To("search", ROOT_ID, 0))

breadcrumb(segments) ==
  {Link(<<"/">>, To("directory", ROOT_ID, 0))} \cup
  {Link(dir_href(SubSeq(segments, 1, k)) \o <<"/">>, To(PageKind(id), id, 0)) :
     <<k, id>> \in {<<k, id>> \in (1 .. Len(segments)) \X NodeIds : id \in NodeAt(SubSeq(segments, 1, k))}}

sidebar(segments, entries) ==
  {search_box} \cup breadcrumb(segments) \cup {EntryLink(segments, id) : id \in entries}

SidebarOf(segments) == sidebar(segments, list_dir(segments))

parent_sidebar(path) == SidebarOf(decoded_segments(parent_encoded(path)))

\* The index table: each entry, and the history of each file.
dir_main(segments, entries) ==
  {EntryLink(segments, id) : id \in entries} \cup
  {Link(EntryHref(segments, id) \o <<"?", "versions">>, To("versions", id, 0)) :
     id \in {e \in entries : ~nodes[e].isDir}}

\* A collection with an index document that can be read shows that in place of
\* the table. The document is read at a path built from that of the request.
Readmes(entries) == {id \in entries : ~nodes[id].isDir /\ is_readme(Spelling[nodes[id].name])}

directory_page(path, segments, readable) ==
  SidebarOf(segments) \cup
  LET readmes == Readmes(list_dir(segments)) IN
  IF readmes # {} /\ readable
  THEN {Link(child_path(path, Spelling[nodes[id].name]), To("file", id, 0)) : id \in readmes}
  ELSE dir_main(segments, list_dir(segments))

file_header(id, printable) ==
  {Link(<<"?", "raw">>, To("raw", id, 0)), Link(<<"?", "versions">>, To("versions", id, 0))} \cup
  (IF printable THEN {Link(<<"?", "print">>, To("print", id, 0))} ELSE {})

\* The header, and the media that is embedded.
file_main(id, kind) ==
  file_header(id, reads_text(kind)) \cup
  (IF kind \in {"Image", "Video", "Audio", "Pdf"} THEN {Link(<<"?", "raw">>, To("raw", id, 0))} ELSE {})

file_page(path, segments, id) == parent_sidebar(path) \cup file_main(id, file_kind(basename(segments)))

VersionForms(id, v) ==
  IF v.is_current THEN {}
  ELSE {Form(<<"?", "revert", "=", Numeral(v.number)>>, To("revert", id, v.number)),
        Form(<<"?", "prune", "=", Numeral(v.number)>>, To("prune", id, v.number))}

version_main(id, name, list) ==
  {Link(encode_segment(name), To("file", id, 0))} \cup
  {Link(<<"?", "version", "=", Numeral(v.number)>>, To("version", id, v.number)) : v \in list} \cup
  UNION {VersionForms(id, v) : v \in list}

version_page(path, segments, id) ==
  parent_sidebar(path) \cup version_main(id, basename(segments), list_versions(segments))

\* The path of a search result, as a link. `path` is one of names.
path_href(path) == dir_href([k \in DOMAIN path |-> Spelling[path[k]]])

\* A hit is a file, or a collection if its id is stale: its link then lacks
\* the slash.
search_main(results) ==
  {Link(path_href(path), To(IF nodes[id].isDir THEN "redirect" ELSE "file", id, 0)) :
     <<path, id>> \in {<<path, id>> \in results \X NodeIds :
                         id \in NodeAt([k \in DOMAIN path |-> Spelling[path[k]]])}}

search_page(segments, results) == SidebarOf(segments) \cup search_main(results)

-----------------------------------------------------------------------------
(* Dates                                                                   *)

\* (mutant) the day that a leap year adds at the end of 400 years is forgotten
year_of_era_Long(doe) == (doe - doe \div 1460 + doe \div 36524) \div 365

year_of_era(doe) == (doe - doe \div 1460 + doe \div 36524 - doe \div 146096) \div 365

\* Days since 1 January 1970, none of them before it, as a date.
civil_from_days(days) ==
  LET z == days + 719468
      era == z \div 146097
      doe == z - era * 146097
      yoe == year_of_era(doe)
      doy == doe - (365 * yoe + yoe \div 4 - yoe \div 100)
      mp == (5 * doy + 2) \div 153
      month == IF mp < 10 THEN mp + 3 ELSE mp - 9
  IN [year |-> yoe + era * 400 + (IF month <= 2 THEN 1 ELSE 0), month |-> month,
      day |-> doy - (153 * mp + 2) \div 5 + 1]

\* The seconds since 1970, as days and the seconds of the day. A time before
\* 1970 counts as its beginning.
format_time(time) ==
  LET t == IF time.days < 0 THEN [days |-> 0, seconds |-> 0] ELSE time IN
  [date |-> civil_from_days(t.days),
   hour |-> t.seconds \div 3600, minute |-> (t.seconds % 3600) \div 60, second |-> t.seconds % 60]
=============================================================================
