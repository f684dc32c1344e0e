------------------------------ MODULE FileNames ------------------------------
(***************************************************************************)
(* What the server reads off the name of a file: whether it is indexed     *)
(* (is_indexable_name) and how it is chunked (is_media_name, both in       *)
(* crates/vfs/src/davfs.rs), how it is shown (file_kind in                 *)
(* crates/webdav-server/src/web.rs) and whether it is the index document   *)
(* of its collection (is_readme in main.rs).                               *)
(*                                                                         *)
(* A name is a sequence of tokens: "." and the characters with a meaning   *)
(* in a URL are tokens of their own, and so is every run of others.        *)
(***************************************************************************)
EXTENDS Integers, Sequences, SequencesExt

\* to_ascii_lowercase of the tokens in use.
LowerOf == [MD |-> "md", README |-> "readme", PNG |-> "png"]

ToLower(name) == [i \in DOMAIN name |-> IF name[i] \in DOMAIN LowerOf THEN LowerOf[name[i]] ELSE name[i]]

\* What follows the last "."; the whole name when there is none.
AfterLastDot(name) == SubSeq(name, SelectLastInSeq(name, LAMBDA t : t = ".") + 1, Len(name))

HasDot(name) == Contains(name, ".")

IndexedExtensions ==
  {"md", "markdown", "txt", "text", "log", "rst", "org", "tex", "json", "csv", "tsv", "toml",
   "yaml", "yml", "xml", "ini", "cfg", "conf", "html", "htm", "css", "rs", "py", "js", "ts",
   "go", "c", "h", "cpp", "hpp", "java", "rb", "sh", "sql"}

\* (mutant) names that begin with a dot are not refused
is_indexable_name_Dots(name) ==
  /\ HasDot(name)
  /\ \E ext \in IndexedExtensions : AfterLastDot(ToLower(name)) = <<ext>>

is_indexable_name(name) ==
  /\ Head(name) # "."
  /\ HasDot(name)
  /\ \E ext \in IndexedExtensions : AfterLastDot(ToLower(name)) = <<ext>>

MediaExtensions ==
  {"png", "jpg", "jpeg", "gif", "webp", "avif", "heic", "heif", "bmp", "ico", "tif", "tiff",
   "mp4", "m4v", "webm", "mov", "mkv", "ogv", "avi",
   "mp3", "wav", "ogg", "opus", "flac", "m4a", "aac"}

is_media_name(name) ==
  /\ HasDot(name)
  /\ \E ext \in MediaExtensions : AfterLastDot(ToLower(name)) = <<ext>>

chunker_for(name) == IF is_media_name(name) THEN "media_chunker" ELSE "chunker"

KindOfExtension ==
  [Markdown |-> {"md", "markdown"},
   Image    |-> {"png", "jpg", "jpeg", "gif", "webp", "avif", "bmp", "ico"},
   Video    |-> {"mp4", "webm", "mov", "mkv", "ogv"},
   Audio    |-> {"mp3", "wav", "ogg", "flac", "m4a", "aac"},
   Pdf      |-> {"pdf"},
   Text     |-> {"txt", "text", "log", "json", "jsonc", "csv", "tsv", "toml", "yaml", "yml",
                 "xml", "ini", "conf", "cfg", "env", "properties", "diff", "patch", "rs", "py",
                 "js", "mjs", "cjs", "ts", "tsx", "jsx", "c", "h", "cpp", "cc", "hpp", "go",
                 "java", "rb", "sh", "bash", "zsh", "sql", "css", "scss", "lua", "pl", "php",
                 "kt", "swift", "r", "jl", "hs", "ml", "ex", "exs"}]

\* rsplit gives a name without a dot as its own extension: a file called
\* "md" is shown as Markdown, though it is not indexed.
file_kind(name) ==
  LET kinds == {k \in DOMAIN KindOfExtension :
                  \E ext \in KindOfExtension[k] : AfterLastDot(ToLower(name)) = <<ext>>}
  IN IF kinds = {} THEN "Other" ELSE CHOOSE k \in kinds : TRUE

reads_text(kind) == kind \in {"Markdown", "Text"}

is_readme(name) == ToLower(name) \in {<<"readme", ".", "md">>, <<"index", ".", "md">>}
=============================================================================
