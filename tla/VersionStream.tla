---------------------------- MODULE VersionStream ----------------------------
(***************************************************************************)
(* GET of an old version (serve_version in crates/webdav-server/src/       *)
(* main.rs, DavFs::open_version, ChunkStream): a blocking task reads the   *)
(* chunks and sends them through a bounded channel to the body of the      *)
(* response. It takes no guard, so that every request of ContentStore,     *)
(* prune and garbage collection included, can come between two chunks.     *)
(***************************************************************************)
EXTENDS ContentStore

CONSTANTS
  Streams,                 \* bound: downloads at once
  VERSION_STREAM_CHUNKS    \* the capacity of the channel

MISSING == "missing"    \* in place of a chunk: an error

ASSUME StreamConstants ==
  /\ VERSION_STREAM_CHUNKS \in Nat \ {0}
  /\ MISSING \notin Chunks

VARIABLE stream    \* what each download is doing

streamVars == <<contentVars, stream>>

Item == Chunks \cup {MISSING}

(* `asked` and `orphan` are not in the code: what the version held when    *)
(* its number was looked up, and whether its file has been deleted since,  *)
(* before the manifest was loaded.                                         *)
Download ==
  [pc       : {"idle", "find", "load", "read", "send", "over"},
   node     : NodeIds \cup {NULL},
   version  : VersionIds \cup {NULL},
   size     : Nat,                         \* Content-Length
   manifest : Manifests,
   next     : Nat,
   item     : Item,                        \* what waits for room, while it does
   channel  : Seq(Item),
   open     : BOOLEAN,                     \* is there a body that receives?
   got      : Seq(Chunks),                 \* what the client has
   asked    : SUBSET Manifests,
   orphan   : BOOLEAN]

NoDownload == [pc |-> "idle", node |-> NULL, version |-> NULL, size |-> 0, manifest |-> <<>>,
               next |-> 1, item |-> MISSING, channel |-> <<>>, open |-> FALSE, got |-> <<>>,
               asked |-> {}, orphan |-> FALSE]

Is(s, pc) == stream[s].pc = pc

StreamInit ==
  /\ ContentInit
  /\ stream = [s \in Streams |-> NoDownload]

-----------------------------------------------------------------------------
(* open_version, in three turns of the mutex                               *)

ResolveFile(s, n) ==
  /\ Is(s, "idle")
  /\ n \in DOMAIN nodes \ {ROOT_ID}
  /\ stream' = [stream EXCEPT ![s].pc = "find", ![s].node = n]

\* The size is the row's, whatever manifest is loaded.
FindVersion(s, v) ==
  /\ Is(s, "find")
  /\ v \in VersionsOf(stream[s].node)
  /\ stream' = [stream EXCEPT ![s].pc = "load", ![s].version = v,
                              ![s].size = Len(versions[v].chunks),
                              ![s].asked = {versions[v].chunks}]

\* No such version, or an error.
NotServed(s) ==
  /\ stream[s].pc \in {"find", "load"}
  /\ stream' = [stream EXCEPT ![s] = NoDownload]

\* (mutant) the size is that of the manifest
LoadVersion_OwnSize(s) ==
  LET m == ReadManifest(stream[s].version) IN
  /\ Is(s, "load")
  /\ stream' = [stream EXCEPT ![s].pc = "read", ![s].manifest = m, ![s].size = Len(m),
                              ![s].open = TRUE]

LoadVersion(s) ==
  /\ Is(s, "load")
  /\ stream' = [stream EXCEPT ![s].pc = "read", ![s].open = TRUE,
                              ![s].manifest = ReadManifest(stream[s].version)]

-----------------------------------------------------------------------------
(* The blocking task                                                       *)

\* What reading a blob gives: it, or an error.
Get(c) == {MISSING} \cup ({c} \cap blobs)

\* (mutant) a chunk that cannot be read is passed over
NextChunk_PassOver(s) ==
  LET d == stream[s] IN
  /\ Is(s, "read")
  /\ \/ /\ d.next > Len(d.manifest)
        /\ stream' = [stream EXCEPT ![s].pc = "over"]
     \/ /\ d.next <= Len(d.manifest)
        /\ \E item \in Get(d.manifest[d.next]) :
             stream' = [stream EXCEPT ![s].pc = IF item = MISSING THEN "read" ELSE "send",
                                      ![s].item = item,
                                      ![s].next = @ + 1]

\* (mutant) after the last chunk the task waits for more
NextChunk_Lingers(s) ==
  LET d == stream[s] IN
  /\ Is(s, "read")
  /\ d.next <= Len(d.manifest)
  /\ \E item \in Get(d.manifest[d.next]) :
       stream' = [stream EXCEPT ![s].pc = "send", ![s].item = item, ![s].next = @ + 1]

NextChunk(s) ==
  LET d == stream[s] IN
  /\ Is(s, "read")
  /\ \/ /\ d.next > Len(d.manifest)
        /\ stream' = [stream EXCEPT ![s].pc = "over"]
     \/ /\ d.next <= Len(d.manifest)
        /\ \E item \in Get(d.manifest[d.next]) :
             stream' = [stream EXCEPT ![s].pc = "send", ![s].item = item, ![s].next = @ + 1]

\* (mutant) a task that waits for room is not told that nobody receives
Send_Deaf(s) ==
  LET d == stream[s] IN
  /\ Is(s, "send")
  /\ d.open
  /\ Len(d.channel) < VERSION_STREAM_CHUNKS
  /\ stream' = [stream EXCEPT ![s].pc = IF d.item = MISSING THEN "over" ELSE "read",
                              ![s].channel = Append(@, d.item), ![s].item = MISSING]

\* (mutant) the channel has no bound
Send_Unbounded(s) ==
  LET d == stream[s] IN
  /\ Is(s, "send")
  /\ IF d.open
     THEN stream' = [stream EXCEPT ![s].pc = IF d.item = MISSING THEN "over" ELSE "read",
                                   ![s].channel = Append(@, d.item), ![s].item = MISSING]
     ELSE stream' = [stream EXCEPT ![s].pc = "over", ![s].item = MISSING]

\* blocking_send: waits for room, fails if nobody receives. An error is the last
\* thing that is sent.
Send(s) ==
  LET d == stream[s] IN
  /\ Is(s, "send")
  /\ \/ /\ ~d.open
        /\ stream' = [stream EXCEPT ![s].pc = "over", ![s].item = MISSING]
     \/ /\ d.open
        /\ Len(d.channel) < VERSION_STREAM_CHUNKS
        /\ stream' = [stream EXCEPT ![s].pc = IF d.item = MISSING THEN "over" ELSE "read",
                                    ![s].channel = Append(@, d.item), ![s].item = MISSING]

-----------------------------------------------------------------------------
(* The body of the response                                                *)

Dropped(d) == [d EXCEPT !.open = FALSE, !.channel = <<>>]

\* The client gets a chunk. An error closes the connection; the last byte of
\* Content-Length ends the response.
Receive(s) ==
  LET d    == stream[s]
      item == Head(d.channel)
      got  == Append(d.got, item)
  IN
  /\ d.open /\ d.channel # <<>>
  /\ stream' = [stream EXCEPT ![s] =
                  IF item = MISSING THEN Dropped(d)
                  ELSE IF Len(got) = d.size THEN [Dropped(d) EXCEPT !.got = got]
                  ELSE [d EXCEPT !.got = got, !.channel = Tail(@)]]

\* The task is over, and everything it sent has been received.
EndOfBody(s) ==
  /\ stream[s].open /\ stream[s].channel = <<>> /\ Is(s, "over")
  /\ stream' = [stream EXCEPT ![s] = Dropped(@)]

HangUp(s) ==
  /\ stream[s].open
  /\ stream' = [stream EXCEPT ![s] = Dropped(@)]

\* Task and body are gone.
Forget(s) ==
  /\ Is(s, "over") /\ ~stream[s].open
  /\ stream' = [stream EXCEPT ![s] = NoDownload]

-----------------------------------------------------------------------------

StreamStep(s) ==
  \/ \E n \in NodeIds : ResolveFile(s, n)
  \/ \E v \in VersionIds : FindVersion(s, v)
  \/ NotServed(s) \/ LoadVersion(s)
  \/ NextChunk(s) \/ Send(s)
  \/ Receive(s) \/ EndOfBody(s) \/ HangUp(s) \/ Forget(s)

\* The row id of a version whose file is gone is given to another version.
Reissued(d) == d.orphan /\ d.version \notin DOMAIN versions /\ d.version \in DOMAIN versions'

\* What a step of another request does to orphan and asked: CompleteIsRight says
\* nothing of a version whose row id is reissued before its manifest is loaded.
Disown ==
  stream' = [s \in Streams |->
               IF Is(s, "load") /\ Reissued(stream[s])
               THEN [stream[s] EXCEPT !.asked = {}]
               ELSE IF Is(s, "load") /\ stream[s].node \notin DOMAIN nodes'
               THEN [stream[s] EXCEPT !.orphan = TRUE] ELSE stream[s]]

StreamNext ==
  \/ \E s \in Streams : StreamStep(s) /\ UNCHANGED contentVars
  \/ /\ \E p \in Procs : PutNext(p) \/ CopyNext(p) \/ VersionNext(p) \/ GcNext(p) \/ Fail(p)
     /\ Disown
  \/ Restart /\ stream' = [s \in Streams |-> NoDownload]

\* The blocking task runs on. Nothing is assumed of the client here.
StreamSpec ==
  /\ StreamInit /\ [][StreamNext]_streamVars
  /\ \A s \in Streams : WF_streamVars(NextChunk(s) /\ UNCHANGED contentVars)
                        /\ WF_streamVars(Send(s) /\ UNCHANGED contentVars)

-----------------------------------------------------------------------------

StreamTypeOK ==
  /\ ContentTypeOK
  /\ stream \in [Streams -> Download]
  /\ \A s \in Streams : Len(stream[s].channel) <= VERSION_STREAM_CHUNKS

\* Whatever fails and whoever hangs up, what a client has and what waits for it
\* in the channel are the first chunks of one manifest, in order and with none
\* left out; an error can only be the last of them.
StreamsInOrder ==
  \A s \in Streams :
    LET sent     == stream[s].got \o stream[s].channel
        manifest == stream[s].manifest
    IN \A k \in DOMAIN sent :
         /\ k \in DOMAIN manifest
         /\ sent[k] = manifest[k] \/ (sent[k] = MISSING /\ k = Len(sent))

\* "a failed read, never corruption" (davfs.rs:349): a download that is as long as
\* was announced is the version asked for, though this is pruned, or its file
\* deleted, and its chunks collected, between any two steps of the download, the
\* lookups of open_version included. Left out is one case: between the lookup of
\* the number and the load of the manifest the file is deleted *and* its version's
\* row id given to another file's version. The download then is that one's.
CompleteIsRight ==
  \A s \in Streams :
    LET d == stream[s] IN
    d.pc \in {"read", "send", "over"} /\ Len(d.got) = d.size => d.asked \subseteq {d.got}

Streaming(s) == stream[s].pc \in {"read", "send"}

\* A client that hangs up leaves no blocking task behind.
HangUpEndsTask == \A s \in Streams : Streaming(s) /\ ~stream[s].open ~> ~Streaming(s)

\* A client that goes on reading comes to the end of the body, be it an error.
ReadersGetAnEnd ==
  \A s \in Streams :
    /\ WF_streamVars(Receive(s) /\ UNCHANGED contentVars)
    /\ WF_streamVars(EndOfBody(s) /\ UNCHANGED contentVars)
    => (stream[s].open ~> ~stream[s].open)
=============================================================================
