---------------------------- MODULE MediaIngest ----------------------------
(***************************************************************************)
(* How a media file becomes a document that is processed: the discovery    *)
(* job of packages/media-ingest scans the download directories, probes and *)
(* lists what it finds; the sensor makes each listed document a dynamic    *)
(* partition and requests a run for it; transcoding replaces files in the  *)
(* same directories.  Discovery runs overlap, transcoding is independent,  *)
(* and a tick of the sensor may die between two of its steps.              *)
(*                                                                         *)
(* The output of each asset is stored under one path, which a run replaces *)
(* and the next step of any run loads.  What ffmpeg writes is taken to be  *)
(* within the target bitrate.                                              *)
(***************************************************************************)
EXTENDS Integers, FiniteSets

CONSTANTS
    Path,           \* the paths with a media extension
    TempOf,         \* where a path is transcoded to: a path beside it, which paths that
                    \* differ in their extension alone share
    Downloads,      \* the paths that are downloaded to
    RootOf,         \* the directory of each path: metube or tubesync
    DocumentId,     \* the id made of a path
    Scan,           \* the discovery runs there can be at one time
    Transcode,      \* the transcoding runs there can be at one time
    MAX_RUNS_PER_TICK,
    Missing,        \* no file
    MaxChanges, MaxTranscodes, MaxUpsets    \* bounds

ASSUME MediaAssumption ==
    /\ Downloads \subseteq Path /\ MAX_RUNS_PER_TICK \in Nat \ {0}
    /\ TempOf \in [Downloads -> Path \ Downloads]
    /\ Missing \notin {"large", "small", "part"}
    /\ MaxChanges \in Nat /\ MaxTranscodes \in Nat /\ MaxUpsets \in Nat

VARIABLES
    disk,           \* the content of each path
    listed, probes, documents,   \* the outputs of the three assets
    discovery,      \* per discovery run, the asset it is to materialize next
    registered,     \* the dynamic partitions media_document
    requested,      \* the documents a run was requested for, by its run_key
    mediaTick,      \* the tick of the sensor: [at, ids, new]
    encoder,        \* per transcoding run: [at, todo, path, sole], where sole says that
                    \* nobody else has opened the temporary file it writes
    changes, transcodes, upsets,    \* bounds
    raced,          \* history: paths that were transcoded while another transcoding had
                    \* the same temporary file
    stranded        \* history: documents registered by a tick that died

assets    == <<listed, probes, documents>>
bounds    == <<changes, transcodes, upsets>>
mediaVars == <<disk, assets, discovery, registered, requested, mediaTick, encoder,
               bounds, raced, stranded>>

NoTick == [at |-> "idle", ids |-> {}, new |-> {}]
NoTask == [at |-> "idle", todo |-> {}, path |-> Missing, sole |-> TRUE]

MediaInit ==
    /\ disk = [p \in Path |-> Missing]
    /\ listed = {} /\ probes = {} /\ documents = {}
    /\ discovery = [s \in Scan |-> "idle"]
    /\ registered = {} /\ requested = {} /\ mediaTick = NoTick
    /\ encoder = [t \in Transcode |-> NoTask]
    /\ changes = 0 /\ transcodes = 0 /\ upsets = 0
    /\ raced = {} /\ stranded = {}

Upset == upsets < MaxUpsets /\ upsets' = upsets + 1 /\ UNCHANGED <<changes, transcodes>>

There(p) == disk[p] # Missing

-----------------------------------------------------------------------------
(* The directories                                                         *)

\* A download is finished, or a file is removed by its owner.
FileChanges(p) ==
    /\ changes < MaxChanges /\ changes' = changes + 1
    /\ disk' = [disk EXCEPT ![p] = IF There(p) THEN Missing ELSE "large"]
    /\ UNCHANGED <<assets, discovery, registered, requested, mediaTick, encoder,
                   transcodes, upsets, raced, stranded>>

-----------------------------------------------------------------------------
(* The discovery job: media_files, media_metadata, media_documents         *)

Moves(s, to) == discovery' = [discovery EXCEPT ![s] = to]

Elsewhere == <<disk, registered, requested, mediaTick, encoder, raced, stranded>>

\* Every five minutes, whether the last run has ended or not.
ScheduleTick(s) ==
    /\ discovery[s] = "idle"
    /\ Moves(s, "media_files")
    /\ UNCHANGED <<assets, bounds, Elsewhere>>

\* A directory that is not mounted is an empty one.
ScanFiles(s) ==
    /\ discovery[s] = "media_files"
    /\ Moves(s, "media_metadata")
    /\ \E gone \in SUBSET {RootOf[p] : p \in Path} :
          /\ IF gone = {} THEN UNCHANGED bounds ELSE Upset
          /\ listed' = {p \in Path : There(p) /\ RootOf[p] \notin gone}
    /\ UNCHANGED <<probes, documents, Elsewhere>>

\* What ffprobe says of a path: a file that is gone or cut off is listed all the
\* same, with an error in the place of its codecs.
Probed(p) == [path |-> p, video |-> IF disk[p] \in {"large", "small"} THEN disk[p] ELSE "error"]

ProbeFiles(s) ==
    /\ discovery[s] = "media_metadata"
    /\ Moves(s, "media_documents")
    /\ probes' = {Probed(p) : p \in listed}
    /\ UNCHANGED <<listed, documents, bounds, Elsewhere>>

MakeDocuments(s) ==
    /\ discovery[s] = "media_documents"
    /\ Moves(s, "idle")
    /\ documents' = {DocumentId[m.path] : m \in probes}
    /\ UNCHANGED <<listed, probes, bounds, Elsewhere>>

\* A step raises: a file went away between the listing and its stat, ffprobe is
\* not installed, the output is not stored.  The steps after it do not run.
DiscoveryFails(s) ==
    /\ discovery[s] # "idle"
    /\ Upset
    /\ Moves(s, "idle")
    /\ UNCHANGED <<assets, Elsewhere>>

-----------------------------------------------------------------------------
(* media_document_sensor                                                   *)

Ticks(at, ids, new) == mediaTick' = [at |-> at, ids |-> ids, new |-> new]

Outside == <<disk, assets, discovery, encoder, raced>>

\* The stored documents are read; a read that fails is one of no documents, and
\* with no documents the tick is skipped.
TickLoads ==
    /\ mediaTick.at = "idle"
    /\ documents # {}
    /\ Ticks("collect", documents, {})
    /\ UNCHANGED <<Outside, registered, requested, bounds, stranded>>

\* Partitions without a document are deleted; the new documents are those that
\* had no partition before.
TickCollects ==
    /\ mediaTick.at = "collect"
    /\ registered' = registered \cap mediaTick.ids
    /\ LET new == mediaTick.ids \ registered
       IN  IF new = {} THEN mediaTick' = NoTick ELSE Ticks("register", mediaTick.ids, new)
    /\ UNCHANGED <<Outside, requested, bounds, stranded>>

\* Variant: all new documents are registered, not only those of the batch.
AllNew(new, batch) == new

Registered(new, batch) == batch

\* add_dynamic_partitions of the first so many, in the order of the list.
TickRegisters ==
    /\ mediaTick.at = "register"
    /\ \E batch \in SUBSET mediaTick.new :
          /\ Cardinality(batch) = IF Cardinality(mediaTick.new) < MAX_RUNS_PER_TICK
                                  THEN Cardinality(mediaTick.new) ELSE MAX_RUNS_PER_TICK
          /\ registered' = registered \cup Registered(mediaTick.new, batch)
          /\ Ticks("request", mediaTick.ids, batch)
    /\ UNCHANGED <<Outside, requested, bounds, stranded>>

\* The tick is over and its run requests become runs; a run_key that was used
\* before gives none.
TickRequests ==
    /\ mediaTick.at = "request"
    /\ requested' = requested \cup mediaTick.new
    /\ mediaTick' = NoTick
    /\ UNCHANGED <<Outside, registered, bounds, stranded>>

\* The tick raises, times out or its process is killed.
TickDies ==
    /\ mediaTick.at # "idle"
    /\ Upset
    /\ stranded' = IF mediaTick.at = "request" THEN stranded \cup mediaTick.new ELSE stranded
    /\ mediaTick' = NoTick
    /\ UNCHANGED <<Outside, registered, requested>>

-----------------------------------------------------------------------------
(* media_transcode                                                         *)

Does(t, at, todo) ==
    encoder' = [encoder EXCEPT ![t] = [at |-> at, todo |-> todo, path |-> Missing, sole |-> TRUE]]

Beyond == <<assets, discovery, registered, requested, mediaTick, stranded>>

\* Videos above the target are to be transcoded, as they were probed.
TranscodeStarts(t) ==
    /\ encoder[t].at = "idle"
    /\ transcodes < MaxTranscodes /\ transcodes' = transcodes + 1
    /\ Does(t, "next", {m.path : m \in {n \in probes : n.video = "large"}})
    /\ UNCHANGED <<disk, Beyond, changes, upsets, raced>>

\* The transcodings that write a temporary file.
WritersOf(temp) ==
    {t \in Transcode : encoder[t].at = "encode" /\ TempOf[encoder[t].path] = temp}

\* getsize of the input, which raises when it is gone; ffmpeg opens the temporary
\* file and empties it, whoever else is writing it.
EncodeBegins(t, p) ==
    /\ encoder[t].at = "next" /\ p \in encoder[t].todo
    /\ LET others == WritersOf(TempOf[p])
       IN  IF There(p)
           THEN /\ encoder' = [u \in Transcode |->
                      IF u = t THEN [at |-> "encode", todo |-> encoder[t].todo \ {p},
                                     path |-> p, sole |-> others = {}]
                      ELSE [encoder[u] EXCEPT !.sole = @ /\ u \notin others]]
                /\ disk' = [disk EXCEPT ![TempOf[p]] = "part"]
                /\ raced' = IF others = {} THEN raced
                            ELSE raced \cup {p} \cup {encoder[u].path : u \in others}
           ELSE Does(t, "idle", {}) /\ UNCHANGED <<disk, raced>>
    /\ UNCHANGED <<Beyond, bounds>>

\* Variant: what ffmpeg returns is not looked at.
AnyCode(code) == TRUE

Success(code) == code = 0

\* ffmpeg ends.  On success the temporary file takes the place of the input, or the
\* asset raises because someone else has taken it.  The file is complete unless another
\* transcoding, of this input or of one with the same name, has opened it as well: what
\* both have written is the whole of neither.  On failure it is unlinked and the next
\* input has its turn.
EncodeEnds(t) ==
    LET p == encoder[t].path
        temp == TempOf[p]
    IN  /\ encoder[t].at = "encode"
        /\ \E code \in {0, 1} :
              /\ IF code = 0 THEN UNCHANGED bounds ELSE Upset
              /\ LET written == IF code = 0 /\ encoder[t].sole THEN "small" ELSE "part"
                 IN  CASE Success(code) /\ There(temp) ->
                             /\ disk' = [disk EXCEPT ![p] = written, ![temp] = Missing]
                             /\ Does(t, "next", encoder[t].todo)
                       [] Success(code) /\ ~There(temp) ->
                             Does(t, "idle", {}) /\ UNCHANGED disk
                       [] ~Success(code) ->
                             /\ disk' = [disk EXCEPT ![temp] = Missing]
                             /\ Does(t, "next", encoder[t].todo)
        /\ UNCHANGED <<Beyond, raced>>

\* The two hours are over, or the run is killed: the temporary file stays.
EncodeDies(t) ==
    /\ encoder[t].at = "encode"
    /\ Upset
    /\ Does(t, "idle", {})
    /\ UNCHANGED <<disk, Beyond, raced>>

TranscodeEnds(t) ==
    /\ encoder[t].at = "next" /\ encoder[t].todo = {}
    /\ Does(t, "idle", {})
    /\ UNCHANGED <<disk, Beyond, bounds, raced>>

-----------------------------------------------------------------------------
DiscoveryStep(s) == ScheduleTick(s) \/ ScanFiles(s) \/ ProbeFiles(s) \/ MakeDocuments(s)

SensorStep == TickLoads \/ TickCollects \/ TickRegisters \/ TickRequests

TranscodeStep(t) == (\E p \in Path : EncodeBegins(t, p)) \/ EncodeEnds(t) \/ TranscodeEnds(t)

MediaNext ==
    \/ \E p \in Downloads : FileChanges(p)
    \/ \E s \in Scan : DiscoveryStep(s) \/ DiscoveryFails(s)
    \/ SensorStep \/ TickDies
    \/ \E t \in Transcode : TranscodeStarts(t) \/ TranscodeStep(t) \/ EncodeDies(t)

\* The schedule fires every five minutes, and so is the sensor evaluated once it has been
\* switched on; a run goes on.
MediaFairness == /\ \A s \in Scan : WF_mediaVars(DiscoveryStep(s))
                 /\ WF_mediaVars(SensorStep)

MediaSpec == MediaInit /\ [][MediaNext]_mediaVars /\ MediaFairness

-----------------------------------------------------------------------------
(* Properties                                                              *)

MediaTypeOK ==
    /\ disk \in [Path -> {Missing, "large", "small", "part"}]
    /\ listed \subseteq Path /\ {m.path : m \in probes} \subseteq Path
    /\ documents \subseteq {DocumentId[p] : p \in Path}
    /\ discovery \in [Scan -> {"idle", "media_files", "media_metadata", "media_documents"}]
    /\ mediaTick.at \in {"idle", "collect", "register", "request"}
    /\ mediaTick.new \subseteq mediaTick.ids
    /\ mediaTick.at = "request" => mediaTick.new \subseteq registered
    /\ \A t \in Transcode : /\ encoder[t].at \in {"idle", "next", "encode"}
                            /\ encoder[t].at = "encode" => encoder[t].path \in Downloads
    /\ changes \in 0..MaxChanges /\ transcodes \in 0..MaxTranscodes /\ upsets \in 0..MaxUpsets

\* A downloaded file is never replaced by a piece of itself or by what was made of
\* another, whenever ffmpeg fails, is killed or runs out of time and in whatever order
\* transcodings follow each other, unless one overlaps another, of this file or of a file
\* that differs in its extension alone, that writes the same temporary file.
OriginalKept == \A p \in Downloads \ raced : disk[p] # "part"

\* A file that stays is sooner or later requested, whatever the order of the
\* discovery runs and however large the batch it came in, unless the tick that
\* registered it died before its requests became runs.
FilesReachPipeline ==
    \A p \in Downloads :
        There(p) ~> (~There(p) \/ DocumentId[p] \in requested \cup stranded)
=============================================================================
