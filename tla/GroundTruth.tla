----------------------------- MODULE GroundTruth -----------------------------
(***************************************************************************)
(* The active ground truth of the benchmarks (bench/ground-truth): voted   *)
(* by an ensemble of models (tests/benchmark_harness.py), corrected by     *)
(* annotators in the editor of the viewer (viewer/routes/bench.py),        *)
(* migrated from spans relative to a chunk to spans relative to the        *)
(* document (migrate_gt_to_doc_anchored.py).  Each replaces the whole file. *)
(*                                                                         *)
(* The chunks are of one document, and each has one mention, one character *)
(* wide.  Chunking the document again moves the chunks.                    *)
(***************************************************************************)
EXTENDS Python, Naturals, Sequences, FiniteSets

CONSTANTS
    Chunk,      \* 1 .. n, in the order of the file
    Layout,     \* the chunkings: where each chunk begins, None if it is not known
    CHUNK_LEN,
    Editor,     \* annotators with the editor open
    Absent,     \* of a key that is not in a dictionary
    MaxSaves    \* bound on what is written to the file

ASSUME GroundTruthAssumption ==
    /\ 1 \in Chunk /\ Chunk \subseteq Nat
    /\ CHUNK_LEN \in Nat \ {0} /\ MaxSaves \in Nat
    /\ Layout \in Seq([Chunk -> Nat \cup {None}]) /\ Layout # <<>>
    /\ None \notin Nat /\ Absent \notin Nat \cup {None, "set"}

VARIABLES
    layout,     \* the chunking that is stored now
    active,     \* active.json: [marked, entries]
    editor,     \* what each editor has got, or None
    migration,  \* what the script has loaded, or None
    voting,     \* the harness is voting
    saves       \* bound

groundTruthVars == <<layout, active, editor, migration, voting, saves>>

(* An entry has a doc_id and a doc_char_start, which may be absent or null,  *)
(* and the span_start and the doc_char_start of its mention.  History: at is *)
(* where in the document the mention was put; None if that was done, or      *)
(* saved, without the place of its chunk or across a chunking.               *)

Legacy(c, s) == [doc |-> Absent, start |-> Absent, span |-> s, pos |-> None,
                 at |-> IF Layout[1][c] = None THEN None ELSE Layout[1][c] + s]

Voted(place) == [doc |-> "set", start |-> place, span |-> None, pos |-> place, at |-> place]

GroundTruthInit ==
    /\ layout = 1
    /\ active = [marked |-> FALSE, entries |-> [c \in Chunk |-> Legacy(c, CHUNK_LEN - 1)]]
    /\ editor = [e \in Editor |-> None]
    /\ migration = None /\ voting = FALSE
    /\ saves = 0

Save == saves < MaxSaves /\ saves' = saves + 1

\* A span without a place was that of a character of the old chunk.
Unanchored(file) ==
    [file EXCEPT !.entries =
        [c \in Chunk |-> IF file.entries[c].pos # None THEN file.entries[c]
                         ELSE [file.entries[c] EXCEPT !.at = None]]]

\* The chunks are materialized again, by another chunking.
Rechunk ==
    /\ layout < Len(Layout)
    /\ layout' = layout + 1
    /\ active' = Unanchored(active)
    /\ migration' = IF migration = None THEN None ELSE Unanchored(migration)
    /\ editor' = [e \in Editor |-> IF editor[e] = None THEN None
                                   ELSE [editor[e] EXCEPT !.body = Unanchored(@)]]
    /\ UNCHANGED <<voting, saves>>

-----------------------------------------------------------------------------
(* The editor                                                              *)

\* _build_chunk_offset_index: asks for the chunks of the documents that the entries
\* name; they may not be there.
Offsets(entries, readable) ==
    IF readable /\ \E c \in Chunk : entries[c].doc = "set" THEN Layout[layout]
    ELSE [c \in Chunk |-> None]

\* Variant: a mention outside its chunk is moved to its beginning.
ToBeginning(pos, offset) ==
    CASE pos < offset -> 0
      [] pos >= offset + CHUNK_LEN -> 0
      [] OTHER -> pos - offset

\* Variant: a mention outside its chunk keeps its distance.
Unclamped(pos, offset) == pos - offset

InChunk(pos, offset) ==
    IF pos < offset \/ pos >= offset + CHUNK_LEN THEN None ELSE pos - offset

\* _gt_doc_to_chunk_frame.
ToChunkFrame(entries, offset) ==
    [c \in Chunk |->
        [entries[c] EXCEPT !.span =
            IF entries[c].pos = None \/ offset[c] = None THEN @
            ELSE InChunk(entries[c].pos, offset[c])]]

\* _gt_doc_to_doc_frame.
ToDocFrame(entries, offset) ==
    [c \in Chunk |->
        [entries[c] EXCEPT !.doc = "set",
            !.start = IF @ \in {None, Absent} /\ offset[c] # None THEN offset[c] ELSE @,
            !.pos = IF entries[c].span = None \/ offset[c] = None THEN @
                    ELSE offset[c] + entries[c].span]]

GetGroundTruth(e) ==
    /\ editor[e] = None
    /\ \E readable \in BOOLEAN :
         LET offset == Offsets(active.entries, readable) IN
         editor' = [editor EXCEPT ![e] =
             [offset |-> offset, edited |-> {},
              body |-> IF active.entries[1].doc = Absent THEN active
                       ELSE [active EXCEPT !.entries = ToChunkFrame(@, offset)]]]
    /\ UNCHANGED <<layout, active, migration, voting, saves>>

Moved(mention, s, offset) ==
    [mention EXCEPT !.span = s, !.at = IF offset = None THEN None ELSE offset + s]

\* The annotator moves a mention.
EditSpan(e, c, s) ==
    /\ editor[e] # None
    /\ s # editor[e].body.entries[c].span
    /\ LET b == editor[e] IN
       editor' = [editor EXCEPT ![e] =
           [offset |-> b.offset, edited |-> b.edited \cup {c},
            body |-> [b.body EXCEPT !.entries[c] = Moved(@, s, b.offset[c])]]]
    /\ UNCHANGED <<layout, active, migration, voting, saves>>

\* What is saved is where the annotator saw it.
Seen(e, c, offset) ==
    IF offset[c] = None THEN c \notin editor[e].edited ELSE editor[e].offset[c] = offset[c]

\* "Save", or "Save & mark reviewed".
PutGroundTruth(e) ==
    /\ editor[e] # None
    /\ Save
    /\ \E readable, mark \in BOOLEAN :
         LET sent == editor[e].body
             offset == Offsets(sent.entries, readable)
             saved == ToDocFrame(sent.entries, offset)
         IN  active' = [marked |-> sent.marked \/ mark,
                        entries |-> [c \in Chunk |-> IF Seen(e, c, offset) THEN saved[c]
                                                     ELSE [saved[c] EXCEPT !.at = None]]]
    /\ editor' = [editor EXCEPT ![e] = None]
    /\ UNCHANGED <<layout, migration, voting>>

-----------------------------------------------------------------------------
(* The migration and the ensemble                                          *)

\* Of a file whose first chunk has its place nothing is done.
LoadToMigrate ==
    /\ migration = None
    /\ active.entries[1].start \in {None, Absent}
    /\ migration' = active
    /\ UNCHANGED <<layout, active, editor, voting, saves>>

\* Variant: the place of the chunk is not added.
KeepsSpan(s, place) == s

DocPlace(s, place) == place + s

\* migrate_gt_doc: an entry that has both fields, if only as null, is left as it is.
\* Its chunk may be found where the script looks for it, or not.
Migrated(e, found, place) ==
    CASE e.doc # Absent /\ e.start # Absent -> e
      [] ~(e.doc # Absent /\ e.start # Absent) /\ ~found ->
            [e EXCEPT !.doc = None, !.start = None]
      [] ~(e.doc # Absent /\ e.start # Absent) /\ found /\ place = None ->
            [e EXCEPT !.doc = "set", !.start = None]
      [] OTHER -> [e EXCEPT !.doc = "set", !.start = place, !.span = None,
                            !.pos = IF e.span = None THEN None ELSE DocPlace(e.span, place)]

SaveMigrated ==
    /\ migration # None
    /\ Save
    /\ \E found \in BOOLEAN :
         active' = [migration EXCEPT !.entries =
                       [c \in Chunk |-> Migrated(@[c], found, Layout[layout][c])]]
    /\ migration' = None
    /\ UNCHANGED <<layout, editor, voting>>

\* _run_ensemble_gt: not if the file is marked as reviewed.  The voting takes long.
BeginEnsemble ==
    /\ ~voting /\ ~active.marked
    /\ voting' = TRUE
    /\ UNCHANGED <<layout, active, editor, migration, saves>>

SaveEnsemble ==
    /\ voting
    /\ Save
    /\ active' = [marked |-> FALSE, entries |-> [c \in Chunk |-> Voted(Layout[layout][c])]]
    /\ voting' = FALSE
    /\ UNCHANGED <<layout, editor, migration>>

-----------------------------------------------------------------------------
GroundTruthNext ==
    \/ Rechunk \/ LoadToMigrate \/ SaveMigrated \/ BeginEnsemble \/ SaveEnsemble
    \/ \E e \in Editor :
          \/ GetGroundTruth(e) \/ PutGroundTruth(e)
          \/ \E c \in Chunk, s \in 0 .. CHUNK_LEN - 1 : EditSpan(e, c, s)

GroundTruthSpec == GroundTruthInit /\ [][GroundTruthNext]_groundTruthVars

-----------------------------------------------------------------------------
(* Properties                                                              *)

Marking == [doc : {"set", None, Absent}, start : Nat \cup {None, Absent},
            span : 0 .. CHUNK_LEN - 1 \cup {None}, pos : Nat \cup {None}, at : Nat \cup {None}]

File == [marked : BOOLEAN, entries : [Chunk -> Marking]]

\* Spans are those of characters of a chunk, positions are in the document.
GroundTruthTypeOK ==
    /\ layout \in DOMAIN Layout
    /\ active \in File /\ migration \in File \cup {None}
    /\ \A e \in Editor :
          editor[e] # None => /\ editor[e].offset \in [Chunk -> Nat \cup {None}]
                              /\ editor[e].edited \subseteq Chunk
                              /\ editor[e].body \in File
    /\ saves \in 0 .. MaxSaves

\* Whatever is migrated, got, edited and saved, and however the document is chunked in
\* between, a mention is where it was put or has no place; unless it was edited or saved
\* while the place of its chunk was not to be had, or across a new chunking (the two
\* translations of viewer/routes/bench.py, and migrate_gt_to_doc_anchored.py).
MentionsStay ==
    \A c \in Chunk : LET e == active.entries[c]
                     IN  e.pos # None /\ e.at # None => e.pos = e.at
=============================================================================
