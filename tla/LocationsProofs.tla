--------------------------- MODULE LocationsProofs ---------------------------
(***************************************************************************)
(* Proofs about the pipelines of the code locations besides the knowledge  *)
(* graph, for every value of their constants: GroundTruth, LeakDownloads,  *)
(* LeakPages, BillTail with the chunks of BillText, and Transcript, whose  *)
(* chunks the TextSplitter cuts as well.                                   *)
(***************************************************************************)
EXTENDS GroundTruth, LeakDownloads, LeakPages, BillTail, Transcript, FiniteSetTheorems,
        FunctionTheorems, SequenceTheorems, WellFoundedInduction, TLAPS

-----------------------------------------------------------------------------
(* The ground truth                                                        *)

\* The history of a mention and the place it has agree: if it has a position, that is
\* where it was put; if it has only a span, it was put there in the chunk as it is
\* stored now.
AsPut(e, place) ==
    /\ e.pos # None /\ e.at # None => e.pos = e.at
    /\ e.pos = None /\ e.span # None /\ e.at # None /\ place # None => e.at = place + e.span

\* What has a position has the fields that migrate_gt_doc looks for.
Anchored(e) == e.pos # None => e.doc # Absent /\ e.start # Absent

Unmigrated(file) == file.entries[1].doc = Absent => \A c \in Chunk : file.entries[c].pos = None

\* A file as it is stored.
Whole(file, places) ==
    /\ file \in File /\ Unmigrated(file)
    /\ \A c \in Chunk : Anchored(file.entries[c]) /\ AsPut(file.entries[c], places[c])

\* A mention in the editor.  Its span is relative to the place the editor knows.
InEditor(e, edited, offset, place) ==
    /\ Anchored(e)
    /\ ~edited => AsPut(e, place)
    /\ edited => e.span # None
    /\ e.span # None /\ e.at # None /\ offset # None => e.at = offset + e.span

Opened(b, places) ==
    /\ b = [offset |-> b.offset, edited |-> b.edited, body |-> b.body]
    /\ b.offset \in [Chunk -> Nat \cup {None}] /\ b.edited \subseteq Chunk /\ b.body \in File
    /\ \A c \in Chunk : InEditor(b.body.entries[c], c \in b.edited, b.offset[c], places[c])

TruthInv ==
    /\ layout \in DOMAIN Layout /\ saves \in 0 .. MaxSaves
    /\ Whole(active, Layout[layout])
    /\ migration # None => Whole(migration, Layout[layout])
    /\ DOMAIN editor = Editor
    /\ \A e \in Editor : editor[e] # None => Opened(editor[e], Layout[layout])

LEMMA Places ==
  ASSUME NEW n \in DOMAIN Layout
  PROVE  Layout[n] \in [Chunk -> Nat \cup {None}]
BY GroundTruthAssumption

LEMMA TruthInit == GroundTruthInit => TruthInv
<1> SUFFICES ASSUME GroundTruthInit PROVE TruthInv
  OBVIOUS
<1>1. 1 \in DOMAIN Layout /\ Layout[1] \in [Chunk -> Nat \cup {None}]
  BY GroundTruthAssumption
<1>2. ASSUME NEW c \in Chunk
      PROVE  /\ Legacy(c, CHUNK_LEN - 1) \in Marking
             /\ Anchored(Legacy(c, CHUNK_LEN - 1)) /\ AsPut(Legacy(c, CHUNK_LEN - 1), Layout[1][c])
             /\ Legacy(c, CHUNK_LEN - 1).pos = None
  <2>1. CHUNK_LEN - 1 \in 0 .. CHUNK_LEN - 1 /\ Layout[1][c] \in Nat \cup {None}
    BY <1>1, GroundTruthAssumption
  <2>2. QED
    BY <2>1, GroundTruthAssumption DEF Legacy, Marking, Anchored, AsPut
<1>3. active.entries = [c \in Chunk |-> Legacy(c, CHUNK_LEN - 1)] /\ active \in File
  BY <1>2 DEF GroundTruthInit, File
<1>4. Whole(active, Layout[layout])
  BY <1>2, <1>3 DEF Whole, Unmigrated, GroundTruthInit
<1>5. QED
  BY <1>1, <1>4, GroundTruthAssumption DEF GroundTruthInit, TruthInv


\* A new chunking forgets where mentions without a position were put.
LEMMA UnanchoredMentions ==
  ASSUME NEW file \in File
  PROVE  /\ Unanchored(file) \in File
         /\ \A c \in Chunk :
               LET e == Unanchored(file).entries[c] o == file.entries[c]
               IN  /\ e.doc = o.doc /\ e.start = o.start /\ e.span = o.span /\ e.pos = o.pos
                   /\ e.at = IF e.pos # None THEN o.at ELSE None
<1> DEFINE Now(c) == IF file.entries[c].pos # None THEN file.entries[c]
                     ELSE [file.entries[c] EXCEPT !.at = None]
<1>1. file.marked \in BOOLEAN /\ file.entries \in [Chunk -> Marking]
  BY DEF File
<1>2. Unanchored(file) = [marked |-> file.marked, entries |-> [c \in Chunk |-> Now(c)]]
  BY DEF Unanchored, File
<1>3. ASSUME NEW c \in Chunk
      PROVE  /\ Now(c) \in Marking
             /\ Now(c).doc = file.entries[c].doc /\ Now(c).start = file.entries[c].start
             /\ Now(c).span = file.entries[c].span /\ Now(c).pos = file.entries[c].pos
             /\ Now(c).at = IF Now(c).pos # None THEN file.entries[c].at ELSE None
  <2>1. PICK o : o = file.entries[c]
    OBVIOUS
  <2>2. o \in Marking
    BY <1>1, <2>1
  <2>3. Now(c) = IF o.pos # None THEN o ELSE [o EXCEPT !.at = None]
    BY <2>1
  <2>4. QED
    BY <2>1, <2>2, <2>3 DEF Marking
<1> HIDE DEF Now
<1>4. Unanchored(file) \in File
  BY <1>1, <1>2, <1>3 DEF File
<1>5. QED
  BY <1>2, <1>3, <1>4

LEMMA UnanchoredWhole ==
  ASSUME NEW file, NEW places, NEW others, Whole(file, places)
  PROVE  Whole(Unanchored(file), others)
<1>1. PICK f : f = Unanchored(file)
  OBVIOUS
<1>2. /\ f \in File
      /\ \A c \in Chunk : /\ f.entries[c].doc = file.entries[c].doc
                          /\ f.entries[c].start = file.entries[c].start
                          /\ f.entries[c].pos = file.entries[c].pos
                          /\ f.entries[c].at = IF f.entries[c].pos # None
                                               THEN file.entries[c].at ELSE None
  BY <1>1, UnanchoredMentions DEF Whole
<1>3. Unmigrated(f)
  BY <1>2, GroundTruthAssumption DEF Unmigrated, Whole
<1>4. \A c \in Chunk : Anchored(f.entries[c]) /\ AsPut(f.entries[c], others[c])
  BY <1>2 DEF Whole, Anchored, AsPut
<1>5. QED
  BY <1>1, <1>2, <1>3, <1>4 DEF Whole

LEMMA UnanchoredOpened ==
  ASSUME NEW b, NEW places, NEW others, Opened(b, places)
  PROVE  Opened([b EXCEPT !.body = Unanchored(@)], others)
<1>1. PICK f, d : f = Unanchored(b.body) /\ d = [b EXCEPT !.body = Unanchored(@)]
  OBVIOUS
<1>2. /\ f \in File
      /\ \A c \in Chunk : /\ f.entries[c].doc = b.body.entries[c].doc
                          /\ f.entries[c].start = b.body.entries[c].start
                          /\ f.entries[c].span = b.body.entries[c].span
                          /\ f.entries[c].pos = b.body.entries[c].pos
                          /\ f.entries[c].at = IF f.entries[c].pos # None
                                               THEN b.body.entries[c].at ELSE None
  BY <1>1, UnanchoredMentions DEF Opened
<1>3. d = [offset |-> b.offset, edited |-> b.edited, body |-> f]
  BY <1>1 DEF Opened
<1>4. \A c \in Chunk : InEditor(f.entries[c], c \in b.edited, b.offset[c], others[c])
  BY <1>2 DEF Opened, InEditor, Anchored, AsPut
<1>5. QED
  BY <1>1, <1>2, <1>3, <1>4 DEF Opened

LEMMA OffsetsTyped ==
  ASSUME NEW entries, NEW readable, layout \in DOMAIN Layout
  PROVE  /\ Offsets(entries, readable) \in [Chunk -> Nat \cup {None}]
         /\ \A c \in Chunk : Offsets(entries, readable)[c] \in {None, Layout[layout][c]}
BY Places DEF Offsets

\* The span in the chunk is that of the position, if it is in the chunk.
LEMMA ShownWhereItIs ==
  ASSUME NEW c, NEW edited, NEW e \in Marking, NEW place \in Nat \cup {None},
         NEW o \in {None, place}, c \notin edited,
         Anchored(e), AsPut(e, place),
         NEW s, s = IF e.pos = None \/ o = None THEN e.span ELSE InChunk(e.pos, o)
  PROVE  /\ [e EXCEPT !.span = s] \in Marking
         /\ InEditor([e EXCEPT !.span = s], c \in edited, o, place)
<1>1. CASE e.pos = None \/ o = None
  BY <1>1 DEF Marking, Anchored, AsPut, InEditor
<1>2. CASE e.pos # None /\ o # None
  <2>1. e.pos \in Nat /\ o \in Nat /\ CHUNK_LEN \in Nat \ {0}
    BY <1>2, GroundTruthAssumption DEF Marking
  <2>2. /\ s \in 0 .. CHUNK_LEN - 1 \cup {None}
        /\ s # None => o + s = e.pos
    BY <1>2, <2>1, GroundTruthAssumption DEF InChunk
  <2>3. PICK n : n = [e EXCEPT !.span = s]
    OBVIOUS
  <2>4. /\ n \in Marking /\ n.span = s /\ n.pos = e.pos /\ n.at = e.at /\ n.doc = e.doc
        /\ n.start = e.start
    BY <2>2, <2>3 DEF Marking
  <2>5. InEditor(n, c \in edited, o, place)
    BY <1>2, <2>2, <2>4 DEF Anchored, AsPut, InEditor
  <2>6. QED
    BY <2>3, <2>4, <2>5
<1>3. QED
  BY <1>1, <1>2

LEMMA Getting ==
  ASSUME TruthInv, NEW e \in Editor, GetGroundTruth(e)
  PROVE  TruthInv'
<1>1. PICK readable \in BOOLEAN :
        LET offset == Offsets(active.entries, readable) IN
         editor' = [editor EXCEPT ![e] =
             [offset |-> offset, edited |-> {},
              body |-> IF active.entries[1].doc = Absent THEN active
                       ELSE [active EXCEPT !.entries = ToChunkFrame(@, offset)]]]
  BY DEF GetGroundTruth
<1>2. PICK offset, body, places, b :
         /\ offset = Offsets(active.entries, readable)
         /\ body = IF active.entries[1].doc = Absent THEN active
                   ELSE [active EXCEPT !.entries = ToChunkFrame(@, offset)]
         /\ places = Layout[layout]
         /\ b = [offset |-> offset, edited |-> {}, body |-> body]
  OBVIOUS
<1>3. editor' = [editor EXCEPT ![e] = b]
  BY <1>1, <1>2
<1>4. /\ places \in [Chunk -> Nat \cup {None}] /\ offset \in [Chunk -> Nat \cup {None}]
      /\ \A c \in Chunk : offset[c] \in {None, places[c]}
  BY <1>2, Places, OffsetsTyped DEF TruthInv
<1>5. /\ active \in File /\ Unmigrated(active)
      /\ \A c \in Chunk : /\ Anchored(active.entries[c]) /\ AsPut(active.entries[c], places[c])
                          /\ active.entries[c] \in Marking
  BY <1>2 DEF TruthInv, Whole, File
<1>6. Opened(b, places)
  <2>1. CASE active.entries[1].doc = Absent
    <3>1. body = active /\ \A c \in Chunk : active.entries[c].pos = None
      BY <1>2, <1>5, <2>1 DEF Unmigrated
    <3>2. \A c \in Chunk : InEditor(active.entries[c], c \in {}, offset[c], places[c])
      BY <1>4, <1>5, <3>1 DEF Anchored, AsPut, InEditor
    <3>3. QED
      BY <1>2, <1>4, <1>5, <3>1, <3>2 DEF Opened
  <2>2. CASE active.entries[1].doc # Absent
    <3> DEFINE Span(c) == IF active.entries[c].pos = None \/ offset[c] = None
                          THEN active.entries[c].span
                          ELSE InChunk(active.entries[c].pos, offset[c])
    <3>1. \A c \in Chunk :
             /\ [active.entries[c] EXCEPT !.span = Span(c)] \in Marking
             /\ InEditor([active.entries[c] EXCEPT !.span = Span(c)], c \in {}, offset[c], places[c])
      <4>1. TAKE c \in Chunk
      <4>2. PICK m, o, place, s : m = active.entries[c] /\ o = offset[c] /\ place = places[c]
                                  /\ s = Span(c)
        OBVIOUS
      <4>3. /\ m \in Marking /\ place \in Nat \cup {None} /\ o \in {None, place}
            /\ Anchored(m) /\ AsPut(m, place)
            /\ s = IF m.pos = None \/ o = None THEN m.span ELSE InChunk(m.pos, o)
        BY <1>4, <1>5, <4>2
      <4>4. [m EXCEPT !.span = s] \in Marking /\ InEditor([m EXCEPT !.span = s], c \in {}, o, place)
        BY <4>3, ShownWhereItIs
      <4>5. QED
        BY <4>2, <4>4
    <3>2. body = [marked |-> active.marked,
                  entries |-> [c \in Chunk |-> [active.entries[c] EXCEPT !.span = Span(c)]]]
      BY <1>2, <1>5, <2>2 DEF ToChunkFrame, File
    <3> HIDE DEF Span
    <3>3. body \in File
      BY <1>5, <3>1, <3>2 DEF File
    <3>4. \A c \in Chunk : body.entries[c] = [active.entries[c] EXCEPT !.span = Span(c)]
      BY <3>2
    <3>5. \A c \in Chunk : InEditor(body.entries[c], c \in {}, offset[c], places[c])
      BY <3>1, <3>4
    <3>6. QED
      BY <1>2, <1>4, <3>3, <3>5 DEF Opened
  <2>3. QED
    BY <2>1, <2>2
<1>7. QED
  BY <1>2, <1>3, <1>6 DEF TruthInv, GetGroundTruth

\* Where a mention is moved to in the editor it is put, if the editor knows its place.
LEMMA Editing ==
  ASSUME TruthInv, NEW e \in Editor, NEW c \in Chunk, NEW s \in 0 .. CHUNK_LEN - 1,
         EditSpan(e, c, s)
  PROVE  TruthInv'
<1>1. PICK b, places, m : /\ b = editor[e] /\ places = Layout[layout]
                          /\ m = Moved(b.body.entries[c], s, b.offset[c])
  OBVIOUS
<1>2. Opened(b, places) /\ b.body \in File /\ b.offset \in [Chunk -> Nat \cup {None}]
  BY <1>1 DEF TruthInv, EditSpan, Opened
<1>3. s \in Nat /\ s # None /\ None \notin Nat
  BY GroundTruthAssumption
<1>4. /\ m \in Marking /\ m.span = s /\ m.pos = b.body.entries[c].pos
      /\ m.doc = b.body.entries[c].doc /\ m.start = b.body.entries[c].start
      /\ b.offset[c] # None => m.at = b.offset[c] + s
  <2>1. PICK o, offset : o = b.body.entries[c] /\ offset = b.offset[c]
    OBVIOUS
  <2>2. o \in Marking /\ offset \in Nat \cup {None}
    BY <1>2, <2>1 DEF File
  <2>3. PICK at : at = IF offset = None THEN None ELSE offset + s
    OBVIOUS
  <2>4. m = [o EXCEPT !.span = s, !.at = at] /\ at \in Nat \cup {None}
    BY <1>1, <1>3, <2>1, <2>2, <2>3 DEF Moved
  <2>5. QED
    BY <1>3, <2>1, <2>2, <2>3, <2>4 DEF Marking
<1>5. PICK d : /\ d = [offset |-> b.offset, edited |-> b.edited \cup {c},
                       body |-> [marked |-> b.body.marked,
                                 entries |-> [b.body.entries EXCEPT ![c] = m]]]
  OBVIOUS
<1>6. editor' = [editor EXCEPT ![e] = d]
  <2>1. b.body = [marked |-> b.body.marked, entries |-> b.body.entries]
    BY <1>2 DEF File
  <2>2. d.body = [b.body EXCEPT !.entries[c] = m]
    BY <1>5, <2>1
  <2>3. QED
    BY <1>1, <1>5, <2>2 DEF EditSpan
<1>7. Opened(d, places)
  <2>1. /\ d.body \in File /\ d.edited \subseteq Chunk /\ d.offset = b.offset
        /\ d.body.entries[c] = m
        /\ \A k \in Chunk \ {c} : d.body.entries[k] = b.body.entries[k]
    BY <1>2, <1>4, <1>5 DEF Opened, File
  <2>2. InEditor(m, c \in d.edited, b.offset[c], places[c])
    <3>1. c \in d.edited /\ Anchored(b.body.entries[c])
      BY <1>2, <1>5 DEF Opened, InEditor
    <3>2. QED
      BY <1>3, <1>4, <3>1 DEF InEditor, Anchored
  <2>3. ASSUME NEW k \in Chunk, k # c
        PROVE  InEditor(d.body.entries[k], k \in d.edited, d.offset[k], places[k])
    <3>1. k \in d.edited <=> k \in b.edited
      BY <1>5, <2>3
    <3>2. InEditor(b.body.entries[k], k \in b.edited, b.offset[k], places[k])
      BY <1>2 DEF Opened
    <3>3. d.body.entries[k] = b.body.entries[k] /\ d.offset[k] = b.offset[k]
      BY <2>1, <2>3
    <3>4. QED
      BY <3>1, <3>2, <3>3 DEF InEditor
  <2>4. QED
    BY <1>2, <1>5, <2>1, <2>2, <2>3 DEF Opened
<1>8. QED
  BY <1>1, <1>6, <1>7 DEF TruthInv, EditSpan

\* What is saved of a mention: if the annotator saw it where it is now, it has the
\* position where it was put.
Framed(e, o) ==
    [e EXCEPT !.doc = "set",
              !.start = IF e.start \in {None, Absent} /\ o # None THEN o ELSE e.start,
              !.pos = IF e.span = None \/ o = None THEN e.pos ELSE o + e.span]

SavedAs(e, o, known, c, edited) ==
    IF (IF o = None THEN c \notin edited ELSE known = o) THEN Framed(e, o)
    ELSE [Framed(e, o) EXCEPT !.at = None]

LEMMA SavedWhereItIs ==
  ASSUME NEW e \in Marking, NEW place \in Nat \cup {None}, NEW o \in {None, place},
         NEW c, NEW edited, NEW known, InEditor(e, c \in edited, known, place)
  PROVE  /\ SavedAs(e, o, known, c, edited) \in Marking
         /\ SavedAs(e, o, known, c, edited).doc = "set"
         /\ Anchored(SavedAs(e, o, known, c, edited))
         /\ AsPut(SavedAs(e, o, known, c, edited), place)
<1> PICK start, pos, m, n :
      /\ start = IF e.start \in {None, Absent} /\ o # None THEN o ELSE e.start
      /\ pos = IF e.span = None \/ o = None THEN e.pos ELSE o + e.span
      /\ m = [e EXCEPT !.doc = "set", !.start = start, !.pos = pos]
      /\ n = IF (IF o = None THEN c \notin edited ELSE known = o) THEN m
             ELSE [m EXCEPT !.at = None]
  OBVIOUS
<1>1. /\ None \notin Nat /\ Absent \notin Nat \cup {None, "set"} /\ CHUNK_LEN \in Nat \ {0}
      /\ o \in Nat \cup {None} /\ e.span \in Nat \cup {None}
  BY GroundTruthAssumption DEF Marking
<1>2. pos \in Nat \cup {None} /\ start \in Nat \cup {None, Absent}
  BY <1>1 DEF Marking
<1>3. m \in Marking /\ m.doc = "set" /\ m.start = start /\ m.pos = pos
      /\ m.span = e.span /\ m.at = e.at
  BY <1>2 DEF Marking
<1>4. /\ n \in Marking /\ n.doc = "set" /\ n.start = start /\ n.pos = pos /\ n.span = e.span
      /\ n.at = IF (IF o = None THEN c \notin edited ELSE known = o) THEN e.at ELSE None
  <2>1. CASE n = m /\ (IF o = None THEN c \notin edited ELSE known = o)
    BY <1>3, <2>1
  <2>2. CASE n = [m EXCEPT !.at = None] /\ ~(IF o = None THEN c \notin edited ELSE known = o)
    BY <1>3, <2>2, ZenonT(40) DEF Marking
  <2>3. QED
    BY <2>1, <2>2
<1>5. Anchored(n)
  BY <1>1, <1>4 DEF InEditor, Anchored
<1>6. AsPut(n, place)
  <2>1. CASE n.at = None
    BY <2>1 DEF AsPut
  <2>2. CASE o = None /\ c \notin edited
    <3>1. AsPut(e, place) /\ pos = e.pos
      BY <2>2 DEF InEditor
    <3>2. QED
      BY <1>4, <2>2, <3>1 DEF AsPut
  <2>3. CASE known = o /\ o # None /\ e.span = None
    <3>1. pos = e.pos /\ c \notin edited
      BY <2>3 DEF InEditor
    <3>2. AsPut(e, place)
      BY <3>1 DEF InEditor
    <3>3. QED
      BY <1>4, <2>3, <3>1, <3>2 DEF AsPut
  <2>4. CASE known = o /\ o # None /\ e.span # None
    <3>1. pos = o + e.span /\ pos # None
      BY <1>1, <2>4
    <3>2. e.at # None => e.at = o + e.span
      BY <2>4, <3>1 DEF InEditor
    <3>3. QED
      BY <1>4, <2>4, <3>1, <3>2 DEF AsPut
  <2>5. QED
    BY <1>4, <2>1, <2>2, <2>3, <2>4
<1>7. n = SavedAs(e, o, known, c, edited)
  BY DEF SavedAs, Framed
<1>8. QED
  BY <1>4, <1>5, <1>6, <1>7

LEMMA Putting ==
  ASSUME TruthInv, NEW e \in Editor, PutGroundTruth(e)
  PROVE  TruthInv'
<1>1. PICK readable \in BOOLEAN, mark \in BOOLEAN :
         LET sent == editor[e].body
             offset == Offsets(sent.entries, readable)
             saved == ToDocFrame(sent.entries, offset)
         IN  active' = [marked |-> sent.marked \/ mark,
                        entries |-> [c \in Chunk |-> IF Seen(e, c, offset) THEN saved[c]
                                                     ELSE [saved[c] EXCEPT !.at = None]]]
  BY DEF PutGroundTruth
<1>2. PICK b, places, offset : /\ b = editor[e] /\ places = Layout[layout]
                               /\ offset = Offsets(b.body.entries, readable)
  OBVIOUS
<1>3. /\ Opened(b, places) /\ b.body \in File /\ b.offset \in [Chunk -> Nat \cup {None}]
      /\ places \in [Chunk -> Nat \cup {None}] /\ offset \in [Chunk -> Nat \cup {None}]
      /\ \A c \in Chunk : offset[c] \in {None, places[c]}
  BY <1>2, Places, OffsetsTyped DEF TruthInv, PutGroundTruth, Opened
<1> DEFINE Saved(c) == SavedAs(b.body.entries[c], offset[c], b.offset[c], c, b.edited)
<1>4. active' = [marked |-> b.body.marked \/ mark, entries |-> [c \in Chunk |-> Saved(c)]]
  <2>1. active' = [marked |-> b.body.marked \/ mark,
                   entries |-> [c \in Chunk |->
                                   IF Seen(e, c, offset) THEN ToDocFrame(b.body.entries, offset)[c]
                                   ELSE [ToDocFrame(b.body.entries, offset)[c] EXCEPT !.at = None]]]
    BY <1>1, <1>2
  <2>2. ASSUME NEW c \in Chunk
        PROVE  (IF Seen(e, c, offset) THEN ToDocFrame(b.body.entries, offset)[c]
                ELSE [ToDocFrame(b.body.entries, offset)[c] EXCEPT !.at = None]) = Saved(c)
    <3>1. ToDocFrame(b.body.entries, offset)[c] = Framed(b.body.entries[c], offset[c])
      BY DEF ToDocFrame, Framed
    <3>2. Seen(e, c, offset) <=> IF offset[c] = None THEN c \notin b.edited
                                 ELSE b.offset[c] = offset[c]
      BY <1>2 DEF Seen
    <3>3. QED
      BY <3>1, <3>2 DEF SavedAs
  <2> HIDE DEF Saved
  <2>3. QED
    BY <2>1, <2>2
<1>5. ASSUME NEW c \in Chunk
      PROVE  /\ Saved(c) \in Marking /\ Saved(c).doc = "set"
             /\ Anchored(Saved(c)) /\ AsPut(Saved(c), places[c])
  <2>1. PICK m, o, place, known : /\ m = b.body.entries[c] /\ o = offset[c]
                                  /\ place = places[c] /\ known = b.offset[c]
    OBVIOUS
  <2> PICK edited : edited = b.edited
    OBVIOUS
  <2>2. m \in Marking /\ place \in Nat \cup {None} /\ o \in {None, place}
    BY <1>3, <2>1 DEF File
  <2>3. InEditor(m, c \in edited, known, place)
    BY <1>3, <2>1 DEF Opened
  <2>4. /\ SavedAs(m, o, known, c, edited) \in Marking
        /\ SavedAs(m, o, known, c, edited).doc = "set"
        /\ Anchored(SavedAs(m, o, known, c, edited))
        /\ AsPut(SavedAs(m, o, known, c, edited), place)
    BY <2>2, <2>3, SavedWhereItIs
  <2>5. QED
    BY <2>1, <2>4
<1> HIDE DEF Saved
<1>6. Whole(active, places)'
  <2>1. active' \in File /\ \A c \in Chunk : active'.entries[c] = Saved(c)
    BY <1>3, <1>4, <1>5 DEF File
  <2>2. active'.entries[1].doc = "set"
    BY <1>5, <2>1, GroundTruthAssumption
  <2>3. QED
    BY <1>2, <1>5, <2>1, <2>2, GroundTruthAssumption DEF Whole, Unmigrated
<1>7. editor' = [editor EXCEPT ![e] = None] /\ UNCHANGED <<layout, migration>>
      /\ saves' \in 0 .. MaxSaves
  BY GroundTruthAssumption DEF PutGroundTruth, Save, TruthInv
<1>8. QED
  BY <1>2, <1>6, <1>7 DEF TruthInv

LEMMA Migrating ==
  ASSUME NEW e \in Marking, NEW place \in Nat \cup {None}, NEW found \in BOOLEAN,
         Anchored(e), AsPut(e, place)
  PROVE  /\ Migrated(e, found, place) \in Marking /\ Migrated(e, found, place).doc # Absent
         /\ Anchored(Migrated(e, found, place)) /\ AsPut(Migrated(e, found, place), place)
<1> PICK n : n = Migrated(e, found, place)
  OBVIOUS
<1>0. /\ None \notin Nat /\ Absent \notin Nat \cup {None, "set"} /\ CHUNK_LEN \in Nat \ {0}
      /\ e.span \in Nat \cup {None}
  BY GroundTruthAssumption DEF Marking
<1>1. CASE e.doc # Absent /\ e.start # Absent
  BY <1>1 DEF Migrated
<1>2. CASE ~(e.doc # Absent /\ e.start # Absent)
  <2>1. e.pos = None
    BY <1>2 DEF Anchored
  <2>2. CASE ~found
    <3>1. n = [e EXCEPT !.doc = None, !.start = None]
      BY <1>2, <2>2 DEF Migrated
    <3>2. /\ n \in Marking /\ n.doc = None /\ n.pos = None /\ n.span = e.span /\ n.at = e.at
      BY <2>1, <3>1 DEF Marking
    <3>3. QED
      BY <1>0, <2>1, <3>2 DEF Anchored, AsPut
  <2>3. CASE found /\ place = None
    <3>1. n = [e EXCEPT !.doc = "set", !.start = None]
      BY <1>2, <2>3 DEF Migrated
    <3>2. /\ n \in Marking /\ n.doc = "set" /\ n.pos = None /\ n.span = e.span /\ n.at = e.at
      BY <2>1, <3>1 DEF Marking
    <3>3. QED
      BY <1>0, <2>1, <3>2 DEF Anchored, AsPut
  <2>4. CASE found /\ place # None
    <3>1. PICK pos : pos = IF e.span = None THEN None ELSE DocPlace(e.span, place)
      OBVIOUS
    <3>2. pos \in Nat \cup {None} /\ (e.span # None => pos = place + e.span)
      BY <1>0, <2>4, <3>1 DEF DocPlace
    <3>3. n = [e EXCEPT !.doc = "set", !.start = place, !.span = None, !.pos = pos]
      BY <1>2, <2>4, <3>1 DEF Migrated
    <3>4. /\ n \in Marking /\ n.doc = "set" /\ n.start = place /\ n.pos = pos /\ n.span = None
          /\ n.at = e.at
      BY <2>4, <3>2, <3>3 DEF Marking
    <3>5. pos # None => e.span # None
      BY <3>1
    <3>6. QED
      BY <1>0, <2>1, <2>4, <3>2, <3>4, <3>5 DEF Anchored, AsPut
  <2>5. QED
    BY <2>2, <2>3, <2>4
<1>3. QED
  BY <1>1, <1>2

LEMMA SavingMigrated ==
  ASSUME TruthInv, SaveMigrated
  PROVE  TruthInv'
<1>1. PICK found \in BOOLEAN :
        active' = [migration EXCEPT !.entries =
                       [c \in Chunk |-> Migrated(@[c], found, Layout[layout][c])]]
  BY DEF SaveMigrated
<1>2. PICK file, places : file = migration /\ places = Layout[layout]
  OBVIOUS
<1>3. Whole(file, places) /\ places \in [Chunk -> Nat \cup {None}]
  BY <1>2, Places DEF TruthInv, SaveMigrated
<1>4. active' = [marked |-> file.marked,
                 entries |-> [c \in Chunk |-> Migrated(file.entries[c], found, places[c])]]
  BY <1>1, <1>2, <1>3 DEF Whole, File
<1>5. ASSUME NEW c \in Chunk
      PROVE  LET m == Migrated(file.entries[c], found, places[c])
             IN  m \in Marking /\ m.doc # Absent /\ Anchored(m) /\ AsPut(m, places[c])
  <2>1. PICK e, place : e = file.entries[c] /\ place = places[c]
    OBVIOUS
  <2>2. e \in Marking /\ place \in Nat \cup {None} /\ Anchored(e) /\ AsPut(e, place)
    BY <1>3, <2>1 DEF Whole, File
  <2>3. LET m == Migrated(e, found, place)
        IN  m \in Marking /\ m.doc # Absent /\ Anchored(m) /\ AsPut(m, place)
    BY <2>2, Migrating
  <2>4. QED
    BY <2>1, <2>3
<1>6. Whole(active, places)'
  <2>1. /\ active' \in File
        /\ \A c \in Chunk : active'.entries[c] = Migrated(file.entries[c], found, places[c])
    BY <1>3, <1>4, <1>5 DEF Whole, File
  <2>2. active'.entries[1].doc # Absent
    BY <1>5, <2>1, GroundTruthAssumption
  <2>3. QED
    BY <1>2, <1>5, <2>1, <2>2 DEF Whole, Unmigrated, SaveMigrated
<1>7. UNCHANGED <<layout, editor>> /\ migration' = None /\ saves' \in 0 .. MaxSaves
  BY GroundTruthAssumption DEF SaveMigrated, Save, TruthInv
<1>8. QED
  BY <1>2, <1>6, <1>7 DEF TruthInv

LEMMA SavingEnsemble ==
  ASSUME TruthInv, SaveEnsemble
  PROVE  TruthInv'
<1>1. PICK places : places = Layout[layout]
  OBVIOUS
<1>2. places \in [Chunk -> Nat \cup {None}]
  BY <1>1, Places DEF TruthInv
<1>3. ASSUME NEW place \in Nat \cup {None}
      PROVE  /\ Voted(place) \in Marking /\ Voted(place).doc = "set"
             /\ Anchored(Voted(place)) /\ AsPut(Voted(place), place)
  BY <1>3, GroundTruthAssumption DEF Voted, Marking, Anchored, AsPut
<1>4. active' = [marked |-> FALSE, entries |-> [c \in Chunk |-> Voted(places[c])]]
  BY <1>1 DEF SaveEnsemble
<1>5. /\ active' \in File
      /\ \A c \in Chunk : /\ active'.entries[c] = Voted(places[c])
                          /\ places[c] \in Nat \cup {None}
  BY <1>2, <1>3, <1>4 DEF File
<1>6. Whole(active, places)'
  <2>1. active'.entries[1].doc = "set"
    <3>1. places[1] \in Nat \cup {None} /\ active'.entries[1] = Voted(places[1])
      BY <1>5, GroundTruthAssumption
    <3>2. QED
      BY <1>3, <3>1
  <2>2. QED
    BY <1>1, <1>3, <1>5, <2>1, GroundTruthAssumption DEF Whole, Unmigrated, SaveEnsemble
<1>7. UNCHANGED <<layout, editor, migration>> /\ saves' \in 0 .. MaxSaves
  BY GroundTruthAssumption DEF SaveEnsemble, Save, TruthInv
<1>8. QED
  BY <1>1, <1>6, <1>7 DEF TruthInv

LEMMA Rechunking ==
  ASSUME TruthInv, Rechunk
  PROVE  TruthInv'
<1>1. layout' \in DOMAIN Layout
  BY GroundTruthAssumption DEF TruthInv, Rechunk
<1>2. Whole(active, Layout[layout])'
  BY UnanchoredWhole DEF TruthInv, Rechunk
<1>3. (migration # None => Whole(migration, Layout[layout]))'
  BY UnanchoredWhole DEF TruthInv, Rechunk
<1>4. ASSUME NEW e \in Editor, editor'[e] # None
      PROVE  Opened(editor'[e], Layout[layout'])
  <2>1. editor[e] # None /\ editor'[e] = [editor[e] EXCEPT !.body = Unanchored(@)]
    BY <1>4 DEF Rechunk
  <2>2. PICK b : b = editor[e]
    OBVIOUS
  <2>3. Opened(b, Layout[layout])
    BY <2>1, <2>2 DEF TruthInv
  <2>4. Opened([b EXCEPT !.body = Unanchored(@)], Layout[layout'])
    BY <2>3, UnanchoredOpened
  <2>5. QED
    BY <2>1, <2>2, <2>4
<1>5. DOMAIN editor' = Editor /\ saves' \in 0 .. MaxSaves
  BY DEF Rechunk, TruthInv
<1>6. QED
  BY <1>1, <1>2, <1>3, <1>4, <1>5 DEF TruthInv

LEMMA TruthNext ==
  ASSUME TruthInv, [GroundTruthNext]_groundTruthVars
  PROVE  TruthInv'
<1>1. CASE UNCHANGED groundTruthVars
  BY <1>1 DEF TruthInv, groundTruthVars, Whole, Unmigrated
<1>2. CASE LoadToMigrate
  BY <1>2 DEF TruthInv, LoadToMigrate, Whole, Unmigrated
<1>3. CASE BeginEnsemble
  BY <1>3 DEF TruthInv, BeginEnsemble, Whole, Unmigrated
<1>4. QED
  BY <1>1, <1>2, <1>3, Rechunking, SavingMigrated, SavingEnsemble, Getting, Putting, Editing
     DEF GroundTruthNext

LEMMA TruthTyped == TruthInv => GroundTruthTypeOK
<1> SUFFICES ASSUME TruthInv PROVE GroundTruthTypeOK
  OBVIOUS
<1>1. active \in File /\ (migration # None => migration \in File)
  BY DEF TruthInv, Whole
<1>2. \A e \in Editor : editor[e] # None => Opened(editor[e], Layout[layout])
  BY DEF TruthInv
<1>3. QED
  BY <1>1, <1>2 DEF TruthInv, GroundTruthTypeOK, Opened

LEMMA TruthMentions == TruthInv => MentionsStay
BY DEF TruthInv, Whole, AsPut, MentionsStay

\* Whatever chunkings, editors and migrations there are and however they interleave, a
\* mention of the ground truth keeps the position where it was put, but for what was
\* edited or saved without the place of its chunk.
THEOREM MentionsAlwaysStay == GroundTruthSpec => []MentionsStay
BY TruthInit, TruthNext, TruthMentions, PTL DEF GroundTruthSpec

-----------------------------------------------------------------------------
(* The files of open-leaks: what is parsed of cables                       *)

\* A line is taken, in the same way throughout: the context plays no role.
Taking(ctx, acc, line) == TakeLine(acc, line)

Lines == INSTANCE FoldFacts WITH Op <- Taking

\* A file of cables that is whole: no line of it is a hole, and each cable has one
\* first line.
WholeLines(lines) ==
    /\ lines \in Seq(ToSet(lines)) /\ Hole \notin ToSet(lines)
    /\ \A k \in DOMAIN lines : lines[k].first \in BOOLEAN
    /\ \A k, m \in Firsts(lines) : lines[k].id = lines[m].id => k = m

\* The cable that begins at a line, and its last line.
LastOf(lines, k) ==
    LET later == {m \in Firsts(lines) : m > k}
    IN  IF later = {} THEN Len(lines)
        ELSE (CHOOSE m \in later : \A n \in later : m <= n) - 1

CableAt(lines, k) == [id |-> lines[k].id, lines |-> LastOf(lines, k) - k + 1]

NoneTwice(s) == \A i, j \in DOMAIN s : s[i] = s[j] => i = j

LEMMA CablesAre ==
  ASSUME NEW lines
  PROVE  CablesOf(lines) = {CableAt(lines, k) : k \in Firsts(lines)}
BY DEF CablesOf, CableAt, LastOf

\* Nothing begins behind b until n, and then something does or the file ends.
LEMMA LastLine ==
  ASSUME NEW lines, lines \in Seq(ToSet(lines)), NEW b \in 1..Len(lines), NEW n \in b..Len(lines),
         \A m \in (b + 1)..n : m \notin Firsts(lines),
         n = Len(lines) \/ n + 1 \in Firsts(lines)
  PROVE  LastOf(lines, b) = n
<1> DEFINE later == {m \in Firsts(lines) : m > b}
<1>1. Len(lines) \in Nat /\ \A m \in Firsts(lines) : m \in Nat /\ 1 <= m /\ m <= Len(lines)
  BY DEF Firsts
<1>2. \A m \in later : m > n
  BY <1>1
<1>3. CASE n + 1 \in Firsts(lines)
  <2>1. n + 1 \in later /\ \A m \in later : n + 1 <= m
    BY <1>1, <1>2, <1>3
  <2>2. later \subseteq Nat
    BY <1>1
  <2> HIDE DEF later
  <2>3. \A m \in later : (\A k \in later : m <= k) => m = n + 1
    BY <2>1, <2>2
  <2>4. (CHOOSE m \in later : \A k \in later : m <= k) = n + 1
    BY <2>1, <2>3
  <2>5. LastOf(lines, b) = IF later = {} THEN Len(lines)
                           ELSE (CHOOSE m \in later : \A k \in later : m <= k) - 1
    BY DEF LastOf, later
  <2>6. n \in Int /\ later # {}
    BY <1>1, <2>1
  <2>7. LastOf(lines, b) = (n + 1) - 1
    BY <2>4, <2>5, <2>6
  <2>8. QED
    BY <2>6, <2>7
<1>4. CASE n = Len(lines)
  <2>1. later = {}
    BY <1>1, <1>2, <1>4
  <2>2. QED
    BY <1>4, <2>1 DEF LastOf
<1>5. QED
  BY <1>3, <1>4

\* The lines since b are those of the cable that is being read, or there is none yet.
Since(a, lines, k, b) ==
    /\ a.current \in Seq(ToSet(lines)) /\ Len(a.current) = k - b + 1
    /\ k >= b => a.current[1] = lines[b]
    /\ \A m \in (b + 1)..k : m \notin Firsts(lines)
    /\ ToSet(a.cables) = {CableAt(lines, m) : m \in {n \in Firsts(lines) : n < b}}

\* What there is after k lines.
Parsed(a, lines, k) ==
    /\ a = [cables |-> a.cables, current |-> a.current, stop |-> a.stop]
    /\ a.cables \in Seq(CablesOf(lines)) /\ NoneTwice(a.cables)
    /\ a.stop = Limited(Len(a.cables))
    /\ ~a.stop => \E b \in 1..(k + 1) : (b <= k \/ k = 0) /\ Since(a, lines, k, b)

LEMMA NoneFirst ==
  ASSUME NEW lines, WholeLines(lines), NEW k \in DOMAIN lines, ~lines[k].first
  PROVE  k \notin Firsts(lines)
BY DEF Firsts

\* The cable that was being read is flushed at the next one, and at the end.
LEMMA Flushed ==
  ASSUME NEW lines, WholeLines(lines), NEW k \in 1..Len(lines), NEW a, Parsed(a, lines, k),
         ~a.stop, k = Len(lines) \/ k + 1 \in Firsts(lines)
  PROVE  /\ Flush(a) \in Seq(CablesOf(lines)) /\ NoneTwice(Flush(a))
         /\ ToSet(Flush(a)) = {CableAt(lines, m) : m \in {n \in Firsts(lines) : n < k + 1}}
<1>1. PICK b \in 1..k : Since(a, lines, k, b)
  BY DEF Parsed
<1>2. /\ Len(lines) \in Nat /\ DOMAIN lines = 1..Len(lines)
      /\ \A m \in Firsts(lines) : m \in Nat /\ 1 <= m /\ m <= Len(lines)
  BY DEF WholeLines, Firsts
<1>ints. k \in Nat /\ b \in Nat /\ b <= k /\ 1 <= b /\ k <= Len(lines) /\ Firsts(lines) \subseteq Nat
  <2>1. PICK top \in Nat : top = Len(lines)
    BY <1>2
  <2>2. k \in 1..top
    BY <2>1
  <2>3. k \in Nat /\ 1 <= k /\ k <= top
    BY <2>2
  <2>4. b \in Nat /\ b <= k /\ 1 <= b
    BY <2>3
  <2>5. Firsts(lines) \subseteq Nat
    BY <1>2
  <2>6. QED
    BY <2>1, <2>3, <2>4, <2>5
<1>3. PICK c, had : c = a.current /\ had = a.cables
  OBVIOUS
<1>4. /\ c # <<>> /\ Head(c) = lines[b] /\ Len(c) = k - b + 1 /\ b \in DOMAIN lines
      /\ had \in Seq(CablesOf(lines)) /\ NoneTwice(had)
      /\ ToSet(had) = {CableAt(lines, m) : m \in {n \in Firsts(lines) : n < b}}
  <2>1. /\ c \in Seq(ToSet(lines)) /\ Len(c) = k - b + 1 /\ c[1] = lines[b]
        /\ ToSet(had) = {CableAt(lines, m) : m \in {n \in Firsts(lines) : n < b}}
    BY <1>1, <1>3 DEF Since
  <2>2. had \in Seq(CablesOf(lines)) /\ NoneTwice(had)
    BY <1>3 DEF Parsed
  <2>3. c # <<>> /\ b \in DOMAIN lines
    <3>1. PICK n, top : n = Len(c) /\ top = Len(lines)
      OBVIOUS
    <3>2. n = k - b + 1 /\ top \in Nat /\ k <= top
      BY <1>ints, <1>2, <2>1, <3>1
    <3>3. n >= 1 /\ b \in 1..top
      BY <1>ints, <3>2
    <3>4. c # <<>>
      <4>1. Len(<<>>) = 0
        OBVIOUS
      <4>2. QED
        BY <3>1, <3>3, <4>1
    <3>5. DOMAIN lines = 1..top
      BY <1>2, <3>1
    <3>6. QED
      BY <3>3, <3>4, <3>5
  <2>4. Head(c) = c[1]
    BY <2>1, <2>3
  <2>5. QED
    BY <2>1, <2>2, <2>3, <2>4
<1>5. \A n \in Firsts(lines) : n < k + 1 => n < b \/ n = b
  <2> SUFFICES ASSUME NEW n \in Firsts(lines), n < k + 1, ~(n < b), n # b PROVE FALSE
    OBVIOUS
  <2>1. n \in (b + 1)..k
    BY <1>ints
  <2>2. QED
    BY <1>1, <2>1 DEF Since
<1>6. CASE lines[b].first
  <2>1. b \in Firsts(lines)
    BY <1>4, <1>6 DEF Firsts
  <2>2. LastOf(lines, b) = k
    <3>0. PICK top \in Nat : top = Len(lines) /\ k <= top
      BY <1>ints, <1>2
    <3>1. lines \in Seq(ToSet(lines)) /\ b \in 1..Len(lines) /\ k \in b..Len(lines)
      <4>1. b \in 1..top /\ k \in b..top
        BY <1>ints, <3>0
      <4>2. QED
        BY <3>0, <4>1 DEF WholeLines
    <3>2. \A m \in (b + 1)..k : m \notin Firsts(lines)
      BY <1>1 DEF Since
    <3>3. QED
      BY <3>1, <3>2, LastLine
  <2>3. PICK x : x = CableAt(lines, b)
    OBVIOUS
  <2>4. x = [id |-> lines[b].id, lines |-> k - b + 1]
    BY <2>2, <2>3 DEF CableAt
  <2>5. Flush(a) = Append(had, x)
    BY <1>3, <1>4, <1>6, <2>4 DEF Flush
  <2>6. x \in CablesOf(lines)
    BY <2>1, <2>3, CablesAre
  <2>7. x \notin ToSet(had)
    <3> SUFFICES ASSUME NEW m \in Firsts(lines), m < b, CableAt(lines, m) = x PROVE FALSE
      BY <1>4
    <3>1. lines[m].id = lines[b].id
      BY <2>3 DEF CableAt
    <3>2. m = b
      BY <2>1, <3>1 DEF WholeLines
    <3>3. QED
      BY <1>1, <3>2
  <2>8. PICK now : now = Append(had, x)
    OBVIOUS
  <2>9. /\ now \in Seq(CablesOf(lines)) /\ Len(had) \in Nat /\ DOMAIN had = 1..Len(had)
        /\ DOMAIN now = 1..(Len(had) + 1)
        /\ \A i \in 1..Len(had) : now[i] = had[i]
        /\ now[Len(had) + 1] = x
    BY <1>4, <2>6, <2>8
  <2>10. \A i \in 1..Len(had) : had[i] # x
    BY <2>7, <2>9 DEF ToSet
  <2>11. NoneTwice(now)
    BY <1>4, <2>9, <2>10 DEF NoneTwice
  <2>12. ToSet(now) = ToSet(had) \cup {x}
    BY <2>9 DEF ToSet
  <2>13. {CableAt(lines, m) : m \in {n \in Firsts(lines) : n < k + 1}}
           = {CableAt(lines, m) : m \in {n \in Firsts(lines) : n < b}} \cup {x}
    <3>1. {n \in Firsts(lines) : n < k + 1} = {n \in Firsts(lines) : n < b} \cup {b}
      <4>1. \A n \in Firsts(lines) : n < b => n < k + 1
        BY <1>ints
      <4>2. b < k + 1
        BY <1>ints
      <4>3. QED
        BY <1>5, <2>1, <4>1, <4>2
    <3>2. QED
      BY <2>3, <3>1
  <2>14. QED
    BY <1>4, <2>5, <2>8, <2>9, <2>11, <2>12, <2>13
<1>7. CASE ~lines[b].first
  <2>1. Flush(a) = had
    BY <1>3, <1>4, <1>7 DEF Flush
  <2>2. b \notin Firsts(lines)
    BY <1>4, <1>7, NoneFirst
  <2>3. {n \in Firsts(lines) : n < k + 1} = {n \in Firsts(lines) : n < b}
    <3>1. \A n \in Firsts(lines) : n < b => n < k + 1
      BY <1>ints
    <3>2. QED
      BY <1>5, <2>2, <3>1
  <2>4. QED
    BY <1>4, <2>1, <2>3
<1>8. QED
  BY <1>4, <1>6, <1>7 DEF WholeLines

LEMMA ParsedNext ==
  ASSUME NEW lines, WholeLines(lines), NEW k \in Nat, k + 1 \in 1..Len(lines),
         NEW a, Parsed(a, lines, k)
  PROVE  Parsed(TakeLine(a, lines[k + 1]), lines, k + 1)
<1>1. PICK line, t : line = lines[k + 1] /\ t = TakeLine(a, lines[k + 1])
  OBVIOUS
<1>2. /\ Len(lines) \in Nat /\ DOMAIN lines = 1..Len(lines) /\ k + 1 \in DOMAIN lines
      /\ line \in ToSet(lines) /\ line # Hole /\ line.first \in BOOLEAN
      /\ \A m \in Firsts(lines) : m \in Nat /\ 1 <= m /\ m <= Len(lines)
  BY <1>1 DEF WholeLines, ToSet, Firsts
<1>3. CASE a.stop
  <2>1. t = a
    BY <1>1, <1>3 DEF TakeLine
  <2>2. QED
    BY <1>1, <1>3, <2>1 DEF Parsed
<1>4. CASE ~a.stop /\ line.first /\ a.current # <<>>
  <2>1. PICK b \in 1..(k + 1) : (b <= k \/ k = 0) /\ Since(a, lines, k, b)
    BY <1>4 DEF Parsed
  <2>2. k # 0
    <3>1. CASE k = 0
      <4>1. b = 1 /\ Len(a.current) = k - b + 1 /\ a.current \in Seq(ToSet(lines))
        BY <2>1, <3>1 DEF Since
      <4>2. Len(a.current) = 0
        BY <3>1, <4>1
      <4>3. a.current = <<>>
        BY <4>1, <4>2
      <4>4. QED
        BY <1>4, <4>3
    <3>2. QED
      BY <3>1
  <2>3. k \in 1..Len(lines) /\ k + 1 \in Firsts(lines)
    BY <1>1, <1>2, <1>4, <2>2 DEF Firsts
  <2>4. PICK now : now = Flush(a)
    OBVIOUS
  <2>5. /\ now \in Seq(CablesOf(lines)) /\ NoneTwice(now)
        /\ ToSet(now) = {CableAt(lines, m) : m \in {n \in Firsts(lines) : n < k + 1}}
    BY <1>4, <2>3, <2>4, Flushed
  <2>6. t = [cables |-> now, current |-> <<line>>, stop |-> Limited(Len(now))]
    BY <1>1, <1>2, <1>4, <2>4 DEF TakeLine
  <2>7. t.cables = now /\ t.current = <<line>> /\ t.stop = Limited(Len(now))
    BY <2>6
  <2>8. <<line>> \in Seq(ToSet(lines)) /\ Len(<<line>>) = 1 /\ <<line>>[1] = lines[k + 1]
    BY <1>1, <1>2
  <2>9. Since(t, lines, k + 1, k + 1)
    <3>1. ((k + 1) + 1)..(k + 1) = {} /\ (k + 1) - (k + 1) + 1 = 1
      OBVIOUS
    <3>2. QED
      BY <2>5, <2>7, <2>8, <3>1 DEF Since
  <2>10. k + 1 \in 1..((k + 1) + 1) /\ k + 1 <= k + 1
    OBVIOUS
  <2>11. Parsed(t, lines, k + 1)
    BY <2>5, <2>6, <2>7, <2>9, <2>10 DEF Parsed
  <2>12. QED
    BY <1>1, <2>11
<1>5. CASE ~a.stop /\ ~(line.first /\ a.current # <<>>)
  <2>1. PICK b \in 1..(k + 1) : (b <= k \/ k = 0) /\ Since(a, lines, k, b)
    BY <1>5 DEF Parsed
  <2>2. PICK c, now : c = a.current /\ now = Append(c, line)
    OBVIOUS
  <2>3. t = [cables |-> a.cables, current |-> now, stop |-> FALSE]
    BY <1>1, <1>2, <1>5, <2>2 DEF TakeLine
  <2>4. t.cables = a.cables /\ t.current = now /\ t.stop = FALSE
    BY <2>3
  <2>5. c \in Seq(ToSet(lines)) /\ Len(c) = k - b + 1
    BY <2>1, <2>2 DEF Since
  <2>6. /\ now \in Seq(ToSet(lines)) /\ Len(now) = (k + 1) - b + 1
        /\ c # <<>> => now[1] = c[1]
        /\ c = <<>> => now[1] = line
    <3>0. line \in ToSet(lines)
      BY <1>2
    <3>1. /\ now \in Seq(ToSet(lines)) /\ Len(now) = Len(c) + 1
          /\ \A i \in 1..Len(c) : now[i] = c[i]
          /\ now[Len(c) + 1] = line
      BY <2>2, <2>5, <3>0
    <3>2. (k - b + 1) + 1 = (k + 1) - b + 1
      BY <2>1
    <3>3. c # <<>> => 1 \in 1..Len(c)
      BY <2>5
    <3>4. QED
      BY <2>5, <3>1, <3>2, <3>3
  <2>7. b <= k + 1 => now[1] = lines[b]
    <3>1. CASE k = 0
      <4>1. b = 1 /\ c = <<>>
        BY <2>1, <2>5, <3>1
      <4>2. QED
        BY <1>1, <2>6, <3>1, <4>1
    <3>2. CASE k # 0
      <4>1. c # <<>> /\ c[1] = lines[b]
        BY <2>1, <2>2, <2>5, <3>2 DEF Since
      <4>2. QED
        BY <2>6, <4>1
    <3>3. QED
      BY <3>1, <3>2
  <2>8. \A m \in (b + 1)..(k + 1) : m \notin Firsts(lines)
    <3> SUFFICES ASSUME NEW m \in (b + 1)..(k + 1) PROVE m \notin Firsts(lines)
      OBVIOUS
    <3>1. CASE m \in (b + 1)..k
      BY <2>1, <3>1 DEF Since
    <3>2. CASE m = k + 1
      <4>1. k # 0 /\ c # <<>>
        BY <2>1, <2>5, <3>2
      <4>2. ~lines[k + 1].first
        BY <1>1, <1>5, <2>2, <4>1
      <4>3. QED
        BY <1>2, <3>2, <4>2, NoneFirst
    <3>3. QED
      BY <2>1, <3>1, <3>2
  <2>9. Since(t, lines, k + 1, b)
    BY <2>1, <2>4, <2>6, <2>7, <2>8 DEF Since
  <2>10. b \in 1..((k + 1) + 1) /\ b <= k + 1
    BY <2>1
  <2>11. Limited(Len(a.cables)) = FALSE
    BY <1>5 DEF Parsed
  <2>12. Parsed(t, lines, k + 1)
    BY <2>3, <2>4, <2>9, <2>10, <2>11 DEF Parsed
  <2>13. QED
    BY <1>1, <2>12
<1>6. QED
  BY <1>3, <1>4, <1>5

\* What _parse_cables_csv makes of a whole file, however long it is: each of its cables
\* once, or as many as the limit lets through.
LEMMA ParsesAll ==
  ASSUME NEW lines, WholeLines(lines)
  PROVE  /\ ParseCables(lines) \in Seq(CablesOf(lines)) /\ NoneTwice(ParseCables(lines))
         /\ Limited(Len(ParseCables(lines))) \/ ToSet(ParseCables(lines)) = CablesOf(lines)
<1>1. PICK n \in Nat : n = Len(lines) /\ DOMAIN lines = 1..n
  BY DEF WholeLines
<1>2. PICK base : base = [cables |-> <<>>, current |-> <<>>, stop |-> FALSE]
  OBVIOUS
<1>3. Lines!FoldsTo(None, base, lines, n)
  BY <1>1, Lines!FoldLeftSteps
<1>4. PICK acc : /\ acc[0] = base
                 /\ \A k \in 1..n : acc[k] = Taking(None, acc[k - 1], lines[k])
                 /\ acc[n] = Lines!Iter(None, base, lines)[DOMAIN lines]
  BY <1>3 DEF Lines!FoldsTo
<1> DEFINE S == {k \in Nat : k <= n => Parsed(acc[k], lines, k)}
<1>5. 0 \in S
  <2>1. base.cables = <<>> /\ base.current = <<>> /\ base.stop = FALSE
    BY <1>2
  <2>2. <<>> \in Seq(CablesOf(lines)) /\ NoneTwice(<<>>) /\ Len(<<>>) = 0 /\ ToSet(<<>>) = {}
    BY DEF NoneTwice, ToSet
  <2>3. Limited(0) = FALSE
    BY LeakDownloadsAssumption DEF Limited
  <2>4. {m \in Firsts(lines) : m < 1} = {}
    BY <1>1 DEF Firsts
  <2>5. {CableAt(lines, m) : m \in {k \in Firsts(lines) : k < 1}} = {}
    BY <2>4
  <2>6. Since(base, lines, 0, 1)
    BY <2>1, <2>2, <2>5 DEF Since
  <2>7. Parsed(base, lines, 0)
    <3>1. 1 \in 1..(0 + 1)
      OBVIOUS
    <3>2. base = [cables |-> base.cables, current |-> base.current, stop |-> base.stop]
      BY <1>2, <2>1
    <3>3. QED
      BY <2>1, <2>2, <2>3, <2>6, <3>1, <3>2 DEF Parsed
  <2>8. QED
    BY <1>4, <2>7
<1>6. ASSUME NEW k \in Nat, k \in S PROVE k + 1 \in S
  <2> SUFFICES ASSUME k + 1 <= n PROVE Parsed(acc[k + 1], lines, k + 1)
    OBVIOUS
  <2>1. Parsed(acc[k], lines, k) /\ k + 1 \in 1..n /\ (k + 1) - 1 = k
    BY <1>6
  <2>2. acc[k + 1] = TakeLine(acc[k], lines[k + 1])
    BY <1>4, <2>1 DEF Taking
  <2>3. Parsed(TakeLine(acc[k], lines[k + 1]), lines, k + 1)
    BY <1>1, <2>1, ParsedNext
  <2>4. QED
    BY <2>2, <2>3
<1>7. Nat \subseteq S
  <2> HIDE DEF S
  <2> QED
    BY <1>5, <1>6, Lines!NatSetInduction
<1>8. PICK all : all = acc[n]
  OBVIOUS
<1>9. Parsed(all, lines, n)
  <2>1. n \in S /\ n <= n
    BY <1>7
  <2>2. QED
    BY <1>8, <2>1
<1>10. FoldLeft(TakeLine, base, lines) = Lines!Iter(None, base, lines)[DOMAIN lines]
  BY DEF FoldLeft, MapThenFoldSet, Max, Taking, Lines!Iter, Lines!Folding, Lines!Latest
<1>11. ParseCables(lines) = IF Limited(Len(all.cables)) THEN all.cables ELSE Flush(all)
  <2>1. FoldLeft(TakeLine, [cables |-> <<>>, current |-> <<>>, stop |-> FALSE], lines) = all
    BY <1>2, <1>4, <1>8, <1>10
  <2>2. QED
    BY <2>1 DEF ParseCables, AtEnd
<1>12. CASE Limited(Len(all.cables))
  BY <1>9, <1>11, <1>12 DEF Parsed
<1>13. CASE ~Limited(Len(all.cables)) /\ n # 0
  <2>1. n \in 1..Len(lines) /\ ~all.stop
    BY <1>1, <1>9, <1>13 DEF Parsed
  <2>2. /\ Flush(all) \in Seq(CablesOf(lines)) /\ NoneTwice(Flush(all))
        /\ ToSet(Flush(all)) = {CableAt(lines, m) : m \in {k \in Firsts(lines) : k < n + 1}}
    BY <1>1, <1>9, <2>1, Flushed
  <2>3. {k \in Firsts(lines) : k < n + 1} = Firsts(lines)
    BY <1>1 DEF Firsts
  <2>4. QED
    BY <1>11, <1>13, <2>2, <2>3, CablesAre
<1>14. CASE ~Limited(Len(all.cables)) /\ n = 0
  <2>1. PICK b \in 1..(n + 1) : Since(all, lines, n, b)
    BY <1>9, <1>14 DEF Parsed
  <2>2. b = 1 /\ all.current = <<>>
    BY <1>14, <2>1 DEF Since
  <2>3. ParseCables(lines) = all.cables
    BY <1>11, <1>14, <2>2 DEF Flush
  <2>4. {k \in Firsts(lines) : k < b} = Firsts(lines)
    BY <1>1, <1>14 DEF Firsts
  <2>5. ToSet(all.cables) = CablesOf(lines)
    BY <2>1, <2>4, CablesAre DEF Since
  <2>6. QED
    BY <1>9, <2>3, <2>5 DEF Parsed
<1>15. QED
  BY <1>12, <1>13, <1>14

-----------------------------------------------------------------------------
(* The files of open-leaks: downloads that are resumed                     *)

PlaceOfJob == {"idle", "head", "get", "stream", "parse", "done", "failed"}

Jobs == [pc : PlaceOfJob, attempt : 1..(MAX_RETRIES + 1), mode : {"ab", "wb"}, of : Nat, next : Nat]

\* What a job streams, it has not come beyond the end of; and it has an attempt left
\* unless it has failed.
Streams(s, files) ==
    /\ s.of \in DOMAIN files /\ s.next \in 1..(Len(files[s.of]) + 1)
    /\ s.pc # "failed" => s.attempt <= MAX_RETRIES

\* What may be in a file on the disk.
Blocks == {Hole} \cup UNION {UNION {ToSet(file) : file \in ToSet(Contents[p])} : p \in DOMAIN Contents}

LeakTyped ==
    /\ version \in [DOMAIN Contents -> Nat] /\ disk \in [DOMAIN Contents -> Seq(Blocks)]
    /\ \A p \in DOMAIN Contents : version[p] \in DOMAIN Contents[p]
    /\ job \in [Job -> Jobs] /\ \A j \in Job : Streams(job[j], Contents[Path(j)])
    /\ DOMAIN extracted = Job
    /\ interruptions \in 0..MaxInterruptions

\* A cached file has the beginning of a file of the server.
Begins(file, content) ==
    /\ Len(file) \in Nat /\ DOMAIN file = 1..Len(file) /\ Len(file) <= Len(content)
    /\ \A k \in 1..Len(file) : file[k] = content[k]

\* What a job does to a file that it has for itself: it streams what comes next, and
\* what it parses is all there.
InPlace(s, file, content, current) ==
    /\ Begins(file, content)
    /\ s.pc \in {"head", "parse"} => Len(file) > 0
    /\ s.pc = "stream" => s.of = current /\ s.next = Len(file) + 1
    /\ s.pc = "parse" => Len(file) = Len(content)

CablesFile == "cables.csv"

\* Only one job reads the file of cables, so as long as it is not harmed the file has the
\* beginning of the version the server has now.
CablesInv ==
    CablesFile \notin harmed =>
        /\ InPlace(job["cables"], disk[CablesFile],
                   Contents[CablesFile][version[CablesFile]], version[CablesFile])
        /\ job["cables"].pc = "done" =>
              \E file \in ToSet(Contents[CablesFile]) : extracted["cables"] = ParseCables(file)

\* The archive of the others must be whole to be parsed at all.
ArchiveInv ==
    \A j \in Job \ {"cables"} : job[j].pc = "done" =>
        \E file \in ToSet(Contents[Path(j)]) : extracted[j] = ParseArchive(j, file)

LeakInv == LeakTyped /\ CablesInv /\ ArchiveInv

LEMMA FilesOfServer ==
  /\ "cables" \in Job /\ Path("cables") = CablesFile /\ CablesFile \in DOMAIN Contents
  /\ \A j \in Job : Path(j) \in DOMAIN Contents /\ (j # "cables" => Path(j) # CablesFile)
  /\ \A p \in DOMAIN Contents :
        /\ Len(Contents[p]) \in Nat /\ DOMAIN Contents[p] = 1..Len(Contents[p])
        /\ 1 \in DOMAIN Contents[p]
        /\ \A v \in DOMAIN Contents[p] :
              /\ Len(Contents[p][v]) \in Nat
              /\ DOMAIN Contents[p][v] = 1..Len(Contents[p][v])
              /\ Contents[p][v] \in Seq(Blocks) /\ Contents[p][v] \in ToSet(Contents[p])
<1>1. ASSUME NEW p \in DOMAIN Contents
      PROVE  /\ Len(Contents[p]) \in Nat /\ DOMAIN Contents[p] = 1..Len(Contents[p])
             /\ 1 \in DOMAIN Contents[p]
             /\ \A v \in DOMAIN Contents[p] :
                   /\ Len(Contents[p][v]) \in Nat
                   /\ DOMAIN Contents[p][v] = 1..Len(Contents[p][v])
                   /\ Contents[p][v] \in Seq(Blocks) /\ Contents[p][v] \in ToSet(Contents[p])
  <2>1. PICK B, all : /\ B = UNION {ToSet(file) : file \in ToSet(Contents[p])}
                      /\ all = Contents[p]
    OBVIOUS
  <2>2. all \in Seq(Seq(B)) /\ all # <<>>
    BY <2>1, LeakDownloadsAssumption
  <2>3. Len(all) \in Nat /\ DOMAIN all = 1..Len(all) /\ 1 \in DOMAIN all
    BY <2>2
  <2>4. ASSUME NEW v \in DOMAIN all PROVE all[v] \in Seq(B)
    BY <2>2, <2>4
  <2>5. B \subseteq Blocks
    BY <2>1 DEF Blocks
  <2>6. ASSUME NEW v \in DOMAIN all
        PROVE  /\ Len(all[v]) \in Nat /\ DOMAIN all[v] = 1..Len(all[v])
               /\ all[v] \in Seq(Blocks) /\ all[v] \in ToSet(all)
    <3>1. PICK f : f = all[v]
      OBVIOUS
    <3>2. f \in Seq(B)
      BY <2>4, <3>1
    <3>3. Len(f) \in Nat /\ DOMAIN f = 1..Len(f) /\ f \in Seq(Blocks)
      BY <2>5, <3>2
    <3>4. f \in ToSet(all)
      BY <3>1 DEF ToSet
    <3>5. QED
      BY <3>1, <3>3, <3>4
  <2>7. QED
    BY <2>1, <2>3, <2>6
<1>2. QED
  BY <1>1, LeakDownloadsAssumption DEF Path, CablesFile

LEMMA LeakStart == LeakInit => LeakInv
<1> SUFFICES ASSUME LeakInit PROVE LeakInv
  OBVIOUS
<1>1. NoJob \in Jobs /\ NoJob.pc = "idle" /\ NoJob.of = 1 /\ NoJob.next = 1 /\ NoJob.attempt = 1
  BY LeakDownloadsAssumption DEF NoJob, Jobs, PlaceOfJob
<1>2. \A j \in Job : job[j] = NoJob
  BY DEF LeakInit
<1>3. LeakTyped
  <2>1. \A j \in Job : Streams(NoJob, Contents[Path(j)])
    BY <1>1, FilesOfServer, LeakDownloadsAssumption DEF Streams
  <2>2. job \in [Job -> Jobs] /\ \A j \in Job : Streams(job[j], Contents[Path(j)])
    BY <1>1, <1>2, <2>1 DEF LeakInit
  <2>3. version \in [DOMAIN Contents -> Nat] /\ disk \in [DOMAIN Contents -> Seq(Blocks)]
    BY DEF LeakInit
  <2>4. \A p \in DOMAIN Contents : version[p] \in DOMAIN Contents[p]
    BY FilesOfServer DEF LeakInit
  <2>5. QED
    BY <2>2, <2>3, <2>4, LeakDownloadsAssumption DEF LeakTyped, LeakInit
<1>4. CablesInv
  <2>1. disk[CablesFile] = <<>> /\ version[CablesFile] \in DOMAIN Contents[CablesFile]
    BY <1>3, FilesOfServer DEF LeakInit, LeakTyped
  <2>2. Begins(<<>>, Contents[CablesFile][version[CablesFile]])
    BY <2>1, FilesOfServer DEF Begins
  <2>3. QED
    BY <1>1, <1>2, <2>1, <2>2, FilesOfServer DEF CablesInv, InPlace
<1>5. ArchiveInv
  BY <1>1, <1>2 DEF ArchiveInv
<1>6. QED
  BY <1>3, <1>4, <1>5 DEF LeakInv

\* A job does something: it is another record, of the same type.
LEMMA JobMoves ==
  ASSUME LeakTyped, NEW j \in Job, NEW s \in Jobs, Streams(s, Contents[Path(j)]),
         job' = [job EXCEPT ![j] = s], disk' \in [DOMAIN Contents -> Seq(Blocks)],
         UNCHANGED version,
         DOMAIN extracted' = DOMAIN extracted, interruptions' \in 0..MaxInterruptions
  PROVE  LeakTyped'
<1>1. job' \in [Job -> Jobs]
  BY DEF LeakTyped
<1>2. \A i \in Job : Streams(job'[i], Contents[Path(i)])
  BY DEF LeakTyped
<1>3. QED
  BY <1>1, <1>2 DEF LeakTyped

\* A block is put somewhere into a file.
LEMMA PutTyped ==
  ASSUME NEW S, NEW file \in Seq(S), NEW place \in Nat, NEW block \in S, Hole \in S
  PROVE  Put(file, place, block) \in Seq(S)
<1>1. PICK n : n = IF place > Len(file) THEN place ELSE Len(file)
  OBVIOUS
<1>2. n \in Nat
  BY <1>1
<1>3. PICK f : f = [k \in 1..n |-> CASE k = place -> block
                                   [] k # place /\ k <= Len(file) -> file[k]
                                   [] OTHER -> Hole]
  OBVIOUS
<1>4. \A k \in 1..n : f[k] \in S
  BY <1>2, <1>3
<1>5. f \in Seq(S)
  BY <1>2, <1>3, <1>4
<1>6. QED
  BY <1>1, <1>3, <1>5 DEF Put

LEMMA PcMoves ==
  ASSUME LeakTyped, NEW j \in Job, NEW pc \in PlaceOfJob, job[j].pc # "failed"
  PROVE  \E s \in Jobs : /\ [job EXCEPT ![j].pc = pc] = [job EXCEPT ![j] = s]
                         /\ Streams(s, Contents[Path(j)])
                         /\ s = [job[j] EXCEPT !.pc = pc]
<1>1. PICK o, s : o = job[j] /\ s = [o EXCEPT !.pc = pc]
  OBVIOUS
<1>2. o \in Jobs /\ Streams(o, Contents[Path(j)]) /\ o.pc # "failed"
  BY <1>1 DEF LeakTyped
<1>3. /\ s \in Jobs /\ s.pc = pc /\ s.of = o.of /\ s.next = o.next /\ s.attempt = o.attempt
  BY <1>1, <1>2 DEF Jobs
<1>4. Streams(s, Contents[Path(j)])
  BY <1>2, <1>3 DEF Streams
<1>5. [job EXCEPT ![j].pc = pc] = [job EXCEPT ![j] = s]
  BY <1>1 DEF LeakTyped
<1>6. QED
  BY <1>1, <1>3, <1>4, <1>5

LEMMA JobStepTyped ==
  ASSUME LeakTyped, NEW j \in Job, JobStep(j)
  PROVE  LeakTyped'
<1>1. ASSUME NEW pc \in PlaceOfJob, Moves(j, pc), job[j].pc # "failed",
             UNCHANGED <<version, disk>>, DOMAIN extracted' = DOMAIN extracted,
             UNCHANGED interruptions \/ Interrupted
      PROVE  LeakTyped'
  <2>1. PICK s \in Jobs : /\ [job EXCEPT ![j].pc = pc] = [job EXCEPT ![j] = s]
                          /\ Streams(s, Contents[Path(j)])
    BY <1>1, PcMoves
  <2>2. job' = [job EXCEPT ![j] = s]
    BY <1>1, <2>1 DEF Moves
  <2>3. interruptions' \in 0..MaxInterruptions
    <3>1. CASE UNCHANGED interruptions
      BY <3>1 DEF LeakTyped
    <3>2. CASE Interrupted
      BY <3>2, LeakDownloadsAssumption DEF LeakTyped, Interrupted
    <3>3. QED
      BY <1>1, <3>1, <3>2
  <2>4. disk' \in [DOMAIN Contents -> Seq(Blocks)]
    BY <1>1 DEF LeakTyped
  <2>5. QED
    BY <1>1, <2>1, <2>2, <2>3, <2>4, JobMoves
<1>2. PICK o : o = job[j]
  OBVIOUS
<1>3. o \in Jobs /\ Streams(o, Contents[Path(j)])
  BY <1>2 DEF LeakTyped
<1>4. Path(j) \in DOMAIN Contents /\ disk \in [DOMAIN Contents -> Seq(Blocks)]
  BY FilesOfServer DEF LeakTyped
<1>5. CASE BeginDownload(j) \/ AskSize(j)
  BY <1>1, <1>5 DEF BeginDownload, AskSize, PlaceOfJob
<1>6. CASE HeadFails(j)
  BY <1>1, <1>6 DEF HeadFails, PlaceOfJob
<1>7. CASE StreamEnds(j)
  BY <1>1, <1>7 DEF StreamEnds, PlaceOfJob
<1>8. CASE Parse(j)
  <2>1. job[j].pc # "failed" /\ UNCHANGED <<version, disk, interruptions>>
    BY <1>8 DEF Parse
  <2>2. DOMAIN extracted' = DOMAIN extracted
    BY <1>8 DEF Parse, LeakTyped
  <2>3. Moves(j, "failed") \/ Moves(j, "done")
    BY <1>8 DEF Parse
  <2>4. QED
    BY <1>1, <2>1, <2>2, <2>3 DEF PlaceOfJob
<1>9. CASE Killed(j) \/ Rematerialize(j)
  <2>1. NoJob \in Jobs /\ Streams(NoJob, Contents[Path(j)])
    BY <1>4, FilesOfServer, LeakDownloadsAssumption DEF NoJob, Jobs, PlaceOfJob, Streams
  <2>2. /\ job' = [job EXCEPT ![j] = NoJob] /\ UNCHANGED <<version, disk, extracted>>
        /\ interruptions' \in 0..MaxInterruptions
    <3>1. CASE Killed(j)
      BY <3>1, LeakDownloadsAssumption DEF Killed, Interrupted, LeakTyped
    <3>2. CASE Rematerialize(j)
      BY <3>2 DEF Rematerialize, LeakTyped
    <3>3. QED
      BY <1>9, <3>1, <3>2
  <2>3. disk' \in [DOMAIN Contents -> Seq(Blocks)]
    BY <1>4, <2>2
  <2>4. QED
    BY <2>1, <2>2, <2>3, JobMoves
<1>10. CASE StreamBreaks(j)
  <2>1. PICK pc \in {"failed", "get"} :
           /\ pc = IF o.attempt = MAX_RETRIES THEN "failed" ELSE "get"
           /\ job' = [job EXCEPT ![j] = [o EXCEPT !.pc = pc, !.attempt = o.attempt + 1]]
    BY <1>2, <1>10 DEF StreamBreaks
  <2>2. PICK s : s = [o EXCEPT !.pc = pc, !.attempt = o.attempt + 1]
    OBVIOUS
  <2>3. o.pc = "stream" /\ UNCHANGED <<version, disk, extracted>> /\ Interrupted
    BY <1>2, <1>10 DEF StreamBreaks
  <2>4. o.attempt \in 1..MAX_RETRIES
    BY <1>3, <2>3, LeakDownloadsAssumption DEF Jobs, Streams
  <2>5. s = [pc |-> pc, attempt |-> o.attempt + 1, mode |-> o.mode, of |-> o.of, next |-> o.next]
    BY <1>3, <2>2 DEF Jobs
  <2>6. o.attempt + 1 \in 1..(MAX_RETRIES + 1) /\ (pc # "failed" => o.attempt + 1 <= MAX_RETRIES)
    BY <2>1, <2>4, LeakDownloadsAssumption
  <2>7. s \in Jobs /\ Streams(s, Contents[Path(j)])
    BY <1>3, <2>1, <2>5, <2>6 DEF Jobs, Streams, PlaceOfJob
  <2>8. interruptions' \in 0..MaxInterruptions
    BY <2>3, LeakDownloadsAssumption DEF LeakTyped, Interrupted
  <2>9. disk' \in [DOMAIN Contents -> Seq(Blocks)]
    BY <1>4, <2>3
  <2>10. QED
    BY <2>1, <2>2, <2>3, <2>7, <2>8, <2>9, JobMoves
<1>11. CASE OpenStream(j)
  <2>1. PICK n : n = Len(disk[Path(j)])
    OBVIOUS
  <2>2. o.pc = "get" /\ UNCHANGED <<version, extracted, interruptions>>
    BY <1>2, <1>11 DEF OpenStream
  <2>3. PICK partial \in BOOLEAN :
          /\ n = 0 => ~partial
          /\ IF partial /\ n >= Len(Server(j))
             THEN Moves(j, "failed") /\ UNCHANGED disk
             ELSE /\ job' = [job EXCEPT ![j] =
                        [pc |-> "stream", attempt |-> o.attempt, mode |-> Mode(partial),
                         of |-> version[Path(j)], next |-> IF partial THEN n + 1 ELSE 1]]
                  /\ disk' = IF Mode(partial) = "wb" THEN [disk EXCEPT ![Path(j)] = <<>>]
                             ELSE disk
    BY <1>2, <1>11, <2>1 DEF OpenStream
  <2>4. disk' \in [DOMAIN Contents -> Seq(Blocks)]
    <3>1. <<>> \in Seq(Blocks)
      OBVIOUS
    <3>2. disk' = [disk EXCEPT ![Path(j)] = <<>>] \/ disk' = disk
      BY <2>3
    <3>3. QED
      BY <1>4, <3>1, <3>2
  <2>5. CASE Moves(j, "failed") /\ UNCHANGED disk
    BY <1>1, <1>2, <2>2, <2>5 DEF PlaceOfJob
  <2>6. CASE ~(partial /\ n >= Len(Server(j)))
    <3>1. PICK next, content, v : /\ next = IF partial THEN n + 1 ELSE 1
                                  /\ v = version[Path(j)] /\ content = Contents[Path(j)][v]
      OBVIOUS
    <3>2. PICK s : s = [pc |-> "stream", attempt |-> o.attempt, mode |-> Mode(partial),
                        of |-> v, next |-> next]
      OBVIOUS
    <3>3. job' = [job EXCEPT ![j] = s]
      BY <2>3, <2>6, <3>1, <3>2
    <3>4. v \in DOMAIN Contents[Path(j)] /\ v \in Nat /\ Server(j) = content
      BY <1>4, <3>1 DEF LeakTyped, Server
    <3>5. Len(content) \in Nat
      BY <1>4, <3>1, <3>4, FilesOfServer
    <3>6. n \in Nat
      BY <1>4, <2>1
    <3>7. next \in 1..(Len(content) + 1) /\ next \in Nat
      BY <2>6, <3>1, <3>4, <3>5, <3>6
    <3>8. s \in Jobs
      BY <1>3, <3>2, <3>4, <3>7 DEF Jobs, PlaceOfJob, Mode
    <3>9. s.pc = "stream" /\ s.attempt = o.attempt /\ s.of = v /\ s.next = next
      BY <3>2
    <3>10. Streams(s, Contents[Path(j)])
      BY <1>3, <2>2, <3>1, <3>4, <3>7, <3>9 DEF Streams
    <3>11. QED
      BY <2>2, <2>4, <3>3, <3>8, <3>10, JobMoves DEF LeakTyped
  <2>7. QED
    BY <2>3, <2>5, <2>6
<1>12. CASE WriteBlock(j)
  <2>1. PICK content, file, next, place :
          /\ content = Contents[Path(j)][o.of] /\ file = disk[Path(j)] /\ next = o.next
          /\ place = IF o.mode = "ab" THEN Len(file) + 1 ELSE next
    OBVIOUS
  <2>2. /\ o.pc = "stream" /\ next <= Len(content)
        /\ disk' = [disk EXCEPT ![Path(j)] = Put(file, place, content[next])]
        /\ job' = [job EXCEPT ![j].next = next + 1]
        /\ UNCHANGED <<version, extracted, interruptions>>
    BY <1>2, <1>12, <2>1 DEF WriteBlock
  <2>3. /\ o.of \in DOMAIN Contents[Path(j)] /\ next \in Nat /\ 1 <= next
        /\ o.attempt <= MAX_RETRIES
    BY <1>3, <2>1, <2>2 DEF Streams, Jobs
  <2>4. /\ content \in Seq(Blocks) /\ Len(content) \in Nat
        /\ DOMAIN content = 1..Len(content)
    BY <1>4, <2>1, <2>3, FilesOfServer
  <2>5. content[next] \in Blocks
    <3>1. PICK top \in Nat : top = Len(content)
      BY <2>4
    <3>2. next \in 1..top
      BY <2>2, <2>3, <3>1
    <3>3. next \in DOMAIN content
      BY <2>4, <3>1, <3>2
    <3>4. QED
      BY <2>4, <3>3
  <2>6. file \in Seq(Blocks) /\ Len(file) \in Nat /\ place \in Nat /\ Hole \in Blocks
    BY <1>4, <2>1, <2>3 DEF Blocks
  <2>7. Put(file, place, content[next]) \in Seq(Blocks)
    BY <2>5, <2>6, PutTyped
  <2>8. disk' \in [DOMAIN Contents -> Seq(Blocks)]
    BY <1>4, <2>2, <2>7
  <2>9. PICK s : s = [o EXCEPT !.next = next + 1]
    OBVIOUS
  <2>10. job' = [job EXCEPT ![j] = s]
    BY <1>2, <2>2, <2>9 DEF LeakTyped
  <2>11. s = [pc |-> o.pc, attempt |-> o.attempt, mode |-> o.mode, of |-> o.of, next |-> next + 1]
    BY <1>3, <2>9 DEF Jobs
  <2>12. next + 1 \in Nat /\ next + 1 \in 1..(Len(content) + 1)
    BY <2>2, <2>3, <2>4
  <2>13. s \in Jobs
    BY <1>3, <2>11, <2>12 DEF Jobs
  <2>14. s.of = o.of /\ s.next = next + 1 /\ s.attempt = o.attempt
    BY <2>11
  <2>15. Streams(s, Contents[Path(j)])
    BY <2>1, <2>3, <2>12, <2>14 DEF Streams
  <2>16. QED
    BY <2>2, <2>8, <2>10, <2>13, <2>15, JobMoves DEF LeakTyped
<1>13. QED
  BY <1>5, <1>6, <1>7, <1>8, <1>9, <1>10, <1>11, <1>12 DEF JobStep

\* The actions of the job of the cables, by what they do to its file.
LEMMA CablesMoves ==
  ASSUME LeakTyped, CablesInv, JobStep("cables"), CablesFile \notin harmed'
  PROVE  CablesInv'
<1>1. PICK s, s2, file, file2, v, content :
         /\ s = job["cables"] /\ s2 = job'["cables"]
         /\ file = disk[CablesFile] /\ file2 = disk'[CablesFile]
         /\ v = version[CablesFile] /\ content = Contents[CablesFile][v]
  OBVIOUS
<1>2. "cables" \in Job /\ Path("cables") = CablesFile /\ CablesFile \in DOMAIN Contents
  BY FilesOfServer
<1>3. /\ s \in Jobs /\ Streams(s, Contents[CablesFile]) /\ v \in DOMAIN Contents[CablesFile]
      /\ file \in Seq(Blocks) /\ Server("cables") = content
  BY <1>1, <1>2 DEF LeakTyped, Server
<1>4. /\ Len(content) \in Nat /\ DOMAIN content = 1..Len(content) /\ content \in Seq(Blocks)
      /\ content \in ToSet(Contents[CablesFile])
  BY <1>1, <1>2, <1>3, FilesOfServer
<1>5. Len(file) \in Nat /\ DOMAIN file = 1..Len(file) /\ (Len(file) = 0 <=> file = <<>>)
  BY <1>3
<1>6. UNCHANGED version /\ CablesFile \notin harmed
  BY DEF JobStep, BeginDownload, AskSize, HeadFails, OpenStream, WriteBlock, StreamEnds,
         StreamBreaks, Killed, Rematerialize, Parse
<1>7. /\ InPlace(s, file, content, v)
      /\ s.pc = "done" => \E f \in ToSet(Contents[CablesFile]) : extracted["cables"] = ParseCables(f)
  BY <1>1, <1>6 DEF CablesInv
<1>8. SUFFICES /\ InPlace(s2, file2, content, v)
               /\ s2.pc = "done" => \E f \in ToSet(Contents[CablesFile]) :
                                       extracted'["cables"] = ParseCables(f)
  BY <1>1, <1>6 DEF CablesInv
<1>9. ASSUME NEW pc, Moves("cables", pc) PROVE s2 = [s EXCEPT !.pc = pc]
  BY <1>1, <1>2, <1>9 DEF Moves, LeakTyped
<1>10. ASSUME NEW pc, s2 = [s EXCEPT !.pc = pc]
       PROVE  s2.pc = pc /\ s2.of = s.of /\ s2.next = s.next
  BY <1>3, <1>10 DEF Jobs
<1>11. CASE BeginDownload("cables")
  <2>1. file2 = file /\ Moves("cables", IF file # <<>> THEN "head" ELSE "get")
    BY <1>1, <1>2, <1>11 DEF BeginDownload
  <2>2. s2.pc = IF file # <<>> THEN "head" ELSE "get"
    BY <1>9, <1>10, <2>1
  <2>3. QED
    BY <1>5, <1>7, <2>1, <2>2 DEF InPlace
<1>12. CASE AskSize("cables")
  <2>1. /\ s.pc = "head" /\ file2 = file
        /\ Moves("cables", IF Len(file) >= Len(content) THEN "parse" ELSE "get")
    BY <1>1, <1>2, <1>3, <1>12 DEF AskSize, Enough
  <2>2. s2.pc = IF Len(file) >= Len(content) THEN "parse" ELSE "get"
    BY <1>9, <1>10, <2>1
  <2>3. Len(file) > 0 /\ Len(file) <= Len(content)
    BY <1>7, <2>1 DEF InPlace, Begins
  <2>4. s2.pc = "parse" => Len(file) = Len(content)
    <3>1. PICK n, top \in Nat : n = Len(file) /\ top = Len(content)
      BY <1>4, <1>5
    <3>2. n <= top /\ s2.pc = IF n >= top THEN "parse" ELSE "get"
      BY <2>2, <2>3, <3>1
    <3>3. s2.pc = "parse" => n = top
      BY <3>2
    <3>4. QED
      BY <3>1, <3>3
  <2>5. QED
    BY <1>7, <2>1, <2>2, <2>3, <2>4 DEF InPlace
<1>13. CASE HeadFails("cables")
  BY <1>2, <1>13 DEF HeadFails
<1>14. CASE OpenStream("cables")
  <2>1. PICK partial \in BOOLEAN :
          /\ Len(file) = 0 => ~partial
          /\ IF partial /\ Len(file) >= Len(content)
             THEN Moves("cables", "failed") /\ UNCHANGED disk
             ELSE /\ job' = [job EXCEPT !["cables"] =
                        [pc |-> "stream", attempt |-> job["cables"].attempt,
                         mode |-> Mode(partial), of |-> v,
                         next |-> IF partial THEN Len(file) + 1 ELSE 1]]
                  /\ disk' = IF Mode(partial) = "wb" THEN [disk EXCEPT ![CablesFile] = <<>>]
                             ELSE disk
    BY <1>1, <1>2, <1>3, <1>14 DEF OpenStream
  <2>2. CASE partial /\ Len(file) >= Len(content)
    <3>1. Moves("cables", "failed") /\ file2 = file
      BY <1>1, <2>1, <2>2
    <3>2. s2.pc = "failed"
      BY <1>9, <1>10, <3>1
    <3>3. QED
      BY <1>7, <3>1, <3>2 DEF InPlace
  <2>3. CASE ~(partial /\ Len(file) >= Len(content))
    <3>1. s2 = [pc |-> "stream", attempt |-> job["cables"].attempt,
                mode |-> Mode(partial), of |-> v,
                next |-> IF partial THEN Len(file) + 1 ELSE 1]
      BY <1>1, <1>2, <2>1, <2>3 DEF LeakTyped
    <3>2. s2.pc = "stream" /\ s2.of = v /\ s2.next = IF partial THEN Len(file) + 1 ELSE 1
      BY <3>1
    <3>3. file2 = IF partial THEN file ELSE <<>>
      BY <1>1, <1>2, <2>1, <2>3 DEF Mode, LeakTyped
    <3>4. Begins(file2, content)
      <4>1. Begins(file, content)
        BY <1>7 DEF InPlace
      <4>2. Len(<<>>) = 0 /\ DOMAIN <<>> = 1..0 /\ 0 \in Nat /\ 0 <= Len(content)
        BY <1>4
      <4>3. Begins(<<>>, content)
        BY <4>2 DEF Begins
      <4>4. QED
        BY <3>3, <4>1, <4>3
    <3>5. s2.next = Len(file2) + 1
      BY <3>2, <3>3
    <3>6. QED
      BY <3>2, <3>4, <3>5 DEF InPlace
  <2>4. QED
    BY <2>2, <2>3
<1>15. CASE WriteBlock("cables")
  <2>1. PICK place, block : /\ place = IF s.mode = "ab" THEN Len(file) + 1 ELSE s.next
                            /\ block = content[s.next]
    OBVIOUS
  <2>2. s.pc = "stream"
    BY <1>1, <1>15 DEF WriteBlock
  <2>3. s.of = v /\ s.next = Len(file) + 1 /\ Begins(file, content)
    BY <1>7, <2>2 DEF InPlace
  <2>4. /\ s.next <= Len(content)
        /\ disk' = [disk EXCEPT ![CablesFile] = Put(file, place, block)]
        /\ job' = [job EXCEPT !["cables"].next = s.next + 1]
    BY <1>1, <1>2, <1>15, <2>1, <2>3 DEF WriteBlock
  <2>5. place = Len(file) + 1 /\ block = content[Len(file) + 1]
    BY <2>1, <2>3
  <2>6. file2 = Put(file, place, block)
    BY <1>1, <1>2, <2>4 DEF LeakTyped
  <2>7. PICK n \in Nat : n = Len(file)
    BY <1>5
  <2>8. file2 = [k \in 1..(n + 1) |-> CASE k = n + 1 -> block
                                        [] k # n + 1 /\ k <= n -> file[k]
                                        [] OTHER -> Hole]
    BY <2>5, <2>6, <2>7 DEF Put
  <2>9. \A k \in 1..(n + 1) : file2[k] = content[k]
    <3> SUFFICES ASSUME NEW k \in 1..(n + 1) PROVE file2[k] = content[k]
      OBVIOUS
    <3>1. CASE k = n + 1
      BY <2>5, <2>7, <2>8, <3>1
    <3>2. CASE k # n + 1
      <4>1. k \in 1..n
        BY <3>2
      <4>2. file2[k] = file[k]
        BY <2>8, <3>2, <4>1
      <4>3. file[k] = content[k]
        BY <2>3, <2>7, <4>1 DEF Begins
      <4>4. QED
        BY <4>2, <4>3
    <3>3. QED
      BY <3>1, <3>2
  <2>10. file2 \in Seq(Blocks)
    <3>1. s.next \in DOMAIN content /\ place \in Nat /\ Hole \in Blocks
      BY <1>3, <1>4, <1>5, <2>3, <2>4, <2>5 DEF Jobs, Blocks
    <3>2. block \in Blocks
      BY <1>4, <2>1, <3>1
    <3>3. QED
      BY <1>3, <2>6, <3>1, <3>2, PutTyped
  <2>11. DOMAIN file2 = 1..(n + 1)
    BY <2>8
  <2>12. Len(file2) = n + 1
    BY <2>10, <2>11
  <2>13. Begins(file2, content)
    BY <1>4, <2>3, <2>4, <2>7, <2>9, <2>11, <2>12 DEF Begins
  <2>14. s2 = [s EXCEPT !.next = s.next + 1]
    BY <1>1, <1>2, <2>4 DEF LeakTyped
  <2>15. s2.pc = "stream" /\ s2.of = v /\ s2.next = s.next + 1
    BY <1>3, <2>2, <2>3, <2>14 DEF Jobs
  <2>16. QED
    BY <2>3, <2>7, <2>12, <2>13, <2>15 DEF InPlace
<1>16. CASE StreamEnds("cables")
  <2>1. s.pc = "stream"
    BY <1>1, <1>16 DEF StreamEnds
  <2>2. s.of = v /\ s.next = Len(file) + 1 /\ Begins(file, content)
    BY <1>7, <2>1 DEF InPlace
  <2>3. /\ s.next > Len(content) /\ file2 = file
        /\ Moves("cables", IF file = <<>> THEN "failed" ELSE "parse")
    BY <1>1, <1>2, <1>16, <2>2 DEF StreamEnds
  <2>4. s2.pc = IF file = <<>> THEN "failed" ELSE "parse"
    BY <1>9, <1>10, <2>3
  <2>5. Len(file) = Len(content)
    <3>1. PICK n, top \in Nat : n = Len(file) /\ top = Len(content)
      BY <1>4, <1>5
    <3>2. n <= top /\ n + 1 > top
      BY <2>2, <2>3, <3>1 DEF Begins
    <3>3. n = top
      BY <3>2
    <3>4. QED
      BY <3>1, <3>3
  <2>6. QED
    BY <1>5, <2>2, <2>3, <2>4, <2>5 DEF InPlace
<1>17. CASE StreamBreaks("cables")
  <2>1. file2 = file /\ s2.pc \in {"failed", "get"}
    <3>1. job' = [job EXCEPT !["cables"] =
                    [s EXCEPT !.pc = IF s.attempt = MAX_RETRIES THEN "failed" ELSE "get",
                              !.attempt = s.attempt + 1]]
      BY <1>1, <1>17 DEF StreamBreaks
    <3>2. s2 = [s EXCEPT !.pc = IF s.attempt = MAX_RETRIES THEN "failed" ELSE "get",
                         !.attempt = s.attempt + 1]
      BY <1>1, <1>2, <3>1 DEF LeakTyped
    <3>3. file2 = file
      BY <1>1, <1>17 DEF StreamBreaks
    <3>4. QED
      BY <1>3, <3>2, <3>3 DEF Jobs
  <2>2. QED
    BY <1>7, <2>1 DEF InPlace
<1>18. CASE Killed("cables") \/ Rematerialize("cables")
  <2>1. file2 = file /\ s2 = NoJob
    BY <1>1, <1>2, <1>18 DEF Killed, Rematerialize, LeakTyped
  <2>2. s2.pc = "idle"
    BY <2>1 DEF NoJob
  <2>3. QED
    BY <1>7, <2>1, <2>2 DEF InPlace
<1>19. CASE Parse("cables")
  <2>1. /\ s.pc = "parse" /\ file2 = file /\ Moves("cables", "done")
        /\ extracted' = [extracted EXCEPT !["cables"] = ParseCables(file)]
    BY <1>1, <1>2, <1>19 DEF Parse
  <2>2. s2.pc = "done"
    BY <1>9, <1>10, <2>1
  <2>3. Begins(file, content) /\ Len(file) = Len(content)
    BY <1>7, <2>1 DEF InPlace
  <2>4. file = content
    <3>1. PICK n \in Nat : n = Len(file) /\ n = Len(content)
      BY <1>5, <2>3
    <3>2. DOMAIN file = 1..n /\ DOMAIN content = 1..n /\ \A k \in 1..n : file[k] = content[k]
      BY <1>4, <1>5, <2>3, <3>1 DEF Begins
    <3>3. \A f, g \in Seq(Blocks) :
             (\E m \in Nat : /\ DOMAIN f = 1..m /\ DOMAIN g = 1..m
                             /\ \A k \in 1..m : f[k] = g[k]) => f = g
      OBVIOUS
    <3>4. QED
      BY <1>3, <1>4, <3>2, <3>3
  <2>5. extracted'["cables"] = ParseCables(content)
    BY <1>2, <2>1, <2>4 DEF LeakTyped
  <2>6. QED
    BY <1>4, <1>7, <2>1, <2>2, <2>5 DEF InPlace
<1>20. QED
  BY <1>11, <1>12, <1>13, <1>14, <1>15, <1>16, <1>17, <1>18, <1>19 DEF JobStep

LEMMA CablesLeft ==
  ASSUME LeakTyped, CablesInv, NEW j \in Job \ {"cables"}, JobStep(j)
  PROVE  CablesInv'
<1>1. /\ "cables" \in Job /\ Path(j) # CablesFile
      /\ CablesFile \in DOMAIN Contents
  BY FilesOfServer
<1>2. /\ UNCHANGED version
      /\ harmed' = harmed \/ harmed' = harmed \cup {Path(j)}
      /\ job' = [job EXCEPT ![j] = job'[j]]
      /\ disk' = disk \/ disk' = [disk EXCEPT ![Path(j)] = disk'[Path(j)]]
      /\ extracted' = extracted \/ extracted' = [extracted EXCEPT ![j] = extracted'[j]]
  <2>1. UNCHANGED version /\ (harmed' = harmed \/ harmed' = harmed \cup {Path(j)})
    BY DEF JobStep, BeginDownload, AskSize, HeadFails, OpenStream, WriteBlock, StreamEnds,
           StreamBreaks, Killed, Rematerialize, Parse
  <2>2. job' = [job EXCEPT ![j] = job'[j]]
    BY DEF LeakTyped, JobStep, BeginDownload, AskSize, HeadFails, OpenStream, WriteBlock,
           StreamEnds, StreamBreaks, Killed, Rematerialize, Parse, Moves
  <2>3. disk' = disk \/ disk' = [disk EXCEPT ![Path(j)] = disk'[Path(j)]]
    BY DEF LeakTyped, JobStep, BeginDownload, AskSize, HeadFails, OpenStream, WriteBlock,
           StreamEnds, StreamBreaks, Killed, Rematerialize, Parse
  <2>4. extracted' = extracted \/ extracted' = [extracted EXCEPT ![j] = extracted'[j]]
    BY DEF LeakTyped, JobStep, BeginDownload, AskSize, HeadFails, OpenStream, WriteBlock,
           StreamEnds, StreamBreaks, Killed, Rematerialize, Parse
  <2>5. QED
    BY <2>1, <2>2, <2>3, <2>4
<1>3. /\ job'["cables"] = job["cables"] /\ disk'[CablesFile] = disk[CablesFile]
      /\ extracted'["cables"] = extracted["cables"]
      /\ (CablesFile \in harmed' <=> CablesFile \in harmed)
  BY <1>1, <1>2 DEF LeakTyped
<1>4. QED
  BY <1>2, <1>3 DEF CablesInv

\* An archive is parsed when it is one that the server has, or the asset fails.
LEMMA ArchiveMoves ==
  ASSUME LeakTyped, ArchiveInv, NEW j \in Job, JobStep(j)
  PROVE  ArchiveInv'
<1> SUFFICES ASSUME NEW i \in Job \ {"cables"}, job'[i].pc = "done"
             PROVE  \E file \in ToSet(Contents[Path(i)]) : extracted'[i] = ParseArchive(i, file)
  BY DEF ArchiveInv
<1>1. ASSUME job'[i].pc = job[i].pc, extracted'[i] = extracted[i]
      PROVE  \E file \in ToSet(Contents[Path(i)]) : extracted'[i] = ParseArchive(i, file)
  BY <1>1 DEF ArchiveInv
<1>2. job[j] \in Jobs
  BY DEF LeakTyped
<1>3. CASE Parse(j)
  <2>1. CASE i = j
    <3>1. PICK file : file = disk[Path(j)]
      OBVIOUS
    <3>2. /\ AVersion(Path(j), file)
          /\ extracted' = [extracted EXCEPT ![j] = ParseArchive(j, file)]
      <4>1. job'[j].pc # "failed"
        BY <2>1
      <4>2. ~Moves(j, "failed")
        BY <1>2, <4>1 DEF Moves, LeakTyped, Jobs
      <4>3. QED
        BY <1>3, <2>1, <3>1, <4>2 DEF Parse
    <3>3. PICK u \in DOMAIN Contents[Path(j)] : file = Contents[Path(j)][u]
      BY <3>2 DEF AVersion
    <3>4. file \in ToSet(Contents[Path(j)])
      BY <3>3, FilesOfServer
    <3>5. extracted'[i] = ParseArchive(i, file)
      BY <2>1, <3>2 DEF LeakTyped
    <3>6. QED
      BY <2>1, <3>4, <3>5
  <2>2. CASE i # j
    <3>1. job'[i] = job[i] /\ extracted'[i] = extracted[i]
      BY <1>3, <2>2 DEF Parse, Moves, LeakTyped
    <3>2. QED
      BY <1>1, <3>1
  <2>3. QED
    BY <2>1, <2>2
<1>4. CASE ~Parse(j)
  <2>1. extracted' = extracted
    BY <1>4 DEF JobStep, BeginDownload, AskSize, HeadFails, OpenStream, WriteBlock,
                StreamEnds, StreamBreaks, Killed, Rematerialize
  <2>2. CASE i # j
    <3>1. job'[i] = job[i]
      BY <1>4, <2>2 DEF LeakTyped, JobStep, BeginDownload, AskSize, HeadFails, OpenStream,
                WriteBlock, StreamEnds, StreamBreaks, Killed, Rematerialize, Moves
    <3>2. QED
      BY <1>1, <2>1, <3>1
  <2>3. CASE i = j
    <3>1. PICK s : s = job[j]
      OBVIOUS
    <3>2. job'[j].pc # "done" \/ job'[j].pc = job[j].pc
      <4>1. ASSUME NEW pc, Moves(j, pc) PROVE job'[j].pc = pc
        BY <1>2, <4>1 DEF Moves, LeakTyped, Jobs
      <4>2. CASE BeginDownload(j) \/ AskSize(j) \/ HeadFails(j) \/ StreamEnds(j)
        BY <4>1, <4>2 DEF BeginDownload, AskSize, HeadFails, StreamEnds
      <4>3. CASE OpenStream(j)
        <5>1. \/ Moves(j, "failed")
              \/ \E r : r.pc = "stream" /\ job' = [job EXCEPT ![j] = r]
          BY <4>3 DEF OpenStream
        <5>2. QED
          BY <4>1, <5>1 DEF LeakTyped
      <4>4. CASE WriteBlock(j)
        <5>1. job' = [job EXCEPT ![j] = [s EXCEPT !.next = s.next + 1]]
          BY <3>1, <4>4 DEF WriteBlock, LeakTyped
        <5>2. job'[j] = [s EXCEPT !.next = s.next + 1]
          BY <5>1 DEF LeakTyped
        <5>3. QED
          BY <1>2, <3>1, <5>2 DEF Jobs
      <4>5. CASE StreamBreaks(j)
        <5>1. job'[j] = [s EXCEPT !.pc = IF s.attempt = MAX_RETRIES THEN "failed" ELSE "get",
                                  !.attempt = s.attempt + 1]
          BY <3>1, <4>5 DEF StreamBreaks, LeakTyped
        <5>2. QED
          BY <1>2, <3>1, <5>1 DEF Jobs
      <4>6. CASE Killed(j) \/ Rematerialize(j)
        BY <4>6 DEF Killed, Rematerialize, NoJob, LeakTyped
      <4>7. QED
        BY <1>4, <4>2, <4>3, <4>4, <4>5, <4>6 DEF JobStep
    <3>3. QED
      BY <1>1, <2>1, <2>3, <3>2
  <2>4. QED
    BY <2>2, <2>3
<1>5. QED
  BY <1>3, <1>4

\* The server gets another version: what was cached of the last one is harmed.
LEMMA VersionMoves ==
  ASSUME LeakInv, NEW p \in DOMAIN Contents, NewVersion(p)
  PROVE  LeakInv'
<1>1. UNCHANGED <<disk, job, extracted, interruptions>>
  BY DEF NewVersion
<1>2. LeakTyped /\ CablesInv /\ ArchiveInv
  BY DEF LeakInv
<1>3. LeakTyped'
  <2>1. version' = [version EXCEPT ![p] = version[p] + 1] /\ version[p] < Len(Contents[p])
    BY DEF NewVersion
  <2>2. /\ version[p] \in Nat /\ version[p] \in DOMAIN Contents[p]
        /\ Len(Contents[p]) \in Nat /\ DOMAIN Contents[p] = 1..Len(Contents[p])
    BY <1>2, FilesOfServer DEF LeakTyped
  <2>3. version[p] + 1 \in Nat /\ version[p] + 1 \in DOMAIN Contents[p]
    BY <2>1, <2>2
  <2>4. /\ version' \in [DOMAIN Contents -> Nat]
        /\ \A q \in DOMAIN Contents : version'[q] \in DOMAIN Contents[q]
    BY <1>2, <2>1, <2>3 DEF LeakTyped
  <2>5. QED
    BY <1>1, <1>2, <2>4 DEF LeakTyped
<1>4. ArchiveInv'
  BY <1>1, <1>2 DEF ArchiveInv
<1>5. CablesInv'
  <2>1. CASE p # CablesFile
    <3>1. /\ version'[CablesFile] = version[CablesFile]
          /\ (CablesFile \in harmed' <=> CablesFile \in harmed)
      BY <1>2, <2>1, FilesOfServer DEF NewVersion, LeakTyped
    <3>2. QED
      BY <1>1, <1>2, <3>1 DEF CablesInv
  <2>2. CASE p = CablesFile
    <3> SUFFICES ASSUME CablesFile \notin harmed' PROVE CablesInv'
      BY DEF CablesInv
    <3>1. CablesFile \notin harmed /\ disk[CablesFile] = <<>> /\ job["cables"].pc # "stream"
      BY <2>2, FilesOfServer DEF NewVersion
    <3>2. /\ InPlace(job["cables"], disk[CablesFile],
                     Contents[CablesFile][version[CablesFile]], version[CablesFile])
          /\ job["cables"].pc = "done" =>
                \E file \in ToSet(Contents[CablesFile]) : extracted["cables"] = ParseCables(file)
      BY <1>2, <3>1 DEF CablesInv
    <3>3. Len(disk[CablesFile]) = 0 /\ DOMAIN disk[CablesFile] = 1..0
      BY <3>1
    <3>4. job["cables"].pc \notin {"head", "parse"}
      BY <3>2, <3>3 DEF InPlace
    <3>5. PICK v, content : v = version'[CablesFile] /\ content = Contents[CablesFile][v]
      OBVIOUS
    <3>6. Len(content) \in Nat
      BY <1>3, <3>5, FilesOfServer DEF LeakTyped
    <3>7. Begins(disk[CablesFile], content)
      BY <3>3, <3>6 DEF Begins
    <3>8. InPlace(job["cables"], disk[CablesFile], content, v)
      BY <3>1, <3>4, <3>7 DEF InPlace
    <3>9. QED
      BY <1>1, <3>2, <3>5, <3>8 DEF CablesInv
  <2>3. QED
    BY <2>1, <2>2
<1>6. QED
  BY <1>3, <1>4, <1>5 DEF LeakInv

LEMMA LeakStep == LeakInv /\ [LeakNext]_leakVars => LeakInv'
<1> SUFFICES ASSUME LeakInv, [LeakNext]_leakVars PROVE LeakInv'
  OBVIOUS
<1>1. LeakTyped /\ CablesInv /\ ArchiveInv
  BY DEF LeakInv
<1>2. CASE UNCHANGED leakVars
  BY <1>1, <1>2 DEF leakVars, LeakInv, LeakTyped, CablesInv, ArchiveInv
<1>3. ASSUME NEW j \in Job, JobStep(j) PROVE LeakInv'
  <2>1. LeakTyped' /\ ArchiveInv'
    BY <1>1, <1>3, JobStepTyped, ArchiveMoves
  <2>2. CablesInv'
    <3>1. CASE j # "cables"
      BY <1>1, <1>3, <3>1, CablesLeft
    <3>2. CASE j = "cables" /\ CablesFile \notin harmed'
      BY <1>1, <1>3, <3>2, CablesMoves
    <3>3. CASE CablesFile \in harmed'
      BY <3>3 DEF CablesInv
    <3>4. QED
      BY <3>1, <3>2, <3>3
  <2>3. QED
    BY <2>1, <2>2 DEF LeakInv
<1>4. ASSUME NEW p \in DOMAIN Contents, NewVersion(p) PROVE LeakInv'
  BY <1>4, VersionMoves
<1>5. QED
  BY <1>2, <1>3, <1>4 DEF LeakNext

\* A sequence that has nothing twice has as many members as it is long.
LEMMA OnceCounted ==
  ASSUME NEW S, NEW s \in Seq(S), NoneTwice(s)
  PROVE  Cardinality(ToSet(s)) = Len(s)
<1>1. PICK n \in Nat : n = Len(s)
  OBVIOUS
<1>2. DOMAIN s = 1..n
  BY <1>1
<1>3. ToSet(s) = {s[i] : i \in 1..n}
  BY <1>2 DEF ToSet
<1>4. ExistsBijection(1..n, ToSet(s))
  <2>1. PICK f : f = [i \in 1..n |-> s[i]]
    OBVIOUS
  <2>2. f \in [1..n -> ToSet(s)]
    BY <1>3, <2>1
  <2>3. \A a, b \in 1..n : f[a] = f[b] => a = b
    BY <1>2, <2>1 DEF NoneTwice
  <2>4. \A t \in ToSet(s) : \E a \in 1..n : f[a] = t
    BY <1>3, <2>1
  <2>5. f \in Bijection(1..n, ToSet(s))
    BY <2>2, <2>3, <2>4, Fun_IsBij
  <2>6. QED
    BY <2>5, Fun_ExistsBij
<1>5. \A T : ExistsBijection(1..n, T) => Cardinality(T) = n
  BY FS_CountingElements
<1>6. QED
  BY <1>1, <1>4, <1>5

LEMMA LeakHolds == LeakInv => SourcesWhole
<1> SUFFICES ASSUME LeakInv, NEW j \in Job, job[j].pc = "done", Path(j) \notin harmed
             PROVE  \E file \in ToSet(Contents[Path(j)]) :
                       IF j = "cables"
                       THEN /\ ToSet(extracted[j]) \subseteq CablesOf(file)
                            /\ Cardinality(ToSet(extracted[j])) = Len(extracted[j])
                            /\ Limited(Len(extracted[j])) \/ ToSet(extracted[j]) = CablesOf(file)
                       ELSE extracted[j] = ParseArchive(j, file)
  BY DEF SourcesWhole
<1>1. CASE j # "cables"
  BY <1>1 DEF LeakInv, ArchiveInv
<1>2. CASE j = "cables"
  <2>1. Path(j) = CablesFile /\ CablesFile \in DOMAIN Contents
    BY <1>2, FilesOfServer
  <2>2. PICK file \in ToSet(Contents[CablesFile]) : extracted["cables"] = ParseCables(file)
    BY <1>2, <2>1 DEF LeakInv, CablesInv
  <2>3. WholeLines(file)
    <3>1. file \in Seq(Blocks) /\ Hole \notin ToSet(file)
      <4>1. PICK v \in DOMAIN Contents[CablesFile] : file = Contents[CablesFile][v]
        BY <2>2 DEF ToSet
      <4>2. file \in Seq(Blocks)
        BY <2>1, <4>1, FilesOfServer
      <4>3. QED
        BY <2>1, <2>2, <4>2, LeakDownloadsAssumption
    <3>2. file \in Seq(ToSet(file))
      BY <3>1 DEF ToSet
    <3>3. /\ \A k \in DOMAIN file : file[k].first \in BOOLEAN
          /\ \A k, m \in Firsts(file) : file[k].id = file[m].id => k = m
      BY <2>2, LeakDownloadsAssumption DEF CablesFile
    <3>4. QED
      BY <3>1, <3>2, <3>3 DEF WholeLines
  <2>4. PICK had : had = ParseCables(file)
    OBVIOUS
  <2>5. /\ had \in Seq(CablesOf(file)) /\ NoneTwice(had)
        /\ Limited(Len(had)) \/ ToSet(had) = CablesOf(file)
    BY <2>3, <2>4, ParsesAll
  <2>6. ToSet(had) \subseteq CablesOf(file)
    BY <2>5 DEF ToSet
  <2>7. Cardinality(ToSet(had)) = Len(had)
    BY <2>5, OnceCounted
  <2>8. QED
    BY <1>2, <2>1, <2>2, <2>4, <2>5, <2>6, <2>7
<1>3. QED
  BY <1>1, <1>2

\* However often a download breaks off, is killed and resumed, an extraction of open-leaks
\* has what a whole file of the server has (SourcesWhole), for any contents of the files,
\* any number of extractions, attempts and versions (extraction.py).
THEOREM SourcesAreWhole == LeakSpec => []SourcesWhole
<1>1. LeakSpec => []LeakInv
  BY LeakStart, LeakStep, PTL DEF LeakSpec
<1>2. QED
  BY <1>1, LeakHolds, PTL

-----------------------------------------------------------------------------
(* The pages of the court documents                                        *)

\* What the first n pages have, but for those passed over.
Pages(sk, n) == [i \in 1..n |-> IF i \in sk THEN <<>> ELSE Items(i)]

Had(sk, n) == FlattenSeq(Pages(sk, n))

\* The limit on the documents.
Cut(had) == IF MaxDocs = 0 THEN had ELSE SubSeq(had, 1, AtMost(MaxDocs, Len(had)))

\* A reading has the documents of all pages before the one it is at, and is below its
\* limit; when it is done it has what all pages have.
PagesInv ==
    /\ page \in Nat \ {0} /\ skipped \in SUBSET (1..(page - 1))
    /\ reader \in {"idle", "reading"} =>
          /\ docs = Had(skipped, page - 1)
          /\ MaxDocs > 0 => Len(docs) < MaxDocs
    /\ reader = "done" => docs = Cut(Had(skipped, Len(Docs)))

\* The documents of a page, and how many.
LEMMA ItemsOfPage ==
  ASSUME NEW n \in Nat \ {0}, NEW q, q = n * PAGE_SIZE
  PROVE  /\ Items(n) \in Seq(ToSet(Docs)) /\ q \in Nat
         /\ (n - 1) * PAGE_SIZE = q - PAGE_SIZE /\ q - PAGE_SIZE >= 0
         /\ Len(Items(n)) = IF q <= Len(Docs) THEN PAGE_SIZE
                            ELSE IF q - PAGE_SIZE <= Len(Docs) THEN Len(Docs) - (q - PAGE_SIZE)
                            ELSE 0
<1>1. PICK size, top : size = PAGE_SIZE /\ top = Len(Docs)
  OBVIOUS
<1>2. size \in Nat \ {0} /\ top \in Nat /\ DOMAIN Docs = 1..top /\ Docs \in Seq(ToSet(Docs))
  BY <1>1, LeakPagesAssumption
<1>3. q \in Nat /\ (n - 1) * size = q - size /\ q - size >= 0
  <2>1. PICK m \in Nat : n = m + 1
    <3>1. n - 1 \in Nat /\ n = (n - 1) + 1
      OBVIOUS
    <3>2. QED
      BY <3>1
  <2>2. (m + 1) * size = m * size + size /\ m * size \in Nat
    BY <1>2
  <2>3. QED
    BY <1>1, <1>2, <2>1, <2>2
<1>4. PICK from, to : from = (q - size) + 1 /\ to = AtMost(q, top)
  OBVIOUS
<1>5. from \in Nat /\ 1 <= from /\ to \in Nat /\ to <= top
  BY <1>2, <1>3, <1>4 DEF AtMost
<1>6. Items(n) = SubSeq(Docs, from, to)
  BY <1>1, <1>3, <1>4 DEF Items
<1>7. \A i \in from..to : Docs[i] \in ToSet(Docs)
  BY <1>2, <1>5 DEF ToSet
<1>8. /\ SubSeq(Docs, from, to) \in Seq(ToSet(Docs))
      /\ Len(SubSeq(Docs, from, to)) = IF from <= to THEN to - from + 1 ELSE 0
  BY <1>5, <1>7, SubSeqProperties
<1>9. (IF from <= to THEN to - from + 1 ELSE 0)
         = IF q <= top THEN size ELSE IF q - size <= top THEN top - (q - size) ELSE 0
  BY <1>2, <1>3, <1>4, <1>5 DEF AtMost
<1>10. QED
  BY <1>1, <1>3, <1>6, <1>8, <1>9

LEMMA PagesTyped ==
  ASSUME NEW sk, NEW n \in Nat
  PROVE  Pages(sk, n) \in Seq(Seq(ToSet(Docs))) /\ Len(Pages(sk, n)) = n
<1>1. \A i \in 1..n : (IF i \in sk THEN <<>> ELSE Items(i)) \in Seq(ToSet(Docs))
  <2> SUFFICES ASSUME NEW i \in 1..n PROVE (IF i \in sk THEN <<>> ELSE Items(i)) \in Seq(ToSet(Docs))
    OBVIOUS
  <2>1. i \in Nat \ {0}
    OBVIOUS
  <2>2. Items(i) \in Seq(ToSet(Docs))
    BY <2>1, ItemsOfPage
  <2>3. <<>> \in Seq(ToSet(Docs))
    OBVIOUS
  <2>4. QED
    BY <2>2, <2>3
<1>2. PICK p : p = Pages(sk, n)
  OBVIOUS
<1>3. p = [i \in 1..n |-> IF i \in sk THEN <<>> ELSE Items(i)]
  BY <1>2 DEF Pages
<1>4. p \in [1..n -> Seq(ToSet(Docs))]
  BY <1>1, <1>3
<1>5. QED
  BY <1>2, <1>4

LEMMA SameFlattening ==
  ASSUME NEW seqs
  PROVE  Lines!FlattenSeq(seqs) = FlattenSeq(seqs)
BY DEF Lines!FlattenSeq, FlattenSeq

LEMMA HadNext ==
  ASSUME NEW sk, NEW n \in Nat
  PROVE  /\ Had(sk, n) \in Seq(ToSet(Docs))
         /\ Had(sk, n + 1) = Had(sk, n) \o (IF n + 1 \in sk THEN <<>> ELSE Items(n + 1))
<1>1. PICK seqs, more : seqs = Pages(sk, n) /\ more = Pages(sk, n + 1)
  OBVIOUS
<1>2. n + 1 \in Nat
  OBVIOUS
<1>3. /\ seqs \in Seq(Seq(ToSet(Docs))) /\ Len(seqs) = n
      /\ more \in Seq(Seq(ToSet(Docs))) /\ Len(more) = n + 1
  BY <1>1, <1>2, PagesTyped
<1>4. /\ \A k \in 1..n : more[k] = seqs[k]
      /\ more[n + 1] = IF n + 1 \in sk THEN <<>> ELSE Items(n + 1)
  BY <1>1 DEF Pages
<1>5. /\ FlattenSeq(seqs) \in Seq(ToSet(Docs))
      /\ FlattenSeq(more) = FlattenSeq(seqs) \o more[n + 1]
  BY <1>3, <1>4, Lines!FlattenOneMore, SameFlattening
<1>6. QED
  BY <1>1, <1>4, <1>5 DEF Had

LEMMA HadNone ==
  ASSUME NEW sk
  PROVE  Had(sk, 0) = <<>>
<1>1. PICK seqs : seqs = Pages(sk, 0)
  OBVIOUS
<1>2. seqs \in Seq(Seq(ToSet(Docs))) /\ Len(seqs) = 0
  BY <1>1, PagesTyped
<1>3. PICK acc \in [0..Len(seqs) -> Seq(ToSet(Docs))] : Lines!Appends(acc, seqs, Len(seqs))
  BY <1>2, Lines!FlattenSteps
<1>4. acc[0] = <<>> /\ acc[0] = FlattenSeq(seqs)
  BY <1>2, <1>3, SameFlattening DEF Lines!Appends
<1>5. QED
  BY <1>1, <1>4 DEF Had

\* Only the pages before it count.
LEMMA HadSame ==
  ASSUME NEW sk, NEW other, NEW n \in Nat, \A i \in 1..n : i \in sk <=> i \in other
  PROVE  Had(sk, n) = Had(other, n)
BY DEF Had, Pages

\* The pages have no more than there is.
LEMMA HadBounded ==
  ASSUME NEW sk, NEW n \in Nat
  PROVE  /\ Len(Had(sk, n)) \in Nat /\ n * PAGE_SIZE \in Nat
         /\ Len(Had(sk, n)) <= AtMost(n * PAGE_SIZE, Len(Docs))
<1>1. PICK size, top : size = PAGE_SIZE /\ top = Len(Docs)
  OBVIOUS
<1>2. size \in Nat \ {0} /\ top \in Nat
  BY <1>1, LeakPagesAssumption
<1> DEFINE T == {k \in Nat : Len(Had(sk, k)) <= AtMost(k * size, top)}
<1>3. 0 \in T
  <2>1. Len(Had(sk, 0)) = 0
    BY HadNone
  <2>2. 0 * size = 0
    BY <1>2
  <2>3. QED
    BY <1>2, <2>1, <2>2 DEF AtMost
<1>4. ASSUME NEW k \in Nat, k \in T PROVE k + 1 \in T
  <2>1. PICK old, new, piece : /\ old = Had(sk, k) /\ new = Had(sk, k + 1)
                              /\ piece = IF k + 1 \in sk THEN <<>> ELSE Items(k + 1)
    OBVIOUS
  <2>2. PICK q : q = (k + 1) * PAGE_SIZE
    OBVIOUS
  <2>3. k + 1 \in Nat \ {0} /\ (k + 1) - 1 = k
    OBVIOUS
  <2>4. /\ Items(k + 1) \in Seq(ToSet(Docs)) /\ q \in Nat
        /\ k * size = q - size /\ q - size >= 0
        /\ Len(Items(k + 1)) = IF q <= top THEN size
                               ELSE IF q - size <= top THEN top - (q - size) ELSE 0
    BY <1>1, <2>2, <2>3, ItemsOfPage
  <2>5. old \in Seq(ToSet(Docs)) /\ new = old \o piece
    BY <2>1, HadNext
  <2>6. piece \in Seq(ToSet(Docs)) /\ Len(piece) <= Len(Items(k + 1)) /\ Len(piece) \in Nat
    <3>1. Len(<<>>) = 0 /\ <<>> \in Seq(ToSet(Docs)) /\ Len(Items(k + 1)) \in Nat
      BY <2>4
    <3>2. QED
      BY <2>1, <2>4, <3>1
  <2>7. Len(new) = Len(old) + Len(piece) /\ Len(old) \in Nat
    BY <2>5, <2>6
  <2>8. Len(old) <= AtMost(q - size, top)
    BY <1>4, <2>1, <2>4
  <2>9. PICK a, b, c : a = Len(old) /\ b = Len(piece) /\ c = Len(Items(k + 1))
    OBVIOUS
  <2>10. a + b <= AtMost(q, top)
    <3>1. a \in Nat /\ b \in Nat /\ b <= c
      BY <2>6, <2>7, <2>9
    <3>2. c = IF q <= top THEN size ELSE IF q - size <= top THEN top - (q - size) ELSE 0
      BY <2>4, <2>9
    <3>3. a <= AtMost(q - size, top)
      BY <2>8, <2>9
    <3>4. QED
      BY <1>2, <2>4, <3>1, <3>2, <3>3 DEF AtMost
  <2>11. (k + 1) * size = q
    BY <1>1, <2>2
  <2>12. QED
    BY <2>1, <2>7, <2>9, <2>10, <2>11
<1>5. Nat \subseteq T
  <2> HIDE DEF T
  <2> QED
    BY <1>3, <1>4, Lines!NatSetInduction
<1>6. Len(Had(sk, n)) \in Nat
  BY HadNext
<1>7. n * size \in Nat
  BY <1>2
<1>8. QED
  BY <1>1, <1>5, <1>6, <1>7

\* More pages have the same at the beginning.
LEMMA HadLonger ==
  ASSUME NEW sk, NEW n \in Nat, NEW m \in Nat
  PROVE  \E rest \in Seq(ToSet(Docs)) :
            /\ Had(sk, n + m) = Had(sk, n) \o rest
            /\ n * PAGE_SIZE >= Len(Docs) => rest = <<>>
<1> DEFINE Extended(k) == \E rest \in Seq(ToSet(Docs)) :
                           /\ Had(sk, n + k) = Had(sk, n) \o rest
                           /\ n * PAGE_SIZE >= Len(Docs) => rest = <<>>
           T == {k \in Nat : Extended(k)}
<1>1. 0 \in T
  <2>1. PICK rest : rest = <<>>
    OBVIOUS
  <2>2. rest \in Seq(ToSet(Docs)) /\ n + 0 = n
    BY <2>1
  <2>3. Had(sk, n) \o rest = Had(sk, n)
    BY <2>1, HadNext, ConcatEmptySeq
  <2>4. QED
    BY <2>1, <2>2, <2>3
<1>2. ASSUME NEW k \in Nat, k \in T PROVE k + 1 \in T
  <2>1. PICK rest \in Seq(ToSet(Docs)) :
           /\ Had(sk, n + k) = Had(sk, n) \o rest
           /\ n * PAGE_SIZE >= Len(Docs) => rest = <<>>
    BY <1>2
  <2>2. PICK piece : piece = IF (n + k) + 1 \in sk THEN <<>> ELSE Items((n + k) + 1)
    OBVIOUS
  <2>3. n + k \in Nat /\ (n + k) + 1 \in Nat \ {0} /\ n + (k + 1) = (n + k) + 1
    OBVIOUS
  <2>4. Had(sk, n + (k + 1)) = Had(sk, n + k) \o piece
    BY <2>2, <2>3, HadNext
  <2>5. /\ piece \in Seq(ToSet(Docs))
        /\ n * PAGE_SIZE >= Len(Docs) => piece = <<>>
    <3>1. PICK q, size, top, items : /\ q = ((n + k) + 1) * PAGE_SIZE /\ size = PAGE_SIZE
                                     /\ top = Len(Docs) /\ items = Items((n + k) + 1)
      OBVIOUS
    <3>2. /\ items \in Seq(ToSet(Docs)) /\ q \in Nat
          /\ Len(items) = IF q <= top THEN size
                          ELSE IF q - size <= top THEN top - (q - size) ELSE 0
          /\ size \in Nat \ {0} /\ top \in Nat
      <4>1. PICK at : at = (n + k) + 1
        OBVIOUS
      <4>2. at \in Nat \ {0} /\ q = at * PAGE_SIZE /\ items = Items(at)
        BY <2>3, <3>1, <4>1
      <4>3. size \in Nat \ {0} /\ top \in Nat
        BY <3>1, LeakPagesAssumption
      <4>4. /\ Items(at) \in Seq(ToSet(Docs)) /\ q \in Nat
            /\ Len(Items(at)) = IF q <= Len(Docs) THEN PAGE_SIZE
                                ELSE IF q - PAGE_SIZE <= Len(Docs) THEN Len(Docs) - (q - PAGE_SIZE)
                                ELSE 0
        BY <4>2, ItemsOfPage
      <4>5. QED
        BY <3>1, <4>2, <4>3, <4>4
    <3>3. q = n * size + (k * size + size) /\ k * size \in Nat /\ n * size \in Nat
      BY <3>1, <3>2
    <3>4. n * size >= top => Len(items) = 0
      BY <3>2, <3>3
    <3>5. <<>> \in Seq(ToSet(Docs)) /\ (Len(items) = 0 => items = <<>>)
      BY <3>2
    <3>6. QED
      BY <2>2, <3>1, <3>2, <3>4, <3>5
  <2>6. PICK more : more = rest \o piece
    OBVIOUS
  <2>7. more \in Seq(ToSet(Docs)) /\ Had(sk, n) \in Seq(ToSet(Docs))
    BY <2>5, <2>6, HadNext
  <2>8. (Had(sk, n) \o rest) \o piece = Had(sk, n) \o more
    BY <2>5, <2>6, <2>7, ConcatAssociative
  <2>9. n * PAGE_SIZE >= Len(Docs) => more = <<>>
    <3>1. <<>> \o <<>> = <<>>
      OBVIOUS
    <3>2. QED
      BY <2>1, <2>5, <2>6, <3>1
  <2>10. Extended(k + 1)
    <3>1. Had(sk, n + (k + 1)) = Had(sk, n) \o more
      BY <2>1, <2>4, <2>8
    <3>2. QED
      BY <2>7, <2>9, <3>1
  <2>11. QED
    <3> HIDE DEF Extended
    <3> QED
      BY <2>10
<1>3. Nat \subseteq T
  <2> HIDE DEF T
  <2> QED
    BY <1>1, <1>2, Lines!NatSetInduction
<1>4. Extended(m)
  BY <1>3
<1>5. QED
  BY <1>4

\* When the pages have come to the end of the documents, more of them add nothing.
LEMMA HadAll ==
  ASSUME NEW sk, NEW n \in Nat, NEW m \in Nat, n * PAGE_SIZE >= Len(Docs),
         m * PAGE_SIZE >= Len(Docs)
  PROVE  Had(sk, n) = Had(sk, m)
<1>1. ASSUME NEW a \in Nat, NEW b \in Nat, a <= b, a * PAGE_SIZE >= Len(Docs)
      PROVE  Had(sk, a) = Had(sk, b)
  <2>1. PICK k \in Nat : b = a + k
    <3>1. b - a \in Nat /\ b = a + (b - a)
      BY <1>1
    <3>2. QED
      BY <3>1
  <2>2. PICK rest \in Seq(ToSet(Docs)) : Had(sk, a + k) = Had(sk, a) \o rest /\ rest = <<>>
    BY <1>1, HadLonger
  <2>3. Had(sk, a) \o <<>> = Had(sk, a)
    BY HadNext, ConcatEmptySeq
  <2>4. QED
    BY <2>1, <2>2, <2>3
<1>2. n <= m \/ m <= n
  OBVIOUS
<1>3. QED
  BY <1>1, <1>2

\* A page is appended to what there is, up to the limit.
LEMMA CutPage ==
  ASSUME NEW S, NEW had \in Seq(S), NEW items \in Seq(S), MaxDocs > 0 => Len(had) < MaxDocs,
         docs = had
  PROVE  /\ Taken(items) = Cut(had \o items)
         /\ Taken(items) \in Seq(S) /\ Len(Taken(items)) <= Len(had \o items)
         /\ ~(MaxDocs > 0 /\ Len(Taken(items)) >= MaxDocs) => Taken(items) = had \o items
         /\ MaxDocs > 0 /\ Len(Taken(items)) >= MaxDocs => Len(had \o items) >= MaxDocs
<1>1. PICK n, m, max : n = Len(had) /\ m = Len(items) /\ max = MaxDocs
  OBVIOUS
<1>2. n \in Nat /\ m \in Nat /\ max \in Nat /\ (max > 0 => n < max)
  BY <1>1, LeakPagesAssumption
<1>3. PICK all : all = had \o items
  OBVIOUS
<1>4. /\ all \in Seq(S) /\ Len(all) = n + m
      /\ \A i \in 1..(n + m) : all[i] = IF i <= n THEN had[i] ELSE items[i - n]
  BY <1>1, <1>3, ConcatProperties
<1>5. CASE max = 0
  <2>1. Taken(items) = all /\ Cut(all) = all
    BY <1>1, <1>3, <1>5 DEF Taken, Cut
  <2>2. n + m <= n + m /\ ~(max > 0)
    BY <1>2, <1>5
  <2>3. QED
    BY <1>1, <1>3, <1>4, <2>1, <2>2
<1>6. CASE max # 0
  <2>1. PICK k, piece : k = AtMost(max - n, m) /\ piece = SubSeq(items, 1, k)
    OBVIOUS
  <2>2. k \in Nat /\ k <= m /\ k <= max - n /\ (k = max - n \/ k = m)
    BY <1>2, <1>6, <2>1 DEF AtMost
  <2>3. Taken(items) = had \o piece
    BY <1>1, <1>6, <2>1 DEF Taken
  <2>4. \A i \in 1..k : items[i] \in S
    <3>1. \A i \in 1..m : items[i] \in S
      BY <1>1, ElementOfSeq
    <3>2. QED
      BY <1>2, <2>2, <3>1
  <2>5. /\ piece \in Seq(S) /\ Len(piece) = k
        /\ \A i \in 1..k : piece[i] = items[i]
    <3>1. /\ piece \in Seq(S) /\ Len(piece) = IF 1 <= k THEN k - 1 + 1 ELSE 0
          /\ \A i \in 1..(k - 1 + 1) : piece[i] = items[1 + i - 1]
      BY <2>1, <2>2, <2>4, SubSeqProperties
    <3>2. k - 1 + 1 = k /\ \A i \in 1..k : 1 + i - 1 = i
      BY <2>2
    <3>3. QED
      BY <2>2, <3>1, <3>2
  <2>6. PICK taken, cut : taken = Taken(items) /\ cut = SubSeq(all, 1, n + k)
    OBVIOUS
  <2>7. /\ taken \in Seq(S) /\ Len(taken) = n + k
        /\ \A i \in 1..(n + k) : taken[i] = IF i <= n THEN had[i] ELSE piece[i - n]
    <3>1. PICK joined : joined = had \o piece
      OBVIOUS
    <3>2. /\ joined \in Seq(S) /\ Len(joined) = Len(had) + Len(piece)
          /\ \A i \in 1..(Len(had) + Len(piece)) :
                joined[i] = IF i <= Len(had) THEN had[i] ELSE piece[i - Len(had)]
      BY <2>5, <3>1, ConcatProperties
    <3>3. taken = joined /\ Len(had) = n /\ Len(piece) = k
      BY <1>1, <2>3, <2>5, <2>6, <3>1
    <3>4. QED
      BY <3>2, <3>3
  <2>8. \A i \in 1..(n + k) : all[i] \in S
    <3>1. \A i \in 1..(n + m) : all[i] \in S
      BY <1>4, ElementOfSeq
    <3>2. QED
      BY <1>2, <2>2, <3>1
  <2>9. /\ cut \in Seq(S) /\ Len(cut) = n + k
        /\ \A i \in 1..(n + k) : cut[i] = all[i]
    <3>1. /\ cut \in Seq(S) /\ Len(cut) = IF 1 <= n + k THEN (n + k) - 1 + 1 ELSE 0
          /\ \A i \in 1..((n + k) - 1 + 1) : cut[i] = all[1 + i - 1]
      BY <1>2, <2>2, <2>6, <2>8, SubSeqProperties
    <3>2. (n + k) - 1 + 1 = n + k /\ \A i \in 1..(n + k) : 1 + i - 1 = i
      BY <1>2, <2>2
    <3>3. QED
      BY <1>2, <2>2, <3>1, <3>2
  <2>10. \A i \in 1..(n + k) : taken[i] = cut[i]
    <3> SUFFICES ASSUME NEW i \in 1..(n + k) PROVE taken[i] = cut[i]
      OBVIOUS
    <3>1. i \in 1..(n + m) /\ (~(i <= n) => i - n \in 1..k)
      BY <1>2, <2>2
    <3>2. cut[i] = IF i <= n THEN had[i] ELSE items[i - n]
      BY <1>4, <2>9, <3>1
    <3>3. taken[i] = IF i <= n THEN had[i] ELSE piece[i - n]
      BY <2>7
    <3>4. QED
      BY <2>5, <3>1, <3>2, <3>3
  <2>11. taken = cut
    BY <2>7, <2>9, <2>10, SeqEqual
  <2>12. Cut(all) = cut
    <3>1. AtMost(max, n + m) = n + k
      BY <1>2, <2>1, <2>2 DEF AtMost
    <3>2. QED
      BY <1>1, <1>4, <1>6, <2>6, <3>1 DEF Cut
  <2>13. n + k <= n + m /\ (n + k >= max => n + m >= max)
    BY <1>2, <2>2
  <2>14. n + k < max => taken = all
    <3>1. n + k < max => k = m
      BY <1>2, <2>2
    <3>2. k = m => cut = all
      BY <1>4, <2>9, SeqEqual
    <3>3. QED
      BY <2>11, <3>1, <3>2
  <2>15. ~(max > 0 /\ n + k >= max) => taken = all
    BY <1>2, <1>6, <2>2, <2>14
  <2>16. QED
    BY <1>1, <1>3, <1>4, <2>6, <2>7, <2>11, <2>12, <2>13, <2>15
<1>7. QED
  BY <1>5, <1>6

\* Behind the limit nothing counts.
LEMMA CutLonger ==
  ASSUME NEW S, NEW had \in Seq(S), NEW rest \in Seq(S), MaxDocs > 0, Len(had) >= MaxDocs
  PROVE  Cut(had \o rest) = Cut(had)
<1>1. PICK n, m, max : n = Len(had) /\ m = Len(rest) /\ max = MaxDocs
  OBVIOUS
<1>2. n \in Nat /\ m \in Nat /\ max \in Nat /\ max > 0 /\ n >= max
  BY <1>1, LeakPagesAssumption
<1>3. Len(had \o rest) = n + m
  BY <1>1, ConcatProperties
<1>4. AtMost(max, n + m) = max /\ AtMost(max, n) = max
  BY <1>2 DEF AtMost
<1>5. Cut(had \o rest) = SubSeq(had \o rest, 1, max) /\ Cut(had) = SubSeq(had, 1, max)
  BY <1>1, <1>2, <1>3, <1>4 DEF Cut
<1>6. 1 \in 1..Len(had) /\ max \in 1..Len(had)
  BY <1>1, <1>2
<1>7. QED
  BY <1>5, <1>6, SubSeqOfConcat1

\* The last page of a reading: behind it there is nothing, or nothing that counts.
LEMMA LastOfAll ==
  ASSUME NEW sk, NEW n \in Nat \ {0}, n \notin sk, docs = Had(sk, n - 1),
         MaxDocs > 0 => Len(docs) < MaxDocs, LastPage(Items(n))
  PROVE  Taken(Items(n)) = Cut(Had(sk, Len(Docs)))
<1>1. PICK had, items, all, top, size, q :
        /\ had = Had(sk, n - 1) /\ items = Items(n) /\ all = had \o items
        /\ top = Len(Docs) /\ size = PAGE_SIZE /\ q = n * PAGE_SIZE
  OBVIOUS
<1>2. /\ top \in Nat /\ size \in Nat \ {0} /\ n - 1 \in Nat /\ (n - 1) + 1 = n
  BY <1>1, LeakPagesAssumption
<1>3. /\ items \in Seq(ToSet(Docs)) /\ q \in Nat
      /\ Len(items) = IF q <= top THEN size
                      ELSE IF q - size <= top THEN top - (q - size) ELSE 0
  BY <1>1, ItemsOfPage
<1>4. had \in Seq(ToSet(Docs)) /\ Had(sk, n) = all
  <2>1. PICK before \in Nat : before = n - 1
    BY <1>2
  <2>2. /\ Had(sk, before) \in Seq(ToSet(Docs))
        /\ Had(sk, before + 1) = Had(sk, before) \o (IF before + 1 \in sk THEN <<>> ELSE Items(before + 1))
    BY HadNext
  <2>3. before + 1 = n
    BY <1>2, <2>1
  <2>4. QED
    BY <1>1, <2>1, <2>2, <2>3
<1>5. /\ Taken(items) = Cut(all) /\ Len(Taken(items)) <= Len(all)
      /\ MaxDocs > 0 /\ Len(Taken(items)) >= MaxDocs => Len(all) >= MaxDocs
      /\ Taken(items) \in Seq(ToSet(Docs))
  BY <1>1, <1>3, <1>4, CutPage
<1>6. /\ Len(all) \in Nat /\ Len(all) <= AtMost(q, top)
  BY <1>1, <1>4, HadBounded
<1>7. top * PAGE_SIZE >= Len(Docs)
  <2>1. size >= 1
    BY <1>2
  <2>2. top * size >= top
    <3>1. PICK m \in Nat : size = m + 1
      <4>1. size - 1 \in Nat /\ size = (size - 1) + 1
        BY <1>2
      <4>2. QED
        BY <4>1
    <3>2. top * (m + 1) = top * m + top /\ top * m \in Nat
      BY <1>2
    <3>3. QED
      BY <1>2, <3>1, <3>2
  <2>3. QED
    BY <1>1, <2>2
<1>8. CASE q >= top
  <2>1. n * PAGE_SIZE >= Len(Docs) /\ n \in Nat
    BY <1>1, <1>8
  <2>2. Had(sk, n) = Had(sk, top)
    BY <1>2, <1>7, <2>1, HadAll
  <2>3. QED
    BY <1>1, <1>4, <1>5, <2>2
<1>9. CASE q < top
  <2>1. Len(items) = size /\ items # <<>>
    <3>1. Len(items) = size
      <4>1. q <= top
        BY <1>2, <1>3, <1>9
      <4>2. QED
        BY <1>3, <4>1
    <3>2. Len(<<>>) = 0
      OBVIOUS
    <3>3. QED
      BY <1>2, <3>1, <3>2
  <2>2. Len(all) < top
    BY <1>2, <1>3, <1>6, <1>9 DEF AtMost
  <2>3. MaxDocs > 0 /\ Len(Taken(items)) >= MaxDocs
    <3>1. PICK t, a : t = Len(Taken(items)) /\ a = Len(all)
      OBVIOUS
    <3>2. t \in Nat /\ a \in Nat /\ t <= a /\ a < top
      BY <1>5, <1>6, <2>2, <3>1
    <3>3. ~(t >= top) /\ ~(size < size)
      BY <1>2, <3>2
    <3>4. QED
      BY <1>1, <2>1, <3>1, <3>3 DEF LastPage
  <2>4. Len(all) >= MaxDocs
    BY <1>5, <2>3
  <2>5. n <= top
    <3>1. PICK m \in Nat : size = m + 1
      <4>1. size - 1 \in Nat /\ size = (size - 1) + 1
        BY <1>2
      <4>2. QED
        BY <4>1
    <3>2. q = n * m + n /\ n * m \in Nat
      BY <1>1, <3>1
    <3>3. QED
      BY <1>2, <1>9, <3>2
  <2>6. PICK k \in Nat : top = n + k
    <3>1. top - n \in Nat /\ top = n + (top - n)
      BY <1>2, <2>5
    <3>2. QED
      BY <3>1
  <2>7. PICK rest \in Seq(ToSet(Docs)) : Had(sk, n + k) = Had(sk, n) \o rest
    BY HadLonger
  <2>8. all \in Seq(ToSet(Docs))
    BY <1>1, <1>3, <1>4, ConcatProperties
  <2>9. Cut(all \o rest) = Cut(all)
    BY <2>3, <2>4, <2>8, CutLonger
  <2>10. QED
    BY <1>1, <1>4, <1>5, <2>6, <2>7, <2>9
<1>10. QED
  BY <1>2, <1>3, <1>8, <1>9

LEMMA PagesStart == PagesInit => PagesInv
<1> SUFFICES ASSUME PagesInit PROVE PagesInv
  OBVIOUS
<1>1. /\ reader = "idle" /\ page = 1 /\ docs = <<>> /\ skipped = {} /\ page - 1 = 0
  BY DEF PagesInit
<1>2. docs = Had(skipped, page - 1) /\ Len(docs) = 0
  BY <1>1, HadNone
<1>3. QED
  BY <1>1, <1>2 DEF PagesInv

LEMMA PagesStep == PagesInv /\ [PagesNext]_pageVars => PagesInv'
<1> SUFFICES ASSUME PagesInv, [PagesNext]_pageVars PROVE PagesInv'
  OBVIOUS
<1>0. /\ page \in Nat \ {0} /\ skipped \in SUBSET (1..(page - 1))
      /\ (page + 1) - 1 = page /\ page - 1 \in Nat /\ (page - 1) + 1 = page
  BY DEF PagesInv
<1>1. CASE UNCHANGED pageVars
  BY <1>1 DEF pageVars, PagesInv
<1>2. CASE CheckApiReachable
  BY <1>2 DEF CheckApiReachable, PagesInv
<1>3. CASE StopReading
  BY <1>3 DEF StopReading, PagesInv
<1>4. CASE FetchPage
  <2>1. PICK items, had : items = Items(page) /\ had = Had(skipped, page - 1)
    OBVIOUS
  <2>2. /\ reader = "reading" /\ docs' = Taken(items) /\ skipped' = skipped
        /\ docs = had /\ (MaxDocs > 0 => Len(docs) < MaxDocs)
    BY <1>4, <2>1 DEF FetchPage, PagesInv
  <2>3. page \notin skipped
    BY <1>0
  <2>4. CASE LastPage(items)
    <3>1. reader' = "done" /\ page' = page
      BY <1>4, <2>1, <2>4 DEF FetchPage
    <3>2. docs' = Cut(Had(skipped, Len(Docs)))
      BY <1>0, <2>1, <2>2, <2>3, <2>4, LastOfAll
    <3>3. QED
      BY <1>0, <2>2, <3>1, <3>2 DEF PagesInv
  <2>5. CASE ~LastPage(items)
    <3>1. reader' = "reading" /\ page' = page + 1
      BY <1>4, <2>1, <2>2, <2>5 DEF FetchPage
    <3>2. ~(MaxDocs > 0 /\ Len(Taken(items)) >= MaxDocs)
      BY <2>5 DEF LastPage
    <3>3. items \in Seq(ToSet(Docs)) /\ had \in Seq(ToSet(Docs))
      BY <1>0, <2>1, ItemsOfPage, HadNext
    <3>4. Taken(items) = had \o items /\ Len(Taken(items)) \in Nat
      <4>1. Taken(items) = had \o items
        <5>1. PICK S : S = ToSet(Docs)
          OBVIOUS
        <5>2. had \in Seq(S) /\ items \in Seq(S)
          BY <3>3, <5>1
        <5>3. ~(MaxDocs > 0 /\ Len(Taken(items)) >= MaxDocs) => Taken(items) = had \o items
          BY <2>2, <5>2, CutPage
        <5>4. QED
          BY <3>2, <5>3
      <4>2. had \o items \in Seq(ToSet(Docs))
        BY <3>3
      <4>3. QED
        BY <4>1, <4>2
    <3>5. docs' = Had(skipped, page)
      <4>1. PICK n \in Nat : n = page - 1
        BY <1>0
      <4>2. Had(skipped, n + 1) = Had(skipped, n) \o (IF n + 1 \in skipped THEN <<>> ELSE Items(n + 1))
        BY HadNext
      <4>3. n + 1 = page
        BY <1>0, <4>1
      <4>4. QED
        BY <2>1, <2>2, <2>3, <3>4, <4>1, <4>2, <4>3
    <3>6. MaxDocs > 0 => Len(docs') < MaxDocs
      BY <2>2, <3>2, <3>4, LeakPagesAssumption
    <3>7. page' \in Nat \ {0} /\ page' - 1 = page /\ skipped' \in SUBSET (1..page)
      BY <1>0, <2>2, <3>1
    <3>8. QED
      BY <2>2, <3>1, <3>5, <3>6, <3>7 DEF PagesInv
  <2>6. QED
    BY <2>4, <2>5
<1>5. CASE SkipPage
  <2>1. /\ reader = "reading" /\ docs' = docs
        /\ docs = Had(skipped, page - 1) /\ (MaxDocs > 0 => Len(docs) < MaxDocs)
    BY <1>5 DEF SkipPage, PagesInv
  <2>2. CASE reader' = "cut"
    <3>1. page' = page /\ skipped' = skipped
      BY <1>5, <2>1, <2>2 DEF SkipPage
    <3>2. QED
      BY <1>0, <2>2, <3>1 DEF PagesInv
  <2>3. CASE reader' # "cut"
    <3>1. reader' = "reading" /\ page' = page + 1 /\ skipped' = skipped \cup {page}
      BY <1>5, <2>1, <2>3 DEF SkipPage
    <3>2. PICK sk : sk = skipped \cup {page}
      OBVIOUS
    <3>3. \A i \in 1..(page - 1) : i \in skipped <=> i \in sk
      BY <1>0, <3>2
    <3>4. Had(skipped, page - 1) = Had(sk, page - 1)
      BY <1>0, <3>3, HadSame
    <3>5. Had(sk, page) = Had(sk, page - 1) \o <<>>
      <4>1. PICK n \in Nat : n = page - 1
        BY <1>0
      <4>2. Had(sk, n + 1) = Had(sk, n) \o (IF n + 1 \in sk THEN <<>> ELSE Items(n + 1))
        BY HadNext
      <4>3. n + 1 = page /\ page \in sk
        BY <1>0, <3>2, <4>1
      <4>4. QED
        BY <4>1, <4>2, <4>3
    <3>6. Had(sk, page - 1) \o <<>> = Had(sk, page - 1)
      BY <1>0, HadNext, ConcatEmptySeq
    <3>7. docs' = Had(skipped', page' - 1)
      BY <1>0, <2>1, <3>1, <3>2, <3>4, <3>5, <3>6
    <3>8. page' \in Nat \ {0} /\ skipped' \in SUBSET (1..(page' - 1))
      BY <1>0, <3>1
    <3>9. QED
      BY <2>1, <3>1, <3>7, <3>8 DEF PagesInv
  <2>4. QED
    BY <2>2, <2>3
<1>6. QED
  BY <1>1, <1>2, <1>3, <1>4, <1>5 DEF PagesNext

LEMMA PagesHold == PagesInv => PagesComplete
<1>1. FlattenSeq([n \in 1 .. Len(Docs) |-> IF n \in skipped THEN <<>> ELSE Items(n)])
        = Had(skipped, Len(Docs))
  BY DEF Had, Pages
<1>2. QED
  BY <1>1 DEF PagesInv, PagesComplete, Cut

\* A reading that was not cut short has, up to the limit, the documents of all pages but
\* those passed over, in order and once (PagesComplete), for any documents, page size and
\* limits (_fetch_epstein_api).
THEOREM PagesAreComplete == PagesSpec => []PagesComplete
<1>1. PagesSpec => []PagesInv
  BY PagesStart, PagesStep, PTL DEF PagesSpec
<1>2. QED
  BY <1>1, PagesHold, PTL

-----------------------------------------------------------------------------
(* Sequences                                                               *)

\* A sequence, of whatever elements.
Sequence(s) == s \in Seq({s[k] : k \in DOMAIN s})

LEMMA Listed ==
  ASSUME NEW f, NEW n \in Nat, f = [k \in 1..n |-> f[k]]
  PROVE  Sequence(f) /\ DOMAIN f = 1..n /\ Len(f) = n
BY DEF Sequence

LEMMA Positions ==
  ASSUME NEW s, Sequence(s)
  PROVE  \E n \in Nat : /\ n = Len(s) /\ DOMAIN s = 1..n /\ s = [k \in 1..n |-> s[k]]
                        /\ \A k \in 1..n : s[k] \in ToSet(s)
<1>1. PICK n \in Nat : n = Len(s) /\ DOMAIN s = 1..n /\ s = [k \in 1..n |-> s[k]]
  BY DEF Sequence
<1>2. \A k \in 1..n : s[k] \in ToSet(s)
  BY <1>1 DEF ToSet
<1>3. QED
  BY <1>1, <1>2

\* The elements of sequences put one behind the other are those of each.
LEMMA Flattened ==
  ASSUME NEW seqs, Sequence(seqs), \A k \in DOMAIN seqs : Sequence(seqs[k])
  PROVE  /\ Sequence(FlattenSeq(seqs))
         /\ ToSet(FlattenSeq(seqs)) = UNION {ToSet(seqs[k]) : k \in DOMAIN seqs}
<1>1. Lines!Sequence(seqs) /\ \A k \in DOMAIN seqs : Lines!Sequence(seqs[k])
  BY DEF Sequence, Lines!Sequence
<1>2. /\ Lines!Sequence(Lines!FlattenSeq(seqs))
      /\ Lines!ToSet(Lines!FlattenSeq(seqs)) = UNION {Lines!ToSet(seqs[k]) : k \in DOMAIN seqs}
  BY <1>1, Lines!FlattenElements
<1>3. \A s : Lines!ToSet(s) = ToSet(s) /\ (Lines!Sequence(s) <=> Sequence(s))
  BY DEF Lines!ToSet, ToSet, Lines!Sequence, Sequence
<1>4. QED
  BY <1>2, <1>3, SameFlattening

LEMMA Joining ==
  ASSUME NEW s, NEW t, Sequence(s), Sequence(t)
  PROVE  Sequence(s \o t) /\ ToSet(s \o t) = ToSet(s) \cup ToSet(t)
<1>1. PICK S : S = ToSet(s) \cup ToSet(t)
  OBVIOUS
<1>2. s \in Seq(S) /\ t \in Seq(S)
  BY <1>1 DEF Sequence, ToSet
<1>3. Lines!ToSet(s \o t) = Lines!ToSet(s) \cup Lines!ToSet(t)
  BY <1>2, Lines!ElementsOfBoth
<1>4. \A u : Lines!ToSet(u) = ToSet(u)
  BY DEF Lines!ToSet, ToSet
<1>5. Lines!Sequence(s \o t)
  <2>1. s \o t \in Seq(S)
    BY <1>2
  <2>2. QED
    BY <2>1, Lines!SequenceOfSome
<1>6. ToSet(s \o t) = ToSet(s) \cup ToSet(t)
  BY <1>3, <1>4
<1>7. Sequence(s \o t)
  BY <1>5 DEF Sequence, Lines!Sequence
<1>8. QED
  BY <1>6, <1>7

-----------------------------------------------------------------------------
(* Lists                                                                   *)

LEMMA ListIsSequence == ASSUME NEW s PROVE AList(s) <=> Sequence(s)
BY DEF AList, Sequence, ToSet

LEMMA NoElements == Sequence(<<>>) /\ ToSet(<<>>) = {}
BY DEF Sequence, ToSet

LEMMA NoneIsEmpty ==
  ASSUME NEW s, Sequence(s)
  PROVE  s = <<>> <=> ToSet(s) = {}
<1>1. PICK n \in Nat : n = Len(s) /\ DOMAIN s = 1..n /\ s = [k \in 1..n |-> s[k]]
  BY Positions
<1>2. CASE n = 0
  <2>1. s = <<>>
    BY <1>1, <1>2
  <2>2. QED
    BY <2>1, NoElements
<1>3. CASE n # 0
  <2>1. s[1] \in ToSet(s)
    BY <1>1, <1>3 DEF ToSet
  <2>2. s # <<>>
    BY <1>1, <1>3
  <2>3. QED
    BY <2>1, <2>2
<1>4. QED
  BY <1>2, <1>3

LEMMA OneElement == ASSUME NEW x PROVE Sequence(<<x>>) /\ ToSet(<<x>>) = {x}
<1>1. DOMAIN <<x>> = {1} /\ <<x>>[1] = x
  OBVIOUS
<1>2. <<x>> \in Seq({x})
  OBVIOUS
<1>3. {<<x>>[k] : k \in DOMAIN <<x>>} = {x}
  BY <1>1
<1>4. QED
  BY <1>2, <1>3 DEF Sequence, ToSet

LEMMA Appended ==
  ASSUME NEW s, Sequence(s), NEW x
  PROVE  /\ Sequence(Append(s, x)) /\ ToSet(Append(s, x)) = ToSet(s) \cup {x}
         /\ Append(s, x) # <<>> /\ Last(Append(s, x)) = x
<1>1. PICK n, S : /\ n \in Nat /\ n = Len(s) /\ DOMAIN s = 1..n
                  /\ S = ToSet(s) \cup {x} /\ s \in Seq(S)
  <2>1. PICK n \in Nat : n = Len(s) /\ DOMAIN s = 1..n
    BY Positions
  <2>2. PICK S : S = ToSet(s) \cup {x}
    OBVIOUS
  <2>3. s \in Seq(S)
    BY <2>2 DEF Sequence, ToSet
  <2>4. QED
    BY <2>1, <2>2, <2>3
<1>2. PICK t : t = Append(s, x)
  OBVIOUS
<1>3. /\ t \in Seq(S) /\ DOMAIN t = 1..(n + 1) /\ Len(t) = n + 1
      /\ \A k \in 1..n : t[k] = s[k]
      /\ t[n + 1] = x
  BY <1>1, <1>2
<1>4. ToSet(t) = ToSet(s) \cup {x}
  <2>1. 1..(n + 1) = 1..n \cup {n + 1}
    BY <1>1
  <2>2. QED
    BY <1>1, <1>3, <2>1 DEF ToSet
<1>5. t # <<>> /\ Last(t) = x
  BY <1>1, <1>3 DEF Last
<1>6. Sequence(t)
  BY <1>1, <1>3, <1>4 DEF Sequence, ToSet
<1>7. QED
  BY <1>2, <1>4, <1>5, <1>6

LEMMA FrontAndLast ==
  ASSUME NEW s, Sequence(s), s # <<>>
  PROVE  /\ Sequence(Front(s)) /\ Last(s) \in ToSet(s)
         /\ ToSet(s) = ToSet(Front(s)) \cup {Last(s)}
<1>1. PICK n, S : n \in Nat /\ n = Len(s) /\ DOMAIN s = 1..n /\ S = ToSet(s) /\ s \in Seq(S)
  <2>1. PICK n \in Nat : n = Len(s) /\ DOMAIN s = 1..n
    BY Positions
  <2>2. QED
    BY <2>1 DEF Sequence, ToSet
<1>2. n # 0
  BY <1>1
<1>3. PICK t : t = Front(s)
  OBVIOUS
<1>4. /\ t \in Seq(S) /\ DOMAIN t = 1..(n - 1) /\ Len(t) = n - 1
      /\ \A k \in 1..(n - 1) : t[k] = s[k]
  BY <1>1, <1>2, <1>3 DEF Front
<1>5. Last(s) = s[n]
  BY <1>1 DEF Last
<1>6. 1..n = 1..(n - 1) \cup {n}
  BY <1>1, <1>2
<1>7. ToSet(s) = ToSet(t) \cup {s[n]}
  BY <1>1, <1>4, <1>6 DEF ToSet
<1>8. Sequence(t)
  BY <1>4, <1>3, Lines!SequenceOfSome DEF Sequence, Lines!Sequence
<1>9. QED
  BY <1>3, <1>5, <1>7, <1>8

LEMMA HeadAndTail ==
  ASSUME NEW s, Sequence(s), s # <<>>
  PROVE  /\ Sequence(Tail(s)) /\ Head(s) \in ToSet(s)
         /\ ToSet(s) = {Head(s)} \cup ToSet(Tail(s))
<1>1. PICK n, S : n \in Nat /\ n = Len(s) /\ DOMAIN s = 1..n /\ S = ToSet(s) /\ s \in Seq(S)
  <2>1. PICK n \in Nat : n = Len(s) /\ DOMAIN s = 1..n
    BY Positions
  <2>2. QED
    BY <2>1 DEF Sequence, ToSet
<1>2. n # 0
  BY <1>1
<1>3. PICK t : t = Tail(s)
  OBVIOUS
<1>4. /\ t \in Seq(S) /\ DOMAIN t = 1..(n - 1)
      /\ \A k \in 1..(n - 1) : t[k] = s[k + 1]
  BY <1>1, <1>2, <1>3
<1>5. Head(s) = s[1] /\ 1 \in DOMAIN s
  BY <1>1, <1>2
<1>6. ASSUME NEW k \in 1..n PROVE k = 1 \/ (k - 1 \in 1..(n - 1) /\ (k - 1) + 1 = k)
  BY <1>1
<1>7. \A k \in 1..(n - 1) : k + 1 \in 1..n
  BY <1>1, <1>2
<1>8. ToSet(t) \subseteq ToSet(s)
  BY <1>1, <1>4, <1>7 DEF ToSet
<1>9. ToSet(s) \subseteq {s[1]} \cup ToSet(t)
  <2> SUFFICES ASSUME NEW x \in ToSet(s) PROVE x \in {s[1]} \cup ToSet(t)
    OBVIOUS
  <2>1. PICK k \in 1..n : x = s[k]
    BY <1>1 DEF ToSet
  <2>2. CASE k = 1
    BY <2>1, <2>2
  <2>3. CASE k # 1
    <3>1. k - 1 \in 1..(n - 1) /\ t[k - 1] = s[k]
      BY <1>4, <1>6, <2>3
    <3>2. QED
      BY <1>4, <2>1, <3>1 DEF ToSet
  <2>4. QED
    BY <2>2, <2>3
<1>10. Sequence(t)
  <2>1. Lines!Sequence(t)
    BY <1>4, Lines!SequenceOfSome
  <2>2. QED
    BY <2>1 DEF Sequence, Lines!Sequence
<1>11. s[1] \in ToSet(s)
  BY <1>5 DEF ToSet
<1>12. QED
  BY <1>3, <1>5, <1>8, <1>9, <1>10, <1>11

\* What the elements of a list are made into, one behind the other.
LEMMA Mapped ==
  ASSUME NEW f, NEW n \in Nat, f = [k \in 1..n |-> f[k]], \A k \in 1..n : Sequence(f[k])
  PROVE  /\ Sequence(FlattenSeq(f))
         /\ ToSet(FlattenSeq(f)) = UNION {ToSet(f[k]) : k \in 1..n}
<1>1. Sequence(f) /\ DOMAIN f = 1..n
  BY Listed
<1>2. QED
  BY <1>1, Flattened

\* The elements that pass a test, those of T.
LEMMA Chosen ==
  ASSUME NEW s, Sequence(s), NEW T,
         NEW t, t = FlattenSeq([k \in DOMAIN s |-> IF s[k] \in T THEN <<s[k]>> ELSE <<>>])
  PROVE  Sequence(t) /\ ToSet(t) = ToSet(s) \cap T
<1>1. PICK n \in Nat : n = Len(s) /\ DOMAIN s = 1..n
  BY Positions
<1>2. PICK f : f = [k \in 1..n |-> IF s[k] \in T THEN <<s[k]>> ELSE <<>>]
  OBVIOUS
<1>3. ASSUME NEW k \in 1..n
      PROVE  Sequence(f[k]) /\ ToSet(f[k]) = {s[k]} \cap T
  <2>1. f[k] = IF s[k] \in T THEN <<s[k]>> ELSE <<>>
    BY <1>2
  <2>2. CASE s[k] \in T
    BY <2>1, <2>2, OneElement
  <2>3. CASE s[k] \notin T
    BY <2>1, <2>3, NoElements
  <2>4. QED
    BY <2>2, <2>3
<1>4. f = [k \in 1..n |-> f[k]] /\ t = FlattenSeq(f)
  BY <1>1, <1>2
<1>5. Sequence(t) /\ ToSet(t) = UNION {ToSet(f[k]) : k \in 1..n}
  BY <1>3, <1>4, Mapped
<1>6. ToSet(s) = {s[k] : k \in 1..n}
  BY <1>1 DEF ToSet
<1>7. QED
  BY <1>3, <1>5, <1>6

LEMMA MappedOver ==
  ASSUME NEW s, Sequence(s), NEW f, f = [k \in DOMAIN s |-> f[k]],
         \A k \in DOMAIN s : Sequence(f[k])
  PROVE  /\ Sequence(FlattenSeq(f))
         /\ \A x : x \in ToSet(FlattenSeq(f)) <=> \E k \in DOMAIN s : x \in ToSet(f[k])
<1>1. PICK n \in Nat : n = Len(s) /\ DOMAIN s = 1..n
  BY Positions
<1>2. f = [k \in 1..n |-> f[k]]
  BY <1>1
<1>3. /\ Sequence(FlattenSeq(f))
      /\ ToSet(FlattenSeq(f)) = UNION {ToSet(f[k]) : k \in 1..n}
  BY <1>1, <1>2, Mapped
<1>4. QED
  BY <1>1, <1>3

\* A set of natural numbers has a smallest.
LEMMA SmallestOf ==
  ASSUME NEW S \in SUBSET Nat, S # {}
  PROVE  \E n \in S : \A m \in S : n <= m
<1>1. IsWellFoundedOn(OpToRel(<, Nat), Nat)
  BY NatLessThanWellFounded
<1>2. PICK n \in S : \A m \in S : ~ (<<m, n>> \in OpToRel(<, Nat))
  BY <1>1, WFMin
<1>3. \A m \in S : ~(m < n)
  BY <1>2 DEF OpToRel
<1>4. QED
  BY <1>3

-----------------------------------------------------------------------------
(* Texts that are split                                                    *)

TextList(texts_) == Sequence(texts_) /\ \A t \in ToSet(texts_) : Sequence(t)

\* p is taken into the last piece or into one more, which begins with an end of that one.
TakenIn(pieces, p, more) ==
    \E e : /\ Sequence(e) /\ p \in ToSet(e)
           /\ \/ /\ more = Append(pieces, e)
                 /\ pieces = <<>> => ToSet(e) = {p}
                 /\ pieces # <<>> => ToSet(e) \subseteq ToSet(Last(pieces)) \cup {p}
              \/ /\ pieces # <<>> /\ more = Append(Front(pieces), e)
                 /\ ToSet(e) = ToSet(Last(pieces)) \cup {p}

LEMMA TakenInIsThere ==
  ASSUME NEW pieces, TextList(pieces), NEW p, NEW more, TakenIn(pieces, p, more)
  PROVE  TextList(more) /\ PiecesOf(more) = PiecesOf(pieces) \cup {p}
<1> USE DEF TextList, PiecesOf, Pieces
<1>1. PICK e : /\ Sequence(e) /\ p \in ToSet(e)
               /\ \/ /\ more = Append(pieces, e)
                     /\ pieces = <<>> => ToSet(e) = {p}
                     /\ pieces # <<>> => ToSet(e) \subseteq ToSet(Last(pieces)) \cup {p}
                  \/ /\ pieces # <<>> /\ more = Append(Front(pieces), e)
                     /\ ToSet(e) = ToSet(Last(pieces)) \cup {p}
  BY DEF TakenIn
<1>2. CASE more = Append(pieces, e) /\ pieces = <<>> /\ ToSet(e) = {p}
  <2>1. Sequence(more) /\ ToSet(more) = ToSet(pieces) \cup {e} /\ ToSet(pieces) = {}
    BY <1>2, Appended, NoElements
  <2>2. QED
    BY <1>1, <1>2, <2>1
<1>3. CASE /\ more = Append(pieces, e) /\ pieces # <<>>
           /\ ToSet(e) \subseteq ToSet(Last(pieces)) \cup {p}
  <2>1. Sequence(more) /\ ToSet(more) = ToSet(pieces) \cup {e} /\ Last(pieces) \in ToSet(pieces)
    BY <1>3, Appended, FrontAndLast
  <2>2. QED
    BY <1>1, <1>3, <2>1
<1>4. CASE /\ pieces # <<>> /\ more = Append(Front(pieces), e)
           /\ ToSet(e) = ToSet(Last(pieces)) \cup {p}
  <2>1. /\ Sequence(Front(pieces)) /\ ToSet(pieces) = ToSet(Front(pieces)) \cup {Last(pieces)}
    BY <1>4, FrontAndLast
  <2>2. Sequence(more) /\ ToSet(more) = ToSet(Front(pieces)) \cup {e}
    BY <1>4, <2>1, Appended
  <2>3. QED
    BY <1>1, <1>4, <2>1, <2>2
<1>5. QED
  BY <1>1, <1>2, <1>3, <1>4

\* Among the ends of a text there is a longest of those in F, or none is in F.
LEMMA LongestEnd ==
  ASSUME NEW text, Sequence(text), NEW F
  PROVE  LET ends == {SubSeq(text, n, Len(text)) : n \in 1..(Len(text) + 1)}
         IN  /\ \A e \in ends : Sequence(e) /\ ToSet(e) \subseteq ToSet(text)
             /\ \E e \in ends : /\ e \in F \/ e = <<>>
                                /\ \A f \in ends : Len(f) > Len(e) => f \notin F
<1>1. PICK m, S : m \in Nat /\ m = Len(text) /\ DOMAIN text = 1..m /\ S = ToSet(text) /\ text \in Seq(S)
  <2>1. PICK m \in Nat : m = Len(text) /\ DOMAIN text = 1..m
    BY Positions
  <2>2. QED
    BY <2>1 DEF Sequence, ToSet
<1> DEFINE end(n) == SubSeq(text, n, m)
           T == {k \in Nat : \A n \in 1..(m + 1) : m + 1 - n = k => end(n) \in F}
<1>2. ASSUME NEW n \in 1..(m + 1)
      PROVE  end(n) \in Seq(S) /\ Len(end(n)) = m + 1 - n
  BY <1>1
<1>3. ASSUME NEW n \in 1..(m + 1) PROVE Sequence(end(n)) /\ ToSet(end(n)) \subseteq ToSet(text)
  <2>1. PICK e : e = end(n) /\ e \in Seq(S)
    BY <1>2
  <2>2. Sequence(e)
    <3>1. Lines!Sequence(e)
      BY <2>1, Lines!SequenceOfSome
    <3>2. QED
      BY <3>1 DEF Sequence, Lines!Sequence
  <2>3. ToSet(e) \subseteq S
    BY <2>1 DEF ToSet
  <2>4. QED
    BY <1>1, <2>1, <2>2, <2>3
<1> DEFINE K == {n \in 1..(m + 1) : end(n) \in F}
<1>4. \E n \in 1..(m + 1) : /\ end(n) \in F \/ end(n) = <<>>
                            /\ \A i \in 1..(m + 1) : i < n => end(i) \notin F
  <2>1. CASE K = {}
    <3>1. m + 1 \in 1..(m + 1) /\ end(m + 1) = <<>>
      <4>1. m + 1 \in 1..(m + 1)
        BY <1>1
      <4>2. Len(end(m + 1)) = 0 /\ end(m + 1) \in Seq(S)
        BY <1>2, <4>1
      <4>3. QED
        BY <4>1, <4>2
    <3>2. QED
      BY <2>1, <3>1
  <2>2. CASE K # {}
    <3>1. \E n \in K : \A i \in K : n <= i
      <4> HIDE DEF K
      <4>1. K \in SUBSET Nat
        BY DEF K
      <4>2. QED
        BY <2>2, <4>1, SmallestOf
    <3>2. PICK n \in K : \A i \in K : n <= i
      BY <3>1
    <3>3. n \in 1..(m + 1) /\ \A i \in 1..(m + 1) : i < n => end(i) \notin F
      BY <3>2
    <3>4. QED
      BY <3>2, <3>3
  <2>3. QED
    BY <2>1, <2>2
<1>5. PICK n \in 1..(m + 1) : /\ end(n) \in F \/ end(n) = <<>>
                              /\ \A i \in 1..(m + 1) : i < n => end(i) \notin F
  BY <1>4
<1>6. \A i \in 1..(m + 1) : Len(end(i)) > Len(end(n)) => i < n
  BY <1>2
<1> HIDE DEF end
<1>7. QED
  <2>1. \A e : e \in {SubSeq(text, i, Len(text)) : i \in 1..(Len(text) + 1)}
               <=> \E i \in 1..(m + 1) : e = end(i)
    BY <1>1 DEF end
  <2>2. QED
    BY <1>3, <1>5, <1>6, <2>1

-----------------------------------------------------------------------------
(* The chunker of bills: splitting and packing                             *)

LEMMA KeptOfBill ==
  ASSUME NEW cut, NEW piece, Sequence(piece), NEW p
  PROVE  /\ Sequence(Text!Kept(cut, piece, p))
         /\ ToSet(Text!Kept(cut, piece, p)) \subseteq ToSet(piece)
<1> DEFINE F == {e \in Text!Ends(piece) :
                   TextLength(e) <= cut.overlap /\ TextLength(Append(e, p)) <= cut.size}
           ends == {SubSeq(piece, n, Len(piece)) : n \in 1..(Len(piece) + 1)}
<1>1. Text!Ends(piece) = ends
  BY DEF Text!Ends
<1> HIDE DEF ends
<1>2. /\ \A e \in ends : Sequence(e) /\ ToSet(e) \subseteq ToSet(piece)
      /\ \E e \in ends : /\ e \in F \/ e = <<>>
                         /\ \A f \in ends : Len(f) > Len(e) => f \notin F
  <2> HIDE DEF F
  <2> QED
    BY LongestEnd DEF ends
<1>3. \E e \in ends :
         /\ (TextLength(e) <= cut.overlap /\ TextLength(Append(e, p)) <= cut.size) \/ e = <<>>
         /\ \A f \in ends : Len(f) > Len(e) =>
               ~(TextLength(f) <= cut.overlap /\ TextLength(Append(f, p)) <= cut.size)
  BY <1>1, <1>2
<1>4. Text!Kept(cut, piece, p) \in ends
  BY <1>1, <1>3 DEF Text!Kept
<1>5. QED
  BY <1>2, <1>4

LEMMA SameEnds == \A s : Text!Last(s) = Last(s) /\ Text!Front(s) = Front(s)
BY DEF Text!Last, Last, Text!Front, Front

LEMMA AddPieceOfBill ==
  ASSUME NEW cut, NEW pieces, TextList(pieces), NEW p
  PROVE  TakenIn(pieces, p, Text!AddPiece(cut, pieces, p))
<1>1. CASE pieces = <<>>
  <2>1. Text!AddPiece(cut, pieces, p) = Append(pieces, <<p>>)
    BY <1>1 DEF Text!AddPiece
  <2>2. QED
    BY <1>1, <2>1, OneElement DEF TakenIn
<1>2. CASE pieces # <<>> /\ TextLength(Append(Last(pieces), p)) <= cut.size
  <2>1. Text!AddPiece(cut, pieces, p) = Append(Front(pieces), Append(Last(pieces), p))
    BY <1>2, SameEnds DEF Text!AddPiece
  <2>2. Sequence(Last(pieces))
    BY <1>2, FrontAndLast DEF TextList
  <2>3. QED
    BY <1>2, <2>1, <2>2, Appended DEF TakenIn
<1>3. CASE pieces # <<>> /\ ~(TextLength(Append(Last(pieces), p)) <= cut.size)
  <2>1. PICK e : e = Text!Kept(cut, Last(pieces), p)
    OBVIOUS
  <2>2. Text!AddPiece(cut, pieces, p) = Append(pieces, Append(e, p))
    BY <1>3, <2>1, SameEnds DEF Text!AddPiece
  <2>3. Sequence(Last(pieces))
    BY <1>3, FrontAndLast DEF TextList
  <2>4. Sequence(e) /\ ToSet(e) \subseteq ToSet(Last(pieces))
    BY <2>1, <2>3, KeptOfBill
  <2>5. Sequence(Append(e, p)) /\ ToSet(Append(e, p)) = ToSet(e) \cup {p}
    BY <2>4, Appended
  <2>6. QED
    BY <1>3, <2>2, <2>4, <2>5 DEF TakenIn
<1>4. QED
  BY <1>1, <1>2, <1>3

BillPiece(cut, pieces, p) == Text!AddPiece(cut, pieces, p)

BillPieces == INSTANCE FoldFacts WITH Op <- BillPiece

\* The pieces of a text that is split say what it says.
LEMMA SplitOfBill ==
  ASSUME NEW cut, NEW text, Sequence(text)
  PROVE  /\ TextList(Text!SplitText(cut, text))
         /\ PiecesOf(Text!SplitText(cut, text)) = ToSet(text)
<1>1. PICK n \in Nat : n = Len(text) /\ DOMAIN text = 1..n
  BY Positions
<1>2. BillPieces!FoldsTo(cut, <<>>, text, n)
  BY <1>1, BillPieces!FoldLeftSteps
<1>3. PICK acc : /\ acc[0] = <<>>
                 /\ \A k \in 1..n : acc[k] = BillPiece(cut, acc[k - 1], text[k])
                 /\ acc[n] = BillPieces!Iter(cut, <<>>, text)[DOMAIN text]
  BY <1>2 DEF BillPieces!FoldsTo
<1> DEFINE OK(pieces, k) == /\ TextList(pieces) /\ PiecesOf(pieces) = {text[i] : i \in 1..k}
           S == {k \in Nat : k <= n => OK(acc[k], k)}
<1>4. 0 \in S
  BY <1>3, NoElements DEF TextList, PiecesOf
<1>5. ASSUME NEW k \in Nat, k \in S PROVE k + 1 \in S
  <2> SUFFICES ASSUME k + 1 <= n PROVE OK(acc[k + 1], k + 1)
    OBVIOUS
  <2>1. k + 1 \in 1..n /\ (k + 1) - 1 = k /\ OK(acc[k], k)
    BY <1>5
  <2>2. acc[k + 1] = Text!AddPiece(cut, acc[k], text[k + 1])
    BY <1>3, <2>1 DEF BillPiece
  <2>3. 1..(k + 1) = 1..k \cup {k + 1}
    OBVIOUS
  <2>4. TextList(acc[k + 1]) /\ PiecesOf(acc[k + 1]) = PiecesOf(acc[k]) \cup {text[k + 1]}
    BY <2>1, <2>2, AddPieceOfBill, TakenInIsThere
  <2>5. QED
    BY <2>1, <2>3, <2>4
<1>6. Nat \subseteq S
  <2> HIDE DEF S
  <2> QED
    BY <1>4, <1>5, Lines!NatSetInduction
<1>7. OK(acc[n], n)
  <2>1. n \in S
    BY <1>6
  <2>2. QED
    BY <2>1
<1>8. Text!SplitText(cut, text) = BillPieces!Iter(cut, <<>>, text)[DOMAIN text]
  BY DEF Text!SplitText, Text!FoldLeft, Text!MapThenFoldSet, Text!Max, FoldLeft, MapThenFoldSet, Max,
         BillPiece, BillPieces!Iter, BillPieces!Folding, BillPieces!Latest
<1>9. QED
  BY <1>1, <1>3, <1>7, <1>8 DEF ToSet

LEMMA MoreTexts ==
  ASSUME NEW s, NEW t, TextList(s), TextList(t)
  PROVE  TextList(s \o t) /\ PiecesOf(s \o t) = PiecesOf(s) \cup PiecesOf(t)
<1>1. Sequence(s \o t) /\ ToSet(s \o t) = ToSet(s) \cup ToSet(t)
  BY Joining DEF TextList
<1>2. QED
  BY <1>1 DEF TextList, PiecesOf, Pieces

LEMMA OneText ==
  ASSUME NEW t, Sequence(t)
  PROVE  TextList(<<t>>) /\ PiecesOf(<<t>>) = ToSet(t)
BY OneElement DEF TextList, PiecesOf, Pieces

LEMMA NoTexts == TextList(<<>>) /\ PiecesOf(<<>>) = {}
BY NoElements DEF TextList, PiecesOf, Pieces

LEMMA OneTextMore ==
  ASSUME NEW s, TextList(s), NEW t, Sequence(t)
  PROVE  TextList(Append(s, t)) /\ PiecesOf(Append(s, t)) = PiecesOf(s) \cup ToSet(t)
<1>1. Sequence(Append(s, t)) /\ ToSet(Append(s, t)) = ToSet(s) \cup {t}
  BY Appended DEF TextList
<1>2. QED
  BY <1>1 DEF TextList, PiecesOf, Pieces

LEMMA Emitted ==
  ASSUME NEW s, TextList(s), NEW buffer, Sequence(buffer)
  PROVE  /\ TextList(Text!Emit(s, buffer))
         /\ PiecesOf(Text!Emit(s, buffer)) = PiecesOf(s) \cup ToSet(buffer)
<1>1. CASE buffer = <<>>
  BY <1>1, NoElements DEF Text!Emit
<1>2. CASE buffer # <<>>
  BY <1>2, OneTextMore DEF Text!Emit
<1>3. QED
  BY <1>1, <1>2

\* What has been packed so far.
Buffered(acc) == /\ acc = [chunked |-> acc.chunked, buffer |-> acc.buffer]
                 /\ TextList(acc.chunked) /\ Sequence(acc.buffer)

Held(acc) == PiecesOf(acc.chunked) \cup ToSet(acc.buffer)

LEMMA AddPartKeeps ==
  ASSUME NEW cut, NEW acc, Buffered(acc), NEW piece, Sequence(piece)
  PROVE  /\ Buffered(Text!AddPart(cut, acc, piece))
         /\ Held(Text!AddPart(cut, acc, piece)) = Held(acc) \cup ToSet(piece)
<1> DEFINE more == Text!AddPart(cut, acc, piece)
<1>1. /\ Sequence(acc.buffer \o piece) /\ ToSet(acc.buffer \o piece) = ToSet(acc.buffer) \cup ToSet(piece)
  BY Joining DEF Buffered
<1>2. /\ TextList(Text!Emit(acc.chunked, acc.buffer))
      /\ PiecesOf(Text!Emit(acc.chunked, acc.buffer)) = Held(acc)
  BY Emitted DEF Buffered, Held
<1>3. CASE TextLength(acc.buffer \o piece) <= cut.max
  <2>1. more = [acc EXCEPT !.buffer = @ \o piece]
    BY <1>3 DEF Text!AddPart
  <2>2. more = [chunked |-> acc.chunked, buffer |-> acc.buffer \o piece]
    BY <2>1 DEF Buffered
  <2>3. QED
    BY <1>1, <2>2 DEF Buffered, Held
<1>4. CASE ~(TextLength(acc.buffer \o piece) <= cut.max)
  <2>1. PICK split : split = Text!SplitText(cut, piece)
    OBVIOUS
  <2>2. TextList(split) /\ PiecesOf(split) = ToSet(piece)
    BY <2>1, SplitOfBill
  <2>3. \/ more = [chunked |-> Text!Emit(acc.chunked, acc.buffer) \o split, buffer |-> <<>>]
        \/ more = [chunked |-> Text!Emit(acc.chunked, acc.buffer), buffer |-> piece]
    BY <1>4, <2>1 DEF Text!AddPart
  <2>4. CASE more = [chunked |-> Text!Emit(acc.chunked, acc.buffer) \o split, buffer |-> <<>>]
    BY <1>2, <2>2, <2>4, MoreTexts, NoElements DEF Buffered, Held
  <2>5. CASE more = [chunked |-> Text!Emit(acc.chunked, acc.buffer), buffer |-> piece]
    BY <1>2, <2>5 DEF Buffered, Held
  <2>6. QED
    BY <2>3, <2>4, <2>5
<1>5. QED
  BY <1>3, <1>4

BillPart(cut, acc, piece) == Text!AddPart(cut, acc, piece)

BillParts == INSTANCE FoldFacts WITH Op <- BillPart

LEMMA PackKeeps ==
  ASSUME NEW cut, NEW pieces, TextList(pieces)
  PROVE  /\ Buffered(Text!Pack(cut, pieces))
         /\ Held(Text!Pack(cut, pieces)) = PiecesOf(pieces)
<1> DEFINE base == [chunked |-> <<>>, buffer |-> <<>>]
<1>1. PICK n \in Nat : n = Len(pieces) /\ DOMAIN pieces = 1..n /\ \A k \in 1..n : pieces[k] \in ToSet(pieces)
  BY Positions DEF TextList
<1>2. BillParts!FoldsTo(cut, base, pieces, n)
  BY <1>1, BillParts!FoldLeftSteps
<1>3. PICK acc : /\ acc[0] = base
                 /\ \A k \in 1..n : acc[k] = BillPart(cut, acc[k - 1], pieces[k])
                 /\ acc[n] = BillParts!Iter(cut, base, pieces)[DOMAIN pieces]
  BY <1>2 DEF BillParts!FoldsTo
<1> DEFINE OK(a, k) == Buffered(a) /\ \A p : p \in Held(a) <=> \E i \in 1..k : p \in ToSet(pieces[i])
           S == {k \in Nat : k <= n => OK(acc[k], k)}
<1>4. 0 \in S
  BY <1>3, NoTexts, NoElements DEF Buffered, Held
<1>5. ASSUME NEW k \in Nat, k \in S PROVE k + 1 \in S
  <2> SUFFICES ASSUME k + 1 <= n PROVE OK(acc[k + 1], k + 1)
    OBVIOUS
  <2>1. k + 1 \in 1..n /\ (k + 1) - 1 = k /\ OK(acc[k], k)
    BY <1>5
  <2>2. acc[k + 1] = Text!AddPart(cut, acc[k], pieces[k + 1]) /\ Sequence(pieces[k + 1])
    BY <1>1, <1>3, <2>1 DEF BillPart, TextList
  <2>3. 1..(k + 1) = 1..k \cup {k + 1}
    OBVIOUS
  <2>4. Buffered(acc[k + 1]) /\ Held(acc[k + 1]) = Held(acc[k]) \cup ToSet(pieces[k + 1])
    BY <2>1, <2>2, AddPartKeeps
  <2>5. QED
    BY <2>1, <2>3, <2>4
<1>6. Nat \subseteq S
  <2> HIDE DEF S
  <2> QED
    BY <1>4, <1>5, Lines!NatSetInduction
<1>7. OK(acc[n], n)
  <2>1. n \in S
    BY <1>6
  <2>2. QED
    BY <2>1
<1>8. Text!Pack(cut, pieces) = BillParts!Iter(cut, base, pieces)[DOMAIN pieces]
  BY DEF Text!Pack, Text!FoldLeft, Text!MapThenFoldSet, Text!Max, FoldLeft, MapThenFoldSet, Max,
         BillPart, BillParts!Iter, BillParts!Folding, BillParts!Latest
<1>9. ToSet(pieces) = {pieces[k] : k \in 1..n}
  BY <1>1 DEF ToSet
<1>10. QED
  BY <1>3, <1>7, <1>8, <1>9 DEF PiecesOf, Pieces

-----------------------------------------------------------------------------
(* The chunker of bills: the XML                                           *)

\* An element whose parts are texts.
Spelled(e) == Sequence(e.intro) /\ Sequence(e.after) /\ TextList(e.subs)

WellFormed(e) == Spelled(e) /\ Sequence(e.items)

\* An element of the body, with all that is in it.
Division(e) ==
    /\ WellFormed(e)
    /\ \A i \in Below(e) : /\ WellFormed(i)
                           /\ \A x \in Below(i) : /\ WellFormed(x)
                                                  /\ \A y \in Below(x) : WellFormed(y)

LEMMA MappedTexts ==
  ASSUME NEW s, Sequence(s), NEW f, f = [k \in DOMAIN s |-> f[k]],
         \A k \in DOMAIN s : TextList(f[k])
  PROVE  /\ TextList(FlattenSeq(f))
         /\ \A p : p \in PiecesOf(FlattenSeq(f)) <=> \E k \in DOMAIN s : p \in PiecesOf(f[k])
<1>1. /\ Sequence(FlattenSeq(f))
      /\ \A x : x \in ToSet(FlattenSeq(f)) <=> \E k \in DOMAIN s : x \in ToSet(f[k])
  BY MappedOver DEF TextList
<1>2. QED
  BY <1>1 DEF TextList, PiecesOf, Pieces

LEMMA TextOfElement ==
  ASSUME NEW e, Spelled(e)
  PROVE  /\ Sequence(TextOf(e))
         /\ ToSet(TextOf(e)) = ToSet(e.intro) \cup PiecesOf(e.subs) \cup ToSet(e.after)
<1>1. PICK flat : flat = FlattenSeq(e.subs)
  OBVIOUS
<1>2. Sequence(flat) /\ ToSet(flat) = PiecesOf(e.subs)
  <2>1. Sequence(e.subs) /\ \A k \in DOMAIN e.subs : Sequence(e.subs[k])
    BY DEF Spelled, TextList, ToSet
  <2>2. Sequence(flat) /\ ToSet(flat) = UNION {ToSet(e.subs[k]) : k \in DOMAIN e.subs}
    BY <1>1, <2>1, Flattened
  <2>3. PiecesOf(e.subs) = UNION {ToSet(t) : t \in ToSet(e.subs)}
    BY DEF PiecesOf, Pieces
  <2>4. ToSet(e.subs) = {e.subs[k] : k \in DOMAIN e.subs}
    BY DEF ToSet
  <2>5. QED
    BY <2>2, <2>3, <2>4
<1>3. PICK both : both = e.intro \o flat
  OBVIOUS
<1>4. Sequence(both) /\ ToSet(both) = ToSet(e.intro) \cup ToSet(flat)
  BY <1>2, <1>3, Joining DEF Spelled
<1>5. Sequence(both \o e.after) /\ ToSet(both \o e.after) = ToSet(both) \cup ToSet(e.after)
  BY <1>4, Joining DEF Spelled
<1>6. TextOf(e) = both \o e.after
  BY <1>1, <1>3 DEF TextOf
<1>7. QED
  BY <1>2, <1>4, <1>5, <1>6

LEMMA FallbackOf ==
  ASSUME NEW text, Sequence(text)
  PROVE  TextList(Fallback(text)) /\ PiecesOf(Fallback(text)) = ToSet(text)
BY SplitOfBill DEF Fallback

LEMMA WithIntroOf ==
  ASSUME NEW intro, Sequence(intro), NEW s, TextList(s), s # <<>>
  PROVE  LET t == <<intro \o Head(s)>> \o Tail(s)
         IN  TextList(t) /\ PiecesOf(t) = ToSet(intro) \cup PiecesOf(s)
<1>1. /\ Sequence(Tail(s)) /\ Head(s) \in ToSet(s) /\ ToSet(s) = {Head(s)} \cup ToSet(Tail(s))
  BY HeadAndTail DEF TextList
<1>2. TextList(Tail(s)) /\ Sequence(Head(s)) /\ PiecesOf(s) = ToSet(Head(s)) \cup PiecesOf(Tail(s))
  BY <1>1 DEF TextList, PiecesOf, Pieces
<1>3. PICK first : first = intro \o Head(s)
  OBVIOUS
<1>4. Sequence(first) /\ ToSet(first) = ToSet(intro) \cup ToSet(Head(s))
  BY <1>2, <1>3, Joining
<1>5. TextList(<<first>>) /\ PiecesOf(<<first>>) = ToSet(first)
  BY <1>4, OneText
<1>6. /\ TextList(<<first>> \o Tail(s))
      /\ PiecesOf(<<first>> \o Tail(s)) = PiecesOf(<<first>>) \cup PiecesOf(Tail(s))
  BY <1>2, <1>5, MoreTexts
<1>7. QED
  BY <1>2, <1>3, <1>4, <1>5, <1>6

\* Of a section that is cut, its subsections are in the chunks.
LEMMA SubsectionsKept ==
  ASSUME NEW e, Spelled(e)
  PROVE  /\ TextList(SubsectionSplit(e)) /\ PiecesOf(e.subs) \subseteq PiecesOf(SubsectionSplit(e))
         /\ PiecesOf(SubsectionSplit(e)) \subseteq ToSet(TextOf(e))
<1>0. ToSet(TextOf(e)) = ToSet(e.intro) \cup PiecesOf(e.subs) \cup ToSet(e.after)
  BY TextOfElement
<1>1. PICK all : all = Text!Pack(Sizes, e.subs)
  OBVIOUS
<1>2. /\ TextList(all.chunked) /\ Sequence(all.buffer)
      /\ PiecesOf(e.subs) = PiecesOf(all.chunked) \cup ToSet(all.buffer)
  BY <1>1, PackKeeps DEF Spelled, Buffered, Held
<1>3. CASE e.subs = <<>>
  <2>1. SubsectionSplit(e) = Fallback(TextOf(e))
    BY <1>3 DEF SubsectionSplit
  <2>2. QED
    BY <1>0, <2>1, TextOfElement, FallbackOf
<1>4. CASE e.subs # <<>> /\ all.buffer # <<>> /\ all.chunked = <<>>
  <2>1. SubsectionSplit(e) = <<e.intro \o all.buffer>>
    BY <1>1, <1>4 DEF SubsectionSplit
  <2>2. /\ Sequence(e.intro \o all.buffer)
        /\ ToSet(e.intro \o all.buffer) = ToSet(e.intro) \cup ToSet(all.buffer)
    BY <1>2, Joining DEF Spelled
  <2>3. PiecesOf(all.chunked) = {}
    BY <1>4, NoTexts
  <2>4. QED
    BY <1>0, <1>2, <2>1, <2>2, <2>3, OneText
<1>5. CASE e.subs # <<>> /\ all.buffer # <<>> /\ all.chunked # <<>>
  <2>1. SubsectionSplit(e) = Append(all.chunked, all.buffer)
    BY <1>1, <1>5 DEF SubsectionSplit
  <2>2. QED
    BY <1>0, <1>2, <2>1, OneTextMore
<1>6. CASE e.subs # <<>> /\ all.buffer = <<>> /\ all.chunked = <<>>
  <2>1. SubsectionSplit(e) = <<>>
    BY <1>1, <1>6 DEF SubsectionSplit
  <2>2. PiecesOf(e.subs) = {}
    BY <1>2, <1>6, NoTexts, NoElements
  <2>3. QED
    BY <2>1, <2>2, NoTexts
<1>7. CASE e.subs # <<>> /\ all.buffer = <<>> /\ all.chunked # <<>>
  <2>1. SubsectionSplit(e) = <<e.intro \o Head(all.chunked)>> \o Tail(all.chunked)
    BY <1>1, <1>7 DEF SubsectionSplit
  <2>2. PiecesOf(e.subs) = PiecesOf(all.chunked)
    BY <1>2, <1>7, NoElements
  <2>3. Sequence(e.intro)
    BY DEF Spelled
  <2>4. /\ TextList(SubsectionSplit(e))
        /\ PiecesOf(SubsectionSplit(e)) = ToSet(e.intro) \cup PiecesOf(all.chunked)
    BY <1>2, <1>7, <2>1, <2>3, WithIntroOf
  <2>5. QED
    BY <1>0, <2>2, <2>4
<1>8. QED
  BY <1>3, <1>4, <1>5, <1>6, <1>7

\* What is sure to be in the chunks of a section.
Sure(e) == IF TextLength(TextOf(e)) <= MAX_CHUNK_CHARS THEN Pieces(TextOf(e)) ELSE PiecesOf(e.subs)

LEMMA SectionKept ==
  ASSUME NEW e, Spelled(e)
  PROVE  /\ TextList(SectionChunks(e)) /\ Sure(e) \subseteq PiecesOf(SectionChunks(e))
         /\ PiecesOf(SectionChunks(e)) \subseteq ToSet(TextOf(e))
<1>1. Sequence(TextOf(e))
  BY TextOfElement
<1>2. CASE TextLength(TextOf(e)) <= MAX_CHUNK_CHARS
  BY <1>1, <1>2, OneText DEF SectionChunks, Sure, Pieces
<1>3. CASE ~(TextLength(TextOf(e)) <= MAX_CHUNK_CHARS)
  BY <1>3, SubsectionsKept DEF SectionChunks, Sure
<1>4. QED
  BY <1>2, <1>3

LEMMA SectionsKept ==
  ASSUME NEW s, Sequence(s), \A e \in ToSet(s) : WellFormed(e)
  PROVE  /\ TextList(FlatMap(SectionChunks, s))
         /\ \A e \in ToSet(s) : Sure(e) \subseteq PiecesOf(FlatMap(SectionChunks, s))
         /\ \A p \in PiecesOf(FlatMap(SectionChunks, s)) : \E e \in ToSet(s) : p \in ToSet(TextOf(e))
<1>1. PICK f : f = [k \in DOMAIN s |-> SectionChunks(s[k])]
  OBVIOUS
<1>2. FlatMap(SectionChunks, s) = FlattenSeq(f)
  BY <1>1 DEF FlatMap
<1>3. ASSUME NEW k \in DOMAIN s
      PROVE  /\ TextList(f[k]) /\ Sure(s[k]) \subseteq PiecesOf(f[k])
             /\ PiecesOf(f[k]) \subseteq ToSet(TextOf(s[k])) /\ s[k] \in ToSet(s)
  <2>1. s[k] \in ToSet(s) /\ f[k] = SectionChunks(s[k])
    BY <1>1 DEF ToSet
  <2>2. QED
    BY <2>1, SectionKept DEF WellFormed
<1>4. f = [k \in DOMAIN s |-> f[k]]
  BY <1>1
<1>5. /\ TextList(FlattenSeq(f))
      /\ \A p : p \in PiecesOf(FlattenSeq(f)) <=> \E k \in DOMAIN s : p \in PiecesOf(f[k])
  BY <1>3, <1>4, MappedTexts
<1>6. ASSUME NEW e \in ToSet(s) PROVE Sure(e) \subseteq PiecesOf(FlattenSeq(f))
  <2>1. PICK k \in DOMAIN s : e = s[k]
    BY DEF ToSet
  <2>2. QED
    BY <1>3, <1>5, <2>1
<1>7. \A p \in PiecesOf(FlattenSeq(f)) : \E e \in ToSet(s) : p \in ToSet(TextOf(e))
  BY <1>3, <1>5
<1>8. QED
  BY <1>2, <1>5, <1>6, <1>7

LEMMA SectionsBeneathOf ==
  ASSUME NEW e, WellFormed(e), \A i \in Below(e) : WellFormed(i)
  PROVE  /\ Sequence(SectionsBeneath(e))
         /\ \A y : y \in ToSet(SectionsBeneath(e)) <=>
               \E i \in Below(e) : IF i.tag = "section" THEN y = i ELSE y \in Below(i)
<1>1. PICK s : s = e.items /\ Sequence(s) /\ ToSet(s) = Below(e)
  BY DEF WellFormed, Below
<1>2. PICK f : f = [k \in DOMAIN s |-> IF s[k].tag = "section" THEN <<s[k]>> ELSE s[k].items]
  OBVIOUS
<1>3. SectionsBeneath(e) = FlattenSeq(f)
  BY <1>1, <1>2 DEF SectionsBeneath, FlatMap
<1>4. ASSUME NEW k \in DOMAIN s
      PROVE  /\ Sequence(f[k])
             /\ \A y : y \in ToSet(f[k]) <=> IF s[k].tag = "section" THEN y = s[k] ELSE y \in Below(s[k])
  <2>1. s[k] \in Below(e)
    BY <1>1 DEF ToSet
  <2>2. Sequence(s[k].items)
    BY <2>1 DEF WellFormed
  <2>3. CASE s[k].tag = "section"
    BY <1>2, <2>3, OneElement
  <2>4. CASE s[k].tag # "section"
    BY <1>2, <2>2, <2>4 DEF Below
  <2>5. QED
    BY <2>3, <2>4
<1>5. f = [k \in DOMAIN s |-> f[k]]
  BY <1>2
<1>6. /\ Sequence(FlattenSeq(f))
      /\ \A x : x \in ToSet(FlattenSeq(f)) <=> \E k \in DOMAIN s : x \in ToSet(f[k])
  BY <1>1, <1>4, <1>5, MappedOver
<1>7. Below(e) = {s[k] : k \in DOMAIN s}
  BY <1>1 DEF ToSet
<1>8. QED
  BY <1>3, <1>4, <1>6, <1>7

LEMMA SectionsInOf ==
  ASSUME NEW e, WellFormed(e),
         \A i \in Below(e) : WellFormed(i) /\ \A x \in Below(i) : WellFormed(x)
  PROVE  /\ Sequence(SectionsIn(e))
         /\ \A y : y \in ToSet(SectionsIn(e)) <=>
               \E i \in Below(e) : IF i.tag = "section" THEN y = i
                                   ELSE y \in ToSet(SectionsBeneath(i))
<1>1. PICK s : s = e.items /\ Sequence(s) /\ ToSet(s) = Below(e)
  BY DEF WellFormed, Below
<1>2. PICK f : f = [k \in DOMAIN s |-> IF s[k].tag = "section" THEN <<s[k]>> ELSE SectionsBeneath(s[k])]
  OBVIOUS
<1>3. SectionsIn(e) = FlattenSeq(f)
  BY <1>1, <1>2 DEF SectionsIn, FlatMap
<1>4. ASSUME NEW k \in DOMAIN s
      PROVE  /\ Sequence(f[k])
             /\ \A y : y \in ToSet(f[k]) <=> IF s[k].tag = "section" THEN y = s[k]
                                             ELSE y \in ToSet(SectionsBeneath(s[k]))
  <2>1. s[k] \in Below(e)
    BY <1>1 DEF ToSet
  <2>2. Sequence(SectionsBeneath(s[k]))
    BY <2>1, SectionsBeneathOf
  <2>3. CASE s[k].tag = "section"
    BY <1>2, <2>3, OneElement
  <2>4. CASE s[k].tag # "section"
    BY <1>2, <2>2, <2>4
  <2>5. QED
    BY <2>3, <2>4
<1>5. f = [k \in DOMAIN s |-> f[k]]
  BY <1>2
<1>6. /\ Sequence(FlattenSeq(f))
      /\ \A x : x \in ToSet(FlattenSeq(f)) <=> \E k \in DOMAIN s : x \in ToSet(f[k])
  BY <1>1, <1>4, <1>5, MappedOver
<1>7. Below(e) = {s[k] : k \in DOMAIN s}
  BY <1>1 DEF ToSet
<1>8. QED
  BY <1>3, <1>4, <1>6, <1>7

\* The sections in a container of the body are elements of it.
LEMMA SectionsWellFormed ==
  ASSUME NEW e, Division(e)
  PROVE  Sequence(SectionsIn(e)) /\ \A s \in ToSet(SectionsIn(e)) : WellFormed(s)
<1>1. /\ WellFormed(e)
      /\ \A i \in Below(e) : WellFormed(i) /\ \A x \in Below(i) : WellFormed(x)
      /\ \A i \in Below(e) : \A x \in Below(i) : \A y \in Below(x) : WellFormed(y)
  BY DEF Division
<1>2. /\ Sequence(SectionsIn(e))
      /\ \A y : y \in ToSet(SectionsIn(e)) <=>
            \E i \in Below(e) : IF i.tag = "section" THEN y = i
                                ELSE y \in ToSet(SectionsBeneath(i))
  BY <1>1, SectionsInOf
<1>3. ASSUME NEW i \in Below(e), NEW y \in ToSet(SectionsBeneath(i))
      PROVE  WellFormed(y)
  <2>1. \E x \in Below(i) : IF x.tag = "section" THEN y = x ELSE y \in Below(x)
    BY <1>1, SectionsBeneathOf
  <2>2. QED
    BY <1>1, <2>1
<1>4. QED
  BY <1>1, <1>2, <1>3

\* The elements of the body that make its text: RawSections says which.
Covered(e, s) ==
    \/ s = e
    \/ \E i \in Below(e) : \/ s = i
                           \/ \E x \in Below(i) : s = x \/ s \in Below(x)

LEMMA SectionsCovered ==
  ASSUME NEW e, Division(e), NEW s \in ToSet(SectionsIn(e))
  PROVE  Covered(e, s)
<1>1. /\ WellFormed(e)
      /\ \A i \in Below(e) : WellFormed(i) /\ \A x \in Below(i) : WellFormed(x)
  BY DEF Division
<1>2. PICK i \in Below(e) : IF i.tag = "section" THEN s = i ELSE s \in ToSet(SectionsBeneath(i))
  BY <1>1, SectionsInOf
<1>3. s \in ToSet(SectionsBeneath(i)) => \E x \in Below(i) : s = x \/ s \in Below(x)
  BY <1>1, SectionsBeneathOf
<1>4. QED
  BY <1>2, <1>3 DEF Covered

LEMMA ContainerKept ==
  ASSUME NEW e, Division(e)
  PROVE  /\ TextList(ContainerChunks(e))
         /\ \A s \in ToSet(SectionsIn(e)) : Sure(s) \subseteq PiecesOf(ContainerChunks(e))
         /\ \A p \in PiecesOf(ContainerChunks(e)) : \E s : Covered(e, s) /\ p \in ToSet(TextOf(s))
<1>1. Sequence(e.items) /\ Sequence(TextOf(e)) /\ Covered(e, e)
  BY TextOfElement DEF Division, WellFormed, Covered
<1>2. CASE e.items = <<>>
  <2>1. Below(e) = {}
    BY <1>1, <1>2, NoneIsEmpty DEF Below
  <2>2. ToSet(SectionsIn(e)) = {}
    <3>1. WellFormed(e) /\ \A i \in Below(e) : WellFormed(i) /\ \A x \in Below(i) : WellFormed(x)
      BY DEF Division
    <3>2. QED
      BY <2>1, <3>1, SectionsInOf
  <2>3. \/ ContainerChunks(e) = <<>>
        \/ ContainerChunks(e) = <<TextOf(e)>>
        \/ ContainerChunks(e) = Fallback(TextOf(e))
    BY <1>2 DEF ContainerChunks
  <2>4. CASE ContainerChunks(e) = <<>>
    BY <2>2, <2>4, NoTexts
  <2>5. CASE ContainerChunks(e) = <<TextOf(e)>>
    BY <1>1, <2>2, <2>5, OneText
  <2>6. CASE ContainerChunks(e) = Fallback(TextOf(e))
    BY <1>1, <2>2, <2>6, FallbackOf
  <2>7. QED
    BY <2>3, <2>4, <2>5, <2>6
<1>3. CASE e.items # <<>>
  <2>1. ContainerChunks(e) = FlatMap(SectionChunks, SectionsIn(e))
    BY <1>3 DEF ContainerChunks
  <2>2. PICK secs : secs = SectionsIn(e)
    OBVIOUS
  <2>3. Sequence(secs) /\ \A s \in ToSet(secs) : WellFormed(s)
    BY <2>2, SectionsWellFormed
  <2>4. /\ TextList(FlatMap(SectionChunks, secs))
        /\ \A s \in ToSet(secs) : Sure(s) \subseteq PiecesOf(FlatMap(SectionChunks, secs))
        /\ \A p \in PiecesOf(FlatMap(SectionChunks, secs)) : \E s \in ToSet(secs) : p \in ToSet(TextOf(s))
    BY <2>3, SectionsKept
  <2>5. \A s \in ToSet(secs) : Covered(e, s)
    BY <2>2, SectionsCovered
  <2>6. QED
    BY <2>1, <2>2, <2>4, <2>5
<1>4. QED
  BY <1>2, <1>3

LEMMA SectionsOf ==
  ASSUME NEW body, Sequence(body), \A e \in ToSet(body) : Division(e)
  PROVE  \A s : s \in Sections(body) <=>
            \E e \in ToSet(body) : IF e.tag = "section" THEN s = e ELSE s \in ToSet(SectionsIn(e))
<1>1. PICK f : f = [k \in DOMAIN body |-> IF body[k].tag = "section" THEN <<body[k]>> ELSE SectionsIn(body[k])]
  OBVIOUS
<1>2. Sections(body) = ToSet(FlattenSeq(f))
  BY <1>1 DEF Sections, FlatMap
<1>3. ASSUME NEW k \in DOMAIN body
      PROVE  /\ Sequence(f[k])
             /\ \A s : s \in ToSet(f[k]) <=> IF body[k].tag = "section" THEN s = body[k]
                                             ELSE s \in ToSet(SectionsIn(body[k]))
  <2>1. body[k] \in ToSet(body)
    BY DEF ToSet
  <2>2. Sequence(SectionsIn(body[k]))
    BY <2>1, SectionsWellFormed
  <2>3. CASE body[k].tag = "section"
    BY <1>1, <2>3, OneElement
  <2>4. CASE body[k].tag # "section"
    BY <1>1, <2>2, <2>4
  <2>5. QED
    BY <2>3, <2>4
<1>4. f = [k \in DOMAIN body |-> f[k]]
  BY <1>1
<1>5. \A x : x \in ToSet(FlattenSeq(f)) <=> \E k \in DOMAIN body : x \in ToSet(f[k])
  BY <1>3, <1>4, MappedOver
<1>6. ToSet(body) = {body[k] : k \in DOMAIN body}
  BY DEF ToSet
<1>7. QED
  BY <1>2, <1>3, <1>5, <1>6

\* Of the XML, the form and what is sure of every section is in the chunks, and there is
\* nothing in them that is not of the text.
LEMMA XmlKept ==
  ASSUME NEW form, Sequence(form), NEW body, Sequence(body), \A e \in ToSet(body) : Division(e)
  PROVE  /\ TextList(XmlChunks(form, body)) /\ ToSet(form) \subseteq PiecesOf(XmlChunks(form, body))
         /\ \A s \in Sections(body) : Sure(s) \subseteq PiecesOf(XmlChunks(form, body))
         /\ \A p \in PiecesOf(XmlChunks(form, body)) :
               p \in ToSet(form) \/ \E e \in ToSet(body) : \E s : Covered(e, s) /\ p \in ToSet(TextOf(s))
<1>1. PICK f : f = [k \in DOMAIN body |-> IF body[k].tag = "section" THEN SectionChunks(body[k])
                                          ELSE ContainerChunks(body[k])]
  OBVIOUS
<1>2. XmlChunks(form, body) = Text!Emit(<<>>, form) \o FlattenSeq(f)
  BY <1>1 DEF XmlChunks, FlatMap
<1>3. ASSUME NEW k \in DOMAIN body
      PROVE  /\ TextList(f[k]) /\ body[k] \in ToSet(body)
             /\ IF body[k].tag = "section" THEN Sure(body[k]) \subseteq PiecesOf(f[k])
                ELSE \A s \in ToSet(SectionsIn(body[k])) : Sure(s) \subseteq PiecesOf(f[k])
             /\ \A p \in PiecesOf(f[k]) : \E s : Covered(body[k], s) /\ p \in ToSet(TextOf(s))
  <2>1. body[k] \in ToSet(body)
    BY DEF ToSet
  <2>2. Division(body[k]) /\ Spelled(body[k]) /\ Covered(body[k], body[k])
    BY <2>1 DEF Division, WellFormed, Covered
  <2>3. CASE body[k].tag = "section"
    BY <1>1, <2>1, <2>2, <2>3, SectionKept
  <2>4. CASE body[k].tag # "section"
    BY <1>1, <2>1, <2>2, <2>4, ContainerKept
  <2>5. QED
    BY <2>3, <2>4
<1>4. f = [k \in DOMAIN body |-> f[k]]
  BY <1>1
<1>5. /\ TextList(FlattenSeq(f))
      /\ \A p : p \in PiecesOf(FlattenSeq(f)) <=> \E k \in DOMAIN body : p \in PiecesOf(f[k])
  BY <1>3, <1>4, MappedTexts
<1>6. TextList(Text!Emit(<<>>, form)) /\ PiecesOf(Text!Emit(<<>>, form)) = ToSet(form)
  BY NoTexts, Emitted, ZenonT(40)
<1>7. /\ TextList(XmlChunks(form, body))
      /\ PiecesOf(XmlChunks(form, body)) = ToSet(form) \cup PiecesOf(FlattenSeq(f))
  BY <1>2, <1>5, <1>6, MoreTexts
<1>8. ASSUME NEW s \in Sections(body) PROVE Sure(s) \subseteq PiecesOf(FlattenSeq(f))
  <2>1. PICK e \in ToSet(body) : IF e.tag = "section" THEN s = e ELSE s \in ToSet(SectionsIn(e))
    BY SectionsOf
  <2>2. PICK k \in DOMAIN body : e = body[k]
    BY DEF ToSet
  <2>3. QED
    BY <1>3, <1>5, <2>1, <2>2
<1>9. ASSUME NEW p \in PiecesOf(FlattenSeq(f))
      PROVE  \E e \in ToSet(body) : \E s : Covered(e, s) /\ p \in ToSet(TextOf(s))
  BY <1>3, <1>5
<1>10. QED
  BY <1>7, <1>8, <1>9

-----------------------------------------------------------------------------
(* The chunker of bills: the plain text                                    *)

LEMMA HeadedText ==
  ASSUME NEW e, Spelled(e)
  PROVE  Spelled(Headed(e)) /\ TextOf(Headed(e)) = TextOf(e)
BY DEF Headed, Spelled, TextOf

\* Elements taken apart one level deeper.
LEMMA Deeper ==
  ASSUME NEW e, Sequence(e.items), NEW f, f = [k \in DOMAIN e.items |-> f[k]],
         \A k \in DOMAIN e.items : Sequence(f[k])
  PROVE  /\ Sequence(AsSection(e) \o FlattenSeq(f))
         /\ \A h : h \in ToSet(AsSection(e) \o FlattenSeq(f)) <=>
               h = Headed(e) \/ \E k \in DOMAIN e.items : h \in ToSet(f[k])
<1>1. /\ Sequence(FlattenSeq(f))
      /\ \A h : h \in ToSet(FlattenSeq(f)) <=> \E k \in DOMAIN e.items : h \in ToSet(f[k])
  BY MappedOver
<1>2. Sequence(AsSection(e)) /\ ToSet(AsSection(e)) = {Headed(e)}
  BY OneElement DEF AsSection
<1>3. QED
  BY <1>1, <1>2, Joining

LEMMA AsSubtitleOf ==
  ASSUME NEW e, Sequence(e.items)
  PROVE  /\ Sequence(AsSubtitle(e))
         /\ \A h : h \in ToSet(AsSubtitle(e)) <=> h = Headed(e) \/ \E y \in Below(e) : h = Headed(y)
<1>1. PICK f : f = [k \in DOMAIN e.items |-> AsSection(e.items[k])]
  OBVIOUS
<1>2. AsSubtitle(e) = AsSection(e) \o FlattenSeq(f) /\ f = [k \in DOMAIN e.items |-> f[k]]
  BY <1>1 DEF AsSubtitle, FlatMap
<1>3. ASSUME NEW k \in DOMAIN e.items
      PROVE  Sequence(f[k]) /\ ToSet(f[k]) = {Headed(e.items[k])}
  BY <1>1, OneElement DEF AsSection
<1>4. Below(e) = {e.items[k] : k \in DOMAIN e.items}
  BY DEF Below, ToSet
<1>5. /\ Sequence(AsSubtitle(e))
      /\ \A h : h \in ToSet(AsSubtitle(e)) <=>
               h = Headed(e) \/ \E k \in DOMAIN e.items : h \in ToSet(f[k])
  BY <1>2, <1>3, Deeper
<1>6. QED
  BY <1>3, <1>4, <1>5

LEMMA AsTitleOf ==
  ASSUME NEW e, Sequence(e.items), \A x \in Below(e) : Sequence(x.items)
  PROVE  /\ Sequence(AsTitle(e))
         /\ \A h : h \in ToSet(AsTitle(e)) <=>
               h = Headed(e) \/ \E x \in Below(e) : h = Headed(x) \/ \E y \in Below(x) : h = Headed(y)
<1>1. PICK f : f = [k \in DOMAIN e.items |-> AsSubtitle(e.items[k])]
  OBVIOUS
<1>2. AsTitle(e) = AsSection(e) \o FlattenSeq(f) /\ f = [k \in DOMAIN e.items |-> f[k]]
  BY <1>1 DEF AsTitle, FlatMap
<1>3. ASSUME NEW k \in DOMAIN e.items
      PROVE  /\ Sequence(f[k]) /\ e.items[k] \in Below(e)
             /\ \A h : h \in ToSet(f[k]) <=>
                   h = Headed(e.items[k]) \/ \E y \in Below(e.items[k]) : h = Headed(y)
  <2>1. e.items[k] \in Below(e)
    BY DEF Below, ToSet
  <2>2. QED
    BY <1>1, <2>1, AsSubtitleOf
<1>4. Below(e) = {e.items[k] : k \in DOMAIN e.items}
  BY DEF Below, ToSet
<1>5. /\ Sequence(AsTitle(e))
      /\ \A h : h \in ToSet(AsTitle(e)) <=>
               h = Headed(e) \/ \E k \in DOMAIN e.items : h \in ToSet(f[k])
  BY <1>2, <1>3, Deeper
<1>6. \A h : (\E k \in DOMAIN e.items : h \in ToSet(f[k])) <=>
        \E x \in Below(e) : h = Headed(x) \/ \E y \in Below(x) : h = Headed(y)
  BY <1>3, <1>4
<1>7. QED
  BY <1>5, <1>6

\* The parts that the headers begin, of an element with all that is in it.
LEMMA AsDivisionOf ==
  ASSUME NEW e, Division(e)
  PROVE  /\ Sequence(AsDivision(e))
         /\ \A h : h \in ToSet(AsDivision(e)) <=> \E s : Covered(e, s) /\ h = Headed(s)
<1>0. /\ Sequence(e.items)
      /\ \A i \in Below(e) : Sequence(i.items) /\ \A x \in Below(i) : Sequence(x.items)
  BY DEF Division, WellFormed
<1>1. PICK f : f = [k \in DOMAIN e.items |-> AsTitle(e.items[k])]
  OBVIOUS
<1>2. AsDivision(e) = AsSection(e) \o FlattenSeq(f) /\ f = [k \in DOMAIN e.items |-> f[k]]
  BY <1>1 DEF AsDivision, FlatMap
<1>3. ASSUME NEW k \in DOMAIN e.items
      PROVE  /\ Sequence(f[k]) /\ e.items[k] \in Below(e)
             /\ \A h : h \in ToSet(f[k]) <=>
                   \/ h = Headed(e.items[k])
                   \/ \E x \in Below(e.items[k]) : h = Headed(x) \/ \E y \in Below(x) : h = Headed(y)
  <2>1. e.items[k] \in Below(e)
    BY DEF Below, ToSet
  <2>2. QED
    BY <1>0, <1>1, <2>1, AsTitleOf
<1>4. Below(e) = {e.items[k] : k \in DOMAIN e.items}
  BY DEF Below, ToSet
<1>5. /\ Sequence(AsDivision(e))
      /\ \A h : h \in ToSet(AsDivision(e)) <=>
               h = Headed(e) \/ \E k \in DOMAIN e.items : h \in ToSet(f[k])
  BY <1>0, <1>2, <1>3, Deeper
<1>6. \A h : (\E k \in DOMAIN e.items : h \in ToSet(f[k])) <=>
        \E i \in Below(e) : \/ h = Headed(i)
                            \/ \E x \in Below(i) : h = Headed(x) \/ \E y \in Below(x) : h = Headed(y)
  BY <1>3, <1>4
<1>7. \A h : (\E s : Covered(e, s) /\ h = Headed(s)) <=>
        \/ h = Headed(e)
        \/ \E i \in Below(e) : \/ h = Headed(i)
                               \/ \E x \in Below(i) : h = Headed(x) \/ \E y \in Below(x) : h = Headed(y)
  BY DEF Covered
<1>8. QED
  BY <1>5, <1>6, <1>7

LEMMA CoveredIsSpelled ==
  ASSUME NEW e, Division(e), NEW s, Covered(e, s)
  PROVE  WellFormed(s)
BY DEF Division, Covered

LEMMA RawSectionsOf ==
  ASSUME NEW body, Sequence(body), \A e \in ToSet(body) : Division(e)
  PROVE  /\ Sequence(RawSections(body)) /\ \A h \in ToSet(RawSections(body)) : Spelled(h)
         /\ \A h : h \in ToSet(RawSections(body)) <=>
               \E e \in ToSet(body) : \E s : Covered(e, s) /\ h = Headed(s)
<1>1. PICK f : f = [k \in DOMAIN body |-> AsDivision(body[k])]
  OBVIOUS
<1>2. RawSections(body) = FlattenSeq(f) /\ f = [k \in DOMAIN body |-> f[k]]
  BY <1>1 DEF RawSections, FlatMap
<1>3. ASSUME NEW k \in DOMAIN body
      PROVE  /\ Sequence(f[k]) /\ body[k] \in ToSet(body)
             /\ \A h : h \in ToSet(f[k]) <=> \E s : Covered(body[k], s) /\ h = Headed(s)
  <2>1. body[k] \in ToSet(body)
    BY DEF ToSet
  <2>2. QED
    BY <1>1, <2>1, AsDivisionOf
<1>4. ToSet(body) = {body[k] : k \in DOMAIN body}
  BY DEF ToSet
<1>5. /\ Sequence(RawSections(body))
      /\ \A h : h \in ToSet(RawSections(body)) <=> \E k \in DOMAIN body : h \in ToSet(f[k])
  BY <1>2, <1>3, MappedOver
<1>6. \A h : h \in ToSet(RawSections(body)) <=>
               \E e \in ToSet(body) : \E s : Covered(e, s) /\ h = Headed(s)
  <2>1. \A h : (\E k \in DOMAIN body : h \in ToSet(f[k])) <=>
          \E e \in ToSet(body) : \E s : Covered(e, s) /\ h = Headed(s)
    <3> DEFINE Of(e, h) == \E s : Covered(e, s) /\ h = Headed(s)
    <3>1. \A k \in DOMAIN body : \A h : h \in ToSet(f[k]) <=> Of(body[k], h)
      BY <1>3
    <3> HIDE DEF Of
    <3>2. \A h : (\E k \in DOMAIN body : h \in ToSet(f[k])) <=> \E e \in ToSet(body) : Of(e, h)
      BY <1>4, <3>1
    <3>3. QED
      BY <3>2 DEF Of
  <2>2. QED
    BY <1>5, <2>1
<1>7. \A h \in ToSet(RawSections(body)) : Spelled(h)
  BY <1>6, CoveredIsSpelled, HeadedText DEF WellFormed
<1>8. QED
  BY <1>5, <1>6, <1>7

LEMMA MarkedOf ==
  ASSUME NEW s, Spelled(s), s.subs # <<>>
  PROVE  TextList(Marked(s)) /\ PiecesOf(Marked(s)) = ToSet(TextOf(s))
<1>1. PICK n \in Nat : n = Len(s.subs) /\ DOMAIN s.subs = 1..n /\ \A k \in 1..n : s.subs[k] \in ToSet(s.subs)
  BY Positions DEF Spelled, TextList
<1>2. n # 0 /\ 1 \in 1..n /\ n \in 1..n
  <2>1. ToSet(s.subs) # {}
    BY NoneIsEmpty DEF Spelled, TextList
  <2>2. n # 0
    BY <1>1, <2>1 DEF ToSet
  <2>3. QED
    BY <2>2
<1>3. PICK m : m = Marked(s)
  OBVIOUS
<1>4. /\ DOMAIN m = 1..n /\ m = [k \in 1..n |-> m[k]]
      /\ \A k \in 1..n : m[k] = (IF k = 1 THEN s.intro ELSE <<>>) \o s.subs[k]
                                    \o (IF k = n THEN s.after ELSE <<>>)
  BY <1>1, <1>3 DEF Marked
<1>5. ASSUME NEW k \in 1..n
      PROVE  /\ Sequence(m[k])
             /\ ToSet(m[k]) = (IF k = 1 THEN ToSet(s.intro) ELSE {}) \cup ToSet(s.subs[k])
                                 \cup (IF k = n THEN ToSet(s.after) ELSE {})
  <2>1. PICK before, behind : /\ before = (IF k = 1 THEN s.intro ELSE <<>>)
                              /\ behind = (IF k = n THEN s.after ELSE <<>>)
    OBVIOUS
  <2>2. Sequence(before) /\ Sequence(behind) /\ Sequence(s.subs[k])
    BY <1>1, <2>1, NoElements DEF Spelled, TextList
  <2>3. PICK both : both = before \o s.subs[k]
    OBVIOUS
  <2>4. Sequence(both) /\ ToSet(both) = ToSet(before) \cup ToSet(s.subs[k])
    BY <2>2, <2>3, Joining
  <2>5. Sequence(both \o behind) /\ ToSet(both \o behind) = ToSet(both) \cup ToSet(behind)
    BY <2>2, <2>4, Joining
  <2>6. /\ ToSet(before) = IF k = 1 THEN ToSet(s.intro) ELSE {}
        /\ ToSet(behind) = IF k = n THEN ToSet(s.after) ELSE {}
    BY <2>1, NoElements
  <2>7. m[k] = both \o behind
    BY <1>4, <2>1, <2>3
  <2>8. QED
    BY <2>4, <2>5, <2>6, <2>7
<1>6. TextList(m)
  <2>1. Sequence(m)
    BY <1>4, Listed
  <2>2. QED
    BY <1>4, <1>5, <2>1 DEF TextList, ToSet
<1>7. ToSet(TextOf(s)) = ToSet(s.intro) \cup PiecesOf(s.subs) \cup ToSet(s.after)
  BY TextOfElement
<1>8. \A p : p \in PiecesOf(s.subs) <=> \E k \in 1..n : p \in ToSet(s.subs[k])
  BY <1>1 DEF PiecesOf, Pieces, ToSet
<1>9. \A p : p \in PiecesOf(m) <=> \E k \in 1..n : p \in ToSet(m[k])
  BY <1>4 DEF PiecesOf, Pieces, ToSet
<1>10. ASSUME NEW p PROVE p \in PiecesOf(m) <=> p \in ToSet(TextOf(s))
  <2>1. ASSUME p \in PiecesOf(m) PROVE p \in ToSet(TextOf(s))
    <3>1. PICK k \in 1..n : p \in ToSet(m[k])
      BY <1>9, <2>1
    <3>2. p \in ToSet(s.intro) \/ p \in ToSet(s.subs[k]) \/ p \in ToSet(s.after)
      BY <1>5, <3>1
    <3>3. QED
      BY <1>7, <1>8, <3>2
  <2>2. ASSUME p \in ToSet(TextOf(s)) PROVE p \in PiecesOf(m)
    <3>1. p \in ToSet(s.intro) => p \in ToSet(m[1])
      BY <1>2, <1>5
    <3>2. p \in ToSet(s.after) => p \in ToSet(m[n])
      BY <1>2, <1>5
    <3>3. \A k \in 1..n : p \in ToSet(s.subs[k]) => p \in ToSet(m[k])
      BY <1>5
    <3>4. QED
      BY <1>2, <1>7, <1>8, <1>9, <2>2, <3>1, <3>2, <3>3
  <2>3. QED
    BY <2>1, <2>2
<1>11. QED
  BY <1>3, <1>6, <1>10

LEMMA RawKept ==
  ASSUME NEW s, Spelled(s)
  PROVE  TextList(RawChunks(s)) /\ PiecesOf(RawChunks(s)) = ToSet(TextOf(s))
<1>1. Sequence(TextOf(s))
  BY TextOfElement
<1>2. CASE TextLength(TextOf(s)) <= MAX_CHUNK_CHARS
  <2>1. RawChunks(s) = <<TextOf(s)>>
    BY <1>2 DEF RawChunks
  <2>2. QED
    BY <1>1, <2>1, OneText
<1>3. CASE ~(TextLength(TextOf(s)) <= MAX_CHUNK_CHARS) /\ s.subs = <<>>
  <2>1. RawChunks(s) = Fallback(TextOf(s))
    BY <1>3 DEF RawChunks
  <2>2. QED
    BY <1>1, <2>1, FallbackOf
<1>4. CASE ~(TextLength(TextOf(s)) <= MAX_CHUNK_CHARS) /\ s.subs # <<>>
  <2>1. PICK all : all = Text!Pack(Sizes, Marked(s))
    OBVIOUS
  <2>2. RawChunks(s) = Text!Emit(all.chunked, all.buffer)
    BY <1>4, <2>1 DEF RawChunks
  <2>3. TextList(Marked(s)) /\ PiecesOf(Marked(s)) = ToSet(TextOf(s))
    BY <1>4, MarkedOf
  <2>4. /\ TextList(all.chunked) /\ Sequence(all.buffer)
        /\ PiecesOf(all.chunked) \cup ToSet(all.buffer) = ToSet(TextOf(s))
    BY <2>1, <2>3, PackKeeps DEF Buffered, Held
  <2>5. QED
    BY <2>2, <2>4, Emitted
<1>5. QED
  BY <1>2, <1>3, <1>4

LEMMA RawAllKept ==
  ASSUME NEW s, Sequence(s), \A e \in ToSet(s) : Spelled(e)
  PROVE  /\ TextList(FlatMap(RawChunks, s))
         /\ \A p : p \in PiecesOf(FlatMap(RawChunks, s)) <=> \E e \in ToSet(s) : p \in ToSet(TextOf(e))
<1>1. PICK f : f = [k \in DOMAIN s |-> RawChunks(s[k])]
  OBVIOUS
<1>2. FlatMap(RawChunks, s) = FlattenSeq(f) /\ f = [k \in DOMAIN s |-> f[k]]
  BY <1>1 DEF FlatMap
<1>3. ASSUME NEW k \in DOMAIN s
      PROVE  TextList(f[k]) /\ PiecesOf(f[k]) = ToSet(TextOf(s[k]))
  <2>1. s[k] \in ToSet(s)
    BY DEF ToSet
  <2>2. QED
    BY <1>1, <2>1, RawKept
<1>4. /\ TextList(FlattenSeq(f))
      /\ \A p : p \in PiecesOf(FlattenSeq(f)) <=> \E k \in DOMAIN s : p \in PiecesOf(f[k])
  BY <1>2, <1>3, MappedTexts
<1>5. ToSet(s) = {s[k] : k \in DOMAIN s}
  BY DEF ToSet
<1>6. QED
  BY <1>2, <1>3, <1>4, <1>5

\* Everything of the plain text is in the chunks, and nothing else.
LEMMA RegexKept ==
  ASSUME NEW preamble, Sequence(preamble),
         NEW body, Sequence(body), \A e \in ToSet(body) : Division(e)
  PROVE  /\ TextList(RegexChunks(preamble, body))
         /\ \A p : p \in PiecesOf(RegexChunks(preamble, body)) <=>
               p \in ToSet(preamble) \/ \E s \in ToSet(RawSections(body)) : p \in ToSet(TextOf(s))
<1>1. Sequence(RawSections(body)) /\ \A h \in ToSet(RawSections(body)) : Spelled(h)
  BY RawSectionsOf
<1>2. CASE body = <<>>
  <2>1. PICK s : s = [intro |-> preamble, subs |-> <<>>, after |-> <<>>]
    OBVIOUS
  <2>2. s.intro = preamble /\ s.subs = <<>> /\ s.after = <<>>
    BY <2>1
  <2>3. Spelled(s)
    BY <2>2, NoElements, NoTexts DEF Spelled
  <2>4. ToSet(TextOf(s)) = ToSet(preamble)
    BY <2>2, <2>3, TextOfElement, NoElements, NoTexts
  <2>5. RegexChunks(preamble, body) = RawChunks(s)
    BY <1>2, <2>1 DEF RegexChunks
  <2>6. ToSet(RawSections(body)) = {}
    BY <1>2, RawSectionsOf, NoElements
  <2>7. QED
    BY <2>3, <2>4, <2>5, <2>6, RawKept
<1>3. CASE body # <<>>
  <2>1. PICK raw, T : /\ raw = RawSections(body) /\ T = {s \in ToSet(raw) : TextOf(s) # <<>>}
    OBVIOUS
  <2>2. PICK those : those = FlattenSeq([k \in DOMAIN raw |-> IF raw[k] \in T THEN <<raw[k]>> ELSE <<>>])
    OBVIOUS
  <2>3. \A k \in DOMAIN raw : raw[k] \in T <=> TextOf(raw[k]) # <<>>
    BY <2>1 DEF ToSet
  <2>4. Those(raw, LAMBDA s : TextOf(s) # <<>>) = those
    <3>1. PICK f : f = [k \in DOMAIN raw |-> IF TextOf(raw[k]) # <<>> THEN <<raw[k]>> ELSE <<>>]
      OBVIOUS
    <3>2. f = [k \in DOMAIN raw |-> IF raw[k] \in T THEN <<raw[k]>> ELSE <<>>]
      BY <2>3, <3>1
    <3>3. Those(raw, LAMBDA s : TextOf(s) # <<>>) = FlattenSeq(f)
      BY <3>1, Zenon DEF Those, FlatMap
    <3>4. QED
      BY <2>2, <3>2, <3>3
  <2>5. Sequence(those) /\ ToSet(those) = ToSet(raw) \cap T
    <3>1. Sequence(raw)
      BY <1>1, <2>1
    <3>2. QED
      BY <2>2, <3>1, Chosen
  <2>6. RegexChunks(preamble, body) = Text!Emit(<<>>, preamble) \o FlatMap(RawChunks, those)
    BY <1>3, <2>1, <2>4 DEF RegexChunks
  <2>7. TextList(Text!Emit(<<>>, preamble)) /\ PiecesOf(Text!Emit(<<>>, preamble)) = ToSet(preamble)
    BY NoTexts, Emitted, ZenonT(40)
  <2>8. PICK rest : rest = FlatMap(RawChunks, those)
    OBVIOUS
  <2>9. /\ TextList(rest)
        /\ \A p : p \in PiecesOf(rest) <=> \E e \in ToSet(those) : p \in ToSet(TextOf(e))
    BY <1>1, <2>1, <2>5, <2>8, RawAllKept
  <2>10. /\ TextList(RegexChunks(preamble, body))
         /\ PiecesOf(RegexChunks(preamble, body)) = ToSet(preamble) \cup PiecesOf(rest)
    BY <2>6, <2>7, <2>8, <2>9, MoreTexts
  <2>11. \A s \in ToSet(raw) : \A p \in ToSet(TextOf(s)) : s \in T
    BY <2>1, NoElements
  <2>12. QED
    BY <2>1, <2>5, <2>9, <2>10, <2>11
<1>4. QED
  BY <1>2, <1>3

LEMMA TextsOfAll ==
  ASSUME NEW s, Sequence(s), \A e \in ToSet(s) : Spelled(e)
  PROVE  /\ Sequence(FlatMap(TextOf, s))
         /\ \A p : p \in ToSet(FlatMap(TextOf, s)) <=> \E e \in ToSet(s) : p \in ToSet(TextOf(e))
<1>1. PICK f : f = [k \in DOMAIN s |-> TextOf(s[k])]
  OBVIOUS
<1>2. FlatMap(TextOf, s) = FlattenSeq(f) /\ f = [k \in DOMAIN s |-> f[k]]
  BY <1>1 DEF FlatMap
<1>3. ASSUME NEW k \in DOMAIN s PROVE Sequence(f[k]) /\ f[k] = TextOf(s[k])
  <2>1. s[k] \in ToSet(s)
    BY DEF ToSet
  <2>2. QED
    BY <1>1, <2>1, TextOfElement
<1>4. ToSet(s) = {s[k] : k \in DOMAIN s}
  BY DEF ToSet
<1>5. /\ Sequence(FlattenSeq(f))
      /\ \A p : p \in ToSet(FlattenSeq(f)) <=> \E k \in DOMAIN s : p \in ToSet(f[k])
  BY <1>2, <1>3, MappedOver
<1>6. QED
  BY <1>2, <1>3, <1>4, <1>5

\* A text of a document: what it has outside its body, and a body.
Readable(doc) == /\ Sequence(doc.preamble) /\ Sequence(doc.body)
                 /\ \A e \in ToSet(doc.body) : Division(e)

LEMMA ContentOf ==
  ASSUME NEW doc, Readable(doc)
  PROVE  /\ Sequence(Content(doc))
         /\ \A p : p \in ToSet(Content(doc)) <=>
               p \in ToSet(doc.preamble) \/ \E s \in ToSet(RawSections(doc.body)) : p \in ToSet(TextOf(s))
<1>1. /\ Sequence(RawSections(doc.body)) /\ \A h \in ToSet(RawSections(doc.body)) : Spelled(h)
  BY RawSectionsOf DEF Readable
<1>2. PICK text : text = FlatMap(TextOf, RawSections(doc.body))
  OBVIOUS
<1>3. /\ Sequence(text)
      /\ \A p : p \in ToSet(text) <=> \E e \in ToSet(RawSections(doc.body)) : p \in ToSet(TextOf(e))
  BY <1>1, <1>2, TextsOfAll
<1>4. /\ Sequence(doc.preamble \o text)
      /\ ToSet(doc.preamble \o text) = ToSet(doc.preamble) \cup ToSet(text)
  BY <1>3, Joining DEF Readable
<1>5. QED
  BY <1>2, <1>3, <1>4 DEF Content

-----------------------------------------------------------------------------
(* Sorted lists                                                            *)

\* R orders the elements of S, one behind the other.
Ordering(S, R) ==
    /\ \A x \in S : <<x, x>> \notin R
    /\ \A x \in S : \A y \in S : x = y \/ <<x, y>> \in R \/ <<y, x>> \in R
    /\ \A x \in S : \A y \in S : \A z \in S : <<x, y>> \in R /\ <<y, z>> \in R => <<x, z>> \in R

\* s is what InOrder makes of S.
InRanks(S, R, s) ==
    s = [n \in 1..Cardinality(S) |-> CHOOSE x \in S : Cardinality({y \in S : <<y, x>> \in R}) = n - 1]

\* InOrder has every element once, and none behind one that it goes before.
LEMMA InAnOrder ==
  ASSUME NEW S, IsFiniteSet(S), NEW R, Ordering(S, R),
         NEW s, InRanks(S, R, s)
  PROVE  /\ Sequence(s) /\ DOMAIN s = 1..Cardinality(S) /\ Len(s) = Cardinality(S) /\ ToSet(s) = S
         /\ \A i \in DOMAIN s : \A j \in DOMAIN s : i < j => <<s[i], s[j]>> \in R
         /\ \A i \in DOMAIN s : \A j \in DOMAIN s : s[i] = s[j] => i = j
<1> DEFINE P(x) == {y \in S : <<y, x>> \in R}
<1>4. PICK f : f = [x \in S |-> Cardinality(P(x))]
  OBVIOUS
<1>1. PICK N \in Nat : N = Cardinality(S)
  BY FS_CardinalityType
<1>2. ASSUME NEW x \in S
      PROVE  IsFiniteSet(P(x)) /\ f[x] \in Nat /\ f[x] < N
  <2>1. P(x) \in SUBSET S /\ x \notin P(x)
    BY DEF Ordering
  <2>2. IsFiniteSet(P(x)) /\ f[x] <= N /\ (N = f[x] => S = P(x))
    <3> HIDE DEF P
    <3> QED
      BY <1>1, <1>4, <2>1, FS_Subset
  <2>3. f[x] \in Nat
    <3> HIDE DEF P
    <3> QED
      BY <1>4, <2>2, FS_CardinalityType
  <2>4. N # f[x]
    BY <2>1, <2>2
  <2> HIDE DEF P
  <2>5. QED
    BY <2>2, <2>3, <2>4
<1>3. ASSUME NEW x \in S, NEW y \in S, <<x, y>> \in R
      PROVE  f[x] < f[y]
  <2>1. P(x) \subseteq P(y) /\ x \in P(y) /\ x \notin P(x)
    BY <1>3 DEF Ordering
  <2>2. IsFiniteSet(P(y)) /\ f[x] \in Nat /\ f[y] \in Nat
    BY <1>2
  <2> HIDE DEF P
  <2>3. f[x] <= f[y] /\ (f[y] = f[x] => P(y) = P(x))
    BY <1>4, <2>1, <2>2, FS_Subset
  <2>4. QED
    BY <2>1, <2>2, <2>3
<1> HIDE DEF P
<1>5. ASSUME NEW x \in S, NEW y \in S, f[x] = f[y]
      PROVE  x = y
  <2>1. f[x] \in Nat /\ ~(f[x] < f[y]) /\ ~(f[y] < f[x])
    BY <1>2, <1>5
  <2>2. <<x, y>> \notin R /\ <<y, x>> \notin R
    BY <1>3, <2>1
  <2>3. QED
    BY <2>2 DEF Ordering
<1>6. f \in Injection(S, 0..(N - 1))
  <2>1. f \in [S -> 0..(N - 1)]
    <3>1. \A x \in S : f[x] \in 0..(N - 1)
      BY <1>1, <1>2
    <3>2. QED
      BY <1>4, <3>1
  <2>2. \A a, b \in S : f[a] = f[b] => a = b
    BY <1>5
  <2>3. QED
    BY <2>1, <2>2 DEF Injection, IsInjective
<1>7. f \in Surjection(S, 0..(N - 1))
  <2>1. IsFiniteSet(0..(N - 1)) /\ Cardinality(0..(N - 1)) = N
    <3>1. 0 \in Int /\ N - 1 \in Int /\ (N - 1) - 0 + 1 = N /\ (0 > N - 1 => N = 0)
      BY <1>1
    <3>2. IsFiniteSet(0..(N - 1)) /\ Cardinality(0..(N - 1)) = IF 0 > N - 1 THEN 0 ELSE (N - 1) - 0 + 1
      BY <3>1, FS_Interval
    <3>3. QED
      BY <3>1, <3>2
  <2>2. QED
    BY <1>1, <1>6, <2>1, FS_Injection
<1>8. \A k \in 0..(N - 1) : \E x \in S : f[x] = k
  <2>1. PICK T : T = 0..(N - 1)
    OBVIOUS
  <2>2. f \in Surjection(S, T)
    BY <1>7, <2>1
  <2>3. \A k \in T : \E x \in S : f[x] = k
    BY <2>2, Zenon DEF Surjection
  <2>4. QED
    BY <2>1, <2>3
<1>9. DOMAIN s = 1..N /\ s = [n \in 1..N |-> s[n]]
  <2> DEFINE pick(n) == CHOOSE x \in S : Cardinality({y \in S : <<y, x>> \in R}) = n - 1
  <2>1. s = [n \in 1..N |-> pick(n)]
    BY <1>1, Zenon DEF InRanks
  <2> HIDE DEF pick
  <2>2. QED
    BY <2>1
<1>10. ASSUME NEW n \in 1..N
       PROVE  s[n] \in S /\ f[s[n]] = n - 1
  <2>1. s[n] = CHOOSE x \in S : f[x] = n - 1
    BY <1>1, <1>4 DEF P, InRanks
  <2>2. n - 1 \in 0..(N - 1)
    BY <1>1
  <2>3. \E x \in S : f[x] = n - 1
    BY <1>8, <2>2
  <2>4. QED
    BY <2>1, <2>3
<1>11. Sequence(s) /\ Len(s) = N
  BY <1>9, Listed
<1>12. ASSUME NEW x \in S PROVE x \in ToSet(s)
  <2>1. f[x] + 1 \in 1..N /\ (f[x] + 1) - 1 = f[x]
    BY <1>1, <1>2
  <2>2. s[f[x] + 1] = x
    BY <1>5, <1>10, <2>1
  <2>3. QED
    BY <1>9, <2>1, <2>2 DEF ToSet
<1>13. ToSet(s) = S
  BY <1>9, <1>10, <1>12 DEF ToSet
<1>14. ASSUME NEW i \in 1..N, NEW j \in 1..N, i < j PROVE <<s[i], s[j]>> \in R
  <2>1. s[i] \in S /\ s[j] \in S /\ f[s[i]] < f[s[j]]
    <3>1. s[i] \in S /\ f[s[i]] = i - 1 /\ s[j] \in S /\ f[s[j]] = j - 1
      BY <1>10
    <3>2. QED
      BY <1>14, <3>1
  <2>2. ~(<<s[j], s[i]>> \in R) /\ s[i] # s[j]
    <3>1. ~(f[s[j]] < f[s[i]]) /\ f[s[i]] # f[s[j]]
      BY <1>2, <2>1
    <3>2. QED
      BY <1>3, <2>1, <3>1
  <2>3. QED
    BY <2>1, <2>2 DEF Ordering
<1>15. ASSUME NEW i \in 1..N, NEW j \in 1..N, s[i] = s[j] PROVE i = j
  <2>1. i - 1 = j - 1
    BY <1>10, <1>15
  <2>2. QED
    BY <2>1
<1>16. QED
  BY <1>1, <1>9, <1>11, <1>13, <1>14, <1>15

-----------------------------------------------------------------------------
(* The windows of the calls for claims                                     *)

BillLength(ctx, n, piece) == n + piece.chars

Lengths == INSTANCE FoldFacts WITH Op <- BillLength

LEMMA LengthOf ==
  ASSUME NEW text, Sequence(text), \A p \in ToSet(text) : p.chars \in Nat
  PROVE  TextLength(text) \in Nat
<1>1. PICK n \in Nat : n = Len(text) /\ DOMAIN text = 1..n /\ \A k \in 1..n : text[k] \in ToSet(text)
  BY Positions
<1>2. Lengths!FoldsTo(0, 0, text, n)
  BY <1>1, Lengths!FoldLeftSteps
<1>3. PICK acc : /\ acc[0] = 0
                 /\ \A k \in 1..n : acc[k] = BillLength(0, acc[k - 1], text[k])
                 /\ acc[n] = Lengths!Iter(0, 0, text)[DOMAIN text]
  BY <1>2 DEF Lengths!FoldsTo
<1> DEFINE S == {k \in Nat : k <= n => acc[k] \in Nat}
<1>4. 0 \in S
  BY <1>3
<1>5. ASSUME NEW k \in Nat, k \in S PROVE k + 1 \in S
  <2> SUFFICES ASSUME k + 1 <= n PROVE acc[k + 1] \in Nat
    OBVIOUS
  <2>1. k + 1 \in 1..n /\ (k + 1) - 1 = k /\ acc[k] \in Nat
    BY <1>5
  <2>2. acc[k + 1] = acc[k] + text[k + 1].chars /\ text[k + 1] \in ToSet(text)
    BY <1>1, <1>3, <2>1 DEF BillLength
  <2>3. QED
    BY <2>1, <2>2
<1>6. Nat \subseteq S
  <2> HIDE DEF S
  <2> QED
    BY <1>4, <1>5, Lines!NatSetInduction
<1>7. acc[n] \in Nat
  <2>1. n \in S
    BY <1>6
  <2>2. QED
    BY <2>1
<1>8. TextLength(text) = Lengths!Iter(0, 0, text)[DOMAIN text]
  BY DEF TextLength, FoldLeft, MapThenFoldSet, Max, BillLength, Lengths!Iter, Lengths!Folding,
         Lengths!Latest
<1>9. QED
  BY <1>3, <1>7, <1>8

\* Chunks whose lengths can be compared.
Measured(texts_) == TextList(texts_) /\ \A p \in PiecesOf(texts_) : p.chars \in Nat

LargestChunk == InOrder(DOMAIN chunks, LAMBDA i, j :
                       \/ TextLength(chunks[i]) > TextLength(chunks[j])
                       \/ TextLength(chunks[i]) = TextLength(chunks[j]) /\ i < j)

\* The chunks, the largest first, are all of them, each once.
LEMMA LargestFirst ==
  ASSUME Measured(chunks)
  PROVE  /\ Sequence(LargestChunk) /\ ToSet(LargestChunk) = DOMAIN chunks
         /\ \A i \in DOMAIN LargestChunk : \A j \in DOMAIN LargestChunk :
               LargestChunk[i] = LargestChunk[j] => i = j
<1>1. PICK n \in Nat : /\ n = Len(chunks) /\ DOMAIN chunks = 1..n
                       /\ \A k \in 1..n : chunks[k] \in ToSet(chunks)
  BY Positions DEF Measured, TextList
<1>2. PICK L : L = [k \in 1..n |-> TextLength(chunks[k])]
  OBVIOUS
<1>3. ASSUME NEW k \in 1..n PROVE L[k] \in Nat
  <2>1. Sequence(chunks[k]) /\ \A p \in ToSet(chunks[k]) : p.chars \in Nat
    BY <1>1 DEF Measured, TextList, PiecesOf, Pieces
  <2>2. QED
    BY <1>2, <2>1, LengthOf
<1>4. PICK R : R = {p \in (1..n) \X (1..n) : L[p[1]] > L[p[2]] \/ (L[p[1]] = L[p[2]] /\ p[1] < p[2])}
  OBVIOUS
<1>5. \A i \in 1..n : \A j \in 1..n : <<i, j>> \in R <=> L[i] > L[j] \/ (L[i] = L[j] /\ i < j)
  BY <1>4
<1>6. Ordering(1..n, R)
  <2>1. \A i \in 1..n : i \in Nat /\ L[i] \in Nat
    BY <1>3
  <2>2. \A i \in 1..n : <<i, i>> \notin R
    BY <1>5, <2>1
  <2>3. ASSUME NEW i \in 1..n, NEW j \in 1..n, i # j
        PROVE  <<i, j>> \in R \/ <<j, i>> \in R
    <3>1. L[i] \in Nat /\ L[j] \in Nat /\ i \in Nat /\ j \in Nat
      BY <2>1
    <3>2. \/ L[i] > L[j] \/ (L[i] = L[j] /\ i < j)
          \/ L[j] > L[i] \/ (L[j] = L[i] /\ j < i)
      BY <2>3, <3>1
    <3>3. QED
      BY <1>5, <3>2
  <2>4. ASSUME NEW i \in 1..n, NEW j \in 1..n, NEW k \in 1..n, <<i, j>> \in R, <<j, k>> \in R
        PROVE  <<i, k>> \in R
    <3>1. /\ L[i] > L[j] \/ (L[i] = L[j] /\ i < j)
          /\ L[j] > L[k] \/ (L[j] = L[k] /\ j < k)
      BY <1>5, <2>4
    <3>2. L[i] \in Nat /\ L[j] \in Nat /\ L[k] \in Nat
      BY <2>1
    <3>3. L[i] > L[k] \/ (L[i] = L[k] /\ i < k)
      BY <3>1, <3>2
    <3>4. QED
      BY <1>5, <3>3
  <2>5. QED
    BY <2>2, <2>3, <2>4 DEF Ordering
<1>7. IsFiniteSet(1..n)
  BY FS_Interval
<1>8. InRanks(DOMAIN chunks, R, LargestChunk)
  <2> DEFINE before(y, x) == \/ TextLength(chunks[y]) > TextLength(chunks[x])
                             \/ TextLength(chunks[y]) = TextLength(chunks[x]) /\ y < x
             A(m) == CHOOSE x \in DOMAIN chunks : Cardinality({y \in DOMAIN chunks : before(y, x)}) = m - 1
             B(m) == CHOOSE x \in DOMAIN chunks : Cardinality({y \in DOMAIN chunks : <<y, x>> \in R}) = m - 1
  <2>1. ASSUME NEW x \in DOMAIN chunks
        PROVE  {y \in DOMAIN chunks : before(y, x)} = {y \in DOMAIN chunks : <<y, x>> \in R}
    <3>1. ASSUME NEW y \in DOMAIN chunks
          PROVE  before(y, x) <=> <<y, x>> \in R
      <4>1. L[y] = TextLength(chunks[y]) /\ L[x] = TextLength(chunks[x])
        BY <1>1, <1>2
      <4>2. QED
        BY <1>1, <1>5, <4>1
    <3>2. QED
      BY <3>1, Zenon
  <2>2. ASSUME NEW m \in 1..Cardinality(DOMAIN chunks)
        PROVE  A(m) = B(m)
    <3> HIDE DEF before
    <3> QED
      BY <2>1, Zenon
  <2>3. LargestChunk = [m \in 1..Cardinality(DOMAIN chunks) |-> A(m)]
    BY DEF LargestChunk, InOrder
  <2>4. LargestChunk = [m \in 1..Cardinality(DOMAIN chunks) |-> B(m)]
    <3> HIDE DEF A, B
    <3> QED
      BY <2>2, <2>3
  <2>5. QED
    BY <2>4 DEF InRanks
<1>9. Ordering(DOMAIN chunks, R) /\ IsFiniteSet(DOMAIN chunks)
  BY <1>1, <1>6, <1>7
<1>10. QED
  BY <1>8, <1>9, InAnOrder

\* The chunks of P are in the windows, each in one; one of several keeps to the budget.
Apart(windows, P) ==
    /\ Sequence(windows)
    /\ \A k : k \in P <=> \E w \in DOMAIN windows : k \in windows[w]
    /\ \A v \in DOMAIN windows : \A w \in DOMAIN windows :
          v # w => windows[v] \cap windows[w] = {}
    /\ \A w \in DOMAIN windows : (\E k : windows[w] = {k}) \/ Tokens(windows[w]) <= BUDGET

LEMMA OneMoreInWindow ==
  ASSUME NEW windows, NEW P, Apart(windows, P), NEW k, k \notin P
  PROVE  Apart(PutInWindow(windows, k), P \cup {k})
<1>1. PICK n \in Nat : n = Len(windows) /\ DOMAIN windows = 1..n /\ windows = [w \in 1..n |-> windows[w]]
  BY Positions DEF Apart
<1>2. PICK room : room = {w \in DOMAIN windows : WithinBudget(Tokens(windows[w] \cup {k}))}
  OBVIOUS
<1>3. CASE room = {}
  <2>1. PICK more : more = Append(windows, {k})
    OBVIOUS
  <2>2. PutInWindow(windows, k) = more
    BY <1>2, <1>3, <2>1 DEF PutInWindow
  <2>3. Sequence(more)
    BY <2>1, Appended DEF Apart
  <2>4. DOMAIN more = 1..(n + 1) /\ (\A w \in 1..n : more[w] = windows[w]) /\ more[n + 1] = {k}
    <3>1. PICK S : windows \in Seq(S)
      BY DEF Apart, Sequence
    <3>2. QED
      BY <1>1, <2>1, <3>1
  <2>5. \A w \in 1..(n + 1) : w \in 1..n \/ w = n + 1
    OBVIOUS
  <2>6. \A w \in 1..n : k \notin windows[w]
    BY <1>1 DEF Apart
  <2>7. \A j : j \in P \cup {k} <=> \E w \in DOMAIN more : j \in more[w]
    <3>1. \A j : j \in P <=> \E w \in 1..n : j \in windows[w]
      BY <1>1 DEF Apart
    <3>2. \A w \in 1..n : w \in 1..(n + 1)
      OBVIOUS
    <3>3. n + 1 \in 1..(n + 1)
      OBVIOUS
    <3>4. \A j : (\E w \in 1..(n + 1) : j \in more[w]) <=> j = k \/ \E w \in 1..n : j \in windows[w]
      <4>1. \A j : j \in more[n + 1] <=> j = k
        BY <2>4
      <4>2. \A j : (\E w \in 1..(n + 1) : j \in more[w]) <=>
              j \in more[n + 1] \/ \E w \in 1..n : j \in more[w]
        BY <2>5, <3>2, <3>3, Zenon
      <4>3. QED
        BY <2>4, <4>1, <4>2
    <3>5. QED
      BY <2>4, <3>1, <3>4
  <2>8. \A v \in DOMAIN more : \A w \in DOMAIN more : v # w => more[v] \cap more[w] = {}
    <3>1. \A v \in 1..n : \A w \in 1..n : v # w => windows[v] \cap windows[w] = {}
      BY <1>1 DEF Apart
    <3>2. ASSUME NEW v \in 1..(n + 1), NEW w \in 1..(n + 1), v # w PROVE more[v] \cap more[w] = {}
      <4>1. CASE v \in 1..n /\ w \in 1..n
        BY <2>4, <3>1, <3>2, <4>1
      <4>2. CASE v = n + 1 /\ w \in 1..n
        BY <2>4, <2>6, <4>2
      <4>3. CASE v \in 1..n /\ w = n + 1
        BY <2>4, <2>6, <4>3
      <4>4. QED
        BY <2>5, <3>2, <4>1, <4>2, <4>3
    <3>3. QED
      BY <2>4, <3>2
  <2>9. \A w \in DOMAIN more : (\E j : more[w] = {j}) \/ Tokens(more[w]) <= BUDGET
    <3>1. ASSUME NEW w \in 1..n PROVE (\E j : more[w] = {j}) \/ Tokens(more[w]) <= BUDGET
      <4>1. (\E j : windows[w] = {j}) \/ Tokens(windows[w]) <= BUDGET
        BY <1>1 DEF Apart
      <4>2. more[w] = windows[w]
        BY <2>4
      <4>3. QED
        BY <4>1, <4>2
    <3>2. \E j : more[n + 1] = {j}
      BY <2>4
    <3>3. QED
      BY <2>4, <2>5, <3>1, <3>2
  <2>10. QED
    BY <2>2, <2>3, <2>7, <2>8, <2>9 DEF Apart
<1>4. CASE room # {}
  <2>1. PICK first \in room : \A w \in room : first <= w
    <3>1. room \in SUBSET Nat
      BY <1>1, <1>2
    <3>2. QED
      BY <1>4, <3>1, SmallestOf
  <2>2. Min(room) \in room
    <3>1. \E x \in room : \A y \in room : x <= y
      BY <2>1
    <3>2. QED
      BY <3>1 DEF Min
  <2>3. PICK chosen \in 1..n : chosen = Min(room) /\ chosen \in room
    BY <1>1, <1>2, <2>2
  <2>4. PICK more : more = [windows EXCEPT ![chosen] = @ \cup {k}]
    OBVIOUS
  <2>5. PutInWindow(windows, k) = more
    BY <1>2, <1>4, <2>3, <2>4 DEF PutInWindow
  <2>6. /\ DOMAIN more = 1..n /\ more = [w \in 1..n |-> more[w]]
        /\ more[chosen] = windows[chosen] \cup {k}
        /\ \A w \in 1..n : w # chosen => more[w] = windows[w]
    BY <1>1, <2>4
  <2>7. Sequence(more)
    BY <2>6, Listed
  <2>8. \A w \in 1..n : k \notin windows[w]
    BY <1>1 DEF Apart
  <2>9. \A j : j \in P \cup {k} <=> \E w \in DOMAIN more : j \in more[w]
    <3>1. \A j : (\E w \in 1..n : j \in more[w]) <=> j = k \/ \E w \in 1..n : j \in windows[w]
      BY <2>6
    <3>2. QED
      BY <1>1, <2>6, <3>1 DEF Apart
  <2>10. \A v \in DOMAIN more : \A w \in DOMAIN more : v # w => more[v] \cap more[w] = {}
    <3>1. \A v \in 1..n : \A w \in 1..n : v # w => windows[v] \cap windows[w] = {}
      BY <1>1 DEF Apart
    <3>2. QED
      BY <2>6, <2>8, <3>1
  <2>11. \A w \in DOMAIN more : (\E j : more[w] = {j}) \/ Tokens(more[w]) <= BUDGET
    <3>1. ASSUME NEW w \in 1..n, w # chosen
          PROVE  (\E j : more[w] = {j}) \/ Tokens(more[w]) <= BUDGET
      <4>1. more[w] = windows[w]
        BY <2>6, <3>1
      <4>2. (\E j : windows[w] = {j}) \/ Tokens(windows[w]) <= BUDGET
        BY <1>1 DEF Apart
      <4>3. QED
        BY <4>1, <4>2
    <3>2. Tokens(more[chosen]) <= BUDGET
      BY <1>2, <2>3, <2>6 DEF WithinBudget
    <3>3. QED
      BY <2>6, <3>1, <3>2
  <2>12. QED
    BY <2>5, <2>7, <2>9, <2>10, <2>11 DEF Apart
<1>5. QED
  BY <1>3, <1>4

BillWindow(ctx, windows, k) == PutInWindow(windows, k)

BillWindows == INSTANCE FoldFacts WITH Op <- BillWindow

LEMMA WindowsApart ==
  ASSUME Measured(chunks)
  PROVE  Apart(PackWindows, DOMAIN chunks)
<1>1. PICK sized : sized = LargestChunk
  OBVIOUS
<1>2. /\ Sequence(sized) /\ ToSet(sized) = DOMAIN chunks
      /\ \A i \in DOMAIN sized : \A j \in DOMAIN sized : sized[i] = sized[j] => i = j
  BY <1>1, LargestFirst
<1>3. PICK n \in Nat : n = Len(sized) /\ DOMAIN sized = 1..n
  BY <1>2, Positions
<1>4. BillWindows!FoldsTo(0, <<>>, sized, n)
  BY <1>3, BillWindows!FoldLeftSteps
<1>5. PICK acc : /\ acc[0] = <<>>
                 /\ \A k \in 1..n : acc[k] = BillWindow(0, acc[k - 1], sized[k])
                 /\ acc[n] = BillWindows!Iter(0, <<>>, sized)[DOMAIN sized]
  BY <1>4 DEF BillWindows!FoldsTo
<1> DEFINE Done(k) == {sized[i] : i \in 1..k}
           S == {k \in Nat : k <= n => Apart(acc[k], Done(k))}
<1>6. 0 \in S
  <2>1. Sequence(<<>>) /\ DOMAIN <<>> = {} /\ Done(0) = {}
    BY NoElements
  <2>2. Apart(<<>>, {})
    BY <2>1 DEF Apart
  <2>3. QED
    BY <1>5, <2>1, <2>2
<1>7. ASSUME NEW k \in Nat, k \in S PROVE k + 1 \in S
  <2> SUFFICES ASSUME k + 1 <= n PROVE Apart(acc[k + 1], Done(k + 1))
    OBVIOUS
  <2>1. k + 1 \in 1..n /\ (k + 1) - 1 = k /\ Apart(acc[k], Done(k))
    BY <1>7
  <2>2. acc[k + 1] = PutInWindow(acc[k], sized[k + 1])
    BY <1>5, <2>1 DEF BillWindow
  <2>3. sized[k + 1] \notin Done(k)
    <3>1. \A i \in 1..k : i \in 1..n /\ i # k + 1
      OBVIOUS
    <3>2. QED
      BY <1>2, <1>3, <2>1, <3>1
  <2>4. Done(k + 1) = Done(k) \cup {sized[k + 1]}
    <3>1. 1..(k + 1) = 1..k \cup {k + 1}
      OBVIOUS
    <3>2. QED
      BY <3>1
  <2> HIDE DEF Done
  <2>5. QED
    BY <2>1, <2>2, <2>3, <2>4, OneMoreInWindow
<1>8. Nat \subseteq S
  <2> HIDE DEF S
  <2> QED
    BY <1>6, <1>7, Lines!NatSetInduction
<1>9. Apart(acc[n], Done(n))
  <2>1. n \in S
    BY <1>8
  <2>2. QED
    BY <2>1
<1>10. PackWindows = BillWindows!Iter(0, <<>>, sized)[DOMAIN sized]
  BY <1>1, ZenonT(40) DEF PackWindows, LargestChunk, FoldLeft, MapThenFoldSet, Max, BillWindow,
         BillWindows!Iter, BillWindows!Folding, BillWindows!Latest
<1>11. Done(n) = DOMAIN chunks
  BY <1>2, <1>3 DEF ToSet
<1>12. QED
  BY <1>5, <1>9, <1>10, <1>11

\* What is in the chunks is in the windows' texts.
LEMMA ChunksInPrompts ==
  ASSUME Measured(chunks), ~(TextLength(Content(document)) <= SINGLE_CALL)
  PROVE  PiecesOf(chunks) \subseteq PiecesOf(Prompts)
<1>1. PICK windows : windows = PackWindows
  OBVIOUS
<1>2. Apart(windows, DOMAIN chunks)
  BY <1>1, WindowsApart
<1>3. PICK n \in Nat : n = Len(chunks) /\ DOMAIN chunks = 1..n
  BY Positions DEF Measured, TextList
<1>4. Indexes = [k \in 1..n |-> k] /\ DOMAIN Indexes = 1..n /\ Sequence(Indexes) /\ ToSet(Indexes) = 1..n
  <2>1. Indexes = [k \in 1..n |-> k]
    BY <1>3 DEF Indexes
  <2>2. Sequence(Indexes) /\ DOMAIN Indexes = 1..n
    BY <2>1, Listed
  <2>3. QED
    BY <2>1, <2>2 DEF ToSet
<1>5. Prompts = [w \in DOMAIN windows |->
                    FlatMap(LAMBDA k : chunks[k], Those(Indexes, LAMBDA k : k \in windows[w]))]
  BY <1>1 DEF Prompts
<1>6. ASSUME NEW w \in DOMAIN windows, NEW k \in windows[w], NEW p \in ToSet(chunks[k])
      PROVE  p \in ToSet(Prompts[w])
  <2>1. k \in 1..n
    BY <1>2, <1>3 DEF Apart
  <2>2. PICK those : those = FlattenSeq([i \in DOMAIN Indexes |->
                                IF Indexes[i] \in windows[w] THEN <<Indexes[i]>> ELSE <<>>])
    OBVIOUS
  <2>3. Sequence(those) /\ ToSet(those) = ToSet(Indexes) \cap windows[w]
    <3>1. PICK T, list : T = windows[w] /\ list = Indexes
      OBVIOUS
    <3>2. Sequence(list) /\ those = FlattenSeq([i \in DOMAIN list |->
                                        IF list[i] \in T THEN <<list[i]>> ELSE <<>>])
      BY <1>4, <2>2, <3>1
    <3>3. Sequence(those) /\ ToSet(those) = ToSet(list) \cap T
      BY <3>2, Chosen
    <3>4. QED
      BY <3>1, <3>3
  <2>4. Those(Indexes, LAMBDA i : i \in windows[w]) = those
    BY <2>2 DEF Those, FlatMap
  <2>5. PICK f : f = [i \in DOMAIN those |-> chunks[those[i]]]
    OBVIOUS
  <2>6. FlatMap(LAMBDA i : chunks[i], those) = FlattenSeq(f)
    BY <2>5 DEF FlatMap
  <2>7. \A i \in DOMAIN those : Sequence(f[i])
    <3>1. \A i \in DOMAIN those : those[i] \in 1..n
      BY <1>4, <2>3 DEF ToSet
    <3>2. \A i \in 1..n : Sequence(chunks[i])
      BY <1>3 DEF Measured, TextList, ToSet
    <3>3. QED
      BY <2>5, <3>1, <3>2
  <2>8. f = [i \in DOMAIN those |-> f[i]]
    BY <2>5
  <2>9. \A x : x \in ToSet(FlattenSeq(f)) <=> \E i \in DOMAIN those : x \in ToSet(f[i])
    BY <2>3, <2>7, <2>8, MappedOver
  <2>10. PICK i \in DOMAIN those : those[i] = k
    BY <1>4, <2>1, <2>3 DEF ToSet
  <2>11. p \in ToSet(FlattenSeq(f))
    BY <2>5, <2>9, <2>10
  <2>12. Prompts[w] = FlattenSeq(f)
    BY <1>5, <2>4, <2>6
  <2>13. QED
    BY <2>11, <2>12
<1>7. DOMAIN Prompts = DOMAIN windows
  BY <1>5
<1>8. ASSUME NEW p \in PiecesOf(chunks) PROVE p \in PiecesOf(Prompts)
  <2>1. PICK k \in DOMAIN chunks : p \in ToSet(chunks[k])
    BY DEF PiecesOf, Pieces, ToSet
  <2>2. PICK w \in DOMAIN windows : k \in windows[w]
    BY <1>2 DEF Apart
  <2>3. p \in ToSet(Prompts[w]) /\ w \in DOMAIN Prompts
    BY <1>6, <1>7, <2>1, <2>2
  <2>4. Prompts[w] \in ToSet(Prompts)
    BY <2>3 DEF ToSet
  <2>5. QED
    BY <2>3, <2>4 DEF PiecesOf, Pieces
<1>9. QED
  BY <1>8

-----------------------------------------------------------------------------
(* The versions of a bill and its document                                 *)

\* Texts whose lengths are known.
Known(text) == Sequence(text) /\ \A p \in ToSet(text) : p.chars \in Nat

LEMMA VersionParts ==
  ASSUME NEW e, Element(e)
  PROVE  /\ WellFormed(e) /\ Known(e.intro) /\ Known(e.after)
         /\ \A s \in ToSet(e.subs) : Known(s)
<1>1. \A s : AList(s) <=> Sequence(s)
  BY ListIsSequence
<1>2. QED
  BY <1>1 DEF Element, Legible, WellFormed, Spelled, TextList, Known

LEMMA KnownText ==
  ASSUME NEW e, Element(e)
  PROVE  Known(TextOf(e))
<1>1. /\ WellFormed(e) /\ Known(e.intro) /\ Known(e.after) /\ \A s \in ToSet(e.subs) : Known(s)
  BY VersionParts
<1>2. /\ Sequence(TextOf(e))
      /\ ToSet(TextOf(e)) = ToSet(e.intro) \cup PiecesOf(e.subs) \cup ToSet(e.after)
  BY <1>1, TextOfElement DEF WellFormed
<1>3. QED
  BY <1>1, <1>2 DEF Known, PiecesOf, Pieces

LEMMA VersionText ==
  ASSUME NEW v \in Version
  PROVE  /\ v.xml \in {"none", "good", "bad"} /\ Known(v.form) /\ Sequence(v.body)
         /\ \A e \in ToSet(v.body) : /\ Division(e)
                                     /\ \A s : Covered(e, s) => Known(TextOf(s))
<1>1. /\ v.xml \in {"none", "good", "bad"} /\ Legible(v.form) /\ AList(v.body)
      /\ \A e \in ToSet(v.body) : /\ Element(e)
                                  /\ \A i \in Below(e) : /\ Element(i)
                                                         /\ \A x \in Below(i) : /\ Element(x)
                                                                                /\ \A y \in Below(x) : Element(y)
  BY BillTailAssumption
<1>2. Known(v.form) /\ Sequence(v.body)
  BY <1>1, ListIsSequence DEF Legible, Known
<1>3. ASSUME NEW e \in ToSet(v.body)
      PROVE  Division(e) /\ \A s : Covered(e, s) => Element(s)
  BY <1>1, VersionParts DEF Division, Covered
<1>4. QED
  BY <1>1, <1>2, <1>3, KnownText

MadeOf(v) == [version |-> v,
              preamble |-> IF v.flat THEN Title \o v.form \o FlatMap(TextOf, RawSections(v.body))
                           ELSE Title \o v.form,
              body |-> IF v.flat THEN <<>> ELSE v.body]

TitleAlone == [version |-> None, preamble |-> Title, body |-> <<>>]

Documents == {NoDocument, TitleAlone} \cup {MadeOf(v) : v \in Version}

LEMMA KnownBoth ==
  ASSUME NEW s, NEW t, Known(s), Known(t)
  PROVE  Known(s \o t) /\ ToSet(s \o t) = ToSet(s) \cup ToSet(t)
BY Joining DEF Known

LEMMA TitleKnown == Known(Title)
BY BillTailAssumption, ListIsSequence DEF Legible, Known

\* What is in the parts of a body, and in what RawSections makes of it.
LEMMA BodyText ==
  ASSUME NEW v \in Version
  PROVE  /\ Known(FlatMap(TextOf, RawSections(v.body)))
         /\ \A h \in ToSet(RawSections(v.body)) : Known(TextOf(h))
         /\ \A p : (\E h \in ToSet(RawSections(v.body)) : p \in ToSet(TextOf(h))) <=>
               \E e \in ToSet(v.body) : \E s : Covered(e, s) /\ p \in ToSet(TextOf(s))
         /\ \A p : p \in ToSet(FlatMap(TextOf, RawSections(v.body))) <=>
               \E h \in ToSet(RawSections(v.body)) : p \in ToSet(TextOf(h))
<1>1. /\ Sequence(v.body)
      /\ \A e \in ToSet(v.body) : /\ Division(e)
                                  /\ \A s : Covered(e, s) => Known(TextOf(s))
  BY VersionText
<1>2. PICK raw : raw = RawSections(v.body)
  OBVIOUS
<1>3. /\ Sequence(raw) /\ \A h \in ToSet(raw) : Spelled(h)
      /\ \A h : h \in ToSet(raw) <=> \E e \in ToSet(v.body) : \E s : Covered(e, s) /\ h = Headed(s)
  BY <1>1, <1>2, RawSectionsOf
<1>4. ASSUME NEW e \in ToSet(v.body), NEW s, Covered(e, s)
      PROVE  Known(TextOf(s)) /\ TextOf(Headed(s)) = TextOf(s) /\ Headed(s) \in ToSet(raw)
  <2>1. Spelled(s)
    BY <1>1, <1>4, CoveredIsSpelled DEF WellFormed
  <2>2. QED
    BY <1>1, <1>3, <1>4, <2>1, HeadedText
<1>5. ASSUME NEW h \in ToSet(raw)
      PROVE  \E e \in ToSet(v.body) : \E s : Covered(e, s) /\ TextOf(h) = TextOf(s)
  <2>1. PICK e, s : e \in ToSet(v.body) /\ Covered(e, s) /\ h = Headed(s)
    BY <1>3
  <2>2. TextOf(h) = TextOf(s)
    BY <1>4, <2>1
  <2>3. QED
    BY <2>1, <2>2
<1>6. \A h \in ToSet(raw) : Known(TextOf(h))
  BY <1>1, <1>5
<1>7. ASSUME NEW p
      PROVE  (\E h \in ToSet(raw) : p \in ToSet(TextOf(h))) <=>
                \E e \in ToSet(v.body) : \E s : Covered(e, s) /\ p \in ToSet(TextOf(s))
  <2>1. ASSUME NEW h \in ToSet(raw), p \in ToSet(TextOf(h))
        PROVE  \E e \in ToSet(v.body) : \E s : Covered(e, s) /\ p \in ToSet(TextOf(s))
    BY <1>5, <2>1
  <2>2. ASSUME NEW e \in ToSet(v.body), NEW s, Covered(e, s), p \in ToSet(TextOf(s))
        PROVE  \E h \in ToSet(raw) : p \in ToSet(TextOf(h))
    BY <1>4, <2>2
  <2>3. QED
    BY <2>1, <2>2
<1>8. /\ Sequence(FlatMap(TextOf, raw))
      /\ \A p : p \in ToSet(FlatMap(TextOf, raw)) <=> \E h \in ToSet(raw) : p \in ToSet(TextOf(h))
  BY <1>3, TextsOfAll
<1>9. Known(FlatMap(TextOf, raw))
  BY <1>6, <1>8 DEF Known
<1>10. QED
  BY <1>2, <1>6, <1>7, <1>8, <1>9

LEMMA NoBody == Sequence(<<>>) /\ ToSet(<<>>) = {} /\ ToSet(RawSections(<<>>)) = {}
BY NoElements, RawSectionsOf

\* A document that is made of a version has its text.
LEMMA MadeOfText ==
  ASSUME NEW v \in Version
  PROVE  /\ Readable(MadeOf(v)) /\ Known(Content(MadeOf(v)))
         /\ ToSet(v.form) \subseteq ToSet(Content(MadeOf(v)))
         /\ \A e \in ToSet(v.body) : \A s : Covered(e, s) => ToSet(TextOf(s)) \subseteq ToSet(Content(MadeOf(v)))
<1>1. PICK doc, all : doc = MadeOf(v) /\ all = FlatMap(TextOf, RawSections(v.body))
  OBVIOUS
<1>2. /\ Known(v.form) /\ Sequence(v.body) /\ \A e \in ToSet(v.body) : Division(e)
  BY VersionText
<1>3. /\ Known(all)
      /\ \A h \in ToSet(RawSections(v.body)) : Known(TextOf(h))
      /\ \A p : (\E h \in ToSet(RawSections(v.body)) : p \in ToSet(TextOf(h))) <=>
            \E e \in ToSet(v.body) : \E s : Covered(e, s) /\ p \in ToSet(TextOf(s))
      /\ \A p : p \in ToSet(all) <=> \E h \in ToSet(RawSections(v.body)) : p \in ToSet(TextOf(h))
  BY <1>1, BodyText
<1>4. PICK front : front = Title \o v.form
  OBVIOUS
<1>5. Known(front) /\ ToSet(front) = ToSet(Title) \cup ToSet(v.form)
  BY <1>2, <1>4, TitleKnown, KnownBoth
<1>6. CASE v.flat
  <2>1. doc.preamble = front \o all /\ doc.body = <<>>
    BY <1>1, <1>4, <1>6 DEF MadeOf
  <2>2. Known(doc.preamble) /\ ToSet(doc.preamble) = ToSet(front) \cup ToSet(all)
    BY <1>3, <1>5, <2>1, KnownBoth
  <2>3. Readable(doc) /\ ToSet(RawSections(doc.body)) = {}
    BY <2>1, <2>2, NoBody DEF Readable, Known
  <2>4. Sequence(Content(doc)) /\ \A p : p \in ToSet(Content(doc)) <=> p \in ToSet(doc.preamble)
    BY <2>3, ContentOf
  <2>5. Known(Content(doc))
    BY <2>2, <2>4 DEF Known
  <2>6. QED
    BY <1>1, <1>3, <1>5, <2>2, <2>3, <2>4, <2>5
<1>7. CASE ~v.flat
  <2>1. doc.preamble = front /\ doc.body = v.body
    BY <1>1, <1>4, <1>7 DEF MadeOf
  <2>2. Readable(doc)
    BY <1>2, <1>5, <2>1 DEF Readable, Known
  <2>3. /\ Sequence(Content(doc))
        /\ \A p : p \in ToSet(Content(doc)) <=>
              p \in ToSet(front) \/ \E h \in ToSet(RawSections(v.body)) : p \in ToSet(TextOf(h))
    BY <2>1, <2>2, ContentOf
  <2>4. Known(Content(doc))
    BY <1>3, <1>5, <2>3 DEF Known
  <2>5. QED
    BY <1>1, <1>3, <1>5, <2>2, <2>3, <2>4
<1>8. QED
  BY <1>6, <1>7

LEMMA DocumentText ==
  ASSUME NEW doc \in Documents
  PROVE  Readable(doc) /\ Known(Content(doc))
<1>1. CASE doc \in {NoDocument, TitleAlone}
  <2>1. doc.preamble \in {<<>>, Title} /\ doc.body = <<>>
    BY <1>1 DEF NoDocument, TitleAlone
  <2>2. Known(<<>>)
    BY NoElements DEF Known
  <2>3. Known(doc.preamble)
    BY <2>1, <2>2, TitleKnown
  <2>4. Readable(doc) /\ ToSet(RawSections(doc.body)) = {}
    BY <2>1, <2>3, NoBody DEF Readable, Known
  <2>5. Sequence(Content(doc)) /\ \A p : p \in ToSet(Content(doc)) <=> p \in ToSet(doc.preamble)
    BY <2>4, ContentOf
  <2>6. QED
    BY <2>3, <2>4, <2>5 DEF Known
<1>2. CASE doc \in {MadeOf(v) : v \in Version}
  BY <1>2, MadeOfText
<1>3. QED
  BY <1>1, <1>2 DEF Documents

-----------------------------------------------------------------------------
(* The texts a run loads, and the chunks it makes of them                  *)

\* Texts of versions of a set.
TextsFrom(all, published_) ==
    /\ Sequence(all)
    /\ \A t \in ToSet(all) : t.version \in published_ /\ t.xml \in {"none", t.version.xml}

LEMMA BestOf ==
  ASSUME NEW all, Sequence(all), all # <<>>
  PROVE  \E t \in ToSet(all) : BestText(all) = t.version
<1>1. PICK codes : codes = {k \in DOMAIN Priority : \E t \in ToSet(all) : t.version.code = Priority[k]}
  OBVIOUS
<1>2. CASE codes = {}
  <2>1. BestText(all) = Head(all).version
    BY <1>1, <1>2 DEF BestText
  <2>2. QED
    BY <2>1, HeadAndTail
<1>3. CASE codes # {}
  <2>1. codes \in SUBSET Nat
    BY <1>1 DEF Priority
  <2>2. \E n \in codes : \A m \in codes : n <= m
    BY <1>3, <2>1, SmallestOf
  <2>3. Min(codes) \in codes
    BY <2>2 DEF Min
  <2>4. PICK code : code = Priority[Min(codes)]
    OBVIOUS
  <2>5. PICK T : T = {t \in ToSet(all) : t.version.code = code}
    OBVIOUS
  <2>6. PICK those : those = FlattenSeq([k \in DOMAIN all |-> IF all[k] \in T THEN <<all[k]>> ELSE <<>>])
    OBVIOUS
  <2>7. Sequence(those) /\ ToSet(those) = ToSet(all) \cap T
    BY <2>6, Chosen
  <2>8. Those(all, LAMBDA t : t.version.code = Priority[Min(codes)]) = those
    <3>1. PICK f : f = [k \in DOMAIN all |-> IF all[k].version.code = code THEN <<all[k]>> ELSE <<>>]
      OBVIOUS
    <3>2. f = [k \in DOMAIN all |-> IF all[k] \in T THEN <<all[k]>> ELSE <<>>]
      BY <2>5, <3>1 DEF ToSet
    <3>3. Those(all, LAMBDA t : t.version.code = Priority[Min(codes)]) = FlattenSeq(f)
      BY <2>4, <3>1 DEF Those, FlatMap
    <3>4. QED
      BY <2>6, <3>2, <3>3
  <2>9. ToSet(those) # {}
    <3>1. PICK t \in ToSet(all) : t.version.code = code
      BY <1>1, <2>3, <2>4
    <3>2. QED
      BY <2>5, <2>7, <3>1
  <2>10. those # <<>>
    BY <2>9, NoElements
  <2>11. Head(those) \in ToSet(all)
    BY <2>7, <2>10, HeadAndTail
  <2>12. BestText(all) = Head(those).version
    BY <1>1, <1>3, <2>8 DEF BestText
  <2>13. QED
    BY <2>11, <2>12
<1>4. QED
  BY <1>2, <1>3

\* The XML for the chunks is one of the texts, or none is taken.
LEMMA XmlIsOfText ==
  ASSUME NEW doc, NEW all, Sequence(all), XmlOf(doc, all) # None
  PROVE  XmlOf(doc, all) \in ToSet(all) /\ XmlOf(doc, all).xml # "none"
<1>1. PICK with, own : /\ with = Those(all, LAMBDA t : t.xml # "none")
                       /\ own = Those(with, LAMBDA t : t.version.code = doc.version.code)
  OBVIOUS
<1>2. Sequence(with) /\ ToSet(with) = {t \in ToSet(all) : t.xml # "none"}
  <2>1. PICK T : T = {t \in ToSet(all) : t.xml # "none"}
    OBVIOUS
  <2>2. PICK f : f = [k \in DOMAIN all |-> IF all[k].xml # "none" THEN <<all[k]>> ELSE <<>>]
    OBVIOUS
  <2>3. f = [k \in DOMAIN all |-> IF all[k] \in T THEN <<all[k]>> ELSE <<>>]
    BY <2>1, <2>2 DEF ToSet
  <2>4. with = FlattenSeq(f)
    BY <1>1, <2>2 DEF Those, FlatMap
  <2>5. Sequence(with) /\ ToSet(with) = ToSet(all) \cap T
    BY <2>3, <2>4, Chosen
  <2>6. QED
    BY <2>1, <2>5
<1>3. Sequence(own) /\ ToSet(own) \subseteq ToSet(with)
  <2>1. PICK T : T = {t \in ToSet(with) : t.version.code = doc.version.code}
    OBVIOUS
  <2>2. PICK f : f = [k \in DOMAIN with |-> IF with[k].version.code = doc.version.code
                                            THEN <<with[k]>> ELSE <<>>]
    OBVIOUS
  <2>3. f = [k \in DOMAIN with |-> IF with[k] \in T THEN <<with[k]>> ELSE <<>>]
    BY <2>1, <2>2 DEF ToSet
  <2>4. own = FlattenSeq(f)
    BY <1>1, <2>2 DEF Those, FlatMap
  <2>5. Sequence(own) /\ ToSet(own) = ToSet(with) \cap T
    BY <1>2, <2>3, <2>4, Chosen
  <2>6. QED
    BY <2>5
<1>4. \/ with # <<>> /\ own # <<>> /\ XmlOf(doc, all) = Head(own)
      \/ with # <<>> /\ XmlOf(doc, all) = Head(with)
  BY <1>1 DEF XmlOf
<1>5. XmlOf(doc, all) \in ToSet(with)
  BY <1>2, <1>3, <1>4, HeadAndTail
<1>6. QED
  BY <1>2, <1>5

FromXml(doc, all) == /\ XmlOf(doc, all) # None /\ XmlOf(doc, all).xml = "good"
                     /\ LET v == XmlOf(doc, all).version IN XmlChunks(v.form, v.body) # <<>>

\* The chunks are of the XML if that can be had, else of the plain text.
LEMMA ChunkedFrom ==
  ASSUME NEW doc \in Documents, NEW all, TextsFrom(all, Version)
  PROVE  /\ Measured(ChunkText(doc, all))
         /\ FromXml(doc, all) =>
               LET v == XmlOf(doc, all).version
               IN  v \in Version /\ ChunkText(doc, all) = XmlChunks(v.form, v.body)
         /\ ~FromXml(doc, all) => PiecesOf(ChunkText(doc, all)) = ToSet(Content(doc))
<1>1. PICK t : t = XmlOf(doc, all)
  OBVIOUS
<1>2. ASSUME t # None
      PROVE  t.version \in Version /\ t.xml # "none" /\ t.xml \in {"good", "bad"}
  <2>1. t \in ToSet(all) /\ t.xml # "none"
    BY <1>1, <1>2, XmlIsOfText DEF TextsFrom
  <2>2. t.version \in Version /\ t.xml \in {"none", t.version.xml}
    BY <2>1 DEF TextsFrom
  <2>3. t.version.xml \in {"none", "good", "bad"}
    BY <2>2, VersionText
  <2>4. QED
    BY <2>1, <2>2, <2>3
<1>3. CASE FromXml(doc, all)
  <2>1. t # None /\ t.xml = "good" /\ t.version \in Version
    BY <1>1, <1>2, <1>3 DEF FromXml
  <2>2. PICK v : v = t.version
    OBVIOUS
  <2>3. XmlChunks(v.form, v.body) # <<>>
    BY <1>1, <1>3, <2>2 DEF FromXml
  <2>4. ChunkText(doc, all) = XmlChunks(v.form, v.body)
    BY <1>1, <2>1, <2>2, <2>3 DEF ChunkText
  <2>5. /\ Known(v.form) /\ Sequence(v.body)
        /\ \A e \in ToSet(v.body) : Division(e) /\ \A s : Covered(e, s) => Known(TextOf(s))
    BY <2>1, <2>2, VersionText
  <2>6. /\ TextList(XmlChunks(v.form, v.body))
        /\ \A p \in PiecesOf(XmlChunks(v.form, v.body)) :
              p \in ToSet(v.form) \/ \E e \in ToSet(v.body) : \E s : Covered(e, s) /\ p \in ToSet(TextOf(s))
    BY <2>5, XmlKept DEF Known
  <2>7. Measured(XmlChunks(v.form, v.body))
    BY <2>5, <2>6 DEF Measured, Known
  <2>8. QED
    BY <1>1, <1>3, <2>1, <2>2, <2>4, <2>7
<1>4. CASE ~FromXml(doc, all)
  <2>1. ChunkText(doc, all) = RegexChunks(doc.preamble, doc.body)
    <3>1. PICK parsed : parsed = (IF t = None THEN <<>>
                                  ELSE IF t.xml = "bad" THEN <<>> ELSE XmlChunks(t.version.form, t.version.body))
      OBVIOUS
    <3>2. parsed = <<>>
      BY <1>1, <1>2, <1>4, <3>1 DEF FromXml
    <3>3. QED
      BY <1>1, <3>1, <3>2 DEF ChunkText
  <2>2. Readable(doc) /\ Known(Content(doc))
    BY DocumentText
  <2>3. /\ TextList(RegexChunks(doc.preamble, doc.body))
        /\ \A p : p \in PiecesOf(RegexChunks(doc.preamble, doc.body)) <=>
              p \in ToSet(doc.preamble) \/ \E s \in ToSet(RawSections(doc.body)) : p \in ToSet(TextOf(s))
    BY <2>2, RegexKept DEF Readable
  <2>4. \A p : p \in ToSet(Content(doc)) <=>
              p \in ToSet(doc.preamble) \/ \E s \in ToSet(RawSections(doc.body)) : p \in ToSet(TextOf(s))
    BY <2>2, ContentOf
  <2>5. PiecesOf(RegexChunks(doc.preamble, doc.body)) = ToSet(Content(doc))
    BY <2>3, <2>4
  <2>6. QED
    BY <1>4, <2>1, <2>2, <2>3, <2>5 DEF Measured, Known
<1>5. QED
  BY <1>3, <1>4

-----------------------------------------------------------------------------
(* The texts of a bill: what a run makes of them                           *)

\* What a step has loaded: versions, texts and a document of what was published.
Loaded(i, published_) ==
    /\ Sequence(i.versions) /\ ToSet(i.versions) \subseteq published_
    /\ TextsFrom(i.texts, published_)
    /\ i.document \in Documents /\ i.document.version \in published_ \cup {None}

TailTyped ==
    /\ published \subseteq Version
    /\ stage \in [TailRun -> {"off", "done", "failed"} \cup ToSet(Asset)]
    /\ DOMAIN input = TailRun
    /\ Loaded([versions |-> listed, texts |-> texts, document |-> document], published)
    /\ \A r \in TailRun : input[r] # None => r \in UnderWay /\ Loaded(input[r], published)
    /\ failures \in 0 .. MaxFailures

\* A run that has the outputs to itself has loaded what is stored.
TailAlone ==
    ~overlapped =>
        /\ \A r \in UnderWay : \A q \in UnderWay : r = q
        /\ \A r \in UnderWay : input[r] # None => input[r].texts = texts /\ input[r].document = document

TailInv ==
    /\ TailTyped /\ TailAlone
    /\ Settled => chunks = ChunkText(document, texts)

LEMMA AssetNames == ToSet(Asset) = {"versions", "full_text", "document", "chunks"}
<1>1. DOMAIN Asset = 1..4
  BY DEF Asset
<1>2. \A k \in 1..4 : k = 1 \/ k = 2 \/ k = 3 \/ k = 4
  OBVIOUS
<1>3. 1 \in 1..4 /\ 2 \in 1..4 /\ 3 \in 1..4 /\ 4 \in 1..4
  OBVIOUS
<1>4. Asset[1] = "versions" /\ Asset[2] = "full_text" /\ Asset[3] = "document" /\ Asset[4] = "chunks"
  BY DEF Asset
<1>5. QED
  BY <1>1, <1>2, <1>3, <1>4 DEF ToSet

LEMMA TailStart == TailInit => TailInv
<1> SUFFICES ASSUME TailInit PROVE TailInv
  OBVIOUS
<1>1. UnderWay = {} /\ ~Settled
  BY DEF TailInit, UnderWay, Settled
<1>2. Loaded([versions |-> <<>>, texts |-> <<>>, document |-> NoDocument], {})
  BY NoElements DEF Loaded, TextsFrom, Documents, NoDocument
<1>3. failures \in 0 .. MaxFailures
  BY BillTailAssumption DEF TailInit
<1>4. TailTyped
  BY <1>2, <1>3 DEF TailInit, TailTyped
<1>5. QED
  BY <1>1, <1>4 DEF TailInv, TailAlone

LEMMA LoadedStays ==
  ASSUME NEW i, NEW P, NEW Q, Loaded(i, P), P \subseteq Q
  PROVE  Loaded(i, Q)
BY DEF Loaded, TextsFrom

LEMMA PublishKeeps ==
  ASSUME TailInv, NEW v \in Version, PublishVersion(v)
  PROVE  TailInv'
<1>1. /\ published' = published \cup {v}
      /\ UNCHANGED <<stage, input, listed, texts, document, chunks, failures, overlapped>>
  BY DEF PublishVersion
<1>2. UnderWay' = UnderWay /\ (Settled <=> Settled')
  BY <1>1 DEF UnderWay, Settled
<1>3. TailTyped'
  <2>1. Loaded([versions |-> listed, texts |-> texts, document |-> document], published)'
    BY <1>1, LoadedStays DEF TailInv, TailTyped
  <2>2. \A r \in TailRun : input'[r] # None => r \in UnderWay' /\ Loaded(input'[r], published')
    BY <1>1, <1>2, LoadedStays DEF TailInv, TailTyped
  <2>3. QED
    BY <1>1, <2>1, <2>2 DEF TailInv, TailTyped
<1>4. TailAlone'
  BY <1>1, <1>2 DEF TailInv, TailAlone
<1>5. ChunkText(document, texts)' = ChunkText(document, texts)
  BY <1>1
<1>6. QED
  BY <1>1, <1>2, <1>3, <1>4, <1>5 DEF TailInv

LEMMA BeginKeeps ==
  ASSUME TailInv, NEW r \in TailRun, BeginRun(r)
  PROVE  TailInv'
<1>1. /\ stage[r] = "off" /\ stage' = [stage EXCEPT ![r] = "versions"]
      /\ overlapped' = (overlapped \/ UnderWay # {})
      /\ UNCHANGED <<published, input, listed, texts, document, chunks, failures>>
  BY DEF BeginRun
<1>2. stage'[r] = "versions" /\ \A q \in TailRun : q # r => stage'[q] = stage[q]
  BY <1>1 DEF TailInv, TailTyped
<1>3. UnderWay' = UnderWay \cup {r} /\ r \notin UnderWay
  BY <1>1, <1>2 DEF UnderWay
<1>4. input[r] = None
  BY <1>3 DEF TailInv, TailTyped
<1>5. TailTyped'
  <2>1. stage' \in [TailRun -> {"off", "done", "failed"} \cup ToSet(Asset)]
    BY <1>1, AssetNames DEF TailInv, TailTyped
  <2>2. \A q \in TailRun : input'[q] # None => q \in UnderWay' /\ Loaded(input'[q], published')
    BY <1>1, <1>3 DEF TailInv, TailTyped
  <2>3. QED
    BY <1>1, <2>1, <2>2 DEF TailInv, TailTyped
<1>6. TailAlone'
  <2>1. SUFFICES ASSUME ~overlapped' PROVE UnderWay' = {r}
    BY <1>1, <1>4 DEF TailAlone
  <2>2. UnderWay = {}
    BY <1>1, <2>1
  <2>3. QED
    BY <1>3, <2>2
<1>7. ~Settled'
  BY <1>3 DEF Settled
<1>8. QED
  BY <1>5, <1>6, <1>7 DEF TailInv

LEMMA LoadKeeps ==
  ASSUME TailInv, NEW r \in TailRun, LoadInput(r)
  PROVE  TailInv'
<1>1. PICK i : i = [versions |-> IF stage[r] = "versions"
                                 THEN Those(Versions, LAMBDA v : v \in published) ELSE listed,
                    texts |-> texts, document |-> document]
  OBVIOUS
<1>2. /\ stage[r] \in ToSet(Asset) /\ input' = [input EXCEPT ![r] = i]
      /\ UNCHANGED <<published, stage, listed, texts, document, chunks, failures, overlapped>>
  BY <1>1 DEF LoadInput
<1>3. input'[r] = i /\ \A q \in TailRun : q # r => input'[q] = input[q]
  BY <1>2 DEF TailInv, TailTyped
<1>4. UnderWay' = UnderWay /\ (Settled <=> Settled') /\ r \in UnderWay
  <2>1. r \in UnderWay
    BY <1>2, AssetNames DEF UnderWay
  <2>2. QED
    BY <1>2, <2>1 DEF UnderWay, Settled
<1>5. Loaded(i, published)
  <2>1. Loaded([versions |-> listed, texts |-> texts, document |-> document], published)
    BY DEF TailInv, TailTyped
  <2>2. Sequence(i.versions) /\ ToSet(i.versions) \subseteq published
    <3>1. CASE stage[r] = "versions"
      <4>1. Sequence(Versions)
        BY BillTailAssumption, ListIsSequence
      <4>2. i.versions = FlattenSeq([k \in DOMAIN Versions |->
                            IF Versions[k] \in published THEN <<Versions[k]>> ELSE <<>>])
        BY <1>1, <3>1 DEF Those, FlatMap
      <4>3. Sequence(i.versions) /\ ToSet(i.versions) = ToSet(Versions) \cap published
        BY <4>1, <4>2, Chosen
      <4>4. QED
        BY <4>3
    <3>2. CASE stage[r] # "versions"
      BY <1>1, <2>1, <3>2 DEF Loaded
    <3>3. QED
      BY <3>1, <3>2
  <2>3. i.texts = texts /\ i.document = document
    BY <1>1
  <2>4. QED
    BY <2>1, <2>2, <2>3 DEF Loaded
<1>6. TailTyped'
  <2>1. \A q \in TailRun : input'[q] # None => q \in UnderWay' /\ Loaded(input'[q], published')
    BY <1>2, <1>3, <1>4, <1>5 DEF TailInv, TailTyped
  <2>2. QED
    BY <1>2, <2>1 DEF TailInv, TailTyped
<1>7. TailAlone'
  <2> SUFFICES ASSUME ~overlapped
               PROVE  /\ \A p \in UnderWay : \A q \in UnderWay : p = q
                      /\ \A q \in UnderWay : input'[q] # None =>
                            input'[q].texts = texts /\ input'[q].document = document
    BY <1>2, <1>4 DEF TailAlone
  <2>1. \A p \in UnderWay : p = r
    BY <1>4 DEF TailInv, TailAlone
  <2>2. i.texts = texts /\ i.document = document
    BY <1>1
  <2>3. QED
    BY <1>3, <2>1, <2>2
<1>8. ChunkText(document, texts)' = ChunkText(document, texts)
  BY <1>2
<1>9. QED
  BY <1>2, <1>4, <1>6, <1>7, <1>8 DEF TailInv

\* A step stores its output, and its run goes on.
LEMMA ProceedKeeps ==
  ASSUME TailInv, NEW r \in TailRun, NEW this \in ToSet(Asset),
         NEW next \in ToSet(Asset) \cup {"done"}, Proceed(r, this, next),
         Loaded([versions |-> listed, texts |-> texts, document |-> document], published)',
         failures' \in 0 .. MaxFailures,
         next = "done" => /\ chunks' = ChunkText(input[r].document, input[r].texts)
                          /\ texts' = texts /\ document' = document
  PROVE  TailInv'
<1>1. /\ stage[r] = this /\ input[r] # None
      /\ input' = [input EXCEPT ![r] = None] /\ stage' = [stage EXCEPT ![r] = next]
      /\ published' = published /\ overlapped' = overlapped
  BY DEF Proceed
<1>2. /\ stage'[r] = next /\ input'[r] = None
      /\ \A q \in TailRun : q # r => stage'[q] = stage[q] /\ input'[q] = input[q]
  BY <1>1 DEF TailInv, TailTyped
<1>3. r \in UnderWay
  BY <1>1, AssetNames DEF UnderWay
<1>4. UnderWay' \subseteq UnderWay /\ UnderWay \ {r} \subseteq UnderWay'
  BY <1>2, <1>3 DEF UnderWay
<1>5. TailTyped'
  <2>1. stage' \in [TailRun -> {"off", "done", "failed"} \cup ToSet(Asset)]
    BY <1>1 DEF TailInv, TailTyped
  <2>2. DOMAIN input' = TailRun
    BY <1>1 DEF TailInv, TailTyped
  <2>3. \A q \in TailRun : input'[q] # None => q \in UnderWay' /\ Loaded(input'[q], published')
    BY <1>1, <1>2, <1>4 DEF TailInv, TailTyped
  <2>4. QED
    BY <1>1, <2>1, <2>2, <2>3 DEF TailInv, TailTyped
<1>6. TailAlone'
  <2> SUFFICES ASSUME ~overlapped'
               PROVE  /\ \A p \in UnderWay' : \A q \in UnderWay' : p = q
                      /\ \A q \in UnderWay' : input'[q] = None
    BY DEF TailAlone
  <2>1. \A p \in UnderWay : p = r
    BY <1>1, <1>3 DEF TailInv, TailAlone
  <2>2. QED
    BY <1>2, <1>4, <2>1
<1>7. ASSUME Settled' PROVE chunks' = ChunkText(document, texts)'
  <2>1. UnderWay' = {} /\ ~overlapped'
    BY <1>7 DEF Settled
  <2>2. next = "done"
    <3>1. r \notin UnderWay'
      BY <2>1
    <3>2. next \in {"off", "done", "failed"}
      BY <1>2, <3>1 DEF UnderWay
    <3>3. QED
      BY <3>2, AssetNames
  <2>3. input[r].texts = texts /\ input[r].document = document
    BY <1>1, <1>3, <2>1 DEF TailInv, TailAlone
  <2>4. chunks' = ChunkText(document, texts) /\ texts' = texts /\ document' = document
    BY <2>2, <2>3
  <2>5. QED
    BY <2>4
<1>8. QED
  BY <1>5, <1>6, <1>7 DEF TailInv

LEMMA ListKeeps ==
  ASSUME TailInv, NEW r \in TailRun, ListVersions(r)
  PROVE  TailInv'
<1>1. /\ Proceed(r, "versions", "full_text") /\ listed' = input[r].versions
      /\ UNCHANGED <<texts, document, chunks, failures>>
  BY DEF ListVersions
<1>2. published' = published /\ Loaded(input[r], published)
  BY <1>1 DEF Proceed, TailInv, TailTyped
<1>3. Loaded([versions |-> listed, texts |-> texts, document |-> document], published)'
  BY <1>1, <1>2 DEF Loaded, TailInv, TailTyped
<1>4. failures' \in 0 .. MaxFailures /\ "full_text" # "done"
  BY <1>1 DEF TailInv, TailTyped
<1>5. QED
  BY <1>1, <1>3, <1>4, AssetNames, ProceedKeeps

LEMMA DownloadKeeps ==
  ASSUME TailInv, NEW r \in TailRun, DownloadTexts(r)
  PROVE  TailInv'
<1>1. Proceed(r, "full_text", "document") /\ UNCHANGED <<listed, document, chunks>>
  BY DEF DownloadTexts
<1> DEFINE list == input[r].versions
           versions == FlattenSeq([k \in DOMAIN list |-> IF list[k].htm THEN <<list[k]>> ELSE <<>>])
           had(lost) == FlattenSeq([k \in DOMAIN versions |->
                            IF versions[k] \notin lost THEN <<versions[k]>> ELSE <<>>])
<1>2. PICK lost, bare :
         /\ IF lost \cup bare = {} THEN UNCHANGED failures ELSE StepFaults
         /\ texts' = [k \in DOMAIN had(lost) |->
                         [version |-> had(lost)[k],
                          xml |-> IF had(lost)[k] \in bare THEN "none" ELSE had(lost)[k].xml]]
  <2>1. PICK lost, bare :
           /\ IF lost \cup bare = {} THEN UNCHANGED failures ELSE StepFaults
           /\ texts' = TextsHad(WithFile(input[r].versions), lost, bare)
    BY Zenon DEF DownloadTexts
  <2>2. WithFile(input[r].versions) = versions
    BY Zenon DEF WithFile, Those, FlatMap
  <2>3. TextsHad(versions, lost, bare)
          = [k \in DOMAIN had(lost) |->
                         [version |-> had(lost)[k],
                          xml |-> IF had(lost)[k] \in bare THEN "none" ELSE had(lost)[k].xml]]
    BY Zenon DEF TextsHad, Those, FlatMap
  <2>4. texts' = [k \in DOMAIN had(lost) |->
                         [version |-> had(lost)[k],
                          xml |-> IF had(lost)[k] \in bare THEN "none" ELSE had(lost)[k].xml]]
    BY ONLY <2>1, <2>2, <2>3, Zenon
  <2>5. QED
    BY ONLY <2>1, <2>4, Zenon
<1>3. PICK left : left = had(lost)
  OBVIOUS
<1>4. published' = published /\ Loaded(input[r], published)
  BY <1>1 DEF Proceed, TailInv, TailTyped
<1>5. Sequence(versions) /\ ToSet(versions) \subseteq published
  <2>1. PICK T : T = {v \in ToSet(list) : v.htm}
    OBVIOUS
  <2>2. [k \in DOMAIN list |-> IF list[k].htm THEN <<list[k]>> ELSE <<>>]
          = [k \in DOMAIN list |-> IF list[k] \in T THEN <<list[k]>> ELSE <<>>]
    BY <2>1 DEF ToSet
  <2>3. Sequence(list) /\ ToSet(list) \subseteq published
    BY <1>4 DEF Loaded
  <2>4. Sequence(versions) /\ ToSet(versions) = ToSet(list) \cap T
    BY <2>2, <2>3, Chosen
  <2>5. QED
    BY <2>3, <2>4
<1> HIDE DEF versions
<1>6. Sequence(left) /\ ToSet(left) \subseteq published
  <2>1. PICK T : T = {v \in ToSet(versions) : v \notin lost}
    OBVIOUS
  <2>2. [k \in DOMAIN versions |-> IF versions[k] \notin lost THEN <<versions[k]>> ELSE <<>>]
          = [k \in DOMAIN versions |-> IF versions[k] \in T THEN <<versions[k]>> ELSE <<>>]
    BY <2>1 DEF ToSet
  <2>3. Sequence(left) /\ ToSet(left) = ToSet(versions) \cap T
    BY <1>3, <1>5, <2>2, Chosen
  <2>4. QED
    BY <1>5, <2>3
<1>7. texts' = [k \in DOMAIN left |->
                   [version |-> left[k], xml |-> IF left[k] \in bare THEN "none" ELSE left[k].xml]]
  BY <1>2, <1>3
<1> HIDE DEF had
<1>8. PICK n \in Nat : n = Len(left) /\ DOMAIN left = 1..n /\ \A k \in 1..n : left[k] \in ToSet(left)
  BY <1>6, Positions
<1>9. PICK got : got = texts'
  OBVIOUS
<1>10. TextsFrom(got, published)
  <2>1. Sequence(got) /\ DOMAIN got = 1..n
    <3>1. got = [k \in 1..n |-> got[k]]
      BY <1>7, <1>8, <1>9
    <3>2. QED
      BY <3>1, Listed
  <2>2. ASSUME NEW k \in 1..n
        PROVE  got[k].version \in published /\ got[k].xml \in {"none", got[k].version.xml}
    <3>1. got[k] = [version |-> left[k], xml |-> IF left[k] \in bare THEN "none" ELSE left[k].xml]
      BY <1>7, <1>8, <1>9
    <3>2. left[k] \in published
      BY <1>6, <1>8
    <3>3. QED
      BY <3>1, <3>2
  <2>3. QED
    BY <2>1, <2>2 DEF TextsFrom, ToSet
<1>11. Loaded([versions |-> listed, texts |-> texts, document |-> document], published)'
  BY <1>1, <1>4, <1>9, <1>10 DEF Loaded, TailInv, TailTyped
<1>12. failures' \in 0 .. MaxFailures
  BY <1>2, BillTailAssumption DEF StepFaults, TailInv, TailTyped
<1>13. QED
  BY <1>1, <1>11, <1>12, AssetNames, ProceedKeeps

LEMMA MakeKeeps ==
  ASSUME TailInv, NEW r \in TailRun, MakeDocument(r)
  PROVE  TailInv'
<1>1. Proceed(r, "document", "chunks") /\ UNCHANGED <<listed, texts, chunks, failures>>
  BY DEF MakeDocument
<1>2. published' = published /\ Loaded(input[r], published) /\ published \subseteq Version
  BY <1>1 DEF Proceed, TailInv, TailTyped
<1>3. PICK best : best = BestText(input[r].texts)
  OBVIOUS
<1>4. document' = IF input[r].texts = <<>> THEN TitleAlone ELSE MadeOf(best)
  BY <1>3 DEF MakeDocument, TitleAlone, MadeOf
<1>5. document' \in Documents /\ document'.version \in published \cup {None}
  <2>1. CASE input[r].texts = <<>>
    BY <1>4, <2>1 DEF Documents, TitleAlone
  <2>2. CASE input[r].texts # <<>>
    <3>1. best \in published
      BY <1>2, <1>3, <2>2, BestOf DEF Loaded, TextsFrom
    <3>2. document' = MadeOf(best) /\ MadeOf(best).version = best
      BY <1>4, <2>2 DEF MadeOf
    <3>3. QED
      BY <1>2, <3>1, <3>2 DEF Documents
  <2>3. QED
    BY <2>1, <2>2
<1>6. Loaded([versions |-> listed, texts |-> texts, document |-> document], published)'
  BY <1>1, <1>2, <1>5 DEF Loaded, TailInv, TailTyped
<1>7. failures' \in 0 .. MaxFailures
  BY <1>1 DEF TailInv, TailTyped
<1>8. QED
  BY <1>1, <1>6, <1>7, AssetNames, ProceedKeeps

LEMMA ChunkKeeps ==
  ASSUME TailInv, NEW r \in TailRun, ChunkDocument(r)
  PROVE  TailInv'
<1>1. /\ Proceed(r, "chunks", "done") /\ chunks' = ChunkText(input[r].document, input[r].texts)
      /\ UNCHANGED <<listed, texts, document, failures>>
  BY DEF ChunkDocument
<1>2. published' = published
  BY <1>1 DEF Proceed
<1>3. Loaded([versions |-> listed, texts |-> texts, document |-> document], published)'
  BY <1>1, <1>2 DEF Loaded, TailInv, TailTyped
<1>4. failures' \in 0 .. MaxFailures
  BY <1>1 DEF TailInv, TailTyped
<1>5. QED
  BY <1>1, <1>3, <1>4, AssetNames, ProceedKeeps

LEMMA FailKeeps ==
  ASSUME TailInv, NEW r \in TailRun, StepFails(r)
  PROVE  TailInv'
<1>1. /\ stage[r] \in ToSet(Asset) /\ StepFaults
      /\ stage' = [stage EXCEPT ![r] = "failed"] /\ input' = [input EXCEPT ![r] = None]
      /\ UNCHANGED <<published, listed, texts, document, chunks, overlapped>>
  BY DEF StepFails
<1>2. /\ stage'[r] = "failed" /\ input'[r] = None
      /\ \A q \in TailRun : q # r => stage'[q] = stage[q] /\ input'[q] = input[q]
  BY <1>1 DEF TailInv, TailTyped
<1>3. UnderWay' \subseteq UnderWay /\ UnderWay \ {r} \subseteq UnderWay'
  BY <1>1, <1>2, AssetNames DEF UnderWay
<1>4. TailTyped'
  <2>1. stage' \in [TailRun -> {"off", "done", "failed"} \cup ToSet(Asset)]
    BY <1>1 DEF TailInv, TailTyped
  <2>2. DOMAIN input' = TailRun
    BY <1>1 DEF TailInv, TailTyped
  <2>3. \A q \in TailRun : input'[q] # None => q \in UnderWay' /\ Loaded(input'[q], published')
    BY <1>1, <1>2, <1>3 DEF TailInv, TailTyped
  <2>4. failures' \in 0 .. MaxFailures
    BY <1>1, BillTailAssumption DEF StepFaults, TailInv, TailTyped
  <2>5. QED
    BY <1>1, <2>1, <2>2, <2>3, <2>4 DEF TailInv, TailTyped
<1>5. TailAlone'
  BY <1>1, <1>2, <1>3 DEF TailInv, TailAlone, UnderWay
<1>6. ~Settled'
  BY <1>2 DEF Settled
<1>7. QED
  BY <1>4, <1>5, <1>6 DEF TailInv

LEMMA TailStep == TailInv /\ [TailNext]_tailVars => TailInv'
<1> SUFFICES ASSUME TailInv, [TailNext]_tailVars PROVE TailInv'
  OBVIOUS
<1>1. CASE TailNext
  BY <1>1, PublishKeeps, BeginKeeps, LoadKeeps, ListKeeps, DownloadKeeps, MakeKeeps, ChunkKeeps,
     FailKeeps DEF TailNext
<1>2. CASE UNCHANGED tailVars
  <2>1. UNCHANGED <<published, stage, input, listed, texts, document, chunks, failures, overlapped>>
    BY <1>2 DEF tailVars
  <2>2. UnderWay' = UnderWay /\ (Settled <=> Settled')
    BY <2>1 DEF UnderWay, Settled
  <2>3. TailTyped' /\ TailAlone'
    BY <2>1, <2>2 DEF TailInv, TailTyped, TailAlone
  <2>4. ChunkText(document, texts)' = ChunkText(document, texts)
    BY <2>1
  <2>5. QED
    BY <2>1, <2>2, <2>3, <2>4 DEF TailInv
<1>3. QED
  BY <1>1, <1>2

\* What is sure to be in the chunks is there.
LEMMA PromisedInChunks ==
  ASSUME TailInv, Settled
  PROVE  /\ Measured(chunks) /\ Promised \subseteq PiecesOf(chunks)
         /\ SameVersion => Promised \subseteq PiecesOf(Prompts)
<1>1. /\ chunks = ChunkText(document, texts) /\ document \in Documents
      /\ TextsFrom(texts, Version)
  BY DEF TailInv, TailTyped, Loaded, TextsFrom
<1>2. PICK t : t = XmlOf(document, texts)
  OBVIOUS
<1>3. /\ Measured(chunks)
      /\ FromXml(document, texts) => /\ t.version \in Version
                                     /\ chunks = XmlChunks(t.version.form, t.version.body)
      /\ ~FromXml(document, texts) => PiecesOf(chunks) = ToSet(Content(document))
  BY <1>1, <1>2, ChunkedFrom
<1>4. TextLength(Content(document)) <= SINGLE_CALL => PiecesOf(Prompts) = ToSet(Content(document))
  <2>1. Sequence(Content(document))
    BY <1>1, DocumentText DEF Known
  <2>2. QED
    BY <2>1, OneText DEF Prompts
<1>5. ~(TextLength(Content(document)) <= SINGLE_CALL) => PiecesOf(chunks) \subseteq PiecesOf(Prompts)
  BY <1>3, ChunksInPrompts
<1>6. CASE FromXml(document, texts)
  <2>1. PICK v \in Version : v = t.version /\ chunks = XmlChunks(v.form, v.body)
    BY <1>3, <1>6
  <2>2. Promised = Pieces(v.form) \cup UNION {Sure(e) : e \in Sections(v.body)}
    BY <1>2, <1>6, <2>1 DEF Promised, FromXml, Sure
  <2>3. /\ Known(v.form) /\ Sequence(v.body)
        /\ \A e \in ToSet(v.body) : Division(e) /\ \A s : Covered(e, s) => Known(TextOf(s))
    BY <2>1, VersionText
  <2>4. /\ ToSet(v.form) \subseteq PiecesOf(chunks)
        /\ \A s \in Sections(v.body) : Sure(s) \subseteq PiecesOf(chunks)
    BY <2>1, <2>3, XmlKept DEF Known
  <2>5. Promised \subseteq PiecesOf(chunks)
    BY <2>2, <2>4 DEF Pieces
  <2>6. ASSUME SameVersion PROVE Promised \subseteq ToSet(Content(document))
    <3>1. document.version = v /\ v # None
      <4>1. t # None
        BY <1>2, <1>6 DEF FromXml
      <4>2. t.version = document.version
        BY <1>2, <2>6, <4>1 DEF SameVersion
      <4>3. None \notin Version
        BY BillTailAssumption
      <4>4. QED
        BY <2>1, <4>2, <4>3
    <3>2. document = MadeOf(v)
      <4>1. document \notin {NoDocument, TitleAlone}
        BY <3>1 DEF NoDocument, TitleAlone
      <4>2. PICK u \in Version : document = MadeOf(u)
        BY <1>1, <4>1 DEF Documents
      <4>3. document.version = u
        BY <4>2 DEF MadeOf
      <4>4. QED
        BY <3>1, <4>2, <4>3
    <3>3. /\ ToSet(v.form) \subseteq ToSet(Content(document))
          /\ \A e \in ToSet(v.body) : \A s : Covered(e, s) => ToSet(TextOf(s)) \subseteq ToSet(Content(document))
      BY <3>2, MadeOfText
    <3>4. ASSUME NEW s \in Sections(v.body) PROVE Sure(s) \subseteq ToSet(Content(document))
      <4>1. PICK e \in ToSet(v.body) : IF e.tag = "section" THEN s = e ELSE s \in ToSet(SectionsIn(e))
        BY <2>3, SectionsOf
      <4>2. Covered(e, s)
        BY <2>3, <4>1, SectionsCovered DEF Covered
      <4>3. Spelled(s)
        BY <2>3, <4>2, CoveredIsSpelled DEF WellFormed
      <4>4. Sure(s) \subseteq ToSet(TextOf(s))
        BY <4>3, TextOfElement DEF Sure, Pieces
      <4>5. QED
        BY <3>3, <4>2, <4>4
    <3>5. QED
      BY <2>2, <3>3, <3>4 DEF Pieces
  <2>7. QED
    BY <1>3, <1>4, <1>5, <2>5, <2>6
<1>7. CASE ~FromXml(document, texts)
  <2>1. Promised = ToSet(Content(document))
    BY <1>2, <1>7 DEF Promised, FromXml, Pieces
  <2>2. QED
    BY <1>3, <1>4, <1>5, <1>7, <2>1
<1>8. QED
  BY <1>6, <1>7

LEMMA TailKeepsText == TailInv => BillTextKept
<1> SUFFICES ASSUME TailInv, Settled
             PROVE  /\ Promised \subseteq PiecesOf(chunks)
                    /\ SameVersion => Promised \subseteq PiecesOf(Prompts)
                    /\ \A k \in DOMAIN chunks :
                          Cardinality({w \in DOMAIN PackWindows : k \in PackWindows[w]}) = 1
                    /\ \A w \in DOMAIN PackWindows :
                          Cardinality(PackWindows[w]) = 1 \/ Tokens(PackWindows[w]) <= BUDGET
  BY DEF BillTextKept
<1>1. PICK windows : windows = PackWindows
  OBVIOUS
<1>2. Apart(windows, DOMAIN chunks)
  BY <1>1, PromisedInChunks, WindowsApart
<1>3. ASSUME NEW k \in DOMAIN chunks PROVE Cardinality({w \in DOMAIN windows : k \in windows[w]}) = 1
  <2>1. PICK w \in DOMAIN windows : k \in windows[w]
    BY <1>2 DEF Apart
  <2>2. {v \in DOMAIN windows : k \in windows[v]} = {w}
    BY <1>2, <2>1 DEF Apart
  <2>3. QED
    BY <2>2, FS_Singleton
<1>4. ASSUME NEW w \in DOMAIN windows PROVE Cardinality(windows[w]) = 1 \/ Tokens(windows[w]) <= BUDGET
  BY <1>2, FS_Singleton DEF Apart
<1>5. QED
  BY <1>1, <1>3, <1>4, PromisedInChunks

\* Once the runs are done every piece that the chunker promises to keep is in a chunk, and
\* in a call for claims (BillTextKept), for all bills, runs and sizes: the windows hold
\* each chunk once, and only a single chunk may exceed the budget.
THEOREM BillTextsAreKept == TailSpec => []BillTextKept
<1>1. TailInv /\ [TailNext]_tailVars => TailInv'
  BY TailStep
<1>2. QED
  BY <1>1, TailStart, TailKeepsText, PTL DEF TailSpec

-----------------------------------------------------------------------------
(* Lists of words                                                          *)

\* Each element is greater than those before it.
Rising(s) == \A a \in DOMAIN s : \A b \in DOMAIN s : a < b => s[a] < s[b]

\* An element that is at most at one place.
AtMostOnce(i, s) == \A a \in DOMAIN s : \A b \in DOMAIN s : s[a] = i /\ s[b] = i => a = b

LEMMA SequenceOver ==
  ASSUME NEW s, Sequence(s), NEW S, ToSet(s) \subseteq S
  PROVE  s \in Seq(S)
<1>1. PICK n \in Nat : n = Len(s) /\ s = [k \in 1..n |-> s[k]] /\ \A k \in 1..n : s[k] \in ToSet(s)
  BY Positions
<1>2. QED
  <2>1. \A k \in 1..n : s[k] \in S
    BY <1>1
  <2>2. [k \in 1..n |-> s[k]] \in Seq(S)
    BY <2>1
  <2>3. QED
    BY <1>1, <2>2

\* The places of two lists, of m and of n elements, in their concatenation.
Joins(s, t, m, n) ==
    /\ m = Len(s) /\ n = Len(t) /\ DOMAIN s = 1..m /\ DOMAIN t = 1..n
    /\ DOMAIN (s \o t) = 1..(m + n)
    /\ \A k \in 1..(m + n) : (s \o t)[k] = IF k <= m THEN s[k] ELSE t[k - m]

LEMMA PlacesInBoth ==
  ASSUME NEW s, NEW t, Sequence(s), Sequence(t)
  PROVE  \E m \in Nat : \E n \in Nat : Joins(s, t, m, n)
<1>1. PICK S : S = ToSet(s) \cup ToSet(t)
  OBVIOUS
<1>2. s \in Seq(S) /\ t \in Seq(S)
  BY <1>1 DEF Sequence, ToSet
<1>3. QED
  BY <1>2 DEF Joins

LEMMA OneMoreList ==
  ASSUME NEW seqs, Sequence(seqs), \A k \in DOMAIN seqs : Sequence(seqs[k]),
         NEW t, Sequence(t)
  PROVE  FlattenSeq(Append(seqs, t)) = FlattenSeq(seqs) \o t
<1>1. PICK n \in Nat : /\ n = Len(seqs) /\ DOMAIN seqs = 1..n /\ seqs = [k \in 1..n |-> seqs[k]]
  BY Positions
<1>2. PICK S : S = (UNION {ToSet(seqs[k]) : k \in 1..n}) \cup ToSet(t)
  OBVIOUS
<1>3. ASSUME NEW k \in 1..n PROVE seqs[k] \in Seq(S)
  <2>1. Sequence(seqs[k]) /\ ToSet(seqs[k]) \subseteq S
    BY <1>1, <1>2
  <2>2. QED
    BY <2>1, SequenceOver
<1>4. t \in Seq(S)
  <2>1. ToSet(t) \subseteq S
    BY <1>2
  <2>2. QED
    BY <2>1, SequenceOver
<1>5. PICK more : more = Append(seqs, t)
  OBVIOUS
<1>6. seqs \in Seq(Seq(S)) /\ Len(seqs) = n
  <2>1. PICK Q : Q = Seq(S)
    OBVIOUS
  <2>2. \A k \in 1..n : seqs[k] \in Q
    BY <1>3, <2>1
  <2>3. seqs \in Seq(Q)
    <3>1. ToSet(seqs) \subseteq Q
      BY <1>1, <2>2 DEF ToSet
    <3>2. QED
      BY <3>1, SequenceOver
  <2>4. QED
    BY <1>1, <2>1, <2>3
<1>7. more \in Seq(Seq(S)) /\ Len(more) = n + 1 /\ more[n + 1] = t /\ \A k \in 1..n : more[k] = seqs[k]
  BY <1>4, <1>5, <1>6
<1>8. Lines!FlattenSeq(more) = Lines!FlattenSeq(seqs) \o more[n + 1]
  BY <1>6, <1>7, Lines!FlattenOneMore
<1>9. QED
  BY <1>5, <1>7, <1>8, SameFlattening

LEMMA NoLists == FlattenSeq(<<>>) = <<>>
BY DEF FlattenSeq

LEMMA OnceInBoth ==
  ASSUME NEW s, NEW t, Sequence(s), Sequence(t), NEW i,
         i \in ToSet(s) => AtMostOnce(i, s) /\ i \notin ToSet(t),
         i \in ToSet(t) => AtMostOnce(i, t)
  PROVE  AtMostOnce(i, s \o t)
<1>0. PICK m \in Nat, n \in Nat : Joins(s, t, m, n)
  BY PlacesInBoth
<1>1. /\ m = Len(s) /\ n = Len(t) /\ DOMAIN s = 1..m /\ DOMAIN t = 1..n
      /\ DOMAIN (s \o t) = 1..(m + n)
      /\ \A k \in 1..(m + n) : (s \o t)[k] = IF k <= m THEN s[k] ELSE t[k - m]
  BY <1>0 DEF Joins
<1>2. PICK u : u = s \o t
  OBVIOUS
<1>3. ASSUME NEW a \in 1..(m + n), u[a] = i
      PROVE  \/ a \in 1..m /\ s[a] = i /\ i \in ToSet(s)
             \/ a - m \in 1..n /\ t[a - m] = i /\ i \in ToSet(t) /\ a > m
  <2>1. CASE a <= m
    <3>1. a \in 1..m /\ s[a] = i
      BY <1>1, <1>2, <1>3, <2>1
    <3>2. QED
      BY <1>1, <3>1 DEF ToSet
  <2>2. CASE ~(a <= m)
    <3>1. a - m \in 1..n /\ t[a - m] = i /\ a > m
      BY <1>1, <1>2, <1>3, <2>2
    <3>2. QED
      BY <1>1, <3>1 DEF ToSet
  <2>3. QED
    BY <2>1, <2>2
<1>4. ASSUME NEW a \in 1..(m + n), NEW b \in 1..(m + n), u[a] = i, u[b] = i
      PROVE  a = b
  <2>1. CASE i \in ToSet(s)
    <3>1. a \in 1..m /\ b \in 1..m /\ s[a] = i /\ s[b] = i
      BY <1>3, <1>4, <2>1
    <3>2. QED
      BY <1>1, <2>1, <3>1 DEF AtMostOnce
  <2>2. CASE i \notin ToSet(s)
    <3>1. /\ a - m \in 1..n /\ b - m \in 1..n /\ t[a - m] = i /\ t[b - m] = i
          /\ i \in ToSet(t)
      BY <1>3, <1>4, <2>2
    <3>2. a - m = b - m
      BY <1>1, <3>1 DEF AtMostOnce
    <3>3. QED
      BY <3>2
  <2>3. QED
    BY <2>1, <2>2
<1>5. QED
  BY <1>1, <1>2, <1>4 DEF AtMostOnce

\* How often a word is in a text.
LEMMA TimesOf ==
  ASSUME NEW text, Sequence(text), NEW i
  PROVE  /\ AtMostOnce(i, text) => Times(i, text) <= 1
         /\ i \in ToSet(text) => Times(i, text) >= 1
<1>1. PICK n \in Nat : n = Len(text) /\ DOMAIN text = 1..n
  BY Positions
<1>2. PICK P : P = {k \in DOMAIN text : text[k] = i}
  OBVIOUS
<1>3. IsFiniteSet(P) /\ Cardinality(P) \in Nat /\ Times(i, text) = Cardinality(P)
  <2>1. IsFiniteSet(1..n)
    BY FS_Interval
  <2>2. IsFiniteSet(P)
    BY <1>1, <1>2, <2>1, FS_Subset
  <2>3. QED
    BY <1>2, <2>2, FS_CardinalityType DEF Times
<1>4. ASSUME AtMostOnce(i, text) PROVE Cardinality(P) <= 1
  <2>1. CASE P = {}
    BY <2>1, FS_EmptySet
  <2>2. CASE P # {}
    <3>1. PICK a : a \in P
      BY <2>2
    <3>2. P = {a}
      BY <1>2, <1>4, <3>1 DEF AtMostOnce
    <3>3. QED
      BY <3>2, FS_Singleton
  <2>3. QED
    BY <2>1, <2>2
<1>5. ASSUME i \in ToSet(text) PROVE Cardinality(P) >= 1
  <2>1. P # {}
    BY <1>2, <1>5 DEF ToSet
  <2>2. Cardinality(P) # 0
    BY <1>3, <2>1, FS_EmptySet
  <2>3. QED
    BY <1>3, <2>2
<1>6. QED
  BY <1>3, <1>4, <1>5

LEMMA RisingIsOnce ==
  ASSUME NEW s, Sequence(s), \A x \in ToSet(s) : x \in Int, Rising(s), NEW i
  PROVE  AtMostOnce(i, s)
<1>1. PICK n \in Nat : n = Len(s) /\ DOMAIN s = 1..n /\ \A k \in 1..n : s[k] \in ToSet(s)
  BY Positions
<1>2. ASSUME NEW a \in 1..n, NEW b \in 1..n, s[a] = i, s[b] = i PROVE a = b
  <2>1. s[a] \in Int /\ s[b] \in Int
    BY <1>1
  <2>2. ~(a < b) /\ ~(b < a)
    BY <1>1, <1>2, <2>1 DEF Rising
  <2>3. QED
    BY <2>2
<1>3. QED
  BY <1>1, <1>2 DEF AtMostOnce

LEMMA RisingMore ==
  ASSUME NEW s, Sequence(s), \A x \in ToSet(s) : x \in Int, Rising(s),
         NEW y \in Int, \A x \in ToSet(s) : x < y
  PROVE  Rising(s \o <<y>>)
<1>1. PICK n \in Nat : n = Len(s) /\ DOMAIN s = 1..n /\ \A k \in 1..n : s[k] \in ToSet(s)
  BY Positions
<1>2. PICK t : t = s \o <<y>>
  OBVIOUS
<1>3. DOMAIN t = 1..(n + 1) /\ t[n + 1] = y /\ \A k \in 1..n : t[k] = s[k]
  <2>1. s \in Seq(ToSet(s) \cup {y}) /\ <<y>> \in Seq(ToSet(s) \cup {y}) /\ Len(<<y>>) = 1 /\ <<y>>[1] = y
    BY DEF Sequence, ToSet
  <2>2. QED
    BY <1>1, <1>2, <2>1
<1>4. ASSUME NEW a \in 1..(n + 1), NEW b \in 1..(n + 1), a < b PROVE t[a] < t[b]
  <2>1. a \in 1..n /\ t[a] = s[a] /\ s[a] \in ToSet(s)
    BY <1>1, <1>3, <1>4
  <2>2. CASE b = n + 1
    BY <1>3, <2>1, <2>2
  <2>3. CASE b # n + 1
    <3>1. b \in 1..n /\ t[b] = s[b]
      BY <1>3, <2>3
    <3>2. QED
      BY <1>1, <1>4, <2>1, <3>1 DEF Rising
  <2>4. QED
    BY <2>2, <2>3
<1>5. QED
  BY <1>2, <1>3, <1>4 DEF Rising

\* The indexes in T, in their order.
LEMMA IndexesIn ==
  ASSUME NEW n \in Nat, NEW T,
         NEW t, t = FlattenSeq([k \in 1..n |-> IF k \in T THEN <<k>> ELSE <<>>])
  PROVE  Sequence(t) /\ ToSet(t) = (1..n) \cap T /\ Rising(t)
<1> DEFINE one(k) == IF k \in T THEN <<k>> ELSE <<>>
           up(m) == [k \in 1..m |-> one(k)]
           OK(s, m) == Sequence(s) /\ ToSet(s) = (1..m) \cap T /\ Rising(s)
           S == {m \in Nat : OK(FlattenSeq(up(m)), m)}
<1>1. ASSUME NEW k PROVE Sequence(one(k)) /\ ToSet(one(k)) = {k} \cap T
  BY OneElement, NoElements
<1>2. 0 \in S
  <2>1. up(0) = <<>>
    OBVIOUS
  <2>2. FlattenSeq(up(0)) = <<>>
    BY <2>1, NoLists
  <2>3. OK(<<>>, 0)
    BY NoElements DEF Rising
  <2> HIDE DEF up, OK
  <2>4. QED
    BY <2>2, <2>3
<1>3. ASSUME NEW m \in Nat, m \in S PROVE m + 1 \in S
  <2>1. OK(FlattenSeq(up(m)), m)
    BY <1>3
  <2>2. Sequence(up(m)) /\ DOMAIN up(m) = 1..m /\ Len(up(m)) = m
    BY Listed
  <2>3. \A k \in DOMAIN up(m) : Sequence(up(m)[k])
    BY <1>1
  <2>4. up(m + 1) = Append(up(m), one(m + 1))
    <3>1. PICK s, x : s = up(m) /\ x = one(m + 1)
      OBVIOUS
    <3>2. DOMAIN s = 1..m /\ Sequence(s) /\ \A k \in 1..m : s[k] = one(k)
      BY <2>2, <3>1
    <3>3. PICK V : s \in Seq(V) /\ x \in V
      <4>1. s \in Seq(ToSet(s) \cup {x})
        BY <3>2 DEF Sequence, ToSet
      <4>2. QED
        BY <4>1
    <3>4. Append(s, x) = [k \in 1..(m + 1) |-> IF k = m + 1 THEN x ELSE s[k]]
      <4>1. Len(s) = m
        BY <3>2, <3>3
      <4>2. PICK t_ : t_ = Append(s, x)
        OBVIOUS
      <4>3. t_ \in Seq(V) /\ Len(t_) = m + 1 /\ t_[m + 1] = x /\ \A k \in 1..m : t_[k] = s[k]
        BY <3>3, <4>1, <4>2
      <4>4. t_ = [k \in 1..(m + 1) |-> t_[k]]
        BY <4>3
      <4>5. \A k \in 1..(m + 1) : t_[k] = IF k = m + 1 THEN x ELSE s[k]
        BY <4>3
      <4>6. QED
        BY <4>2, <4>4, <4>5
    <3>5. [k \in 1..(m + 1) |-> IF k = m + 1 THEN x ELSE s[k]] = up(m + 1)
      <4>1. ASSUME NEW k \in 1..(m + 1) PROVE (IF k = m + 1 THEN x ELSE s[k]) = one(k)
        <5>1. k = m + 1 \/ k \in 1..m
          OBVIOUS
        <5> HIDE DEF one
        <5>2. QED
          BY <3>1, <3>2, <5>1
      <4> HIDE DEF one
      <4>2. QED
        BY <4>1
    <3>6. QED
      BY <3>1, <3>4, <3>5
  <2>5. PICK s : s = FlattenSeq(up(m))
    OBVIOUS
  <2>6. FlattenSeq(up(m + 1)) = s \o one(m + 1)
    <3>1. PICK u, x : u = up(m) /\ x = one(m + 1)
      OBVIOUS
    <3>2. Sequence(u) /\ Sequence(x) /\ \A k \in DOMAIN u : Sequence(u[k])
      BY <1>1, <2>2, <2>3, <3>1
    <3>3. FlattenSeq(Append(u, x)) = FlattenSeq(u) \o x
      BY <3>2, OneMoreList
    <3> HIDE DEF up, one
    <3>4. QED
      BY <2>4, <2>5, <3>1, <3>3
  <2>7. OK(s \o one(m + 1), m + 1)
    <3>1. Sequence(s \o one(m + 1)) /\ ToSet(s \o one(m + 1)) = ToSet(s) \cup ({m + 1} \cap T)
      <4>1. Sequence(s) /\ Sequence(one(m + 1)) /\ ToSet(one(m + 1)) = {m + 1} \cap T
        BY <1>1, <2>1, <2>5
      <4> HIDE DEF one
      <4>2. QED
        BY <4>1, Joining
    <3>2. ToSet(s) = (1..m) \cap T /\ Rising(s) /\ Sequence(s)
      BY <2>1, <2>5
    <3>3. (1..(m + 1)) \cap T = ((1..m) \cap T) \cup ({m + 1} \cap T)
      OBVIOUS
    <3>4. Rising(s \o one(m + 1))
      <4>1. CASE m + 1 \in T
        <5>1. m + 1 \in Int /\ \A x \in ToSet(s) : x \in Int /\ x < m + 1
          BY <3>2
        <5>2. Rising(s \o <<m + 1>>)
          BY <3>2, <5>1, RisingMore
        <5>3. QED
          BY <4>1, <5>2
      <4>2. CASE m + 1 \notin T
        <5>1. s \o <<>> = s
          BY <3>2 DEF Sequence
        <5>2. QED
          BY <3>2, <4>2, <5>1
      <4>3. QED
        BY <4>1, <4>2
    <3>5. QED
      BY <3>1, <3>2, <3>3, <3>4
  <2>8. OK(FlattenSeq(up(m + 1)), m + 1)
    <3> HIDE DEF up, OK, one
    <3> QED
      BY <2>5, <2>6, <2>7
  <2>9. QED
    <3> HIDE DEF up, OK, one
    <3> QED
      BY <2>8
<1>4. Nat \subseteq S
  <2> HIDE DEF S
  <2> QED
    BY <1>2, <1>3, Lines!NatSetInduction
<1>5. n \in S
  BY <1>4
<1>6. QED
  BY <1>5

-----------------------------------------------------------------------------
(* Lists that are cut                                                      *)

\* s is cut into N parts that are not empty; the k-th ends at e[k].
CutUp(parts_, s, N, e) ==
    /\ Sequence(parts_) /\ DOMAIN parts_ = 1..N /\ Len(parts_) = N /\ N >= 1
    /\ e \in [0..N -> 0..Len(s)] /\ e[0] = 0 /\ e[N] = Len(s)
    /\ \A i \in 0..N : \A j \in 0..N : i < j => e[i] < e[j]
    /\ \A k \in 1..N : /\ Sequence(parts_[k]) /\ Len(parts_[k]) = e[k] - e[k - 1]
                       /\ DOMAIN parts_[k] = 1..(e[k] - e[k - 1])
                       /\ \A i \in 1..(e[k] - e[k - 1]) : parts_[k][i] = s[e[k - 1] + i]

LEMMA InOrderOfNumbers ==
  ASSUME NEW m \in Nat, NEW S, S \subseteq 1..m
  PROVE  \E N \in Nat : /\ N = Cardinality(S) /\ Sequence(InOrder(S, <)) /\ DOMAIN InOrder(S, <) = 1..N
                        /\ ToSet(InOrder(S, <)) = S
                        /\ Rising(InOrder(S, <))
<1>1. PICK R : R = {p \in (1..m) \X (1..m) : p[1] < p[2]}
  OBVIOUS
<1>2. \A i \in 1..m : \A j \in 1..m : <<i, j>> \in R <=> i < j
  BY <1>1
<1>3. Ordering(S, R)
  <2>1. \A i \in S : i \in 1..m /\ i \in Int
    OBVIOUS
  <2>2. \A i \in S : <<i, i>> \notin R
    BY <1>2, <2>1
  <2>3. ASSUME NEW i \in S, NEW j \in S PROVE i = j \/ <<i, j>> \in R \/ <<j, i>> \in R
    BY <1>2, <2>1
  <2>4. ASSUME NEW i \in S, NEW j \in S, NEW k \in S, <<i, j>> \in R, <<j, k>> \in R
        PROVE  <<i, k>> \in R
    <3>1. i \in 1..m /\ j \in 1..m /\ k \in 1..m
      BY <2>1
    <3>2. i < j /\ j < k
      BY <1>2, <2>4, <3>1
    <3>3. i < k
      BY <3>1, <3>2
    <3>4. QED
      BY <1>2, <3>1, <3>3
  <2>5. QED
    BY <2>2, <2>3, <2>4 DEF Ordering
<1>4. IsFiniteSet(S) /\ Cardinality(S) \in Nat
  <2>1. IsFiniteSet(1..m)
    BY FS_Interval
  <2>2. IsFiniteSet(S)
    BY <2>1, FS_Subset
  <2>3. QED
    BY <2>2, FS_CardinalityType
<1>5. InRanks(S, R, InOrder(S, <))
  <2> DEFINE A(n) == CHOOSE x \in S : Cardinality({y \in S : y < x}) = n - 1
             B(n) == CHOOSE x \in S : Cardinality({y \in S : <<y, x>> \in R}) = n - 1
  <2>1. \A x \in S : {y \in S : y < x} = {y \in S : <<y, x>> \in R}
    BY <1>2
  <2>2. ASSUME NEW n PROVE A(n) = B(n)
    <3>1. \A x \in S : Cardinality({y \in S : y < x}) = Cardinality({y \in S : <<y, x>> \in R})
      BY <2>1
    <3>2. QED
      BY <3>1, Zenon
  <2>3. InOrder(S, <) = [n \in 1..Cardinality(S) |-> A(n)]
    BY DEF InOrder
  <2>4. [n \in 1..Cardinality(S) |-> A(n)] = [n \in 1..Cardinality(S) |-> B(n)]
    <3> HIDE DEF A, B
    <3> QED
      BY <2>2
  <2>5. InOrder(S, <) = [n \in 1..Cardinality(S) |-> B(n)]
    <3> HIDE DEF A, B
    <3> QED
      BY <2>3, <2>4
  <2>6. QED
    BY <2>5, Zenon DEF InRanks
<1>6. PICK s : s = InOrder(S, <)
  OBVIOUS
<1>7. /\ Sequence(s) /\ DOMAIN s = 1..Cardinality(S) /\ ToSet(s) = S
      /\ \A i \in DOMAIN s : \A j \in DOMAIN s : i < j => <<s[i], s[j]>> \in R
  BY <1>3, <1>4, <1>5, <1>6, InAnOrder
<1>8. Rising(s)
  <2>1. \A i \in DOMAIN s : s[i] \in 1..m
    BY <1>7 DEF ToSet
  <2>2. QED
    BY <1>2, <1>7, <2>1 DEF Rising
<1>9. QED
  BY <1>4, <1>6, <1>7, <1>8

LEMMA CutsUp ==
  ASSUME NEW s, Sequence(s), s # <<>>, NEW cuts \in SUBSET (1..(Len(s) - 1))
  PROVE  \E N \in Nat : \E e : CutUp(CutBehind(s, cuts), s, N, e)
<1>1. PICK m, V : m \in Nat /\ m = Len(s) /\ DOMAIN s = 1..m /\ V = ToSet(s) /\ s \in Seq(V)
  <2>1. PICK m \in Nat : m = Len(s) /\ DOMAIN s = 1..m
    BY Positions
  <2>2. QED
    BY <2>1 DEF Sequence, ToSet
<1>2. m >= 1
  BY <1>1
<1>3. PICK S : S = cuts \cup {m}
  OBVIOUS
<1>4. S \subseteq 1..m /\ m \in S
  <2>1. cuts \subseteq 1..(m - 1)
    BY <1>1
  <2>2. 1..(m - 1) \subseteq 1..m /\ m \in 1..m
    BY <1>1, <1>2
  <2>3. QED
    BY <1>3, <2>1, <2>2
<1>5. PICK ends : ends = InOrder(S, <)
  OBVIOUS
<1>6. PICK N \in Nat : DOMAIN ends = 1..N /\ Sequence(ends) /\ ToSet(ends) = S /\ Rising(ends)
  BY <1>1, <1>4, <1>5, InOrderOfNumbers
<1>7. \A k \in 1..N : ends[k] \in S /\ ends[k] \in 1..m
  BY <1>4, <1>6 DEF ToSet
<1>8. N >= 1 /\ ends[N] = m
  <2>1. PICK j \in 1..N : ends[j] = m
    BY <1>4, <1>6 DEF ToSet
  <2>2. N \in 1..N /\ ends[N] \in 1..m
    BY <1>7, <2>1
  <2>3. ASSUME j < N PROVE FALSE
    <3>1. ends[j] < ends[N]
      BY <1>6, <2>1, <2>2, <2>3 DEF Rising
    <3>2. QED
      BY <1>1, <2>1, <2>2, <3>1
  <2>4. QED
    BY <2>1, <2>3
<1>9. PICK e : e = [k \in 0..N |-> IF k = 0 THEN 0 ELSE ends[k]]
  OBVIOUS
<1>10. /\ e \in [0..N -> 0..m] /\ e[0] = 0 /\ e[N] = m
       /\ \A k \in 1..N : e[k] = ends[k] /\ e[k] \in 1..m
  <2>1. \A k \in 1..N : e[k] = ends[k] /\ e[k] \in 1..m
    BY <1>7, <1>9
  <2>2. \A k \in 0..N : (IF k = 0 THEN 0 ELSE ends[k]) \in 0..m
    BY <1>1, <1>7
  <2>3. QED
    <3>1. e \in [0..N -> 0..m]
      BY <1>9, <2>2
    <3>2. 0 \in 0..N /\ N \in 0..N /\ N # 0
      BY <1>8
    <3>3. e[0] = 0 /\ e[N] = m
      BY <1>8, <1>9, <3>2
    <3>4. QED
      BY <2>1, <3>1, <3>3
<1>11. ASSUME NEW i \in 0..N, NEW j \in 0..N, i < j PROVE e[i] < e[j]
  <2>1. j \in 1..N /\ e[j] \in 1..m
    BY <1>10, <1>11
  <2>2. CASE i = 0
    BY <1>10, <2>1, <2>2
  <2>3. CASE i # 0
    <3>1. i \in 1..N
      BY <2>3
    <3>2. QED
      BY <1>6, <1>10, <1>11, <2>1, <3>1 DEF Rising
  <2>4. QED
    BY <2>2, <2>3
<1>12. PICK p : p = CutBehind(s, cuts)
  OBVIOUS
<1>13. p = [k \in 1..N |-> SubSeq(s, IF k = 1 THEN 1 ELSE ends[k - 1] + 1, ends[k])]
  <2>1. InOrder(cuts \cup {Len(s)}, <) = ends
    BY <1>1, <1>3, <1>5
  <2>2. CutBehind(s, cuts) = [k \in DOMAIN ends |-> SubSeq(s, IF k = 1 THEN 1 ELSE ends[k - 1] + 1, ends[k])]
    BY <2>1 DEF CutBehind
  <2>3. QED
    BY <1>6, <1>12, <2>2
<1>14. ASSUME NEW k \in 1..N
       PROVE  /\ Sequence(p[k]) /\ Len(p[k]) = e[k] - e[k - 1]
              /\ DOMAIN p[k] = 1..(e[k] - e[k - 1])
              /\ \A i \in 1..(e[k] - e[k - 1]) : p[k][i] = s[e[k - 1] + i]
  <2>1. k - 1 \in 0..N /\ e[k - 1] \in 0..m /\ e[k] \in 1..m /\ e[k - 1] < e[k]
    BY <1>10, <1>11
  <2>2. p[k] = SubSeq(s, e[k - 1] + 1, e[k])
    <3>1. (IF k = 1 THEN 1 ELSE ends[k - 1] + 1) = e[k - 1] + 1
      <4>1. CASE k = 1
        BY <1>10, <4>1
      <4>2. CASE k # 1
        <5>1. k - 1 \in 1..N
          BY <4>2
        <5>2. QED
          BY <1>10, <4>2, <5>1
      <4>3. QED
        BY <4>1, <4>2
    <3>2. QED
      BY <1>10, <1>13, <3>1
  <2>3. PICK a \in 0..m, b \in 1..m : a = e[k - 1] /\ b = e[k] /\ a < b
    BY <2>1
  <2>4. PICK q : q = SubSeq(s, a + 1, b)
    OBVIOUS
  <2>5. /\ q \in Seq(V) /\ Len(q) = b - a
        /\ \A i \in 1..(b - a) : q[i] = s[a + i]
    <3>1. PICK c \in Int : c = a + 1
      BY <2>3
    <3>2. \A i \in c..b : s[i] \in V
      BY <1>1, <2>3, <3>1
    <3>3. q = SubSeq(s, c, b) /\ b \in Int
      BY <2>3, <2>4, <3>1
    <3>4. /\ SubSeq(s, c, b) \in Seq(V)
          /\ Len(SubSeq(s, c, b)) = IF c <= b THEN b - c + 1 ELSE 0
          /\ \A i \in 1..(b - c + 1) : SubSeq(s, c, b)[i] = s[c + i - 1]
      BY <3>2, <3>3, SubSeqProperties
    <3>5. a \in Int /\ b \in Int /\ c <= b /\ b - c + 1 = b - a
      BY <2>3, <3>1
    <3>7. \A i \in 1..(b - a) : c + i - 1 = a + i
      BY <3>1, <3>5
    <3>6. QED
      BY <3>3, <3>4, <3>5, <3>7
  <2>6. Sequence(q) /\ DOMAIN q = 1..(b - a)
    <3>1. Lines!Sequence(q)
      BY <2>5, Lines!SequenceOfSome
    <3>2. QED
      BY <2>5, <3>1 DEF Sequence, Lines!Sequence
  <2>7. QED
    BY <2>2, <2>3, <2>4, <2>5, <2>6
<1>15. Sequence(p) /\ DOMAIN p = 1..N /\ Len(p) = N
  <2>1. p = [k \in 1..N |-> p[k]]
    BY <1>13
  <2>2. QED
    BY <2>1, Listed
<1>16. CutUp(p, s, N, e)
  BY <1>1, <1>8, <1>10, <1>11, <1>14, <1>15 DEF CutUp
<1>17. QED
  BY <1>12, <1>16

\* q is what is behind the a-th place of s, to the b-th.
Between(q, s, a, b) ==
    /\ a < b /\ b <= Len(s)
    /\ Sequence(q) /\ Len(q) = b - a /\ DOMAIN q = 1..(b - a)
    /\ \A i \in 1..(b - a) : a + i \in 1..Len(s) /\ q[i] = s[a + i]

LEMMA PartAt ==
  ASSUME NEW s, Sequence(s), NEW p, NEW N \in Nat, NEW e, CutUp(p, s, N, e), NEW k \in 1..N
  PROVE  \E a \in Nat : \E b \in Nat :
            a = e[k - 1] /\ b = e[k] /\ Between(p[k], s, a, b)
<1>1. PICK m \in Nat : m = Len(s)
  BY Positions
<1>2. k - 1 \in 0..N /\ k \in 0..N /\ k - 1 < k
  OBVIOUS
<1>3. PICK a \in 0..m, b \in 0..m : a = e[k - 1] /\ b = e[k]
  BY <1>1, <1>2 DEF CutUp
<1>4. a < b
  BY <1>2, <1>3 DEF CutUp
<1>5. /\ Sequence(p[k]) /\ Len(p[k]) = b - a /\ DOMAIN p[k] = 1..(b - a)
      /\ \A i \in 1..(b - a) : p[k][i] = s[a + i]
  BY <1>3 DEF CutUp
<1>6. \A i \in 1..(b - a) : a + i \in 1..m
  OBVIOUS
<1>7. a \in Nat /\ b \in Nat /\ b <= m
  OBVIOUS
<1>8. QED
  BY <1>1, <1>3, <1>4, <1>5, <1>6, <1>7 DEF Between

\* The parts have all that is in the list, and nothing else.
LEMMA CutElements ==
  ASSUME NEW s, Sequence(s), NEW p, NEW N \in Nat, NEW e, CutUp(p, s, N, e)
  PROVE  /\ \A k \in 1..N : p[k] # <<>> /\ ToSet(p[k]) \subseteq ToSet(s)
         /\ \A x \in ToSet(s) : \E k \in 1..N : x \in ToSet(p[k])
<1>1. PICK m \in Nat : m = Len(s) /\ DOMAIN s = 1..m
  BY Positions
<1>2. ASSUME NEW k \in 1..N
      PROVE  k - 1 \in 0..N /\ k \in 0..N /\ e[k - 1] \in 0..m /\ e[k] \in 0..m /\ e[k - 1] < e[k]
  BY <1>1 DEF CutUp
<1>3. ASSUME NEW k \in 1..N
      PROVE  p[k] # <<>> /\ ToSet(p[k]) \subseteq ToSet(s)
  <2>1. PICK a \in Nat, b \in Nat : a = e[k - 1] /\ b = e[k] /\ Between(p[k], s, a, b)
    BY PartAt
  <2>2. ASSUME NEW i \in DOMAIN p[k] PROVE p[k][i] \in ToSet(s)
    <3>1. a + i \in 1..m /\ p[k][i] = s[a + i]
      BY <1>1, <2>1 DEF Between
    <3>2. QED
      BY <1>1, <3>1 DEF ToSet
  <2>3. p[k] # <<>>
    BY <2>1 DEF Between
  <2>4. QED
    BY <2>2, <2>3 DEF ToSet, Between
<1>4. ASSUME NEW x \in ToSet(s) PROVE \E k \in 1..N : x \in ToSet(p[k])
  <2>1. PICK j \in 1..m : s[j] = x
    BY <1>1 DEF ToSet
  <2>2. PICK K : K = {k \in 1..N : j <= e[k]}
    OBVIOUS
  <2>3. N \in K
    BY <1>1, <2>2 DEF CutUp, Between
  <2>4. PICK k \in K : \A i \in K : k <= i
    <3>1. K \in SUBSET Nat /\ K # {}
      BY <2>2, <2>3 DEF Between
    <3>2. QED
      BY <3>1, SmallestOf
  <2>5. k \in 1..N /\ j <= e[k]
    BY <2>2 DEF Between
  <2>6. e[k - 1] < j
    <3>1. CASE k = 1
      BY <3>1 DEF CutUp
    <3>2. CASE k # 1
      <4>1. k - 1 \in 1..N /\ k - 1 \notin K
        BY <2>4, <2>5, <3>2
      <4>2. QED
        BY <1>2, <2>2, <2>5, <4>1 DEF Between
    <3>3. QED
      BY <3>1, <3>2
  <2>7. PICK i : i = j - e[k - 1]
    OBVIOUS
  <2>8. i \in 1..(e[k] - e[k - 1]) /\ e[k - 1] + i = j
    BY <1>2, <2>5, <2>6, <2>7
  <2>9. i \in DOMAIN p[k] /\ p[k][i] = x
    BY <2>1, <2>5, <2>8 DEF CutUp, Between
  <2>10. QED
    BY <2>5, <2>9 DEF ToSet
<1>5. QED
  BY <1>3, <1>4

\* The parts of a rising list rise one behind the other.
LEMMA CutRises ==
  ASSUME NEW s, Sequence(s), \A x \in ToSet(s) : x \in Int, Rising(s),
         NEW p, NEW N \in Nat, NEW e, CutUp(p, s, N, e)
  PROVE  /\ \A k \in 1..N : Rising(p[k])
         /\ \A j \in 1..N : \A k \in 1..N : j < k => Last(p[j]) < Head(p[k])
<1>1. PICK m \in Nat : m = Len(s) /\ DOMAIN s = 1..m /\ \A i \in 1..m : s[i] \in ToSet(s)
  BY Positions
<1>2. ASSUME NEW k \in 1..N
      PROVE  k - 1 \in 0..N /\ k \in 0..N /\ e[k - 1] \in 0..m /\ e[k] \in 0..m /\ e[k - 1] < e[k]
  BY <1>1 DEF CutUp
<1>3. ASSUME NEW k \in 1..N PROVE Rising(p[k])
  <2>1. PICK a \in Nat, b \in Nat : a = e[k - 1] /\ b = e[k] /\ Between(p[k], s, a, b)
    BY PartAt
  <2>2. ASSUME NEW i \in DOMAIN p[k], NEW j \in DOMAIN p[k], i < j PROVE p[k][i] < p[k][j]
    <3>1. /\ a + i \in 1..m /\ p[k][i] = s[a + i]
          /\ a + j \in 1..m /\ p[k][j] = s[a + j]
      BY <1>1, <2>1 DEF Between
    <3>2. a + i < a + j
      BY <2>1, <2>2 DEF Between
    <3>3. QED
      BY <1>1, <3>1, <3>2 DEF Rising
  <2>3. QED
    BY <2>2 DEF Rising, Between
<1>4. ASSUME NEW j \in 1..N, NEW k \in 1..N, j < k PROVE Last(p[j]) < Head(p[k])
  <2>1. PICK a \in Nat, b \in Nat : a = e[k - 1] /\ b = e[k] /\ Between(p[k], s, a, b)
    BY PartAt
  <2>2. PICK c \in Nat, d \in Nat : c = e[j - 1] /\ d = e[j] /\ Between(p[j], s, c, d)
    BY PartAt
  <2>3. d <= a
    <3>1. CASE j = k - 1
      BY <2>1, <2>2, <3>1 DEF Between
    <3>2. CASE j # k - 1
      <4>1. j \in 0..N /\ k - 1 \in 0..N /\ j < k - 1
        BY <1>4, <3>2
      <4>2. QED
        BY <2>1, <2>2, <4>1 DEF CutUp, Between
    <3>3. QED
      BY <3>1, <3>2
  <2>4. Last(p[j]) = s[d] /\ d \in 1..m
    <3>1. d - c \in 1..(d - c) /\ c + (d - c) = d
      BY <2>2 DEF Between
    <3>2. p[j][d - c] = s[d] /\ d \in 1..m
      BY <1>1, <2>2, <3>1 DEF Between
    <3>3. QED
      BY <2>2, <3>2 DEF Last, Between
  <2>5. Head(p[k]) = s[a + 1] /\ a + 1 \in 1..m /\ d < a + 1
    <3>1. 1 \in 1..(b - a)
      BY <2>1 DEF Between
    <3>2. QED
      BY <1>1, <2>1, <2>3, <3>1 DEF Between
  <2>6. QED
    BY <1>1, <2>3, <2>4, <2>5 DEF Rising
<1>5. QED
  BY <1>3, <1>4

-----------------------------------------------------------------------------
(* A recording: its words, its windows, and what is heard in them          *)

Begin(i) == speech.words[i].start
End(i) == speech.words[i].end

LEMMA SpeechWords ==
  ASSUME speech \in Speech
  PROVE  \E n \in Nat :
            /\ n = Len(speech.words) /\ DOMAIN speech.words = 1..n /\ speech.total \in Nat \ {0}
            /\ \A i \in 1..n : /\ Begin(i) \in Nat /\ End(i) \in Nat /\ Begin(i) <= End(i)
                               /\ speech.words[i].chars \in Nat
                               /\ 2 * speech.words[i].chars <= CHUNK_SIZE
            /\ \A i \in 1..n : \A j \in 1..n : i < j => End(i) <= Begin(j)
<1>1. PICK w, t : w = speech.words /\ t = speech.total
  OBVIOUS
<1>2. /\ AList(w) /\ t \in Nat \ {0}
      /\ \A i \in DOMAIN w : /\ w[i].start \in Nat /\ w[i].end \in Nat /\ w[i].chars \in Nat
                             /\ w[i].start <= w[i].end /\ 2 * w[i].chars <= CHUNK_SIZE
                             /\ \A j \in i + 1 .. Len(w) : w[i].end <= w[j].start
  BY <1>1, TranscriptAssumption
<1>3. PICK n \in Nat : n = Len(w) /\ DOMAIN w = 1..n
  BY <1>2, ListIsSequence, Positions
<1>4. ASSUME NEW i \in 1..n, NEW j \in 1..n, i < j PROVE w[i].end <= w[j].start
  <2>1. j \in i + 1 .. Len(w)
    BY <1>3, <1>4
  <2>2. QED
    BY <1>2, <1>3, <2>1
<1>5. QED
  BY <1>1, <1>2, <1>3, <1>4 DEF Begin, End

LEMMA DividedDown ==
  ASSUME NEW a \in Nat, NEW d \in Nat \ {0}
  PROVE  a \div d \in Nat /\ d * (a \div d) <= a /\ a < d * (a \div d) + d
OBVIOUS

LEMMA TimesBounded ==
  ASSUME NEW a \in Nat, NEW b \in Nat, NEW d \in Nat, a <= b
  PROVE  a * d \in Nat /\ a * d <= b * d
OBVIOUS

LEMMA SmallerOf ==
  ASSUME NEW a \in Int, NEW b \in Int
  PROVE  Min({a, b}) = IF a <= b THEN a ELSE b
<1>1. PICK m : m = IF a <= b THEN a ELSE b
  OBVIOUS
<1>2. m \in {a, b} /\ \A y \in {a, b} : m <= y
  BY <1>1
<1>3. \A x \in {a, b} : (\A y \in {a, b} : x <= y) => x = m
  BY <1>2
<1>4. Min({a, b}) = m
  BY <1>2, <1>3 DEF Min
<1>5. QED
  BY <1>1, <1>4

\* The windows of the file: no one ends before the one before it.
LEMMA WindowsOrdered ==
  ASSUME speech \in Speech
  PROVE  \E n \in Nat \ {0} :
            /\ n = Len(Windows) /\ DOMAIN Windows = 1..n
            /\ \A k \in 1..n : /\ Windows[k].start \in Nat /\ Windows[k].end \in Nat
                               /\ Windows[k].start <= Windows[k].end
            /\ Windows[1].start = 0
            /\ \A k \in 1..n : k = 1 \/ Windows[k - 1].end <= Windows[k].end
<1>1. PICK total, D, O : total = speech.total /\ D = CHUNK_DURATION /\ O = CHUNK_OVERLAP
  OBVIOUS
<1>2. total \in Nat /\ total >= 1 /\ D \in Nat /\ D >= 2 /\ O \in Nat /\ O <= D
  BY <1>1, SpeechWords, TranscriptAssumption
<1> DEFINE Start(k) == IF k = 1 THEN 0 ELSE (k - 1) * D - O
<1>3. PICK count : count = (total + D - 1) \div D
  OBVIOUS
<1>4. count \in Nat /\ count >= 1 /\ D * count <= total + D - 1
  <2>1. total + D - 1 \in Nat /\ D \in Nat \ {0}
    BY <1>2
  <2>2. PICK a \in Nat : a = total + D - 1
    BY <2>1
  <2>3. count \in Nat /\ D * count <= a /\ a < D * count + D
    BY <1>3, <2>1, <2>2, DividedDown
  <2>4. count # 0
    BY <1>2, <2>2, <2>3
  <2>5. QED
    BY <2>2, <2>3, <2>4
<1>5. CASE Windows = <<[start |-> 0, end |-> total]>>
  BY <1>2, <1>5
<1>6. CASE Windows = [k \in 1..count |-> [start |-> Start(k), end |-> Min({total, Start(k) + D + O})]]
  <2>1. ASSUME NEW k \in 1..count PROVE Start(k) \in Nat /\ Start(k) < total
    <3>1. CASE k = 1
      BY <1>2, <3>1
    <3>2. CASE k # 1
      <4>1. PICK b \in Nat : b = k - 2
        BY <3>2
      <4>2. PICK c \in Nat : c = count - 1
        BY <1>4
      <4>3. b + 1 <= c /\ k - 1 = b + 1
        BY <1>4, <3>2, <4>1, <4>2
      <4>4. (b + 1) * D \in Nat /\ (b + 1) * D <= c * D /\ c * D \in Nat
        BY <1>2, <4>3, TimesBounded
      <4>5. (b + 1) * D = b * D + D /\ b * D \in Nat
        BY <1>2
      <4>6. c * D = D * count - D
        BY <1>2, <1>4, <4>2
      <4>7. Start(k) = (b + 1) * D - O
        BY <3>2, <4>3
      <4> HIDE DEF Start
      <4>8. (b + 1) * D <= total - 1
        BY <1>2, <1>4, <4>4, <4>6
      <4>9. QED
        BY <1>2, <4>4, <4>5, <4>7, <4>8
    <3>3. QED
      BY <3>1, <3>2
  <2>2. ASSUME NEW k \in 1..count, k # 1 PROVE Start(k - 1) <= Start(k)
    <3>1. k - 1 \in 1..count
      BY <1>4, <2>2
    <3>2. CASE k - 1 = 1
      BY <2>1, <3>2
    <3>3. CASE k - 1 # 1
      <4>1. PICK b \in Nat : b = k - 2
        BY <2>2
      <4>2. Start(k - 1) = b * D - O /\ Start(k) = (b + 1) * D - O
        BY <2>2, <3>3, <4>1
      <4>3. (b + 1) * D = b * D + D /\ b * D \in Nat
        BY <1>2
      <4> HIDE DEF Start
      <4>4. QED
        BY <1>2, <4>2, <4>3
    <3>4. QED
      BY <3>2, <3>3
  <2>3. Start(1) = 0
    OBVIOUS
  <2> HIDE DEF Start
  <2>4. ASSUME NEW k \in 1..count
        PROVE  /\ Windows[k].start = Start(k)
               /\ Windows[k].end = IF total <= Start(k) + D + O THEN total ELSE Start(k) + D + O
    <3>1. Start(k) + D + O \in Int /\ total \in Int
      BY <1>2, <2>1
    <3>2. Min({total, Start(k) + D + O}) = IF total <= Start(k) + D + O THEN total ELSE Start(k) + D + O
      BY <3>1, SmallerOf
    <3>3. Windows[k] = [start |-> Start(k), end |-> Min({total, Start(k) + D + O})]
      BY <1>6
    <3>4. QED
      BY <3>2, <3>3
  <2>5. ASSUME NEW k \in 1..count
        PROVE  /\ Windows[k].start \in Nat /\ Windows[k].end \in Nat
               /\ Windows[k].start <= Windows[k].end
               /\ k = 1 \/ Windows[k - 1].end <= Windows[k].end
    <3>1. Start(k) \in Nat /\ Start(k) < total
      BY <2>1
    <3>2. CASE k = 1
      BY <1>2, <2>4, <3>1, <3>2
    <3>3. CASE k # 1
      <4>1. k - 1 \in 1..count /\ Start(k - 1) <= Start(k)
        BY <1>4, <2>2, <3>3
      <4>2. Start(k - 1) \in Nat
        BY <2>1, <4>1
      <4>3. PICK x \in Nat, y \in Nat : x = Start(k - 1) /\ y = Start(k) /\ x <= y /\ y < total
        BY <3>1, <4>1, <4>2
      <4>4. /\ Windows[k].start = y
            /\ Windows[k].end = IF total <= y + D + O THEN total ELSE y + D + O
            /\ Windows[k - 1].end = IF total <= x + D + O THEN total ELSE x + D + O
        BY <2>4, <4>1, <4>3
      <4>5. QED
        BY <1>2, <4>3, <4>4
    <3>4. QED
      BY <3>2, <3>3
  <2>6. DOMAIN Windows = 1..count /\ Len(Windows) = count
    BY <1>4, <1>6
  <2>7. Windows[1].start = 0
    BY <1>4, <2>3, <2>4
  <2>8. QED
    BY <1>4, <2>5, <2>6, <2>7
<1>7. QED
  BY <1>1, <1>3, <1>5, <1>6 DEF Windows

\* The words that are wholly in a window.
LEMMA AudibleWords ==
  ASSUME speech \in Speech, NEW w
  PROVE  /\ Sequence(Audible(w)) /\ Rising(Audible(w)) /\ ToSet(Audible(w)) \subseteq DOMAIN speech.words
         /\ \A i \in ToSet(Audible(w)) : w.start <= Begin(i) /\ End(i) <= w.end
<1>1. PICK n \in Nat : n = Len(speech.words) /\ DOMAIN speech.words = 1..n
  BY SpeechWords
<1>2. PICK T : T = {i \in 1..n : w.start <= Begin(i) /\ End(i) <= w.end}
  OBVIOUS
<1>3. PICK t : t = FlattenSeq([k \in 1..n |-> IF k \in T THEN <<k>> ELSE <<>>])
  OBVIOUS
<1>4. Sequence(t) /\ ToSet(t) = (1..n) \cap T /\ Rising(t)
  BY <1>3, IndexesIn
<1>5. Audible(w) = t
  <2>1. PICK s : s = [i \in DOMAIN speech.words |-> i]
    OBVIOUS
  <2>2. Audible(w) = FlattenSeq([k \in DOMAIN s |-> IF /\ w.start <= speech.words[s[k]].start
                                                       /\ speech.words[s[k]].end <= w.end
                                                    THEN <<s[k]>> ELSE <<>>])
    BY <2>1, Zenon DEF Audible, Those, FlatMap
  <2>3. [k \in DOMAIN s |-> IF /\ w.start <= speech.words[s[k]].start
                               /\ speech.words[s[k]].end <= w.end
                            THEN <<s[k]>> ELSE <<>>]
          = [k \in 1..n |-> IF k \in T THEN <<k>> ELSE <<>>]
    BY <1>1, <1>2, <2>1 DEF Begin, End
  <2>4. QED
    BY <1>3, <2>2, <2>3
<1>6. QED
  BY <1>1, <1>2, <1>4, <1>5

-----------------------------------------------------------------------------
(* What is heard in a window                                               *)

\* A segment is a record; its timed words are words of its text.
Worded(s) ==
    /\ s = [start |-> s.start, end |-> s.end, text |-> s.text, speaker |-> s.speaker,
            words |-> s.words]
    /\ Sequence(s.words)
    /\ \A n \in DOMAIN s.words :
          LET w == s.words[n] IN
          /\ w = [word |-> w.word, start |-> w.start, end |-> w.end, speaker |-> w.speaker]
          /\ w.word \in ToSet(s.text)

\* Words in their order.
Spelt(text) == /\ Sequence(text) /\ text # <<>> /\ ToSet(text) \subseteq DOMAIN speech.words
               /\ Rising(text)

\* The segment of such a text, its times counted from an offset.
Voiced(s, offset) ==
    /\ Worded(s) /\ Spelt(s.text)
    /\ s.start = Begin(Head(s.text)) - offset /\ s.end = End(Last(s.text)) - offset

\* The answer to silence.
Mute(s, length) ==
    /\ Worded(s) /\ s.text = <<>> /\ s.words = <<>> /\ s.start = 0 /\ s.end = length

\* What the window w was heard to say.
HeardIn(h, w) ==
    /\ h.offset = w.start
    /\ Sequence(h.segments)
    /\ \/ Len(h.segments) = 1 /\ Mute(h.segments[1], w.end - w.start)
       \/ /\ \A j \in DOMAIN h.segments : /\ Voiced(h.segments[j], w.start)
                                          /\ End(Last(h.segments[j].text)) <= w.end
          /\ \A j \in DOMAIN h.segments : \A k \in DOMAIN h.segments :
                j < k => Last(h.segments[j].text) < Head(h.segments[k].text)

\* The words of a text, from times f to times g.
TimedBy(words_, text, f, g) ==
    words_ = [k \in DOMAIN text |-> [word |-> text[k], start |-> f[k], end |-> g[k],
                                     speaker |-> Nobody]]

LEMMA SegmentVoiced ==
  ASSUME NEW text, Spelt(text), NEW offset, NEW timed
  PROVE  Voiced(Segment(text, offset, timed), offset) /\ Segment(text, offset, timed).text = text
<1>1. PICK n \in Nat : n = Len(text) /\ DOMAIN text = 1..n /\ \A k \in 1..n : text[k] \in ToSet(text)
  BY Positions DEF Spelt
<1>2. PICK s : s = Segment(text, offset, timed)
  OBVIOUS
<1>3. /\ s.start = Begin(Head(text)) - offset /\ s.end = End(Last(text)) - offset
      /\ s.text = text /\ s.speaker = Nobody
      /\ s = [start |-> s.start, end |-> s.end, text |-> s.text, speaker |-> s.speaker,
              words |-> s.words]
  BY <1>2 DEF Segment, Begin, End
<1> DEFINE ok(w) == /\ w = [word |-> w.word, start |-> w.start, end |-> w.end, speaker |-> w.speaker]
                    /\ w.word \in ToSet(text)
<1>4. Sequence(s.words) /\ \A k \in DOMAIN s.words : ok(s.words[k])
  <2> DEFINE start == Begin(Head(text)) - offset
             end == End(Last(text)) - offset
  <2>1. CASE s.words = <<>>
    BY <2>1, NoElements
  <2>2. CASE s.words = Estimated(text, start, end)
    <3>1. \E f : \E g : TimedBy(s.words, text, f, g)
      <4> DEFINE Before(k) == Chars(SubSeq(text, 1, k)) + 1
                 At(k) == start + ((end - start) * Before(k)) \div Before(Len(text))
      <4>1. s.words = [k \in DOMAIN text |-> [word |-> text[k], start |-> At(k - 1), end |-> At(k),
                                               speaker |-> Nobody]]
        BY <2>2 DEF Estimated
      <4> HIDE DEF At
      <4>2. PICK f, g : f = [k \in DOMAIN text |-> At(k - 1)] /\ g = [k \in DOMAIN text |-> At(k)]
        OBVIOUS
      <4>3. s.words = [k \in DOMAIN text |-> [word |-> text[k], start |-> f[k], end |-> g[k],
                                               speaker |-> Nobody]]
        BY <4>1, <4>2
      <4>4. TimedBy(s.words, text, f, g)
        BY <4>3 DEF TimedBy
      <4>5. QED
        BY <4>4
    <3>2. PICK f, g : TimedBy(s.words, text, f, g)
      BY <3>1
    <3>6. s.words = [k \in 1..n |-> [word |-> text[k], start |-> f[k], end |-> g[k],
                                       speaker |-> Nobody]]
      BY <1>1, <3>2 DEF TimedBy
    <3>3. s.words = [k \in 1..n |-> s.words[k]] /\ \A k \in 1..n : ok(s.words[k])
      BY <1>1, <3>6
    <3>4. Sequence(s.words) /\ DOMAIN s.words = 1..n
      BY <3>3, Listed
    <3> HIDE DEF ok
    <3>5. QED
      BY <3>3, <3>4
  <2>3. CASE s.words = [k \in DOMAIN text |-> Timed(text[k], offset)]
    <3>1. ASSUME NEW k \in 1..n PROVE s.words[k] = Timed(text[k], offset) /\ ok(s.words[k])
      BY <1>1, <2>3 DEF Timed
    <3>2. s.words = [k \in 1..n |-> s.words[k]]
      BY <1>1, <2>3
    <3>3. Sequence(s.words) /\ DOMAIN s.words = 1..n
      BY <3>2, Listed
    <3> HIDE DEF ok
    <3>4. QED
      BY <3>1, <3>3
  <2>4. \/ s.words = <<>> \/ s.words = Estimated(text, start, end)
        \/ s.words = [k \in DOMAIN text |-> Timed(text[k], offset)]
    <3>1. s.words = CASE ~timed -> <<>>
                      [] timed /\ backend = "openvino" -> Estimated(text, start, end)
                      [] OTHER -> [k \in DOMAIN text |-> Timed(text[k], offset)]
      BY <1>2 DEF Segment, Begin, End
    <3> HIDE DEF start, end
    <3>2. QED
      BY <3>1
  <2> HIDE DEF ok, start, end
  <2>5. QED
    BY <2>1, <2>2, <2>3, <2>4
<1>5. Worded(s)
  BY <1>3, <1>4 DEF Worded
<1>6. QED
  BY <1>2, <1>3, <1>5 DEF Voiced

\* A step that transcribes a window hears its words.
LEMMA WindowHeard ==
  ASSUME speech \in Speech, TranscribeWindow
  PROVE  \E h : heard' = Append(heard, h) /\ HeardIn(h, Windows[Len(heard) + 1])
<1>1. PICK w, audible : w = Windows[Len(heard) + 1] /\ audible = Audible(w)
  OBVIOUS
<1>2. PICK cuts \in SUBSET (1 .. Len(audible) - 1) : \E timed :
         heard' = Append(heard,
                     [offset |-> w.start,
                      segments |-> IF audible = <<>> THEN Silence(w)
                                   ELSE [k \in DOMAIN CutBehind(audible, cuts) |->
                                            Segment(CutBehind(audible, cuts)[k], w.start, timed[k])]])
  BY <1>1, ZenonT(40) DEF TranscribeWindow
<1>3. PICK texts_ : texts_ = CutBehind(audible, cuts)
  OBVIOUS
<1>4. PICK timed, h :
         /\ heard' = Append(heard, h)
         /\ h = [offset |-> w.start,
                 segments |-> IF audible = <<>> THEN Silence(w)
                              ELSE [k \in DOMAIN texts_ |-> Segment(texts_[k], w.start, timed[k])]]
  BY <1>2, <1>3
<1>5. /\ Sequence(audible) /\ Rising(audible) /\ ToSet(audible) \subseteq DOMAIN speech.words
      /\ \A i \in ToSet(audible) : End(i) <= w.end
  BY <1>1, AudibleWords
<1>6. PICK s : s = h.segments
  OBVIOUS
<1>7. CASE audible = <<>> /\ Silence(w) = <<>>
  <2>1. s = <<>> /\ h.offset = w.start
    BY <1>4, <1>6, <1>7
  <2>2. Sequence(s) /\ DOMAIN s = {}
    BY <2>1, NoElements
  <2>3. HeardIn(h, w)
    BY <1>6, <2>1, <2>2 DEF HeardIn
  <2>4. QED
    BY <1>1, <1>4, <2>3
<1>8. CASE audible = <<>> /\ Silence(w) # <<>>
  <2>1. PICK m : m = [start |-> 0, end |-> w.end - w.start, text |-> <<>>,
                      speaker |-> Nobody, words |-> <<>>]
    OBVIOUS
  <2>2. s = <<m>> /\ h.offset = w.start
    BY <1>4, <1>6, <1>8, <2>1 DEF Silence
  <2>3. Mute(m, w.end - w.start)
    BY <2>1, NoElements DEF Mute, Worded
  <2>4. Sequence(s) /\ Len(s) = 1 /\ s[1] = m
    BY <2>2, OneElement
  <2>5. HeardIn(h, w)
    BY <1>6, <2>2, <2>3, <2>4 DEF HeardIn
  <2>6. QED
    BY <1>1, <1>4, <2>5
<1>9. CASE audible # <<>>
  <2>1. PICK N \in Nat : \E e : CutUp(texts_, audible, N, e)
    BY <1>3, <1>5, <1>9, CutsUp
  <2>2. PICK e : CutUp(texts_, audible, N, e)
    BY <2>1
  <2>3. PICK words_ : words_ = DOMAIN speech.words
    OBVIOUS
  <2>4. \A x \in words_ : x \in Int
    BY <2>3, SpeechWords
  <2>5. \A x \in ToSet(audible) : x \in Int
    BY <1>5, <2>3, <2>4
  <2>6. /\ DOMAIN texts_ = 1..N
        /\ \A k \in 1..N : Sequence(texts_[k])
    BY <2>2 DEF CutUp
  <2>7. \A k \in 1..N : texts_[k] # <<>> /\ ToSet(texts_[k]) \subseteq ToSet(audible)
    BY <1>5, <2>2, CutElements
  <2>8. /\ \A k \in 1..N : Rising(texts_[k])
        /\ \A j \in 1..N : \A k \in 1..N : j < k => Last(texts_[j]) < Head(texts_[k])
    BY <1>5, <2>2, <2>5, CutRises
  <2>9. s = [k \in 1..N |-> Segment(texts_[k], w.start, timed[k])] /\ h.offset = w.start
    BY <1>4, <1>6, <1>9, <2>6
  <2>10. ASSUME NEW k \in 1..N
         PROVE  /\ s[k] = Segment(texts_[k], w.start, timed[k])
                /\ Voiced(s[k], w.start) /\ s[k].text = texts_[k]
                /\ End(Last(texts_[k])) <= w.end
    <3>1. Spelt(texts_[k])
      BY <1>5, <2>6, <2>7, <2>8 DEF Spelt
    <3>2. s[k] = Segment(texts_[k], w.start, timed[k])
      BY <2>9
    <3>3. Last(texts_[k]) \in ToSet(texts_[k])
      BY <2>6, <2>7, FrontAndLast
    <3>4. QED
      BY <1>5, <2>7, <3>1, <3>2, <3>3, SegmentVoiced
  <2>11. Sequence(s) /\ DOMAIN s = 1..N
    <3>1. s = [k \in 1..N |-> s[k]]
      BY <2>9
    <3>2. QED
      BY <3>1, Listed
  <2>12. HeardIn(h, w)
    BY <1>6, <2>8, <2>9, <2>10, <2>11 DEF HeardIn
  <2>13. QED
    BY <1>1, <1>4, <2>12
<1>10. QED
  BY <1>7, <1>8, <1>9

-----------------------------------------------------------------------------
(* Windows are merged                                                      *)

\* A segment as the assets pass it on.
SegmentOK(s) ==
    /\ Worded(s) /\ Sequence(s.text) /\ ToSet(s.text) \subseteq DOMAIN speech.words
    /\ s.start \in Int /\ s.end \in Int /\ s.start <= s.end

\* All that segments say.
Transcribed(segs) == FlattenSeq([k \in DOMAIN segs |-> segs[k].text])

LEMMA TranscribedNone == Transcribed(<<>>) = <<>>
<1>1. [k \in DOMAIN <<>> |-> (<<>>)[k].text] = <<>>
  OBVIOUS
<1>2. QED
  BY <1>1, NoLists DEF Transcribed

LEMMA TranscribedMore ==
  ASSUME NEW segs, Sequence(segs), \A k \in DOMAIN segs : Sequence(segs[k].text),
         NEW s, Sequence(s.text)
  PROVE  /\ Sequence(Transcribed(segs)) /\ Sequence(Transcribed(Append(segs, s)))
         /\ Transcribed(Append(segs, s)) = Transcribed(segs) \o s.text
         /\ ToSet(Transcribed(Append(segs, s))) = ToSet(Transcribed(segs)) \cup ToSet(s.text)
<1>1. PICK n \in Nat : n = Len(segs) /\ DOMAIN segs = 1..n
  BY Positions
<1>2. PICK f, t : f = [k \in 1..n |-> segs[k].text] /\ t = s.text
  OBVIOUS
<1>3. Sequence(f) /\ DOMAIN f = 1..n /\ Len(f) = n /\ \A k \in 1..n : Sequence(f[k])
  <2>1. Sequence(f) /\ DOMAIN f = 1..n /\ Len(f) = n
    BY <1>2, Listed
  <2>2. QED
    BY <1>1, <1>2, <2>1
<1>4. PICK more : more = Append(segs, s)
  OBVIOUS
<1>5. DOMAIN more = 1..(n + 1) /\ more[n + 1] = s /\ \A k \in 1..n : more[k] = segs[k]
  <2>1. segs \in Seq(ToSet(segs) \cup {s})
    BY SequenceOver
  <2>2. QED
    BY <1>1, <1>4, <2>1
<1>6. [k \in DOMAIN more |-> more[k].text] = Append(f, t)
  <2>1. PICK V : f \in Seq(V) /\ t \in V
    <3>1. f \in Seq(ToSet(f) \cup {t})
      BY <1>3, SequenceOver
    <3>2. QED
      BY <3>1
  <2>2. PICK g : g = Append(f, t)
    OBVIOUS
  <2>3. g \in Seq(V) /\ Len(g) = n + 1 /\ g[n + 1] = t /\ \A k \in 1..n : g[k] = f[k]
    BY <1>3, <2>1, <2>2
  <2>4. g = [k \in 1..(n + 1) |-> g[k]]
    BY <2>3
  <2>5. \A k \in 1..(n + 1) : g[k] = more[k].text
    <3>1. \A k \in 1..(n + 1) : k = n + 1 \/ k \in 1..n
      OBVIOUS
    <3>2. QED
      BY <1>2, <1>5, <2>3, <3>1
  <2>6. QED
    BY <1>5, <2>2, <2>4, <2>5
<1>7. FlattenSeq(Append(f, t)) = FlattenSeq(f) \o t
  BY <1>2, <1>3, OneMoreList
<1>8. Sequence(FlattenSeq(f))
  BY <1>3, Flattened
<1>9. Transcribed(segs) = FlattenSeq(f) /\ Transcribed(more) = FlattenSeq(f) \o t
  BY <1>1, <1>2, <1>6, <1>7 DEF Transcribed
<1>10. Sequence(FlattenSeq(f) \o t) /\ ToSet(FlattenSeq(f) \o t) = ToSet(FlattenSeq(f)) \cup ToSet(t)
  BY <1>2, <1>8, Joining
<1>11. QED
  BY <1>2, <1>4, <1>8, <1>9, <1>10

\* A text in order begins with its first word and ends with its last.
LEMMA SpeltWords ==
  ASSUME speech \in Speech, NEW text, Spelt(text)
  PROVE  \E h \in ToSet(text) : \E l \in ToSet(text) :
            /\ h = Head(text) /\ l = Last(text)
            /\ \A i \in ToSet(text) : /\ i \in Nat /\ Begin(i) \in Nat /\ End(i) \in Nat
                                      /\ Begin(i) <= End(i)
                                      /\ h <= i /\ Begin(h) <= Begin(i) /\ End(i) <= End(l)
<1>1. PICK n \in Nat :
            /\ n = Len(speech.words) /\ DOMAIN speech.words = 1..n
            /\ \A i \in 1..n : Begin(i) \in Nat /\ End(i) \in Nat /\ Begin(i) <= End(i)
            /\ \A i \in 1..n : \A j \in 1..n : i < j => End(i) <= Begin(j)
  BY SpeechWords
<1>2. PICK m \in Nat : m = Len(text) /\ DOMAIN text = 1..m
  BY Positions DEF Spelt
<1>3. m # 0
  BY <1>2 DEF Spelt
<1>4. \A k \in 1..m : text[k] \in 1..n /\ text[k] \in ToSet(text)
  BY <1>1, <1>2 DEF Spelt, ToSet
<1>5. Head(text) = text[1] /\ Last(text) = text[m]
  BY <1>2 DEF Last
<1>6. ASSUME NEW k \in 1..m
      PROVE  /\ text[1] <= text[k] /\ Begin(text[1]) <= Begin(text[k])
             /\ End(text[k]) <= End(text[m])
  <2>1. 1 \in 1..m /\ m \in 1..m
    BY <1>3
  <2>2. text[1] <= text[k] /\ Begin(text[1]) <= Begin(text[k])
    <3>1. CASE k = 1
      BY <1>1, <1>4, <2>1, <3>1
    <3>2. CASE k # 1
      <4>1. text[1] < text[k]
        BY <1>2, <2>1, <3>2 DEF Spelt, Rising
      <4>2. text[1] \in 1..n /\ text[k] \in 1..n
        BY <1>4, <2>1
      <4>3. End(text[1]) <= Begin(text[k]) /\ Begin(text[1]) <= End(text[1])
        BY <1>1, <4>1, <4>2
      <4>4. QED
        BY <1>1, <4>1, <4>2, <4>3
    <3>3. QED
      BY <3>1, <3>2
  <2>3. End(text[k]) <= End(text[m])
    <3>1. CASE k = m
      BY <1>1, <1>4, <2>1, <3>1
    <3>2. CASE k # m
      <4>1. text[k] < text[m]
        BY <1>2, <2>1, <3>2 DEF Spelt, Rising
      <4>2. text[m] \in 1..n /\ text[k] \in 1..n
        BY <1>4, <2>1
      <4>3. End(text[k]) <= Begin(text[m]) /\ Begin(text[m]) <= End(text[m])
        BY <1>1, <4>1, <4>2
      <4>4. QED
        BY <1>1, <4>2, <4>3
    <3>3. QED
      BY <3>1, <3>2
  <2>4. QED
    BY <2>2, <2>3
<1>7. text[1] \in ToSet(text) /\ text[m] \in ToSet(text)
  BY <1>3, <1>4
<1>8. \A i \in ToSet(text) : \E k \in 1..m : i = text[k]
  BY <1>2 DEF ToSet
<1>9. QED
  BY <1>1, <1>4, <1>5, <1>6, <1>7, <1>8

LEMMA AdjustedIs ==
  ASSUME NEW s, Worded(s), NEW offset
  PROVE  /\ Worded(Adjusted(s, offset)) /\ Adjusted(s, offset).text = s.text
         /\ Adjusted(s, offset).start = s.start + offset /\ Adjusted(s, offset).end = s.end + offset
<1>1. PICK n \in Nat : n = Len(s.words) /\ DOMAIN s.words = 1..n
  BY Positions DEF Worded
<1>2. PICK words_ : words_ = [k \in 1..n |-> Shifted(s.words[k], offset)]
  OBVIOUS
<1>3. Sequence(words_) /\ DOMAIN words_ = 1..n
  BY <1>2, Listed
<1>4. PICK a : a = Adjusted(s, offset)
  OBVIOUS
<1>5. a = [start |-> s.start + offset, end |-> s.end + offset, text |-> s.text,
           speaker |-> s.speaker, words |-> words_]
  <2>1. s = [start |-> s.start, end |-> s.end, text |-> s.text, speaker |-> s.speaker,
             words |-> s.words]
    BY DEF Worded
  <2>2. Shifted(s, offset) = [start |-> s.start + offset, end |-> s.end + offset, text |-> s.text,
                              speaker |-> s.speaker, words |-> s.words]
    <3>1. PICK r, c, d : r = Shifted(s, offset) /\ c = s.start + offset /\ d = s.end + offset
      OBVIOUS
    <3>2. r = [s EXCEPT !.start = c, !.end = d]
      BY <3>1 DEF Shifted
    <3>3. /\ r = [start |-> r.start, end |-> r.end, text |-> r.text, speaker |-> r.speaker,
                  words |-> r.words]
          /\ r.start = c /\ r.end = d /\ r.text = s.text /\ r.speaker = s.speaker /\ r.words = s.words
      BY <2>1, <3>2
    <3>4. QED
      BY <3>1, <3>3
  <2>3. a = [Shifted(s, offset) EXCEPT !.words = words_]
    BY <1>1, <1>2, <1>4 DEF Adjusted
  <2>4. QED
    BY <2>2, <2>3
<1>6. ASSUME NEW k \in 1..n
      PROVE  LET w == words_[k] IN
             /\ w = [word |-> w.word, start |-> w.start, end |-> w.end, speaker |-> w.speaker]
             /\ w.word \in ToSet(s.text)
  <2>1. PICK w : w = s.words[k]
    OBVIOUS
  <2>2. /\ w = [word |-> w.word, start |-> w.start, end |-> w.end, speaker |-> w.speaker]
        /\ w.word \in ToSet(s.text)
    BY <1>1, <2>1 DEF Worded
  <2>3. words_[k] = [word |-> w.word, start |-> w.start + offset, end |-> w.end + offset,
                     speaker |-> w.speaker]
    BY <1>2, <2>1, <2>2 DEF Shifted
  <2>4. QED
    BY <2>2, <2>3
<1>7. QED
  BY <1>3, <1>4, <1>5, <1>6 DEF Worded

\* The segments of some windows, merged: the words of more than half a second are there
\* once, and none of them ends behind the end of the last segment.
MergedOK(acc) ==
    /\ acc = [kept |-> acc.kept, seen |-> acc.seen] /\ acc.seen \in Int
    /\ Sequence(acc.kept) /\ \A k \in DOMAIN acc.kept : SegmentOK(acc.kept[k])
    /\ \A i \in ToSet(Transcribed(acc.kept)) :
          End(i) - Begin(i) > 1 => AtMostOnce(i, Transcribed(acc.kept)) /\ End(i) <= acc.seen

LEMMA SegmentAdded ==
  ASSUME speech \in Speech, NEW acc, MergedOK(acc), NEW s, SegmentOK(s),
         \/ Spelt(s.text) /\ s.start = Begin(Head(s.text)) /\ s.end = End(Last(s.text))
         \/ s.text = <<>> /\ acc.seen <= s.end
  PROVE  /\ MergedOK(AddSegment(acc, s))
         /\ ToSet(Transcribed(acc.kept)) \subseteq ToSet(Transcribed(AddSegment(acc, s).kept))
         /\ IF s.start < acc.seen - 1 THEN AddSegment(acc, s) = acc
            ELSE /\ AddSegment(acc, s) = [kept |-> Append(acc.kept, s), seen |-> s.end]
                 /\ ToSet(s.text) \subseteq ToSet(Transcribed(AddSegment(acc, s).kept))
<1>1. CASE s.start < acc.seen - 1
  BY <1>1 DEF AddSegment, Skips
<1>2. CASE ~(s.start < acc.seen - 1)
  <2>1. PICK more : more = AddSegment(acc, s)
    OBVIOUS
  <2>2. more = [kept |-> Append(acc.kept, s), seen |-> s.end]
    BY <1>2, <2>1 DEF AddSegment, Skips
  <2>3. PICK T, t, U : T = Transcribed(acc.kept) /\ t = s.text /\ U = Transcribed(more.kept)
    OBVIOUS
  <2>4. /\ Sequence(T) /\ Sequence(U) /\ Sequence(t) /\ U = T \o t /\ ToSet(U) = ToSet(T) \cup ToSet(t)
    <3>1. Sequence(acc.kept) /\ \A k \in DOMAIN acc.kept : Sequence(acc.kept[k].text)
      BY DEF MergedOK, SegmentOK
    <3>2. Sequence(s.text)
      BY DEF SegmentOK
    <3>3. QED
      BY <2>2, <2>3, <3>1, <3>2, TranscribedMore
  <2>5. Sequence(more.kept) /\ \A k \in DOMAIN more.kept : SegmentOK(more.kept[k])
    <3>1. Sequence(more.kept) /\ ToSet(more.kept) = ToSet(acc.kept) \cup {s}
      BY <2>2, Appended DEF MergedOK
    <3>2. \A x \in ToSet(acc.kept) : SegmentOK(x)
      BY DEF MergedOK, ToSet
    <3>3. \A x \in ToSet(more.kept) : SegmentOK(x)
      BY <3>1, <3>2
    <3>4. QED
      BY <3>1, <3>3 DEF ToSet
  <2>6. DOMAIN speech.words \subseteq Nat /\
        \A i \in DOMAIN speech.words : Begin(i) \in Nat /\ End(i) \in Nat /\ Begin(i) <= End(i)
    BY SpeechWords
  <2>7. ToSet(T) \subseteq DOMAIN speech.words
    <3>1. PICK f : f = [k \in DOMAIN acc.kept |-> acc.kept[k].text]
      OBVIOUS
    <3>2. /\ Sequence(acc.kept)
          /\ \A k \in DOMAIN acc.kept : Sequence(f[k]) /\ ToSet(f[k]) \subseteq DOMAIN speech.words
      BY <3>1 DEF MergedOK, SegmentOK
    <3>3. f = [k \in DOMAIN acc.kept |-> f[k]]
      BY <3>1
    <3>4. \A x : x \in ToSet(FlattenSeq(f)) <=> \E k \in DOMAIN acc.kept : x \in ToSet(f[k])
      BY <3>2, <3>3, MappedOver
    <3>5. T = FlattenSeq(f)
      BY <2>3, <3>1 DEF Transcribed
    <3>6. QED
      BY <3>2, <3>4, <3>5
  <2>8. ASSUME NEW i \in ToSet(U), End(i) - Begin(i) > 1
        PROVE  AtMostOnce(i, U) /\ End(i) <= s.end
    <3>1. CASE t = <<>>
      <4>1. U = T /\ acc.seen <= s.end
        <5>1. T \o <<>> = T
          BY <2>4 DEF Sequence
        <5>2. ~Spelt(s.text)
          BY <2>3, <3>1 DEF Spelt
        <5>3. QED
          BY <2>3, <2>4, <3>1, <5>1, <5>2
      <4>2. AtMostOnce(i, U) /\ End(i) <= acc.seen
        BY <2>3, <2>8, <4>1 DEF MergedOK
      <4>3. End(i) \in Nat /\ acc.seen \in Int /\ s.end \in Int
        BY <2>6, <2>7, <2>8, <4>1 DEF MergedOK, SegmentOK
      <4>4. QED
        BY <4>1, <4>2, <4>3
    <3>2. CASE t # <<>>
      <4>1. Spelt(t) /\ s.start = Begin(Head(t)) /\ s.end = End(Last(t))
        BY <2>3, <3>2
      <4>2. PICK h \in ToSet(t), l \in ToSet(t) :
              /\ h = Head(t) /\ l = Last(t)
              /\ \A j \in ToSet(t) : /\ j \in Nat /\ Begin(j) \in Nat /\ End(j) \in Nat
                                     /\ Begin(j) <= End(j)
                                     /\ h <= j /\ Begin(h) <= Begin(j) /\ End(j) <= End(l)
        BY <4>1, SpeltWords
      <4>3. AtMostOnce(i, t)
        <5>1. \A x \in ToSet(t) : x \in Int
          BY <4>2
        <5>2. QED
          BY <2>4, <4>1, <5>1, RisingIsOnce DEF Spelt
      <4>4. ASSUME i \in ToSet(T)
            PROVE  AtMostOnce(i, T) /\ i \notin ToSet(t) /\ End(i) <= End(l)
        <5>1. AtMostOnce(i, T) /\ End(i) <= acc.seen /\ acc.seen \in Int
          BY <2>3, <2>8, <4>4 DEF MergedOK
        <5>2. i \in DOMAIN speech.words /\ i \in Nat /\ Begin(i) \in Nat /\ End(i) \in Nat
          BY <2>6, <2>7, <4>4
        <5>3. PICK b \in Nat, x \in Int : b = Begin(h) /\ x = acc.seen /\ b >= x - 1
          <6>1. Begin(h) \in Nat /\ s.start = Begin(h)
            BY <4>1, <4>2
          <6>2. QED
            BY <1>2, <5>1, <6>1
        <5>4. Begin(i) < b
          BY <2>8, <5>1, <5>2, <5>3
        <5>5. i \notin ToSet(t)
          BY <4>2, <5>2, <5>3, <5>4
        <5>6. End(i) <= End(l)
          <6>1. PICK n \in Nat : /\ DOMAIN speech.words = 1..n
                                 /\ \A j \in 1..n : \A k \in 1..n : j < k => End(j) <= Begin(k)
            BY SpeechWords
          <6>2. i \in 1..n /\ h \in 1..n
            BY <4>1, <4>2, <5>2, <6>1 DEF Spelt
          <6>3. i # h
            BY <5>5
          <6>4. ~(h < i)
            <7>1. ASSUME h < i PROVE FALSE
              <8>1. End(h) <= Begin(i) /\ Begin(h) <= End(h) /\ End(h) \in Nat
                BY <4>2, <6>1, <6>2, <7>1
              <8>2. QED
                BY <5>2, <5>3, <5>4, <8>1
            <7>2. QED
              BY <7>1
          <6>5. End(i) <= Begin(h)
            BY <6>1, <6>2, <6>3, <6>4
          <6>6. Begin(h) <= End(h) /\ End(h) <= End(l) /\ End(h) \in Nat /\ End(l) \in Nat
            BY <4>2
          <6>7. QED
            BY <5>2, <5>3, <6>5, <6>6
        <5>7. QED
          BY <5>1, <5>5, <5>6
      <4>5. AtMostOnce(i, U)
        BY <2>4, <4>3, <4>4, OnceInBoth
      <4>6. End(i) <= s.end
        BY <2>4, <2>8, <4>1, <4>2, <4>4
      <4>7. QED
        BY <4>5, <4>6
    <3>3. QED
      BY <3>1, <3>2
  <2>9. MergedOK(more)
    <3>1. more = [kept |-> more.kept, seen |-> more.seen] /\ more.seen = s.end /\ s.end \in Int
      BY <2>2 DEF SegmentOK
    <3>2. QED
      BY <2>3, <2>5, <2>8, <3>1 DEF MergedOK
  <2>10. QED
    BY <1>2, <2>1, <2>2, <2>3, <2>4, <2>9
<1>3. QED
  BY <1>1, <1>2

SegmentStep(ctx, acc, segment) == AddSegment(acc, segment)

OfWindow == INSTANCE FoldFacts WITH Op <- SegmentStep

\* The segments of a window in the time of the file.
InFileTime(f, segs, w, n) ==
    /\ Sequence(f) /\ DOMAIN f = 1..n
    /\ \A j \in 1..n :
          /\ SegmentOK(f[j]) /\ f[j].text = segs[j].text /\ f[j].start = segs[j].start + w.start
          /\ f[j].start \in Nat /\ f[j].end \in Nat /\ f[j].start <= f[j].end /\ f[j].end <= w.end
          /\ \/ Spelt(f[j].text) /\ f[j].start = Begin(Head(f[j].text)) /\ f[j].end = End(Last(f[j].text))
             \/ f[j].text = <<>> /\ f[j].end = w.end
          /\ j < n => f[j].end <= f[j + 1].start

LEMMA HeardInFileTime ==
  ASSUME speech \in Speech, NEW w, w.start \in Nat, w.end \in Nat, w.start <= w.end,
         NEW h, HeardIn(h, w), NEW f, f = [k \in DOMAIN h.segments |-> Adjusted(h.segments[k], h.offset)]
  PROVE  \E n \in Nat : n = Len(h.segments) /\ DOMAIN h.segments = 1..n /\ InFileTime(f, h.segments, w, n)
<1>1. PICK s : s = h.segments
  OBVIOUS
<1>2. PICK n \in Nat : n = Len(s) /\ DOMAIN s = 1..n
  BY <1>1, Positions DEF HeardIn
<1>3. f = [k \in 1..n |-> Adjusted(s[k], w.start)]
  BY <1>1, <1>2 DEF HeardIn
<1>4. Sequence(f) /\ DOMAIN f = 1..n
  BY <1>3, Listed
<1>5. CASE n = 1 /\ Mute(s[1], w.end - w.start)
  <2>1. f[1] = Adjusted(s[1], w.start)
    BY <1>3, <1>5
  <2>2. /\ Worded(f[1]) /\ f[1].text = <<>> /\ f[1].start = 0 + w.start
        /\ f[1].end = (w.end - w.start) + w.start /\ s[1].start = 0 /\ s[1].text = <<>>
    BY <1>5, <2>1, AdjustedIs DEF Mute
  <2>3. f[1].start = w.start /\ f[1].end = w.end
    BY <2>2
  <2>4. SegmentOK(f[1])
    BY <2>2, <2>3, NoElements DEF SegmentOK
  <2>5. \A j \in 1..n : j = 1
    BY <1>5
  <2>6. InFileTime(f, s, w, n)
    BY <1>4, <1>5, <2>2, <2>3, <2>4, <2>5, SMTT(30) DEF InFileTime
  <2>7. QED
    BY <1>1, <1>2, <2>6
<1>6. CASE /\ \A j \in 1..n : /\ Voiced(s[j], w.start)
                              /\ End(Last(s[j].text)) <= w.end
           /\ \A j \in 1..n : \A k \in 1..n :
                j < k => Last(s[j].text) < Head(s[k].text)
  <2>1. ASSUME NEW j \in 1..n
        PROVE  /\ SegmentOK(f[j]) /\ f[j].text = s[j].text /\ f[j].start = s[j].start + w.start
               /\ f[j].start \in Nat /\ f[j].end \in Nat /\ f[j].start <= f[j].end /\ f[j].end <= w.end
               /\ Spelt(f[j].text) /\ f[j].start = Begin(Head(f[j].text)) /\ f[j].end = End(Last(f[j].text))
               /\ Head(s[j].text) \in DOMAIN speech.words /\ Last(s[j].text) \in DOMAIN speech.words
    <3>1. Voiced(s[j], w.start) /\ Worded(s[j]) /\ Spelt(s[j].text)
      BY <1>6 DEF Voiced
    <3>2. PICK a : a = f[j] /\ a = Adjusted(s[j], w.start)
      BY <1>3
    <3>3. /\ Worded(a) /\ a.text = s[j].text /\ a.start = s[j].start + w.start
          /\ a.end = s[j].end + w.start
      BY <3>1, <3>2, AdjustedIs
    <3>4. PICK h_ \in ToSet(s[j].text), l_ \in ToSet(s[j].text) :
              /\ h_ = Head(s[j].text) /\ l_ = Last(s[j].text)
              /\ \A i \in ToSet(s[j].text) : /\ i \in Nat /\ Begin(i) \in Nat /\ End(i) \in Nat
                                             /\ Begin(i) <= End(i)
                                             /\ h_ <= i /\ Begin(h_) <= Begin(i) /\ End(i) <= End(l_)
      BY <3>1, SpeltWords
    <3>5. PICK b \in Nat, e \in Nat : b = Begin(h_) /\ e = End(l_) /\ b <= e
      <4>1. Begin(h_) \in Nat /\ End(l_) \in Nat /\ End(h_) \in Nat /\ Begin(h_) <= End(h_) /\ End(h_) <= End(l_)
        BY <3>4
      <4>2. QED
        BY <4>1
    <3>6. s[j].start = b - w.start /\ s[j].end = e - w.start /\ e <= w.end
      BY <1>6, <3>1, <3>4, <3>5 DEF Voiced
    <3>7. a.start = b /\ a.end = e
      BY <3>3, <3>6
    <3>8. SegmentOK(a)
      BY <3>1, <3>3, <3>5, <3>7 DEF SegmentOK, Spelt
    <3>9. Head(s[j].text) \in DOMAIN speech.words /\ Last(s[j].text) \in DOMAIN speech.words
      BY <3>1, <3>4 DEF Spelt
    <3>10. QED
      BY <3>1, <3>2, <3>3, <3>4, <3>5, <3>6, <3>7, <3>8, <3>9
  <2>2. ASSUME NEW j \in 1..n, j < n PROVE f[j].end <= f[j + 1].start
    <3>1. j + 1 \in 1..n /\ j < j + 1
      BY <2>2
    <3>2. Last(s[j].text) < Head(s[j + 1].text)
      BY <1>6, <3>1
    <3>3. PICK m \in Nat : /\ DOMAIN speech.words = 1..m
                           /\ \A x \in 1..m : \A y \in 1..m : x < y => End(x) <= Begin(y)
      BY SpeechWords
    <3>4. /\ f[j].end = End(Last(s[j].text)) /\ f[j + 1].start = Begin(Head(s[j + 1].text))
          /\ Last(s[j].text) \in 1..m /\ Head(s[j + 1].text) \in 1..m
      BY <2>1, <3>1, <3>3
    <3>5. QED
      BY <3>2, <3>3, <3>4
  <2>3. InFileTime(f, s, w, n)
    BY <1>4, <2>1, <2>2 DEF InFileTime
  <2>4. QED
    BY <1>1, <1>2, <2>3
<1>7. QED
  BY <1>1, <1>2, <1>5, <1>6 DEF HeardIn

\* What a window adds: all of its segments that begin at or behind prev, up to where the
\* windows before it were heard.
LEMMA WindowAdded ==
  ASSUME speech \in Speech, NEW w, w.start \in Nat, w.end \in Nat, w.start <= w.end,
         NEW h, HeardIn(h, w), NEW acc, MergedOK(acc),
         NEW prev \in Nat, acc.seen <= prev, prev <= w.end
  PROVE  /\ MergedOK(AddWindow(acc, h)) /\ AddWindow(acc, h).seen <= w.end
         /\ ToSet(Transcribed(acc.kept)) \subseteq ToSet(Transcribed(AddWindow(acc, h).kept))
         /\ \A s \in ToSet(h.segments) :
               s.start + w.start >= prev => ToSet(s.text) \subseteq ToSet(Transcribed(AddWindow(acc, h).kept))
         /\ acc.kept = <<>> /\ prev = 0
               => Transcribed(AddWindow(acc, h).kept) = Transcribed(h.segments)
<1>1. PICK f : f = [k \in DOMAIN h.segments |-> Adjusted(h.segments[k], h.offset)]
  OBVIOUS
<1>2. PICK segs : segs = h.segments
  OBVIOUS
<1>3. PICK n \in Nat : n = Len(segs) /\ DOMAIN segs = 1..n /\ InFileTime(f, segs, w, n)
  BY <1>1, <1>2, HeardInFileTime
<1>4. OfWindow!FoldsTo(0, acc, f, n)
  BY <1>3, OfWindow!FoldLeftSteps DEF InFileTime
<1>5. PICK a : /\ a[0] = acc
               /\ \A k \in 1..n : a[k] = SegmentStep(0, a[k - 1], f[k])
               /\ a[n] = OfWindow!Iter(0, acc, f)[DOMAIN f]
  BY <1>4 DEF OfWindow!FoldsTo
<1>6. PICK T0, whole : /\ T0 = ToSet(Transcribed(acc.kept))
                       /\ whole = (acc.kept = <<>> /\ prev = 0)
  OBVIOUS
<1> DEFINE OK(x, j) ==
             /\ MergedOK(x) /\ x.seen <= w.end
             /\ j < n => x.seen <= prev \/ x.seen <= f[j + 1].start
             /\ T0 \subseteq ToSet(Transcribed(x.kept))
             /\ \A i \in 1..j : f[i].start >= prev => ToSet(segs[i].text) \subseteq ToSet(Transcribed(x.kept))
             /\ whole => Len(x.kept) = j /\ \A i \in 1..j : x.kept[i].text = segs[i].text
           S == {j \in Nat : j <= n => OK(a[j], j)}
<1>7. 0 \in S
  <2>1. acc.seen <= w.end
    BY DEF MergedOK
  <2>2. whole => Len(acc.kept) = 0
    BY <1>6
  <2>3. OK(acc, 0)
    BY <1>6, <2>1, <2>2
  <2> HIDE DEF OK
  <2>4. QED
    BY <1>5, <2>3
<1>8. ASSUME NEW j \in Nat, j \in S PROVE j + 1 \in S
  <2> SUFFICES ASSUME j + 1 <= n PROVE OK(a[j + 1], j + 1)
    OBVIOUS
  <2>1. j + 1 \in 1..n /\ (j + 1) - 1 = j /\ OK(a[j], j) /\ j < n
    BY <1>8
  <2>2. PICK x, y, s : x = a[j] /\ y = a[j + 1] /\ s = f[j + 1]
    OBVIOUS
  <2>3. y = AddSegment(x, s)
    BY <1>5, <2>1, <2>2 DEF SegmentStep
  <2>4. /\ SegmentOK(s) /\ s.text = segs[j + 1].text
        /\ s.start \in Nat /\ s.end \in Nat /\ s.start <= s.end /\ s.end <= w.end
        /\ \/ Spelt(s.text) /\ s.start = Begin(Head(s.text)) /\ s.end = End(Last(s.text))
           \/ s.text = <<>> /\ s.end = w.end
        /\ j + 1 < n => s.end <= f[(j + 1) + 1].start
    BY <1>3, <2>1, <2>2 DEF InFileTime
  <2>5. /\ MergedOK(x) /\ x.seen <= w.end /\ x.seen \in Int
        /\ x.seen <= prev \/ x.seen <= s.start
        /\ T0 \subseteq ToSet(Transcribed(x.kept))
        /\ \A i \in 1..j : f[i].start >= prev => ToSet(segs[i].text) \subseteq ToSet(Transcribed(x.kept))
        /\ whole => Len(x.kept) = j /\ \A i \in 1..j : x.kept[i].text = segs[i].text
    BY <2>1, <2>2 DEF MergedOK
  <2>6. /\ MergedOK(y)
        /\ ToSet(Transcribed(x.kept)) \subseteq ToSet(Transcribed(y.kept))
        /\ IF s.start < x.seen - 1 THEN y = x
           ELSE /\ y = [kept |-> Append(x.kept, s), seen |-> s.end]
                /\ ToSet(s.text) \subseteq ToSet(Transcribed(y.kept))
    BY <2>3, <2>4, <2>5, SegmentAdded
  <2>7. s.start >= prev => ~(s.start < x.seen - 1)
    BY <2>4, <2>5
  <2>8. y.seen <= w.end
    BY <2>4, <2>5, <2>6
  <2>9. j + 1 < n => y.seen <= prev \/ y.seen <= f[(j + 1) + 1].start
    <3>1. SUFFICES ASSUME j + 1 < n PROVE y.seen <= prev \/ y.seen <= f[(j + 1) + 1].start
      OBVIOUS
    <3>2. (j + 1) + 1 \in 1..n
      BY <3>1
    <3>3. f[(j + 1) + 1].start \in Nat /\ s.end <= f[(j + 1) + 1].start
      BY <1>3, <2>4, <3>1, <3>2 DEF InFileTime
    <3>4. y.seen = s.end \/ y.seen = x.seen
      BY <2>6
    <3>5. QED
      BY <2>4, <2>5, <3>3, <3>4
  <2>10. 1..(j + 1) = 1..j \cup {j + 1}
    OBVIOUS
  <2>11. ASSUME NEW i \in 1..(j + 1), f[i].start >= prev
         PROVE  ToSet(segs[i].text) \subseteq ToSet(Transcribed(y.kept))
    <3>1. CASE i = j + 1
      <4>1. ~(s.start < x.seen - 1)
        BY <2>2, <2>7, <2>11, <3>1
      <4>2. QED
        BY <2>4, <2>6, <3>1, <4>1
    <3>2. CASE i \in 1..j
      BY <2>5, <2>6, <2>11, <3>2
    <3>3. QED
      BY <2>10, <3>1, <3>2
  <2>12. ASSUME whole
         PROVE  Len(y.kept) = j + 1 /\ \A i \in 1..(j + 1) : y.kept[i].text = segs[i].text
    <3>1. ~(s.start < x.seen - 1)
      <4>1. prev = 0
        BY <1>6, <2>12, Zenon
      <4>2. s.start >= prev
        BY <2>4, <4>1
      <4>3. QED
        BY <2>7, <4>2
    <3>2. PICK kept, more : kept = x.kept /\ more = y.kept /\ more = Append(kept, s)
      BY <2>6, <3>1
    <3>3. Sequence(kept) /\ Len(kept) = j /\ \A i \in 1..j : kept[i].text = segs[i].text
      BY <2>5, <2>12, <3>2 DEF MergedOK
    <3>4. kept \in Seq(ToSet(kept) \cup {s})
      BY <3>3, SequenceOver
    <3>5. Len(more) = j + 1 /\ more[j + 1] = s /\ \A i \in 1..j : more[i] = kept[i]
      BY <3>2, <3>3, <3>4
    <3>6. \A i \in 1..(j + 1) : more[i].text = segs[i].text
      BY <2>4, <2>10, <3>3, <3>5
    <3>7. QED
      BY <3>2, <3>5, <3>6
  <2>13. OK(y, j + 1)
    BY <2>5, <2>6, <2>8, <2>9, <2>11, <2>12
  <2> HIDE DEF OK
  <2>14. QED
    BY <2>2, <2>13
<1>9. Nat \subseteq S
  <2> HIDE DEF S
  <2> QED
    BY <1>7, <1>8, Lines!NatSetInduction
<1>10. OK(a[n], n)
  <2>1. n \in S
    BY <1>9
  <2> HIDE DEF OK
  <2>2. QED
    BY <2>1
<1>11. AddWindow(acc, h) = a[n]
  <2>1. AddWindow(acc, h) = FoldLeft(AddSegment, acc, f)
    BY <1>1 DEF AddWindow
  <2>2. FoldLeft(AddSegment, acc, f) = OfWindow!Iter(0, acc, f)[DOMAIN f]
    BY DEF FoldLeft, MapThenFoldSet, Max, SegmentStep, OfWindow!Iter, OfWindow!Folding, OfWindow!Latest
  <2>3. QED
    BY <1>5, <2>1, <2>2
<1>12. PICK r : r = AddWindow(acc, h)
  OBVIOUS
<1>13. ASSUME NEW s \in ToSet(segs), s.start + w.start >= prev
       PROVE  ToSet(s.text) \subseteq ToSet(Transcribed(r.kept))
  <2>1. PICK i \in 1..n : s = segs[i]
    BY <1>3 DEF ToSet
  <2>2. f[i].start = s.start + w.start
    BY <1>3, <2>1 DEF InFileTime
  <2>3. QED
    BY <1>10, <1>11, <1>12, <1>13, <2>1, <2>2
<1>14. ASSUME whole PROVE Transcribed(r.kept) = Transcribed(segs)
  <2>1. PICK kept : kept = r.kept
    OBVIOUS
  <2>2. Sequence(kept) /\ Len(kept) = n /\ \A i \in 1..n : kept[i].text = segs[i].text
    BY <1>10, <1>11, <1>12, <1>14, <2>1 DEF MergedOK
  <2>3. DOMAIN kept = 1..n
    BY <2>2, Positions
  <2>4. [k \in DOMAIN kept |-> kept[k].text] = [k \in DOMAIN segs |-> segs[k].text]
    BY <1>3, <2>2, <2>3
  <2>5. QED
    BY <2>1, <2>4 DEF Transcribed
<1>15. MergedOK(r) /\ r.seen <= w.end /\ T0 \subseteq ToSet(Transcribed(r.kept))
  BY <1>10, <1>11, <1>12
<1>16. QED
  BY <1>2, <1>6, <1>12, <1>13, <1>14, <1>15

\* The segments of one window are as the assets pass them on.
LEMMA HeardSegments ==
  ASSUME speech \in Speech, NEW w, w.start = 0, w.end \in Nat,
         NEW h, HeardIn(h, w)
  PROVE  Sequence(h.segments) /\ \A j \in DOMAIN h.segments : SegmentOK(h.segments[j])
<1>1. PICK segs : segs = h.segments /\ Sequence(segs)
  BY DEF HeardIn
<1>2. ASSUME NEW j \in DOMAIN segs, Mute(segs[j], w.end - w.start) PROVE SegmentOK(segs[j])
  <2>1. PICK s : s = segs[j]
    OBVIOUS
  <2>2. Worded(s) /\ s.text = <<>> /\ s.start = 0 /\ s.end = w.end - 0
    BY <1>2, <2>1 DEF Mute
  <2>3. s.start \in Int /\ s.end \in Int /\ s.start <= s.end
    BY <2>2
  <2>4. QED
    BY <2>1, <2>2, <2>3, NoElements DEF SegmentOK
<1>3. ASSUME NEW j \in DOMAIN segs, Voiced(segs[j], w.start) PROVE SegmentOK(segs[j])
  <2>1. PICK s : s = segs[j]
    OBVIOUS
  <2>2. /\ Worded(s) /\ Spelt(s.text)
        /\ s.start = Begin(Head(s.text)) - 0 /\ s.end = End(Last(s.text)) - 0
    BY <1>3, <2>1 DEF Voiced
  <2>3. PICK h_ \in ToSet(s.text), l_ \in ToSet(s.text) :
            /\ h_ = Head(s.text) /\ l_ = Last(s.text)
            /\ \A i \in ToSet(s.text) : /\ i \in Nat /\ Begin(i) \in Nat /\ End(i) \in Nat
                                        /\ Begin(i) <= End(i)
                                        /\ h_ <= i /\ Begin(h_) <= Begin(i) /\ End(i) <= End(l_)
    BY <2>2, SpeltWords
  <2>4. /\ Begin(h_) \in Nat /\ End(l_) \in Nat /\ End(h_) \in Nat
        /\ Begin(h_) <= End(h_) /\ End(h_) <= End(l_)
    BY <2>3
  <2>5. s.start \in Int /\ s.end \in Int /\ s.start <= s.end
    BY <2>2, <2>3, <2>4
  <2>6. QED
    BY <2>1, <2>2, <2>5 DEF SegmentOK, Spelt
<1>4. \A j \in DOMAIN segs : Mute(segs[j], w.end - w.start) \/ Voiced(segs[j], w.start)
  <2>1. PICK n \in Nat : n = Len(segs) /\ DOMAIN segs = 1..n
    BY <1>1, Positions
  <2>2. QED
    BY <1>1, <2>1 DEF HeardIn
<1>5. QED
  BY <1>1, <1>2, <1>3, <1>4

WindowStep(ctx, acc, h) == AddWindow(acc, h)

OfWindows == INSTANCE FoldFacts WITH Op <- WindowStep

\* Every window was heard.
AllHeard ==
    /\ Sequence(heard) /\ Len(heard) = Len(Windows)
    /\ \A k \in DOMAIN heard : HeardIn(heard[k], Windows[k])

\* All that a window has to say of what begins behind the window before it.
Covering(k, text) ==
    \A s \in ToSet(heard[k].segments) :
        k = 1 \/ s.start + heard[k].offset >= Windows[k - 1].end
            => ToSet(s.text) \subseteq ToSet(text)

\* The merged windows say the words of more than half a second once; and all that a window has
\* to say of what begins behind the window before it.
LEMMA WindowsMerged ==
  ASSUME speech \in Speech, AllHeard
  PROVE  /\ \E acc : MergedOK(acc) /\ acc.kept = MergedWindows
         /\ \A k \in DOMAIN heard : Covering(k, Transcribed(MergedWindows))
         /\ Len(heard) = 1 => Transcribed(heard[1].segments) = Transcribed(MergedWindows)
<1>1. PICK n \in Nat \ {0} :
            /\ n = Len(Windows) /\ DOMAIN Windows = 1..n
            /\ \A k \in 1..n : /\ Windows[k].start \in Nat /\ Windows[k].end \in Nat
                               /\ Windows[k].start <= Windows[k].end
            /\ Windows[1].start = 0
            /\ \A k \in 1..n : k = 1 \/ Windows[k - 1].end <= Windows[k].end
  BY WindowsOrdered
<1>2. PICK hs : /\ hs = heard /\ Sequence(hs) /\ Len(hs) = n /\ DOMAIN hs = 1..n
                /\ \A k \in 1..n : HeardIn(hs[k], Windows[k])
  <2>1. Sequence(heard) /\ Len(heard) = n
    BY <1>1 DEF AllHeard
  <2>2. DOMAIN heard = 1..n
    BY <2>1, Positions
  <2>3. QED
    BY <2>1, <2>2 DEF AllHeard
<1>3. PICK base : base = [kept |-> <<>>, seen |-> 0]
  OBVIOUS
<1>4. OfWindows!FoldsTo(0, base, hs, n)
  BY <1>2, OfWindows!FoldLeftSteps
<1>5. PICK a : /\ a[0] = base
               /\ \A k \in 1..n : a[k] = WindowStep(0, a[k - 1], hs[k])
               /\ a[n] = OfWindows!Iter(0, base, hs)[DOMAIN hs]
  BY <1>4 DEF OfWindows!FoldsTo
<1>6. PICK ends : ends = [k \in 0..n |-> IF k = 0 THEN 0 ELSE Windows[k].end]
  OBVIOUS
<1>7. /\ ends[0] = 0
      /\ \A k \in 0..n : ends[k] \in Nat
      /\ \A k \in 1..n : ends[k] = Windows[k].end /\ ends[k - 1] <= ends[k]
  <2>1. \A k \in 1..n : k \in 0..n /\ k # 0 /\ k - 1 \in 0..n /\ (k - 1 = 0 <=> k = 1)
    OBVIOUS
  <2>2. \A k \in 0..n : k = 0 \/ k \in 1..n
    OBVIOUS
  <2>3. ends[0] = 0 /\ \A k \in 1..n : ends[k] = Windows[k].end
    BY <1>6, <2>1
  <2>4. \A k \in 0..n : ends[k] \in Nat
    BY <1>1, <2>2, <2>3
  <2>5. ASSUME NEW k \in 1..n PROVE ends[k - 1] <= ends[k]
    <3>1. CASE k = 1
      <4>1. ends[k - 1] = 0 /\ ends[k] \in Nat
        BY <2>1, <2>3, <2>4, <3>1
      <4>2. QED
        BY <4>1
    <3>2. CASE k # 1
      <4>1. k - 1 \in 1..n
        BY <3>2
      <4>2. ends[k - 1] = Windows[k - 1].end /\ ends[k] = Windows[k].end
        BY <2>3, <4>1
      <4>3. QED
        BY <1>1, <3>2, <4>2
    <3>3. QED
      BY <3>1, <3>2
  <2>6. QED
    BY <2>3, <2>4, <2>5
<1> DEFINE OK(x, k) ==
             /\ MergedOK(x) /\ x.seen <= ends[k]
             /\ \A i \in 1..k : Covering(i, Transcribed(x.kept))
             /\ k = 0 => x.kept = <<>>
             /\ k = 1 => Transcribed(x.kept) = Transcribed(hs[1].segments)
           S == {k \in Nat : k <= n => OK(a[k], k)}
<1>8. 0 \in S
  <2>1. MergedOK(base)
    <3>1. base.kept = <<>> /\ base.seen = 0 /\ base = [kept |-> base.kept, seen |-> base.seen]
      BY <1>3
    <3>2. Sequence(base.kept) /\ DOMAIN base.kept = {}
      BY <3>1, NoElements
    <3>3. Transcribed(base.kept) = <<>>
      BY <3>1, TranscribedNone
    <3>4. ToSet(Transcribed(base.kept)) = {}
      BY <3>3, NoElements
    <3>5. QED
      BY <3>1, <3>2, <3>4 DEF MergedOK
  <2>2. base.seen <= ends[0] /\ base.kept = <<>>
    BY <1>3, <1>7
  <2>3. OK(base, 0)
    BY <2>1, <2>2
  <2> HIDE DEF OK
  <2>4. QED
    BY <1>5, <2>3
<1>9. ASSUME NEW k \in Nat, k \in S PROVE k + 1 \in S
  <2> SUFFICES ASSUME k + 1 <= n PROVE OK(a[k + 1], k + 1)
    OBVIOUS
  <2>1. k + 1 \in 1..n /\ (k + 1) - 1 = k /\ k \in 0..n /\ OK(a[k], k)
    BY <1>9
  <2>2. PICK x, y, h, w, prev : /\ x = a[k] /\ y = a[k + 1] /\ h = hs[k + 1] /\ w = Windows[k + 1]
                                /\ prev = ends[k]
    OBVIOUS
  <2>3. y = AddWindow(x, h)
    BY <1>5, <2>1, <2>2 DEF WindowStep
  <2>4. /\ MergedOK(x) /\ x.seen <= prev
        /\ \A i \in 1..k : Covering(i, Transcribed(x.kept))
        /\ k = 0 => x.kept = <<>>
    BY <2>1, <2>2
  <2>5. /\ w.start \in Nat /\ w.end \in Nat /\ w.start <= w.end /\ HeardIn(h, w)
        /\ ends[k + 1] = w.end
    BY <1>1, <1>2, <1>7, <2>1, <2>2
  <2>6. prev \in Nat /\ prev <= w.end
    BY <1>7, <2>1, <2>2, <2>5
  <2>7. /\ MergedOK(y) /\ y.seen <= w.end
        /\ ToSet(Transcribed(x.kept)) \subseteq ToSet(Transcribed(y.kept))
        /\ \A s \in ToSet(h.segments) :
               s.start + w.start >= prev => ToSet(s.text) \subseteq ToSet(Transcribed(y.kept))
        /\ x.kept = <<>> /\ prev = 0 => Transcribed(y.kept) = Transcribed(h.segments)
    BY <2>3, <2>4, <2>5, <2>6, WindowAdded
  <2>8. \A i \in 1..k : Covering(i, Transcribed(y.kept))
    BY <2>4, <2>7 DEF Covering
  <2>9. Covering(k + 1, Transcribed(y.kept))
    <3>1. CASE k = 0
      <4>1. Transcribed(y.kept) = Transcribed(h.segments)
        BY <1>7, <2>2, <2>4, <2>7, <3>1
      <4>2. prev = 0
        BY <1>7, <2>2, <3>1
      <4>3. PICK f : f = [j \in DOMAIN h.segments |-> Adjusted(h.segments[j], h.offset)]
        OBVIOUS
      <4>4. PICK m \in Nat : /\ m = Len(h.segments) /\ DOMAIN h.segments = 1..m
                             /\ InFileTime(f, h.segments, w, m)
        BY <2>5, <4>3, HeardInFileTime
      <4>5. ASSUME NEW s \in ToSet(h.segments) PROVE ToSet(s.text) \subseteq ToSet(Transcribed(y.kept))
        <5>1. PICK j \in 1..m : s = h.segments[j]
          BY <4>4 DEF ToSet
        <5>2. f[j].start \in Nat /\ f[j].start = s.start + w.start
          BY <4>4, <5>1 DEF InFileTime
        <5>3. s.start + w.start >= prev
          BY <4>2, <5>2
        <5>4. QED
          BY <2>7, <5>3
      <4>6. QED
        BY <1>2, <2>2, <4>5 DEF Covering
    <3>2. CASE k # 0
      <4>1. k \in 1..n /\ k + 1 # 1
        BY <2>1, <3>2
      <4>2. Windows[k].end = prev
        BY <1>7, <2>2, <4>1
      <4>3. heard[k + 1] = h /\ h.offset = w.start
        BY <1>2, <2>2, <2>5 DEF HeardIn
      <4>4. QED
        BY <2>1, <2>7, <4>1, <4>2, <4>3 DEF Covering
    <3>3. QED
      BY <3>1, <3>2
  <2>10. k + 1 = 1 => Transcribed(y.kept) = Transcribed(hs[1].segments)
    <3>1. ASSUME k + 1 = 1 PROVE Transcribed(y.kept) = Transcribed(hs[1].segments)
      <4>1. k = 0
        BY <3>1
      <4>2. x.kept = <<>> /\ prev = 0 /\ h = hs[1]
        BY <1>7, <2>2, <2>4, <4>1
      <4>3. QED
        BY <2>7, <4>2
    <3>2. QED
      BY <3>1
  <2>11. 1..(k + 1) = 1..k \cup {k + 1} /\ k + 1 # 0
    OBVIOUS
  <2>12. OK(y, k + 1)
    BY <2>5, <2>7, <2>8, <2>9, <2>10, <2>11
  <2> HIDE DEF OK
  <2>13. QED
    BY <2>2, <2>12
<1>10. Nat \subseteq S
  <2> HIDE DEF S
  <2> QED
    BY <1>8, <1>9, Lines!NatSetInduction
<1>11. OK(a[n], n)
  <2>1. n \in S
    BY <1>10
  <2> HIDE DEF OK
  <2>2. QED
    BY <2>1
<1>12. MergedWindows = a[n].kept
  <2>1. MergedWindows = FoldLeft(AddWindow, base, hs).kept
    BY <1>2, <1>3 DEF MergedWindows
  <2>2. FoldLeft(AddWindow, base, hs) = OfWindows!Iter(0, base, hs)[DOMAIN hs]
    BY DEF FoldLeft, MapThenFoldSet, Max, WindowStep, OfWindows!Iter, OfWindows!Folding, OfWindows!Latest
  <2>3. QED
    BY <1>5, <2>1, <2>2
<1>13. PICK r : r = a[n]
  OBVIOUS
<1>14. /\ MergedOK(r) /\ \A i \in 1..n : Covering(i, Transcribed(r.kept))
       /\ n = 1 => Transcribed(r.kept) = Transcribed(hs[1].segments)
  BY <1>11, <1>13
<1>15. QED
  BY <1>2, <1>12, <1>13, <1>14

\* What MergeWindows passes on.
MergedFile == IF Len(heard) = 1 THEN heard[1].segments ELSE MergedWindows

LEMMA MergedSegments ==
  ASSUME speech \in Speech, AllHeard
  PROVE  /\ Sequence(MergedFile) /\ \A k \in DOMAIN MergedFile : SegmentOK(MergedFile[k])
         /\ Sequence(Transcribed(MergedFile))
         /\ \A i \in ToSet(Transcribed(MergedFile)) :
               End(i) - Begin(i) > 1 => AtMostOnce(i, Transcribed(MergedFile))
         /\ \A k \in DOMAIN heard : Covering(k, Transcribed(MergedFile))
<1>1. PICK acc : MergedOK(acc) /\ acc.kept = MergedWindows
  BY WindowsMerged
<1>2. Transcribed(MergedFile) = Transcribed(MergedWindows)
  BY WindowsMerged DEF MergedFile
<1>3. Sequence(MergedFile) /\ \A k \in DOMAIN MergedFile : SegmentOK(MergedFile[k])
  <2>1. CASE Len(heard) = 1
    <3>1. PICK n \in Nat \ {0} :
            /\ DOMAIN Windows = 1..n /\ \A k \in 1..n : Windows[k].end \in Nat
            /\ Windows[1].start = 0
      BY WindowsOrdered
    <3>2. 1 \in DOMAIN heard
      <4>1. PICK m \in Nat : m = Len(heard) /\ DOMAIN heard = 1..m
        BY Positions DEF AllHeard
      <4>2. QED
        BY <2>1, <4>1
    <3>3. HeardIn(heard[1], Windows[1]) /\ 1 \in 1..n
      BY <3>1, <3>2 DEF AllHeard
    <3>4. QED
      BY <2>1, <3>1, <3>3, HeardSegments DEF MergedFile
  <2>2. CASE Len(heard) # 1
    BY <1>1, <2>2 DEF MergedOK, MergedFile
  <2>3. QED
    BY <2>1, <2>2
<1>4. PICK T : T = Transcribed(acc.kept)
  OBVIOUS
<1>5. Sequence(T)
  <2>1. PICK f : f = [k \in DOMAIN acc.kept |-> acc.kept[k].text]
    OBVIOUS
  <2>2. Sequence(acc.kept) /\ \A k \in DOMAIN acc.kept : Sequence(f[k])
    BY <1>1, <2>1 DEF MergedOK, SegmentOK
  <2>3. f = [k \in DOMAIN acc.kept |-> f[k]]
    BY <2>1
  <2>4. QED
    BY <1>4, <2>1, <2>2, <2>3, MappedOver DEF Transcribed
<1>6. \A i \in ToSet(T) : End(i) - Begin(i) > 1 => AtMostOnce(i, T)
  BY <1>1, <1>4 DEF MergedOK
<1>7. QED
  BY <1>1, <1>2, <1>3, <1>4, <1>5, <1>6, WindowsMerged

\* So a word is transcribed once.
LEMMA MergedOnce ==
  ASSUME speech \in Speech, AllHeard, segments = MergedFile
  PROVE  TranscribedOnce
<1>1. PICK T : T = Together([k \in DOMAIN segments |-> segments[k].text]) /\ T = Transcribed(MergedFile)
  BY DEF Together, Transcribed
<1>2. /\ Sequence(T)
      /\ \A i \in ToSet(T) : End(i) - Begin(i) > 1 => AtMostOnce(i, T)
      /\ \A k \in DOMAIN heard : Covering(k, T)
  BY <1>1, MergedSegments
<1>3. ASSUME NEW k \in DOMAIN heard, NEW s \in ToSet(heard[k].segments), NEW i \in ToSet(s.text)
      PROVE  /\ End(i) - Begin(i) > 1 => Times(i, T) <= 1
             /\ k = 1 \/ s.start + heard[k].offset >= Windows[k - 1].end => Times(i, T) >= 1
  <2>1. ASSUME End(i) - Begin(i) > 1 PROVE Times(i, T) <= 1
    <3>1. AtMostOnce(i, T)
      <4>1. CASE i \in ToSet(T)
        BY <1>2, <2>1, <4>1
      <4>2. CASE i \notin ToSet(T)
        BY <4>2 DEF AtMostOnce, ToSet
      <4>3. QED
        BY <4>1, <4>2
    <3>2. QED
      BY <1>2, <3>1, TimesOf
  <2>2. ASSUME k = 1 \/ s.start + heard[k].offset >= Windows[k - 1].end PROVE Times(i, T) >= 1
    <3>1. ToSet(s.text) \subseteq ToSet(T)
      BY <1>2, <1>3, <2>2 DEF Covering
    <3>2. QED
      BY <1>2, <1>3, <3>1, TimesOf
  <2>3. QED
    BY <2>1, <2>2
<1>4. QED
  BY <1>1, <1>3 DEF TranscribedOnce, Begin, End

-----------------------------------------------------------------------------
(* Segments get speakers and are joined                                    *)

\* A segment with speakers is still one.
LEMMA SpokenOK ==
  ASSUME NEW s, SegmentOK(s), NEW turns, NEW p
  PROVE  SegmentOK([Spoken(turns, s) EXCEPT !.speaker = p])
<1>1. PICK n \in Nat : n = Len(s.words) /\ DOMAIN s.words = 1..n
  BY Positions DEF SegmentOK, Worded
<1>2. PICK words_ : words_ = [k \in 1..n |-> [s.words[k] EXCEPT !.speaker = SpeakerAt(turns, s.words[k])]]
  OBVIOUS
<1>3. Sequence(words_) /\ DOMAIN words_ = 1..n
  <2>1. words_ = [k \in 1..n |-> words_[k]]
    BY <1>2
  <2>2. QED
    BY <2>1, Listed
<1>4. ASSUME NEW k \in 1..n
      PROVE  LET w == words_[k] IN
             /\ w = [word |-> w.word, start |-> w.start, end |-> w.end, speaker |-> w.speaker]
             /\ w.word \in ToSet(s.text)
  <2>1. PICK w, q : w = s.words[k] /\ q = SpeakerAt(turns, s.words[k])
    OBVIOUS
  <2>2. /\ w = [word |-> w.word, start |-> w.start, end |-> w.end, speaker |-> w.speaker]
        /\ w.word \in ToSet(s.text)
    BY <1>1, <2>1 DEF SegmentOK, Worded
  <2>3. words_[k] = [w EXCEPT !.speaker = q]
    BY <1>2, <2>1
  <2>4. words_[k] = [word |-> w.word, start |-> w.start, end |-> w.end, speaker |-> q]
    BY <2>2, <2>3
  <2>5. QED
    BY <2>2, <2>4
<1>5. PICK a : a = [Spoken(turns, s) EXCEPT !.speaker = p]
  OBVIOUS
<1>6. a = [start |-> s.start, end |-> s.end, text |-> s.text, speaker |-> p, words |-> words_]
  <2>1. s = [start |-> s.start, end |-> s.end, text |-> s.text, speaker |-> s.speaker,
             words |-> s.words]
    BY DEF SegmentOK, Worded
  <2>2. PICK b : b = Spoken(turns, s)
    OBVIOUS
  <2>3. b = [s EXCEPT !.words = words_]
    BY <1>1, <1>2, <2>2 DEF Spoken
  <2>4. b = [start |-> s.start, end |-> s.end, text |-> s.text, speaker |-> s.speaker, words |-> words_]
    BY <2>1, <2>3
  <2>5. QED
    BY <1>5, <2>2, <2>4
<1>7. Worded(a)
  BY <1>3, <1>4, <1>6 DEF Worded
<1>8. QED
  BY <1>5, <1>6, <1>7 DEF SegmentOK

\* So is one that another is joined to.
LEMMA JoinOK ==
  ASSUME NEW s, SegmentOK(s), NEW next, SegmentOK(next), s.end <= next.start
  PROVE  SegmentOK(Join(s, next))
<1>1. PICK text, words_ : text = s.text \o next.text /\ words_ = s.words \o next.words
  OBVIOUS
<1>2. Sequence(text) /\ ToSet(text) = ToSet(s.text) \cup ToSet(next.text)
  BY <1>1, Joining DEF SegmentOK
<1>3. Sequence(words_) /\ ToSet(words_) = ToSet(s.words) \cup ToSet(next.words)
  BY <1>1, Joining DEF SegmentOK, Worded
<1> DEFINE ok(w) == /\ w = [word |-> w.word, start |-> w.start, end |-> w.end, speaker |-> w.speaker]
                    /\ w.word \in ToSet(text)
<1>4. \A w \in ToSet(words_) : ok(w)
  <2>1. \A w \in ToSet(s.words) : ok(w)
    BY <1>2 DEF SegmentOK, Worded, ToSet
  <2>2. \A w \in ToSet(next.words) : ok(w)
    BY <1>2 DEF SegmentOK, Worded, ToSet
  <2> HIDE DEF ok
  <2>3. QED
    BY <1>3, <2>1, <2>2
<1>5. \A n \in DOMAIN words_ : ok(words_[n])
  <2> HIDE DEF ok
  <2> QED
    BY <1>4 DEF ToSet
<1>6. PICK a : a = Join(s, next)
  OBVIOUS
<1>7. a = [start |-> s.start, end |-> next.end, text |-> text, speaker |-> s.speaker, words |-> words_]
  <2>1. s = [start |-> s.start, end |-> s.end, text |-> s.text, speaker |-> s.speaker,
             words |-> s.words]
    BY DEF SegmentOK, Worded
  <2>2. PICK e : e = next.end
    OBVIOUS
  <2>3. a = [s EXCEPT !.end = e, !.text = text, !.words = words_]
    BY <1>1, <1>6, <2>2 DEF Join
  <2>4. /\ a = [start |-> a.start, end |-> a.end, text |-> a.text, speaker |-> a.speaker, words |-> a.words]
        /\ a.start = s.start /\ a.end = e /\ a.text = text /\ a.speaker = s.speaker /\ a.words = words_
    BY <2>1, <2>3
  <2>5. QED
    BY <2>2, <2>4
<1>8. Worded(a)
  BY <1>3, <1>5, <1>7 DEF Worded
<1>9. a.start \in Int /\ a.end \in Int /\ a.start <= a.end
  <2>1. PICK p \in Int, q \in Int, r \in Int, t \in Int :
            p = s.start /\ q = s.end /\ r = next.start /\ t = next.end /\ p <= q /\ q <= r /\ r <= t
    BY DEF SegmentOK
  <2>2. QED
    BY <1>7, <2>1
<1>10. QED
  BY <1>2, <1>6, <1>7, <1>8, <1>9 DEF SegmentOK

\* A list of segments as the assets pass it on.
SegmentsOK(segs) == Sequence(segs) /\ \A k \in DOMAIN segs : SegmentOK(segs[k])

LEMMA OneMoreSegment ==
  ASSUME NEW segs, SegmentsOK(segs), NEW s, SegmentOK(s)
  PROVE  SegmentsOK(Append(segs, s))
<1>1. Sequence(Append(segs, s)) /\ ToSet(Append(segs, s)) = ToSet(segs) \cup {s}
  BY Appended DEF SegmentsOK
<1>2. \A x \in ToSet(Append(segs, s)) : SegmentOK(x)
  BY <1>1 DEF SegmentsOK, ToSet
<1>3. QED
  BY <1>1, <1>2 DEF SegmentsOK, ToSet

LEMMA TurnAdded ==
  ASSUME NEW acc, SegmentsOK(acc), NEW next, SegmentOK(next)
  PROVE  SegmentsOK(AddToTurns(acc, next))
<1>1. CASE acc # <<>> /\ Continues(next, Last(acc))
  <2>1. PICK l : l = Last(acc)
    OBVIOUS
  <2>2. Sequence(Front(acc)) /\ l \in ToSet(acc) /\ ToSet(acc) = ToSet(Front(acc)) \cup {l}
    BY <1>1, <2>1, FrontAndLast DEF SegmentsOK
  <2>3. \A x \in ToSet(acc) : SegmentOK(x)
    BY DEF SegmentsOK, ToSet
  <2>4. SegmentsOK(Front(acc)) /\ SegmentOK(l)
    BY <2>2, <2>3 DEF SegmentsOK, ToSet
  <2>5. l.end <= next.start
    <3>1. l.end \in Int /\ next.start \in Int /\ next.start - l.end \in 0 .. MERGE_GAP
      BY <1>1, <2>1, <2>4 DEF SegmentOK, Continues
    <3>2. QED
      BY <3>1, TranscriptAssumption
  <2>6. SegmentOK(Join(l, next))
    BY <2>4, <2>5, JoinOK
  <2>7. AddToTurns(acc, next) = Append(Front(acc), Join(l, next))
    BY <1>1, <2>1 DEF AddToTurns
  <2>8. QED
    BY <2>4, <2>6, <2>7, OneMoreSegment
<1>2. CASE ~(acc # <<>> /\ Continues(next, Last(acc)))
  <2>1. AddToTurns(acc, next) = Append(acc, next)
    BY <1>2 DEF AddToTurns
  <2>2. QED
    BY <2>1, OneMoreSegment
<1>3. QED
  BY <1>1, <1>2

TurnStep(ctx, acc, next) == AddToTurns(acc, next)

OfTurns == INSTANCE FoldFacts WITH Op <- TurnStep

LEMMA TurnsJoined ==
  ASSUME SegmentsOK(segments)
  PROVE  SegmentsOK(JoinedTurns)
<1>1. PICK segs : segs = segments /\ SegmentsOK(segs)
  OBVIOUS
<1>2. PICK n \in Nat : n = Len(segs) /\ DOMAIN segs = 1..n
  BY <1>1, Positions DEF SegmentsOK
<1>3. OfTurns!FoldsTo(0, <<>>, segs, n)
  BY <1>2, OfTurns!FoldLeftSteps
<1>4. PICK a : /\ a[0] = <<>>
               /\ \A k \in 1..n : a[k] = TurnStep(0, a[k - 1], segs[k])
               /\ a[n] = OfTurns!Iter(0, <<>>, segs)[DOMAIN segs]
  BY <1>3 DEF OfTurns!FoldsTo
<1> DEFINE S == {k \in Nat : k <= n => SegmentsOK(a[k])}
<1>5. 0 \in S
  BY <1>4, NoElements DEF SegmentsOK
<1>6. ASSUME NEW k \in Nat, k \in S PROVE k + 1 \in S
  <2> SUFFICES ASSUME k + 1 <= n PROVE SegmentsOK(a[k + 1])
    OBVIOUS
  <2>1. k + 1 \in 1..n /\ (k + 1) - 1 = k /\ SegmentsOK(a[k])
    BY <1>6
  <2>2. a[k + 1] = AddToTurns(a[k], segs[k + 1])
    BY <1>4, <2>1 DEF TurnStep
  <2>3. SegmentOK(segs[k + 1])
    BY <1>1, <1>2, <2>1 DEF SegmentsOK
  <2>4. QED
    BY <2>1, <2>2, <2>3, TurnAdded
<1>7. Nat \subseteq S
  <2> HIDE DEF S
  <2> QED
    BY <1>5, <1>6, Lines!NatSetInduction
<1>8. SegmentsOK(a[n])
  <2>1. n \in S
    BY <1>7
  <2>2. QED
    BY <2>1
<1>9. JoinedTurns = OfTurns!Iter(0, <<>>, segs)[DOMAIN segs]
  <2>1. JoinedTurns = FoldLeft(AddToTurns, <<>>, segs)
    BY <1>1 DEF JoinedTurns
  <2>2. FoldLeft(AddToTurns, <<>>, segs) = OfTurns!Iter(0, <<>>, segs)[DOMAIN segs]
    BY DEF FoldLeft, MapThenFoldSet, Max, TurnStep, OfTurns!Iter, OfTurns!Folding, OfTurns!Latest
  <2>3. QED
    BY <2>1, <2>2
<1>10. QED
  BY <1>4, <1>8, <1>9

-----------------------------------------------------------------------------
(* Turns are packed into chunks                                            *)

CharStep(ctx, n, i) == n + ctx[i].chars + 1

OfChars == INSTANCE FoldFacts WITH Op <- CharStep

\* A text of the speech.
Sayable(text) == Sequence(text) /\ ToSet(text) \subseteq DOMAIN speech.words

LEMMA CharsOf ==
  ASSUME speech \in Speech, NEW text, Sayable(text)
  PROVE  /\ Chars(text) \in Int
         /\ Len(text) = 0 => Chars(text) = -1
         /\ Len(text) = 1 => Chars(text) = speech.words[text[1]].chars
<1>1. PICK n \in Nat : n = Len(text) /\ DOMAIN text = 1..n /\ \A k \in 1..n : text[k] \in ToSet(text)
  BY Positions DEF Sayable
<1>2. PICK ws : ws = speech.words
  OBVIOUS
<1>3. OfChars!FoldsTo(ws, -1, text, n)
  BY <1>1, OfChars!FoldLeftSteps
<1>4. PICK acc : /\ acc[0] = -1
                 /\ \A k \in 1..n : acc[k] = CharStep(ws, acc[k - 1], text[k])
                 /\ acc[n] = OfChars!Iter(ws, -1, text)[DOMAIN text]
  BY <1>3 DEF OfChars!FoldsTo
<1>5. \A k \in 1..n : ws[text[k]].chars \in Nat
  <2>1. PICK m \in Nat : DOMAIN ws = 1..m /\ \A i \in 1..m : ws[i].chars \in Nat
    BY <1>2, SpeechWords
  <2>2. QED
    BY <1>1, <1>2, <2>1 DEF Sayable
<1> DEFINE S == {k \in Nat : k <= n => acc[k] \in Int}
<1>6. 0 \in S
  BY <1>4
<1>7. ASSUME NEW k \in Nat, k \in S PROVE k + 1 \in S
  <2> SUFFICES ASSUME k + 1 <= n PROVE acc[k + 1] \in Int
    OBVIOUS
  <2>1. k + 1 \in 1..n /\ (k + 1) - 1 = k /\ acc[k] \in Int
    BY <1>7
  <2>2. acc[k + 1] = acc[k] + ws[text[k + 1]].chars + 1
    BY <1>4, <2>1 DEF CharStep
  <2>3. QED
    BY <1>5, <2>1, <2>2
<1>8. Nat \subseteq S
  <2> HIDE DEF S
  <2> QED
    BY <1>6, <1>7, Lines!NatSetInduction
<1>9. acc[n] \in Int
  <2>1. n \in S
    BY <1>8
  <2>2. QED
    BY <2>1
<1>10. n = 1 => acc[n] = ws[text[1]].chars
  <2>1. ASSUME n = 1 PROVE acc[n] = ws[text[1]].chars
    <3>1. 1 \in 1..n /\ 1 - 1 = 0
      BY <2>1
    <3>2. acc[1] = -1 + ws[text[1]].chars + 1
      BY <1>4, <3>1 DEF CharStep
    <3>3. ws[text[1]].chars \in Nat
      BY <1>5, <3>1
    <3>4. QED
      BY <2>1, <3>2, <3>3
  <2>2. QED
    BY <2>1
<1>11. Chars(text) = OfChars!Iter(ws, -1, text)[DOMAIN text]
  BY <1>2 DEF Chars, FoldLeft, MapThenFoldSet, Max, CharStep, OfChars!Iter, OfChars!Folding,
              OfChars!Latest
<1>12. QED
  BY <1>1, <1>2, <1>4, <1>9, <1>10, <1>11

\* A text that is no longer than max characters.
Within(text, max) == Sayable(text) /\ Chars(text) <= max

\* Texts that are.
AllWithin(texts_, max) == TextList(texts_) /\ \A t \in ToSet(texts_) : Within(t, max)

LEMMA ShortWords ==
  ASSUME speech \in Speech, NEW p \in DOMAIN speech.words
  PROVE  Within(<<p>>, TextSizes.size)
<1>1. Sequence(<<p>>) /\ ToSet(<<p>>) = {p} /\ Len(<<p>>) = 1 /\ (<<p>>)[1] = p
  BY OneElement
<1>2. Chars(<<p>>) = speech.words[p].chars
  BY <1>1, CharsOf DEF Sayable
<1>3. PICK c \in Nat : c = speech.words[p].chars /\ 2 * c <= CHUNK_SIZE
  BY SpeechWords
<1>4. PICK h \in Int : h = CHUNK_SIZE \div 2 /\ c <= h
  <2>1. CHUNK_SIZE \in Nat
    BY TranscriptAssumption
  <2>2. QED
    BY <1>3, <2>1
<1>5. QED
  BY <1>1, <1>2, <1>3, <1>4 DEF Within, Sayable, TextSizes

\* A longer limit allows what a shorter one does.
LEMMA WithinMore ==
  ASSUME speech \in Speech, NEW a \in Int, NEW b \in Int, a <= b, NEW text, Within(text, a)
  PROVE  Within(text, b)
<1>1. Chars(text) \in Int
  BY CharsOf DEF Within
<1>2. QED
  BY <1>1 DEF Within

LEMMA SizesOfChunks ==
  /\ CHUNK_SIZE \in Nat /\ TextSizes.size \in Nat /\ TextSizes.size <= CHUNK_SIZE
  /\ 2 * CHUNK_SIZE \in Nat /\ CHUNK_SIZE <= 2 * CHUNK_SIZE
<1>1. CHUNK_SIZE \in Nat
  BY TranscriptAssumption
<1>2. CHUNK_SIZE \div 2 \in Nat /\ CHUNK_SIZE \div 2 <= CHUNK_SIZE
  BY <1>1
<1>3. TextSizes.size = CHUNK_SIZE \div 2
  BY DEF TextSizes
<1>4. QED
  BY <1>1, <1>2, <1>3

LEMMA OneMoreWithin ==
  ASSUME NEW max, NEW s, AllWithin(s, max), NEW t, Within(t, max)
  PROVE  AllWithin(Append(s, t), max) /\ PiecesOf(Append(s, t)) = PiecesOf(s) \cup ToSet(t)
<1>1. Sequence(Append(s, t)) /\ ToSet(Append(s, t)) = ToSet(s) \cup {t}
  BY Appended DEF AllWithin, TextList
<1>2. QED
  BY <1>1 DEF AllWithin, TextList, Within, Sayable, PiecesOf, Pieces

LEMMA BothWithin ==
  ASSUME NEW m, NEW s, NEW t, AllWithin(s, m), AllWithin(t, m)
  PROVE  AllWithin(s \o t, m)
<1>1. PICK both : both = s \o t
  OBVIOUS
<1>2. Sequence(both) /\ ToSet(both) = ToSet(s) \cup ToSet(t)
  BY <1>1, Joining DEF AllWithin, TextList
<1>3. QED
  BY <1>1, <1>2 DEF AllWithin, TextList

LEMMA NoneWithin == \A max : AllWithin(<<>>, max)
BY NoElements DEF AllWithin, TextList

LEMMA KeptOfSpeech ==
  ASSUME NEW cut, NEW piece, Sequence(piece), NEW p
  PROVE  /\ Sequence(Splitter!Kept(cut, piece, p))
         /\ ToSet(Splitter!Kept(cut, piece, p)) \subseteq ToSet(piece)
         /\ \/ Splitter!Kept(cut, piece, p) = <<>>
            \/ Chars(Append(Splitter!Kept(cut, piece, p), p)) <= cut.size
<1> DEFINE F == {e \in Splitter!Ends(piece) :
                   Chars(e) <= cut.overlap /\ Chars(Append(e, p)) <= cut.size}
           ends == {SubSeq(piece, n, Len(piece)) : n \in 1..(Len(piece) + 1)}
<1>1. Splitter!Ends(piece) = ends
  BY DEF Splitter!Ends
<1> HIDE DEF ends
<1>2. /\ \A e \in ends : Sequence(e) /\ ToSet(e) \subseteq ToSet(piece)
      /\ \E e \in ends : /\ e \in F \/ e = <<>>
                         /\ \A f \in ends : Len(f) > Len(e) => f \notin F
  <2> HIDE DEF F
  <2> QED
    BY LongestEnd DEF ends
<1>3. \E e \in ends :
         /\ (Chars(e) <= cut.overlap /\ Chars(Append(e, p)) <= cut.size) \/ e = <<>>
         /\ \A f \in ends : Len(f) > Len(e) =>
               ~(Chars(f) <= cut.overlap /\ Chars(Append(f, p)) <= cut.size)
  BY <1>1, <1>2
<1>4. /\ Splitter!Kept(cut, piece, p) \in ends
      /\ \/ Splitter!Kept(cut, piece, p) = <<>>
         \/ Chars(Append(Splitter!Kept(cut, piece, p), p)) <= cut.size
  BY <1>1, <1>3 DEF Splitter!Kept
<1>5. QED
  BY <1>2, <1>4

LEMMA SameEndsOfSpeech == \A s : Splitter!Last(s) = Last(s) /\ Splitter!Front(s) = Front(s)
BY DEF Splitter!Last, Last, Splitter!Front, Front

\* The pieces of a turn are not longer than a piece may be.
LEMMA AddPieceOfSpeech ==
  ASSUME speech \in Speech, NEW pieces, AllWithin(pieces, TextSizes.size),
         NEW p \in DOMAIN speech.words
  PROVE  LET more == Splitter!AddPiece(TextSizes, pieces, p)
         IN  AllWithin(more, TextSizes.size) /\ PiecesOf(more) = PiecesOf(pieces) \cup {p}
<1>1. PICK more, size, last : /\ more = Splitter!AddPiece(TextSizes, pieces, p)
                              /\ size = TextSizes.size /\ last = Last(pieces)
  OBVIOUS
<1>2. Within(<<p>>, size) /\ Sequence(<<p>>) /\ ToSet(<<p>>) = {p} /\ AllWithin(pieces, size)
  BY <1>1, ShortWords, OneElement
<1>3. CASE pieces = <<>>
  <2>1. more = Append(pieces, <<p>>)
    BY <1>1, <1>3 DEF Splitter!AddPiece
  <2>2. QED
    BY <1>1, <1>2, <2>1, OneMoreWithin
<1>4. ASSUME pieces # <<>>
      PROVE  /\ Sequence(Front(pieces)) /\ Within(last, size)
             /\ ToSet(pieces) = ToSet(Front(pieces)) \cup {last} /\ AllWithin(Front(pieces), size)
             /\ PiecesOf(pieces) = PiecesOf(Front(pieces)) \cup ToSet(last)
  <2>1. /\ Sequence(Front(pieces)) /\ last \in ToSet(pieces)
        /\ ToSet(pieces) = ToSet(Front(pieces)) \cup {last}
    BY <1>1, <1>2, <1>4, FrontAndLast DEF AllWithin, TextList
  <2>2. QED
    BY <1>2, <2>1 DEF AllWithin, TextList, PiecesOf, Pieces
<1>5. CASE pieces # <<>> /\ Chars(Append(last, p)) <= size
  <2>1. more = Append(Front(pieces), Append(last, p))
    BY <1>1, <1>5, SameEndsOfSpeech DEF Splitter!AddPiece
  <2>2. Sequence(Append(last, p)) /\ ToSet(Append(last, p)) = ToSet(last) \cup {p}
    BY <1>4, <1>5, Appended DEF Within, Sayable
  <2>3. Within(Append(last, p), size)
    BY <1>4, <1>5, <2>2 DEF Within, Sayable
  <2>4. /\ AllWithin(more, size)
        /\ PiecesOf(more) = PiecesOf(Front(pieces)) \cup ToSet(Append(last, p))
    BY <1>4, <1>5, <2>1, <2>3, OneMoreWithin
  <2>5. QED
    BY <1>1, <1>4, <1>5, <2>2, <2>4
<1>6. CASE pieces # <<>> /\ ~(Chars(Append(last, p)) <= size)
  <2>1. PICK e : e = Splitter!Kept(TextSizes, last, p)
    OBVIOUS
  <2>2. more = Append(pieces, Append(e, p))
    BY <1>1, <1>6, <2>1, SameEndsOfSpeech DEF Splitter!AddPiece
  <2>3. Sequence(e) /\ ToSet(e) \subseteq ToSet(last) /\ (e = <<>> \/ Chars(Append(e, p)) <= size)
    BY <1>1, <1>4, <1>6, <2>1, KeptOfSpeech DEF Within, Sayable
  <2>4. Sequence(Append(e, p)) /\ ToSet(Append(e, p)) = ToSet(e) \cup {p}
    BY <2>3, Appended
  <2>5. Within(Append(e, p), size)
    <3>1. CASE e = <<>>
      <4>1. Append(e, p) = <<p>>
        BY <3>1
      <4>2. QED
        BY <1>2, <4>1
    <3>2. CASE Chars(Append(e, p)) <= size
      BY <1>4, <1>6, <2>3, <2>4, <3>2 DEF Within, Sayable
    <3>3. QED
      BY <2>3, <3>1, <3>2
  <2>6. AllWithin(more, size) /\ PiecesOf(more) = PiecesOf(pieces) \cup ToSet(Append(e, p))
    BY <1>2, <2>2, <2>5, OneMoreWithin
  <2>7. QED
    BY <1>1, <1>4, <1>6, <2>3, <2>4, <2>6
<1>7. QED
  BY <1>3, <1>5, <1>6

SpeechPiece(ctx, pieces, p) == Splitter!AddPiece(ctx, pieces, p)

SpeechPieces == INSTANCE FoldFacts WITH Op <- SpeechPiece

LEMMA SplitOfSpeech ==
  ASSUME speech \in Speech, NEW text, Sayable(text)
  PROVE  /\ AllWithin(Splitter!SplitText(TextSizes, text), TextSizes.size)
         /\ PiecesOf(Splitter!SplitText(TextSizes, text)) = ToSet(text)
<1>1. PICK n \in Nat : n = Len(text) /\ DOMAIN text = 1..n /\ \A k \in 1..n : text[k] \in ToSet(text)
  BY Positions DEF Sayable
<1>2. SpeechPieces!FoldsTo(TextSizes, <<>>, text, n)
  BY <1>1, SpeechPieces!FoldLeftSteps
<1>3. PICK acc : /\ acc[0] = <<>>
                 /\ \A k \in 1..n : acc[k] = SpeechPiece(TextSizes, acc[k - 1], text[k])
                 /\ acc[n] = SpeechPieces!Iter(TextSizes, <<>>, text)[DOMAIN text]
  BY <1>2 DEF SpeechPieces!FoldsTo
<1>4. \A k \in 1..n : text[k] \in DOMAIN speech.words
  BY <1>1 DEF Sayable
<1> DEFINE OK(pieces, k) == /\ AllWithin(pieces, TextSizes.size)
                            /\ PiecesOf(pieces) = {text[i] : i \in 1..k}
           S == {k \in Nat : k <= n => OK(acc[k], k)}
<1>5. 0 \in S
  BY <1>3, NoneWithin, NoTexts
<1>6. ASSUME NEW k \in Nat, k \in S PROVE k + 1 \in S
  <2> SUFFICES ASSUME k + 1 <= n PROVE OK(acc[k + 1], k + 1)
    OBVIOUS
  <2>1. k + 1 \in 1..n /\ (k + 1) - 1 = k /\ OK(acc[k], k)
    BY <1>6
  <2>2. acc[k + 1] = Splitter!AddPiece(TextSizes, acc[k], text[k + 1])
    BY <1>3, <2>1 DEF SpeechPiece
  <2>3. 1..(k + 1) = 1..k \cup {k + 1}
    OBVIOUS
  <2>4. /\ AllWithin(acc[k + 1], TextSizes.size)
        /\ PiecesOf(acc[k + 1]) = PiecesOf(acc[k]) \cup {text[k + 1]}
    BY <1>4, <2>1, <2>2, AddPieceOfSpeech
  <2>5. QED
    BY <2>1, <2>3, <2>4
<1>7. Nat \subseteq S
  <2> HIDE DEF S
  <2> QED
    BY <1>5, <1>6, Lines!NatSetInduction
<1>8. OK(acc[n], n)
  <2>1. n \in S
    BY <1>7
  <2>2. QED
    BY <2>1
<1>9. Splitter!SplitText(TextSizes, text) = SpeechPieces!Iter(TextSizes, <<>>, text)[DOMAIN text]
  BY DEF Splitter!SplitText, Splitter!FoldLeft, Splitter!MapThenFoldSet, Splitter!Max,
         FoldLeft, MapThenFoldSet, Max, SpeechPiece, SpeechPieces!Iter, SpeechPieces!Folding,
         SpeechPieces!Latest
<1>10. ToSet(text) = {text[i] : i \in 1..n}
  BY <1>1 DEF ToSet
<1>11. QED
  BY <1>3, <1>8, <1>9, <1>10

\* The words of a turn that have times.
TimedWords(turn) == {turn.words[n].word : n \in DOMAIN turn.words}

\* The texts between the pauses of a turn say its timed words, or all if none has a time.
LEMMA PausesSay ==
  ASSUME NEW turn, SegmentOK(turn)
  PROVE  /\ Sequence(PauseSplit(turn)) /\ \A t \in ToSet(PauseSplit(turn)) : Sayable(t)
         /\ TimedWords(turn) \in {{}, ToSet(turn.text)}
               => ToSet(turn.text) \subseteq PiecesOf(PauseSplit(turn))
<1>1. PICK words_ : words_ = turn.words /\ Sequence(words_)
  BY DEF SegmentOK, Worded
<1>11. PICK m \in Nat : /\ m = Len(words_) /\ DOMAIN words_ = 1..m
                        /\ \A k \in 1..m : words_[k] \in ToSet(words_)
  BY <1>1, Positions
<1>2. \A x \in ToSet(words_) : x.word \in ToSet(turn.text)
  BY <1>1, <1>11 DEF SegmentOK, Worded, ToSet
<1>3. CASE words_ = <<>>
  <2>1. PauseSplit(turn) = <<turn.text>>
    BY <1>1, <1>3 DEF PauseSplit
  <2>2. Sequence(PauseSplit(turn)) /\ ToSet(PauseSplit(turn)) = {turn.text}
    BY <2>1, OneElement
  <2>3. QED
    BY <2>2 DEF SegmentOK, Sayable, PiecesOf, Pieces
<1>4. CASE words_ # <<>>
  <2> DEFINE cuts == {k \in 1 .. Len(turn.words) - 1 :
                         turn.words[k + 1].start - turn.words[k].end >= PAUSE_THRESHOLD}
             p == CutBehind(turn.words, cuts)
  <2>1. /\ cuts \in SUBSET (1..(Len(words_) - 1)) /\ p = CutBehind(words_, cuts)
        /\ PauseSplit(turn) = [k \in DOMAIN p |-> [n \in DOMAIN p[k] |-> p[k][n].word]]
    <3>1. cuts \in SUBSET (1..(Len(words_) - 1))
      BY <1>1
    <3>2. PauseSplit(turn) = IF turn.words = <<>> THEN <<turn.text>>
                             ELSE [k \in DOMAIN p |-> [n \in DOMAIN p[k] |-> p[k][n].word]]
      BY DEF PauseSplit
    <3>3. p = CutBehind(words_, cuts)
      BY <1>1
    <3> HIDE DEF p, cuts
    <3>4. turn.words # <<>>
      BY <1>1, <1>4
    <3>5. PauseSplit(turn) = [k \in DOMAIN p |-> [n \in DOMAIN p[k] |-> p[k][n].word]]
      BY <3>2, <3>4, Zenon
    <3>6. QED
      BY <3>1, <3>3, <3>5, Zenon
  <2> HIDE DEF p, cuts
  <2>2. PICK N, e : N \in Nat /\ CutUp(p, words_, N, e)
    <3>1. \E N \in Nat : \E e : CutUp(p, words_, N, e)
      BY <1>1, <1>4, <2>1, CutsUp
    <3>2. QED
      BY <3>1
  <2>3. DOMAIN p = 1..N /\ \A k \in 1..N : Sequence(p[k])
    BY <2>2 DEF CutUp
  <2>4. /\ \A k \in 1..N : ToSet(p[k]) \subseteq ToSet(words_)
        /\ \A x \in ToSet(words_) : \E k \in 1..N : x \in ToSet(p[k])
    <3>1. Sequence(words_) /\ CutUp(p, words_, N, e)
      BY <1>1, <2>2
    <3>2. N \in Nat
      BY <2>2
    <3>3. QED
      BY <3>1, <3>2, CutElements
  <2>5. PICK ps : ps = PauseSplit(turn) /\ ps = [k \in 1..N |-> [n \in DOMAIN p[k] |-> p[k][n].word]]
    BY <2>1, <2>3
  <2>6. Sequence(ps) /\ DOMAIN ps = 1..N
    <3>1. ps = [k \in 1..N |-> ps[k]] /\ N \in Nat
      BY <2>2, <2>5
    <3>2. QED
      BY <3>1, Listed
  <2>7. ASSUME NEW k \in 1..N
        PROVE  /\ Sequence(ps[k]) /\ ToSet(ps[k]) = {x.word : x \in ToSet(p[k])}
    <3>1. PICK l \in Nat : DOMAIN p[k] = 1..l
      BY <2>3, Positions
    <3>2. PICK t : t = ps[k] /\ t = [n \in 1..l |-> p[k][n].word]
      BY <2>5, <3>1
    <3>3. Sequence(t) /\ DOMAIN t = 1..l
      <4>1. t = [n \in 1..l |-> t[n]]
        BY <3>2
      <4>2. QED
        BY <4>1, Listed
    <3>4. ToSet(t) = {p[k][n].word : n \in 1..l}
      BY <3>2, <3>3 DEF ToSet
    <3>5. {x.word : x \in ToSet(p[k])} = {p[k][n].word : n \in 1..l}
      BY <3>1 DEF ToSet
    <3>6. QED
      BY <3>2, <3>3, <3>4, <3>5
  <2>8. \A k \in 1..N : Sayable(ps[k])
    BY <1>2, <2>4, <2>7 DEF Sayable, SegmentOK
  <2>9. TimedWords(turn) = {x.word : x \in ToSet(words_)}
    BY <1>1, <1>11 DEF TimedWords, ToSet
  <2>10. ToSet(ps) = {ps[k] : k \in 1..N}
    BY <2>6 DEF ToSet
  <2>11. TimedWords(turn) \subseteq PiecesOf(ps)
    <3>1. ASSUME NEW x \in ToSet(words_) PROVE x.word \in PiecesOf(ps)
      <4>1. PICK k \in 1..N : x \in ToSet(p[k])
        BY <2>4
      <4>2. x.word \in ToSet(ps[k]) /\ ps[k] \in ToSet(ps)
        BY <2>7, <2>10, <4>1
      <4>3. QED
        BY <4>2 DEF PiecesOf, Pieces
    <3>2. QED
      BY <2>9, <3>1
  <2>12. TimedWords(turn) # {}
    <3>1. ToSet(words_) # {}
      BY <1>1, <1>4, NoneIsEmpty
    <3>2. QED
      BY <2>9, <3>1
  <2>13. \A t \in ToSet(ps) : Sayable(t)
    BY <2>8, <2>10
  <2>14. QED
    BY <2>5, <2>6, <2>11, <2>12, <2>13
<1>5. QED
  BY <1>3, <1>4

\* A long turn by itself.
LEMMA SoloSays ==
  ASSUME speech \in Speech, NEW turn, SegmentOK(turn)
  PROVE  /\ AllWithin(Solo(turn), CHUNK_SIZE)
         /\ TimedWords(turn) \in {{}, ToSet(turn.text)} => ToSet(turn.text) \subseteq PiecesOf(Solo(turn))
<1>1. PICK ps, size : ps = PauseSplit(turn) /\ size = TextSizes.size
  OBVIOUS
<1>2. PICK f : f = [k \in DOMAIN ps |-> IF Chars(ps[k]) <= CHUNK_SIZE THEN <<ps[k]>>
                                        ELSE Splitter!SplitText(TextSizes, ps[k])]
  OBVIOUS
<1>3. Solo(turn) = FlattenSeq(f)
  BY <1>1, <1>2 DEF Solo, FlatMap
<1>4. /\ Sequence(ps) /\ \A t \in ToSet(ps) : Sayable(t)
      /\ TimedWords(turn) \in {{}, ToSet(turn.text)} => ToSet(turn.text) \subseteq PiecesOf(ps)
  BY <1>1, PausesSay
<1>5. ASSUME NEW k \in DOMAIN ps
      PROVE  TextList(f[k]) /\ AllWithin(f[k], CHUNK_SIZE) /\ PiecesOf(f[k]) = ToSet(ps[k])
  <2>1. Sayable(ps[k])
    BY <1>4 DEF ToSet
  <2>2. CASE Chars(ps[k]) <= CHUNK_SIZE
    <3>1. f[k] = <<ps[k]>>
      BY <1>2, <2>2
    <3>2. Sequence(f[k]) /\ ToSet(f[k]) = {ps[k]}
      BY <3>1, OneElement
    <3>3. QED
      BY <2>1, <2>2, <3>2 DEF AllWithin, TextList, Within, Sayable, PiecesOf, Pieces
  <2>3. CASE ~(Chars(ps[k]) <= CHUNK_SIZE)
    <3>1. f[k] = Splitter!SplitText(TextSizes, ps[k])
      BY <1>2, <2>3
    <3>2. AllWithin(f[k], TextSizes.size) /\ PiecesOf(f[k]) = ToSet(ps[k])
      BY <2>1, <3>1, SplitOfSpeech
    <3>3. TextSizes.size \in Int /\ CHUNK_SIZE \in Int /\ TextSizes.size <= CHUNK_SIZE
      BY SizesOfChunks
    <3>4. AllWithin(f[k], CHUNK_SIZE)
      BY <3>2, <3>3, WithinMore DEF AllWithin
    <3>5. QED
      BY <3>2, <3>4 DEF AllWithin
  <2>4. QED
    BY <2>2, <2>3
<1>6. f = [k \in DOMAIN ps |-> f[k]]
  BY <1>2
<1>7. /\ TextList(FlattenSeq(f))
      /\ \A p : p \in PiecesOf(FlattenSeq(f)) <=> \E k \in DOMAIN ps : p \in PiecesOf(f[k])
  BY <1>4, <1>5, <1>6, MappedTexts
<1>8. \A t \in ToSet(FlattenSeq(f)) : Within(t, CHUNK_SIZE)
  <2>1. \A k \in DOMAIN ps : Sequence(f[k])
    BY <1>5 DEF TextList
  <2>2. \A t : t \in ToSet(FlattenSeq(f)) <=> \E k \in DOMAIN ps : t \in ToSet(f[k])
    BY <1>4, <1>6, <2>1, MappedOver
  <2>3. QED
    BY <1>5, <2>2 DEF AllWithin
<1>9. PiecesOf(ps) \subseteq PiecesOf(FlattenSeq(f))
  BY <1>5, <1>7 DEF PiecesOf, Pieces, ToSet
<1>10. QED
  BY <1>3, <1>4, <1>7, <1>8, <1>9 DEF AllWithin

LEMMA NothingWithin ==
  ASSUME speech \in Speech
  PROVE  Within(<<>>, CHUNK_SIZE)
<1>1. Sayable(<<>>) /\ Len(<<>>) = 0
  BY NoElements DEF Sayable
<1>2. Chars(<<>>) = -1 /\ CHUNK_SIZE \in Nat
  BY <1>1, CharsOf, SizesOfChunks
<1>3. QED
  BY <1>1, <1>2 DEF Within

LEMMA EmittedOfSpeech ==
  ASSUME NEW max, NEW s, AllWithin(s, max), NEW buffer, Within(buffer, max)
  PROVE  /\ AllWithin(Splitter!Emit(s, buffer), max)
         /\ PiecesOf(Splitter!Emit(s, buffer)) = PiecesOf(s) \cup ToSet(buffer)
<1>1. CASE buffer = <<>>
  BY <1>1, NoElements DEF Splitter!Emit
<1>2. CASE buffer # <<>>
  BY <1>2, OneMoreWithin DEF Splitter!Emit
<1>3. QED
  BY <1>1, <1>2

\* Turns that were packed: chunks and a buffer, none too long.
Filled(acc) ==
    /\ acc = [chunked |-> acc.chunked, buffer |-> acc.buffer]
    /\ AllWithin(acc.chunked, CHUNK_SIZE) /\ Within(acc.buffer, CHUNK_SIZE)

\* All of a turn is in a text, unless some of its words have times and some have not.
SaidIn(turn, words_) ==
    TimedWords(turn) \in {{}, ToSet(turn.text)} => ToSet(turn.text) \subseteq words_

LEMMA TurnPacked ==
  ASSUME speech \in Speech, NEW acc, Filled(acc), NEW turn, SegmentOK(turn)
  PROVE  LET more == AddTurn(acc, turn)
         IN  Filled(more) /\ Held(acc) \subseteq Held(more) /\ SaidIn(turn, Held(more))
<1>1. PICK more, emitted, solo : /\ more = AddTurn(acc, turn)
                                 /\ emitted = Splitter!Emit(acc.chunked, acc.buffer)
                                 /\ solo = Solo(turn)
  OBVIOUS
<1>2. AllWithin(emitted, CHUNK_SIZE) /\ PiecesOf(emitted) = Held(acc)
  BY <1>1, EmittedOfSpeech DEF Filled, Held
<1>3. Sayable(turn.text) /\ Chars(turn.text) \in Int /\ CHUNK_SIZE \in Nat
  BY CharsOf, SizesOfChunks DEF SegmentOK, Sayable
<1>4. \/ turn.text = <<>> /\ more = acc
      \/ more = [chunked |-> emitted \o solo, buffer |-> <<>>]
      \/ Chars(acc.buffer \o turn.text) <= CHUNK_SIZE /\ more = [acc EXCEPT !.buffer = @ \o turn.text]
      \/ /\ turn.text # <<>> /\ ~(Chars(turn.text) > CHUNK_SIZE)
         /\ more = [chunked |-> emitted, buffer |-> turn.text]
  <2> DEFINE p == turn.text = <<>>
             q == Chars(turn.text) > CHUNK_SIZE
             r == Chars(acc.buffer \o turn.text) <= CHUNK_SIZE
  <2>1. more = CASE p -> acc
                 [] ~p /\ q -> [chunked |-> emitted \o solo, buffer |-> <<>>]
                 [] ~p /\ ~q /\ r -> [acc EXCEPT !.buffer = @ \o turn.text]
                 [] OTHER -> [chunked |-> emitted, buffer |-> turn.text]
    BY <1>1 DEF AddTurn
  <2>2. CASE p
    <3>1. CASE more = acc
      BY <2>2, <3>1
    <3>2. QED
      BY <2>1, <2>2
  <2> HIDE DEF p, q, r
  <2>3. CASE ~p /\ q
    BY <2>1, <2>3 DEF r
  <2>4. CASE ~p /\ ~q /\ r
    BY <2>1, <2>4 DEF r
  <2>5. CASE ~p /\ ~q /\ ~r
    <3>1. more = [chunked |-> emitted, buffer |-> turn.text]
      BY <2>1, <2>5
    <3>2. QED
      BY <2>5, <3>1 DEF p, q
  <2>6. QED
    BY <2>2, <2>3, <2>4, <2>5
<1>5. CASE turn.text = <<>> /\ more = acc
  <2>1. ToSet(turn.text) = {}
    BY <1>5, NoElements
  <2>2. QED
    BY <1>1, <1>5, <2>1 DEF SaidIn
<1>6. CASE more = [chunked |-> emitted \o solo, buffer |-> <<>>]
  <2>1. AllWithin(solo, CHUNK_SIZE) /\ SaidIn(turn, PiecesOf(solo))
    BY <1>1, SoloSays DEF SaidIn
  <2>2. PICK both : both = emitted \o solo
    OBVIOUS
  <2>3. AllWithin(both, CHUNK_SIZE) /\ PiecesOf(both) = PiecesOf(emitted) \cup PiecesOf(solo)
    <3>1. AllWithin(both, CHUNK_SIZE)
      BY <1>2, <2>1, <2>2, BothWithin
    <3>2. PiecesOf(both) = PiecesOf(emitted) \cup PiecesOf(solo)
      BY <1>2, <2>1, <2>2, MoreTexts DEF AllWithin
    <3>3. QED
      BY <3>1, <3>2
  <2>4. more.chunked = both /\ more.buffer = <<>> /\ more = [chunked |-> more.chunked, buffer |-> more.buffer]
    BY <1>6, <2>2
  <2>5. Filled(more)
    BY <2>3, <2>4, NothingWithin DEF Filled
  <2>6. Held(more) = Held(acc) \cup PiecesOf(solo)
    BY <1>2, <2>3, <2>4, NoElements DEF Held
  <2>7. QED
    BY <1>1, <2>1, <2>5, <2>6 DEF SaidIn
<1>7. CASE Chars(acc.buffer \o turn.text) <= CHUNK_SIZE /\ more = [acc EXCEPT !.buffer = @ \o turn.text]
  <2>1. PICK both : both = acc.buffer \o turn.text
    OBVIOUS
  <2>2. Sequence(both) /\ ToSet(both) = ToSet(acc.buffer) \cup ToSet(turn.text)
    BY <1>3, <2>1, Joining DEF Filled, Within, Sayable
  <2>3. Within(both, CHUNK_SIZE)
    BY <1>3, <1>7, <2>1, <2>2 DEF Filled, Within, Sayable
  <2>4. more = [chunked |-> acc.chunked, buffer |-> both]
    BY <1>7, <2>1 DEF Filled
  <2>5. Filled(more) /\ Held(more) = Held(acc) \cup ToSet(turn.text)
    BY <2>2, <2>3, <2>4 DEF Filled, Held
  <2>6. QED
    BY <1>1, <2>5 DEF SaidIn
<1>8. CASE /\ turn.text # <<>> /\ ~(Chars(turn.text) > CHUNK_SIZE)
           /\ more = [chunked |-> emitted, buffer |-> turn.text]
  <2>1. Within(turn.text, CHUNK_SIZE)
    BY <1>3, <1>8 DEF Within
  <2>2. Filled(more)
    BY <1>2, <1>8, <2>1 DEF Filled
  <2>3. Held(more) = Held(acc) \cup ToSet(turn.text)
    BY <1>2, <1>8 DEF Held
  <2>4. QED
    BY <1>1, <2>2, <2>3 DEF SaidIn
<1>9. QED
  BY <1>4, <1>5, <1>6, <1>7, <1>8

SpeechTurn(ctx, acc, turn) == AddTurn(acc, turn)

SpeechTurns == INSTANCE FoldFacts WITH Op <- SpeechTurn

LEMMA PackedSays ==
  ASSUME speech \in Speech, SegmentsOK(segments)
  PROVE  /\ AllWithin(Packed, CHUNK_SIZE)
         /\ \A k \in DOMAIN segments : SaidIn(segments[k], PiecesOf(Packed))
<1>1. PICK segs, base : segs = segments /\ base = [chunked |-> <<>>, buffer |-> <<>>]
  OBVIOUS
<1>2. PICK n \in Nat : n = Len(segs) /\ DOMAIN segs = 1..n
  BY <1>1, Positions DEF SegmentsOK
<1>3. SpeechTurns!FoldsTo(0, base, segs, n)
  BY <1>2, SpeechTurns!FoldLeftSteps
<1>4. PICK acc : /\ acc[0] = base
                 /\ \A k \in 1..n : acc[k] = SpeechTurn(0, acc[k - 1], segs[k])
                 /\ acc[n] = SpeechTurns!Iter(0, base, segs)[DOMAIN segs]
  BY <1>3 DEF SpeechTurns!FoldsTo
<1> DEFINE OK(a, k) == Filled(a) /\ \A i \in 1..k : SaidIn(segs[i], Held(a))
           S == {k \in Nat : k <= n => OK(acc[k], k)}
<1>5. 0 \in S
  <2>1. base.chunked = <<>> /\ base.buffer = <<>> /\ base = [chunked |-> base.chunked, buffer |-> base.buffer]
    BY <1>1
  <2>2. Filled(base)
    BY <2>1, NoneWithin, NothingWithin DEF Filled
  <2>3. QED
    BY <1>4, <2>2
<1>6. ASSUME NEW k \in Nat, k \in S PROVE k + 1 \in S
  <2> SUFFICES ASSUME k + 1 <= n PROVE OK(acc[k + 1], k + 1)
    OBVIOUS
  <2>1. k + 1 \in 1..n /\ (k + 1) - 1 = k /\ OK(acc[k], k)
    BY <1>6
  <2>2. acc[k + 1] = AddTurn(acc[k], segs[k + 1]) /\ SegmentOK(segs[k + 1])
    BY <1>1, <1>2, <1>4, <2>1 DEF SpeechTurn, SegmentsOK
  <2>3. 1..(k + 1) = 1..k \cup {k + 1}
    OBVIOUS
  <2>4. /\ Filled(acc[k + 1]) /\ Held(acc[k]) \subseteq Held(acc[k + 1])
        /\ SaidIn(segs[k + 1], Held(acc[k + 1]))
    BY <2>1, <2>2, TurnPacked
  <2>5. \A i \in 1..k : SaidIn(segs[i], Held(acc[k + 1]))
    BY <2>1, <2>4 DEF SaidIn
  <2>6. QED
    BY <2>3, <2>4, <2>5
<1>7. Nat \subseteq S
  <2> HIDE DEF S
  <2> QED
    BY <1>5, <1>6, Lines!NatSetInduction
<1>8. OK(acc[n], n)
  <2>1. n \in S
    BY <1>7
  <2>2. QED
    BY <2>1
<1>9. PICK all : all = acc[n]
  OBVIOUS
<1>10. Packed = Splitter!Emit(all.chunked, all.buffer)
  <2>1. PICK whole : whole = FoldLeft(AddTurn, base, segs)
    OBVIOUS
  <2>2. whole = SpeechTurns!Iter(0, base, segs)[DOMAIN segs]
    BY <2>1 DEF FoldLeft, MapThenFoldSet, Max, SpeechTurn, SpeechTurns!Iter, SpeechTurns!Folding,
                SpeechTurns!Latest
  <2>3. Packed = Splitter!Emit(whole.chunked, whole.buffer)
    BY <1>1, <2>1 DEF Packed
  <2>4. QED
    BY <1>4, <1>9, <2>2, <2>3
<1>11. AllWithin(Packed, CHUNK_SIZE) /\ PiecesOf(Packed) = Held(all)
  BY <1>8, <1>9, <1>10, EmittedOfSpeech DEF Filled, Held
<1>12. QED
  BY <1>1, <1>2, <1>8, <1>9, <1>11

Neighbour(ctx, acc, chunk) == AddNeighbour(ctx, acc, chunk)

Neighbours == INSTANCE FoldFacts WITH Op <- Neighbour

\* Neighbours that are merged say the same, in chunks of at most two.
LEMMA RefinedSays ==
  ASSUME speech \in Speech, NEW packed, AllWithin(packed, CHUNK_SIZE),
         NEW alike \in SUBSET (1 .. Len(packed) - 1)
  PROVE  /\ AllWithin(Refined(packed, alike), 2 * CHUNK_SIZE)
         /\ PiecesOf(Refined(packed, alike)) = PiecesOf(packed)
<1>1. PICK base, max : base = [n |-> 0, texts |-> <<>>] /\ max = 2 * CHUNK_SIZE
  OBVIOUS
<1>2. PICK n \in Nat : n = Len(packed) /\ DOMAIN packed = 1..n /\ \A k \in 1..n : packed[k] \in ToSet(packed)
  BY Positions DEF AllWithin, TextList
<1>3. Neighbours!FoldsTo(alike, base, packed, n)
  BY <1>2, Neighbours!FoldLeftSteps
<1>4. PICK acc : /\ acc[0] = base
                 /\ \A k \in 1..n : acc[k] = Neighbour(alike, acc[k - 1], packed[k])
                 /\ acc[n] = Neighbours!Iter(alike, base, packed)[DOMAIN packed]
  BY <1>3 DEF Neighbours!FoldsTo
<1>5. \A k \in 1..n : Within(packed[k], max)
  <2>1. CHUNK_SIZE \in Int /\ max \in Int /\ CHUNK_SIZE <= max
    BY <1>1, SizesOfChunks
  <2>2. QED
    BY <1>2, <2>1, WithinMore DEF AllWithin
<1>6. \A k \in alike : k # 0
  BY <1>2
<1> DEFINE OK(a, k) == /\ a.n = k /\ AllWithin(a.texts, max)
                       /\ k # 0 => a.texts # <<>>
                       /\ PiecesOf(a.texts) = UNION {ToSet(packed[i]) : i \in 1..k}
           S == {k \in Nat : k <= n => OK(acc[k], k)}
<1>7. 0 \in S
  <2>1. base.n = 0 /\ base.texts = <<>>
    BY <1>1
  <2>2. AllWithin(base.texts, max) /\ PiecesOf(base.texts) = {}
    BY <2>1, NoneWithin, NoTexts
  <2>3. OK(base, 0)
    BY <2>1, <2>2
  <2>4. QED
    BY <1>4, <2>3
<1>8. ASSUME NEW k \in Nat, k \in S PROVE k + 1 \in S
  <2> SUFFICES ASSUME k + 1 <= n PROVE OK(acc[k + 1], k + 1)
    OBVIOUS
  <2>1. k + 1 \in 1..n /\ (k + 1) - 1 = k /\ k + 1 # 0 /\ OK(acc[k], k)
    BY <1>8
  <2>2. PICK texts_, more, chunk : texts_ = acc[k].texts /\ more = acc[k + 1].texts /\ chunk = packed[k + 1]
    OBVIOUS
  <2>3. acc[k].n = k /\ AllWithin(texts_, max) /\ (k # 0 => texts_ # <<>>)
    BY <2>1, <2>2
  <2>4. Within(chunk, max)
    BY <1>5, <2>1, <2>2
  <2>5. acc[k + 1] = AddNeighbour(alike, acc[k], chunk)
    BY <1>4, <2>1, <2>2 DEF Neighbour
  <2>6. /\ acc[k + 1].n = k + 1
        /\ \/ more = Append(texts_, chunk)
           \/ /\ k \in alike /\ Chars(Last(texts_) \o chunk) <= max
              /\ more = Append(Front(texts_), Last(texts_) \o chunk)
    <3>1. PICK a : a = acc[k]
      OBVIOUS
    <3>2. a.n = k /\ a.texts = texts_ /\ acc[k + 1] = AddNeighbour(alike, a, chunk)
      BY <2>2, <2>3, <2>5, <3>1
    <3>3. AddNeighbour(alike, a, chunk).n = a.n + 1
      BY DEF AddNeighbour
    <3>4. \/ AddNeighbour(alike, a, chunk).texts = Append(a.texts, chunk)
          \/ /\ a.n \in alike /\ Chars(Last(a.texts) \o chunk) <= 2 * CHUNK_SIZE
             /\ AddNeighbour(alike, a, chunk).texts = Append(Front(a.texts), Last(a.texts) \o chunk)
      BY DEF AddNeighbour
    <3>5. QED
      BY <1>1, <2>2, <3>2, <3>3, <3>4
  <2>7. AllWithin(more, max) /\ PiecesOf(more) = PiecesOf(texts_) \cup ToSet(chunk) /\ more # <<>>
    <3>1. CASE more = Append(texts_, chunk)
      <4>1. AllWithin(more, max) /\ PiecesOf(more) = PiecesOf(texts_) \cup ToSet(chunk)
        BY <2>3, <2>4, <3>1, OneMoreWithin
      <4>2. more # <<>>
        BY <2>3, <3>1, Appended DEF AllWithin, TextList
      <4>3. QED
        BY <4>1, <4>2
    <3>2. CASE /\ k \in alike /\ Chars(Last(texts_) \o chunk) <= max
               /\ more = Append(Front(texts_), Last(texts_) \o chunk)
      <4>1. PICK last, joined : last = Last(texts_) /\ joined = last \o chunk
        OBVIOUS
      <4>2. /\ Sequence(Front(texts_)) /\ last \in ToSet(texts_)
            /\ ToSet(texts_) = ToSet(Front(texts_)) \cup {last}
        BY <1>6, <2>3, <3>2, <4>1, FrontAndLast DEF AllWithin, TextList
      <4>3. Within(last, max) /\ AllWithin(Front(texts_), max)
        BY <2>3, <4>2 DEF AllWithin, TextList
      <4>4. Sequence(joined) /\ ToSet(joined) = ToSet(last) \cup ToSet(chunk)
        BY <2>4, <4>1, <4>3, Joining DEF Within, Sayable
      <4>5. Within(joined, max)
        BY <2>4, <3>2, <4>1, <4>3, <4>4 DEF Within, Sayable
      <4>6. AllWithin(more, max) /\ PiecesOf(more) = PiecesOf(Front(texts_)) \cup ToSet(joined)
        BY <3>2, <4>1, <4>3, <4>5, OneMoreWithin
      <4>7. PiecesOf(texts_) = PiecesOf(Front(texts_)) \cup ToSet(last)
        BY <4>2 DEF PiecesOf, Pieces
      <4>8. more # <<>>
        BY <3>2, <4>1, <4>2, Appended
      <4>9. QED
        BY <4>4, <4>6, <4>7, <4>8
    <3>3. QED
      BY <2>6, <3>1, <3>2
  <2>8. UNION {ToSet(packed[i]) : i \in 1..(k + 1)} = (UNION {ToSet(packed[i]) : i \in 1..k}) \cup ToSet(chunk)
    <3>1. 1..(k + 1) = 1..k \cup {k + 1}
      OBVIOUS
    <3>2. QED
      BY <2>2, <3>1
  <2>9. OK(acc[k + 1], k + 1)
    BY <2>1, <2>2, <2>6, <2>7, <2>8
  <2>10. QED
    BY <2>9
<1>9. Nat \subseteq S
  <2> HIDE DEF S
  <2> QED
    BY <1>7, <1>8, Lines!NatSetInduction
<1>10. OK(acc[n], n)
  <2>1. n \in S
    BY <1>9
  <2> HIDE DEF OK
  <2>2. QED
    BY <2>1
<1>11. Refined(packed, alike) = acc[n].texts
  <2>1. PICK whole : whole = Neighbours!Iter(alike, base, packed)[DOMAIN packed]
    OBVIOUS
  <2>2. FoldLeft(LAMBDA a, c : AddNeighbour(alike, a, c), base, packed) = whole
    BY <2>1 DEF FoldLeft, MapThenFoldSet, Max, Neighbour, Neighbours!Iter, Neighbours!Folding,
                Neighbours!Latest
  <2>3. Refined(packed, alike) = FoldLeft(LAMBDA a, c : AddNeighbour(alike, a, c), base, packed).texts
    BY <1>1 DEF Refined
  <2>4. QED
    BY <1>4, <2>1, <2>2, <2>3
<1>12. PiecesOf(packed) = UNION {ToSet(packed[i]) : i \in 1..n}
  <2>1. ToSet(packed) = {packed[i] : i \in 1..n}
    BY <1>2 DEF ToSet
  <2>2. QED
    BY <2>1 DEF PiecesOf, Pieces
<1>13. PICK r : r = acc[n].texts
  OBVIOUS
<1>14. AllWithin(r, max) /\ PiecesOf(r) = UNION {ToSet(packed[i]) : i \in 1..n}
  BY <1>10, <1>13
<1>15. QED
  BY <1>1, <1>11, <1>12, <1>13, <1>14

\* What the chunks of the turns say.
SayAll(chunks_) ==
    /\ AllWithin(chunks_, 2 * CHUNK_SIZE)
    /\ \A k \in DOMAIN segments : SaidIn(segments[k], PiecesOf(chunks_))

LEMMA TurnsChunked ==
  ASSUME speech \in Speech, SegmentsOK(segments), ChunkTurns
  PROVE  SayAll(mediaChunks')
<1>1. PICK packed : packed = Packed
  OBVIOUS
<1>2. PICK alike \in SUBSET (1 .. Len(packed) - 1) : mediaChunks' = Refined(packed, alike)
  BY <1>1 DEF ChunkTurns
<1>3. /\ AllWithin(packed, CHUNK_SIZE)
      /\ \A k \in DOMAIN segments : SaidIn(segments[k], PiecesOf(packed))
  BY <1>1, PackedSays
<1>4. PICK r : r = Refined(packed, alike)
  OBVIOUS
<1>5. AllWithin(r, 2 * CHUNK_SIZE) /\ PiecesOf(r) = PiecesOf(packed)
  BY <1>3, <1>4, RefinedSays
<1>6. QED
  BY <1>2, <1>3, <1>4, <1>5 DEF SayAll

-----------------------------------------------------------------------------
(* The transcript: its invariant                                           *)

\* The windows that were heard so far.
Listened ==
    /\ speech \in Speech /\ backend \in Backend
    /\ Sequence(heard) /\ Len(heard) <= Len(Windows)
    /\ \A k \in DOMAIN heard : HeardIn(heard[k], Windows[k])

SpeechInv ==
    /\ Listened
    /\ mediaStage \in {"transcribe", "diarize", "join", "chunk", "done"}
    /\ SegmentsOK(segments)
    /\ mediaStage = "diarize" => Len(heard) = Len(Windows) /\ segments = MergedFile
    /\ mediaStage # "done" => mediaChunks = <<>>
    /\ mediaStage = "done" => SayAll(mediaChunks)

LEMMA NoSegments == SegmentsOK(<<>>)
BY NoElements DEF SegmentsOK

LEMMA SpeechStart == TranscriptInit => SpeechInv
<1> SUFFICES ASSUME TranscriptInit PROVE SpeechInv
  OBVIOUS
<1>1. /\ speech \in Speech /\ backend \in Backend /\ mediaStage = "transcribe"
      /\ heard = <<>> /\ segments = <<>> /\ mediaChunks = <<>>
  BY DEF TranscriptInit
<1>2. Sequence(heard) /\ DOMAIN heard = {} /\ Len(heard) = 0
  BY <1>1, NoElements
<1>3. Len(heard) <= Len(Windows)
  <2>1. PICK n \in Nat \ {0} : n = Len(Windows)
    BY <1>1, WindowsOrdered
  <2>2. QED
    BY <1>2, <2>1
<1>4. QED
  BY <1>1, <1>2, <1>3, NoSegments DEF SpeechInv, Listened

\* What is said of windows and segments stays true of the same file.
LEMMA SameSpeech ==
  ASSUME speech' = speech, backend' = backend
  PROVE  /\ Windows' = Windows
         /\ \A h : \A w : HeardIn(h, w)' <=> HeardIn(h, w)
         /\ \A segs : SegmentsOK(segs)' <=> SegmentsOK(segs)
         /\ \A text : Chars(text)' = Chars(text)
<1>1. Windows' = Windows
  BY DEF Windows
<1>2. ASSUME NEW h, NEW w PROVE HeardIn(h, w)' <=> HeardIn(h, w)
  BY DEF HeardIn, Voiced, Mute, Worded, Spelt, Begin, End
<1>3. ASSUME NEW segs PROVE SegmentsOK(segs)' <=> SegmentsOK(segs)
  BY DEF SegmentsOK, SegmentOK, Worded
<1>4. ASSUME NEW text PROVE Chars(text)' = Chars(text)
  BY DEF Chars, FoldLeft, MapThenFoldSet
<1>5. QED
  BY <1>1, <1>2, <1>3, <1>4

\* Chunks say what they said, and are as long.
LEMMA SameSayings ==
  ASSUME speech' = speech, segments' = segments, NEW c, c = mediaChunks', SayAll(c)
  PROVE  SayAll(mediaChunks)'
<1>1. PICK m : m = 2 * CHUNK_SIZE
  OBVIOUS
<1>2. AllWithin(c, m) /\ \A k \in DOMAIN segments : SaidIn(segments[k], PiecesOf(c))
  BY <1>1 DEF SayAll
<1>3. AllWithin(mediaChunks, m)'
  <2>1. ASSUME NEW t PROVE Within(t, m)' <=> Within(t, m)
    <3>1. Chars(t)' = Chars(t)
      BY DEF Chars, FoldLeft, MapThenFoldSet
    <3>2. QED
      BY <3>1 DEF Within, Sayable
  <2>2. TextList(c) /\ \A t \in ToSet(c) : Within(t, m)'
    BY <1>2, <2>1 DEF AllWithin
  <2>3. TextList(mediaChunks)' /\ \A t \in ToSet(mediaChunks)' : Within(t, m)'
    BY <2>2
  <2>4. QED
    BY <2>3 DEF AllWithin
<1>4. \A k \in DOMAIN segments' : SaidIn(segments'[k], PiecesOf(mediaChunks'))
  BY <1>2
<1>5. QED
  BY <1>1, <1>3, <1>4 DEF SayAll

\* What the steps leave as it is.
LEMMA SameFile ==
  ASSUME SpeechInv, speech' = speech, backend' = backend, heard' = heard
  PROVE  Listened'
<1>1. Windows' = Windows /\ \A h : \A w : HeardIn(h, w)' <=> HeardIn(h, w)
  BY SameSpeech
<1>2. PICK hs, ws : hs = heard /\ hs = heard' /\ ws = Windows /\ ws = Windows'
  BY <1>1
<1>3. \A k \in DOMAIN hs : HeardIn(hs[k], ws[k])'
  BY <1>1, <1>2 DEF SpeechInv, Listened
<1>4. (\A k \in DOMAIN heard : HeardIn(heard[k], Windows[k]))'
  BY <1>2, <1>3
<1>5. /\ speech' \in Speech /\ backend' \in Backend
      /\ Sequence(hs) /\ Len(hs) <= Len(ws)
  BY <1>2 DEF SpeechInv, Listened
<1>6. QED
  BY <1>2, <1>4, <1>5 DEF Listened

\* A step to an asset between the first and the last.
LEMMA PassedOn ==
  ASSUME SpeechInv, NEW result, SegmentsOK(result), NEW next \in {"join", "chunk"},
         PassOn(next, result), mediaStage # "done", UNCHANGED mediaChunks
  PROVE  SpeechInv'
<1>1. /\ mediaStage' = next /\ segments' = result
      /\ speech' = speech /\ backend' = backend /\ heard' = heard
  BY DEF PassOn
<1>2. Listened'
  BY <1>1, SameFile
<1>3. SegmentsOK(segments)'
  <2>1. \A segs : SegmentsOK(segs)' <=> SegmentsOK(segs)
    BY <1>1, SameSpeech
  <2>2. SegmentsOK(result)'
    BY <2>1
  <2>3. QED
    BY <1>1, <2>2 DEF SegmentsOK, SegmentOK
<1>4. mediaStage' # "done" /\ mediaStage' # "diarize" /\ mediaChunks' = <<>>
  BY <1>1 DEF SpeechInv
<1>5. QED
  BY <1>1, <1>2, <1>3, <1>4 DEF SpeechInv

LEMMA TranscribeWindowKeeps == ASSUME SpeechInv, TranscribeWindow PROVE SpeechInv'
<1>1. /\ mediaStage = "transcribe" /\ Len(heard) < Len(Windows)
      /\ UNCHANGED <<speech, backend, mediaStage, segments, mediaChunks>>
  BY DEF TranscribeWindow
<1>2. PICK h : heard' = Append(heard, h) /\ HeardIn(h, Windows[Len(heard) + 1])
  BY WindowHeard DEF SpeechInv, Listened
<1>3. /\ Windows' = Windows /\ \A g : \A w : HeardIn(g, w)' <=> HeardIn(g, w)
      /\ \A segs : SegmentsOK(segs)' <=> SegmentsOK(segs)
  BY <1>1, SameSpeech
<1>4. PICK hs : hs = heard /\ Sequence(hs)
  BY DEF SpeechInv, Listened
<1>5. PICK n \in Nat : n = Len(hs) /\ DOMAIN hs = 1..n
  BY <1>4, Positions
<1>6. /\ Sequence(Append(hs, h)) /\ Len(Append(hs, h)) = n + 1 /\ DOMAIN Append(hs, h) = 1..(n + 1)
      /\ \A k \in 1..n : Append(hs, h)[k] = hs[k]
      /\ Append(hs, h)[n + 1] = h
  <2>1. Sequence(Append(hs, h))
    BY <1>4, Appended
  <2>2. QED
    BY <1>4, <1>5, <2>1 DEF Sequence
<1>7. PICK m \in Nat : m = Len(Windows)
  BY WindowsOrdered DEF SpeechInv, Listened
<1>8. n + 1 <= m
  BY <1>1, <1>4, <1>5, <1>7
<1>9. \A k \in 1..(n + 1) : HeardIn(Append(hs, h)[k], Windows[k])
  <2>1. \A k \in 1..n : HeardIn(hs[k], Windows[k])
    BY <1>4, <1>5 DEF SpeechInv, Listened
  <2>2. HeardIn(h, Windows[n + 1])
    BY <1>2, <1>4, <1>5
  <2>3. 1..(n + 1) = 1..n \cup {n + 1}
    OBVIOUS
  <2>4. QED
    BY <1>6, <2>1, <2>2, <2>3
<1>10. Sequence(heard') /\ Len(heard') <= Len(Windows')
  BY <1>2, <1>3, <1>4, <1>6, <1>7, <1>8
<1>11. Listened'
  <2>1. PICK g, ws : g = Append(hs, h) /\ g = heard' /\ ws = Windows /\ ws = Windows'
    BY <1>2, <1>3, <1>4
  <2>2. \A k \in DOMAIN g : HeardIn(g[k], ws[k])'
    BY <1>3, <1>6, <1>9, <2>1
  <2>3. (\A k \in DOMAIN heard : HeardIn(heard[k], Windows[k]))'
    BY <2>1, <2>2
  <2>4. QED
    BY <1>1, <1>10, <2>3 DEF SpeechInv, Listened
<1>12. SegmentsOK(segments)'
  <2>1. PICK segs : segs = segments /\ segs = segments'
    BY <1>1
  <2>2. SegmentsOK(segs)'
    BY <1>3, <2>1 DEF SpeechInv
  <2>3. QED
    BY <2>1, <2>2 DEF SegmentsOK, SegmentOK
<1>13. QED
  BY <1>1, <1>11, <1>12 DEF SpeechInv

LEMMA MergeWindowsKeeps == ASSUME SpeechInv, MergeWindows PROVE SpeechInv'
<1>1. /\ mediaStage = "transcribe" /\ Len(heard) = Len(Windows)
      /\ mediaStage' = "diarize" /\ segments' = MergedFile /\ mediaChunks' = mediaChunks
      /\ speech' = speech /\ backend' = backend /\ heard' = heard
  BY DEF MergeWindows, PassOn, MergedFile
<1>2. Listened'
  BY <1>1, SameFile
<1>3. AllHeard
  BY <1>1 DEF SpeechInv, Listened, AllHeard
<1>4. PICK r : r = MergedFile
  OBVIOUS
<1>5. SegmentsOK(r)
  BY <1>3, <1>4, MergedSegments DEF SpeechInv, Listened, SegmentsOK
<1>6. SegmentsOK(segments)'
  <2>1. SegmentsOK(r)'
    BY <1>1, <1>5, SameSpeech
  <2>2. QED
    BY <1>1, <1>4, <2>1 DEF SegmentsOK, SegmentOK
<1>7. segments' = MergedFile'
  BY <1>1 DEF MergedFile, MergedWindows
<1>8. Len(heard') = Len(Windows')
  BY <1>1, SameSpeech
<1>9. QED
  BY <1>1, <1>2, <1>6, <1>7, <1>8 DEF SpeechInv

LEMMA TranscriptionFailsKeeps == ASSUME SpeechInv, TranscriptionFails PROVE SpeechInv'
<1>1. /\ mediaStage = "transcribe" /\ mediaStage' = "done" /\ segments' = <<>>
      /\ mediaChunks' = mediaChunks
      /\ speech' = speech /\ backend' = backend /\ heard' = heard
  BY DEF TranscriptionFails, PassOn
<1>2. Listened'
  BY <1>1, SameFile
<1>3. SegmentsOK(segments)' /\ SayAll(mediaChunks)'
  <2>1. mediaChunks' = <<>> /\ DOMAIN segments' = {}
    BY <1>1 DEF SpeechInv
  <2>2. SegmentsOK(segments)'
    BY <1>1, NoElements DEF SegmentsOK
  <2>3. AllWithin(mediaChunks, 2 * CHUNK_SIZE)'
    BY <2>1, NoElements DEF AllWithin, TextList
  <2>4. QED
    BY <2>1, <2>2, <2>3 DEF SayAll
<1>4. QED
  BY <1>1, <1>2, <1>3 DEF SpeechInv

LEMMA AssignSpeakersKeeps == ASSUME SpeechInv, AssignSpeakers PROVE SpeechInv'
<1>1. /\ mediaStage = "diarize" /\ mediaChunks' = mediaChunks
      /\ \E turns \in Voices :
         \E who \in [DOMAIN segments -> {Nobody} \cup {turns[k].speaker : k \in DOMAIN turns}] :
            PassOn("join", [k \in DOMAIN segments |->
                               [Spoken(turns, segments[k]) EXCEPT !.speaker = who[k]]])
  BY DEF AssignSpeakers
<1>2. PICK turns \in Voices :
         \E who \in [DOMAIN segments -> {Nobody} \cup {turns[k].speaker : k \in DOMAIN turns}] :
            PassOn("join", [k \in DOMAIN segments |->
                               [Spoken(turns, segments[k]) EXCEPT !.speaker = who[k]]])
  BY <1>1
<1>3. PICK who : PassOn("join", [k \in DOMAIN segments |->
                                    [Spoken(turns, segments[k]) EXCEPT !.speaker = who[k]]])
  BY <1>2
<1>4. PICK r : r = [k \in DOMAIN segments |-> [Spoken(turns, segments[k]) EXCEPT !.speaker = who[k]]]
  OBVIOUS
<1>5. SegmentsOK(r)
  <2>1. Sequence(segments) /\ \A k \in DOMAIN segments : SegmentOK(segments[k])
    BY DEF SpeechInv, SegmentsOK
  <2>2. ASSUME NEW k \in DOMAIN segments PROVE SegmentOK(r[k])
    <3>1. PICK s : s = segments[k]
      OBVIOUS
    <3>2. SegmentOK(s)
      BY <2>1, <2>2, <3>1
    <3>3. r[k] = [Spoken(turns, s) EXCEPT !.speaker = who[k]]
      BY <1>4, <2>2, <3>1
    <3>4. QED
      BY <3>2, <3>3, SpokenOK
  <2>3. DOMAIN r = DOMAIN segments
    BY <1>4
  <2>4. Sequence(r)
    <3>1. PICK n \in Nat : DOMAIN segments = 1..n
      BY <2>1, Positions
    <3>2. r = [k \in 1..n |-> r[k]]
      BY <1>4, <3>1
    <3>3. QED
      BY <3>2, Listed
  <2>5. QED
    BY <2>2, <2>3, <2>4 DEF SegmentsOK
<1>6. QED
  BY <1>1, <1>3, <1>4, <1>5, PassedOn

LEMMA DiarizationKeeps == ASSUME SpeechInv, SkipDiarization \/ DiarizationFails PROVE SpeechInv'
<1>1. mediaStage = "diarize" /\ mediaChunks' = mediaChunks /\ SegmentsOK(segments)
  BY DEF SpeechInv, SkipDiarization, DiarizationFails
<1>2. PassOn("join", segments) \/ PassOn("chunk", segments)
  BY DEF SkipDiarization, DiarizationFails
<1>3. QED
  BY <1>1, <1>2, PassedOn

LEMMA JoinSegmentsKeeps == ASSUME SpeechInv, JoinSegments PROVE SpeechInv'
<1>1. mediaStage = "join" /\ mediaChunks' = mediaChunks /\ PassOn("chunk", JoinedTurns)
  BY DEF JoinSegments
<1>2. SegmentsOK(JoinedTurns)
  BY TurnsJoined DEF SpeechInv, Listened
<1>3. PICK r : r = JoinedTurns
  OBVIOUS
<1>4. QED
  BY <1>1, <1>2, <1>3, PassedOn

LEMMA ChunkTurnsKeeps == ASSUME SpeechInv, ChunkTurns PROVE SpeechInv'
<1>1. /\ mediaStage' = "done" /\ segments' = segments
      /\ speech' = speech /\ backend' = backend /\ heard' = heard
  BY DEF ChunkTurns, PassOn
<1>2. Listened'
  BY <1>1, SameFile
<1>3. SegmentsOK(segments)'
  <2>1. PICK segs : segs = segments /\ segs = segments'
    BY <1>1
  <2>2. SegmentsOK(segs)'
    BY <1>1, <2>1, SameSpeech DEF SpeechInv
  <2>3. QED
    BY <2>1, <2>2 DEF SegmentsOK, SegmentOK
<1>4. PICK c : c = mediaChunks'
  OBVIOUS
<1>5. SayAll(c)
  BY <1>4, TurnsChunked DEF SpeechInv, Listened
<1>6. SayAll(mediaChunks)'
  BY <1>1, <1>4, <1>5, SameSayings
<1>7. QED
  BY <1>1, <1>2, <1>3, <1>6 DEF SpeechInv

LEMMA SpeechStutters == ASSUME SpeechInv, UNCHANGED transcriptVars PROVE SpeechInv'
<1>1. /\ mediaStage' = mediaStage /\ segments' = segments /\ mediaChunks' = mediaChunks
      /\ speech' = speech /\ backend' = backend /\ heard' = heard
  BY DEF transcriptVars
<1>2. Listened'
  BY <1>1, SameFile
<1>3. SegmentsOK(segments)'
  <2>1. PICK segs : segs = segments /\ segs = segments'
    BY <1>1
  <2>2. SegmentsOK(segs)'
    BY <1>1, <2>1, SameSpeech DEF SpeechInv
  <2>3. QED
    BY <2>1, <2>2 DEF SegmentsOK, SegmentOK
<1>4. mediaStage = "done" => SayAll(mediaChunks)'
  <2>1. PICK c : c = mediaChunks /\ c = mediaChunks'
    BY <1>1
  <2>2. ASSUME mediaStage = "done" PROVE SayAll(c)
    BY <2>1, <2>2 DEF SpeechInv
  <2>3. QED
    BY <1>1, <2>1, <2>2, SameSayings
<1>5. mediaStage = "diarize" => Len(heard') = Len(Windows') /\ segments' = MergedFile'
  <2>1. Windows' = Windows
    BY <1>1, SameSpeech
  <2>2. MergedFile' = MergedFile
    BY <1>1 DEF MergedFile, MergedWindows
  <2>3. QED
    BY <1>1, <2>1, <2>2 DEF SpeechInv
<1>6. mediaStage # "done" => mediaChunks' = <<>>
  BY <1>1 DEF SpeechInv
<1>7. mediaStage' \in {"transcribe", "diarize", "join", "chunk", "done"}
  BY <1>1 DEF SpeechInv
<1>8. QED
  BY <1>1, <1>2, <1>3, <1>4, <1>5, <1>6, <1>7 DEF SpeechInv

LEMMA SpeechStep == SpeechInv /\ [TranscriptNext]_transcriptVars => SpeechInv'
BY TranscribeWindowKeeps, MergeWindowsKeeps, TranscriptionFailsKeeps, AssignSpeakersKeeps,
   DiarizationKeeps, JoinSegmentsKeeps, ChunkTurnsKeeps, SpeechStutters DEF TranscriptNext

LEMMA SpeechTranscribed == SpeechInv => TranscribedOnce
<1> SUFFICES ASSUME SpeechInv, mediaStage = "diarize" PROVE TranscribedOnce
  BY DEF TranscribedOnce
<1>1. AllHeard /\ segments = MergedFile /\ speech \in Speech
  BY DEF SpeechInv, Listened, AllHeard
<1>2. QED
  BY <1>1, MergedOnce

LEMMA SpeechChunked == SpeechInv => ChunksSayAll
<1> SUFFICES ASSUME SpeechInv, mediaStage = "done" PROVE ChunksSayAll
  BY DEF ChunksSayAll
<1>1. /\ AllWithin(mediaChunks, 2 * CHUNK_SIZE)
      /\ \A k \in DOMAIN segments : SaidIn(segments[k], PiecesOf(mediaChunks))
  BY DEF SpeechInv, SayAll
<1>2. ToSet(Together(mediaChunks)) = PiecesOf(mediaChunks)
  <2>1. Sequence(mediaChunks) /\ \A t \in ToSet(mediaChunks) : Sequence(t)
    BY <1>1 DEF AllWithin, TextList
  <2>2. \A x : x \in ToSet(FlattenSeq(mediaChunks)) <=> \E t \in ToSet(mediaChunks) : x \in ToSet(t)
    <3>1. PICK n \in Nat : DOMAIN mediaChunks = 1..n /\ mediaChunks = [k \in 1..n |-> mediaChunks[k]]
      BY <2>1, Positions
    <3>2. \A k \in 1..n : mediaChunks[k] \in ToSet(mediaChunks)
      BY <3>1 DEF ToSet
    <3>3. ToSet(FlattenSeq(mediaChunks)) = UNION {ToSet(mediaChunks[k]) : k \in 1..n}
      BY <2>1, <3>1, <3>2, Mapped
    <3>4. ToSet(mediaChunks) = {mediaChunks[k] : k \in 1..n}
      BY <3>1 DEF ToSet
    <3>5. QED
      BY <3>3, <3>4
  <2>3. QED
    BY <2>2 DEF Together, PiecesOf, Pieces
<1>3. \A k \in DOMAIN mediaChunks : Chars(mediaChunks[k]) <= 2 * CHUNK_SIZE
  <2>1. \A k \in DOMAIN mediaChunks : mediaChunks[k] \in ToSet(mediaChunks)
    BY DEF ToSet
  <2>2. QED
    BY <1>1, <2>1 DEF AllWithin, Within
<1>4. QED
  BY <1>1, <1>2, <1>3 DEF ChunksSayAll, SaidIn, TimedWords

\* However the windows are cut into segments, and whatever is heard in them: a word of more
\* than half a second is transcribed once unless its segment begins in the window before
\* (_merge_chunked_segments).
THEOREM WordsAreTranscribedOnce == TranscriptSpec => []TranscribedOnce
<1>1. TranscriptSpec => []SpeechInv
  BY SpeechStart, SpeechStep, PTL DEF TranscriptSpec
<1>2. QED
  BY <1>1, SpeechTranscribed, PTL

\* Whatever the pauses, the overlaps and the likeness of neighbours: the chunks say what the
\* turns say, and none is longer than two (chunk_multi_speaker_segments, refine_with_semantic).
THEOREM ChunksAlwaysSayAll == TranscriptSpec => []ChunksSayAll
<1>1. TranscriptSpec => []SpeechInv
  BY SpeechStart, SpeechStep, PTL DEF TranscriptSpec
<1>2. QED
  BY <1>1, SpeechChunked, PTL
=============================================================================
