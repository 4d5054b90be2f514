------------------------------ MODULE BillTail ------------------------------
(***************************************************************************)
(* What the tail pipeline makes of the text of one bill (bill_tail.py,     *)
(* bill_chunker.py, bill_claims.py): the versions the API lists, their     *)
(* files, one document, its chunks, and the texts of the calls that ask a  *)
(* model for claims.                                                       *)
(*                                                                         *)
(* Two updates of a bill make two runs and nothing keeps these apart, so a *)
(* step loads what other runs have stored, and stores its own output later.*)
(***************************************************************************)
EXTENDS BillText, Integers, FiniteSetsExt, TLC

CONSTANTS
    Versions,   \* in the order of the list; see below
    TailRun,        \* runs of the sensor
    MaxFailures,  \* bound on failed steps and downloads
    BUDGET, SINGLE_CALL,    \* of the calls for claims
    Title       \* the header of the document: a text

(* A version is a record [code, htm, xml, flat, form, body]: its code, if it *)
(* has an HTM file, its XML ("none", "good", "bad"), and what is in them.  A *)
(* version that is flat has no headers that the regular expressions find.    *)

Version == ToSet(Versions)

Legible(text) == AList(text) /\ \A p \in ToSet(text) : p.chars \in Nat

Element(e) == /\ Legible(e.intro) /\ Legible(e.after) /\ AList(e.items)
              /\ AList(e.subs) /\ \A s \in ToSet(e.subs) : Legible(s)
              /\ e.tag = "section" => e.items = <<>>

Below(e) == ToSet(e.items)

ASSUME BillTailAssumption ==
    /\ AList(Versions) /\ Legible(Title) /\ None \notin Version
    /\ MaxFailures \in Nat
    /\ \A v \in Version :
          /\ v.xml \in {"none", "good", "bad"}
          /\ Legible(v.form) /\ AList(v.body)
          /\ \A e \in ToSet(v.body) : Element(e) /\
             \A i \in Below(e) : Element(i) /\
             \A x \in Below(i) : Element(x) /\
             \A y \in Below(x) : Element(y) /\ y.tag = "section"

VARIABLES
    published,  \* the versions the API lists
    stage,      \* the asset each run materializes next
    input,      \* what its step has loaded, or None
    listed,     \* bill_text_versions
    texts,      \* bill_full_text: sequence of [version, xml]
    document,   \* bill_document: the version used, and the text
    chunks,     \* bill_chunks
    failures,     \* failures so far
    overlapped  \* history: a run began while another was under way

tailVars == <<published, stage, input, listed, texts, document, chunks,
             failures, overlapped>>

Asset == <<"versions", "full_text", "document", "chunks">>

NoDocument == [version |-> None, preamble |-> <<>>, body |-> <<>>]

TailInit ==
    /\ published = {}
    /\ stage = [r \in TailRun |-> "off"]
    /\ input = [r \in TailRun |-> None]
    /\ listed = <<>> /\ texts = <<>> /\ document = NoDocument
    /\ chunks = <<>>
    /\ failures = 0 /\ overlapped = FALSE

StepFaults == failures < MaxFailures /\ failures' = failures + 1

PublishVersion(v) ==
    /\ v \notin published
    /\ published' = published \cup {v}
    /\ UNCHANGED <<stage, input, listed, texts, document, chunks, failures,
                   overlapped>>

UnderWay == {r \in TailRun : stage[r] \notin {"off", "done", "failed"}}

BeginRun(r) ==
    /\ stage[r] = "off"
    /\ published # {}
    /\ stage' = [stage EXCEPT ![r] = "versions"]
    /\ overlapped' = (overlapped \/ UnderWay # {})
    /\ UNCHANGED <<published, input, listed, texts, document, chunks, failures>>

\* A step begins: its inputs are loaded, or the API is asked.
LoadInput(r) ==
    /\ stage[r] \in ToSet(Asset)
    /\ input[r] = None
    /\ input' = [input EXCEPT ![r] =
                    [versions |-> IF stage[r] = "versions"
                                  THEN Those(Versions, LAMBDA v : v \in published)
                                  ELSE listed,
                     texts |-> texts, document |-> document]]
    /\ UNCHANGED <<published, stage, listed, texts, document, chunks, failures,
                   overlapped>>

\* The output of the step is stored, and the next one may begin.
Proceed(r, this, next) ==
    /\ stage[r] = this /\ input[r] # None
    /\ input' = [input EXCEPT ![r] = None]
    /\ stage' = [stage EXCEPT ![r] = next]
    /\ UNCHANGED <<published, overlapped>>

ListVersions(r) ==
    /\ Proceed(r, "versions", "full_text")
    /\ listed' = input[r].versions
    /\ UNCHANGED <<texts, document, chunks, failures>>

WithFile(versions) == Those(versions, LAMBDA v : v.htm)

\* The texts of the versions that were not lost, some of them without their XML.
TextsHad(versions, lost, bare) ==
    LET had == Those(versions, LAMBDA v : v \notin lost)
    IN  [k \in DOMAIN had |->
            [version |-> had[k], xml |-> IF had[k] \in bare THEN "none" ELSE had[k].xml]]

\* bill_full_text: a version without an HTM file, or whose file cannot be had, is left
\* out; without its XML it is not.  No failed download fails the step.
DownloadTexts(r) ==
    /\ Proceed(r, "full_text", "document")
    /\ LET versions == WithFile(input[r].versions) IN
       \E lost, bare \in SUBSET ToSet(versions) :
          /\ IF lost \cup bare = {} THEN UNCHANGED failures ELSE StepFaults
          /\ texts' = TextsHad(versions, lost, bare)
    /\ UNCHANGED <<listed, document, chunks>>

\* version_priority.
Priority == <<"enr", "eas", "eh", "pcs", "rh", "rs", "ih", "is">>

\* The first text of the first code of that list that has one, else the first text.
BestText(all) ==
    LET codes == {k \in DOMAIN Priority : \E t \in ToSet(all) : t.version.code = Priority[k]}
        OfCode == Those(all, LAMBDA t : t.version.code = Priority[Min(codes)])
    IN  IF codes = {} THEN Head(all).version ELSE Head(OfCode).version

\* bill_document; without any text it is the header alone.
MakeDocument(r) ==
    /\ Proceed(r, "document", "chunks")
    /\ LET best == BestText(input[r].texts) IN
       document' = IF input[r].texts = <<>>
                   THEN [version |-> None, preamble |-> Title, body |-> <<>>]
                   ELSE [version |-> best,
                         preamble |-> IF best.flat
                                      THEN Title \o best.form \o FlatMap(TextOf, RawSections(best.body))
                                      ELSE Title \o best.form,
                         body |-> IF best.flat THEN <<>> ELSE best.body]
    /\ UNCHANGED <<listed, texts, chunks, failures>>

\* The version whose XML bill_chunks takes: the one the document was made of, else
\* any.  A document without a version takes none.
XmlOf(doc, all) ==
    LET with == Those(all, LAMBDA t : t.xml # "none")
        own == Those(with, LAMBDA t : t.version.code = doc.version.code)
    IN  CASE doc.version = None \/ with = <<>> -> None
          [] doc.version # None /\ with # <<>> /\ own # <<>> -> Head(own)
          [] OTHER -> Head(with)

\* chunk_bill_text: an XML that cannot be parsed, or has nothing in it, is as none.
ChunkText(doc, all) ==
    LET t == XmlOf(doc, all)
        parsed == IF t = None THEN <<>>
                  ELSE IF t.xml = "bad" THEN <<>> ELSE XmlChunks(t.version.form, t.version.body)
    IN  IF parsed # <<>> THEN parsed ELSE RegexChunks(doc.preamble, doc.body)

ChunkDocument(r) ==
    /\ Proceed(r, "chunks", "done")
    /\ chunks' = ChunkText(input[r].document, input[r].texts)
    /\ UNCHANGED <<listed, texts, document, failures>>

\* Its retries used up, a step fails, and the run with it.
StepFails(r) ==
    /\ stage[r] \in ToSet(Asset) /\ input[r] # None
    /\ StepFaults
    /\ stage' = [stage EXCEPT ![r] = "failed"]
    /\ input' = [input EXCEPT ![r] = None]
    /\ UNCHANGED <<published, listed, texts, document, chunks, overlapped>>

-----------------------------------------------------------------------------
(* bill_claims                                                             *)

\* Variant: the budget is not looked at.
Unbounded(tokens) == TRUE

WithinBudget(tokens) == tokens <= BUDGET

Indexes == [k \in DOMAIN chunks |-> k]

Tokens(w) == FoldSet(LAMBDA k, n : n + TextLength(chunks[k]), 0, w)

PutInWindow(windows, k) ==
    LET room == {w \in DOMAIN windows : WithinBudget(Tokens(windows[w] \cup {k}))}
    IN  IF room = {} THEN Append(windows, {k})
        ELSE [windows EXCEPT ![Min(room)] = @ \cup {k}]

\* _pack_chunks_into_windows: the largest chunks first, each into the first window
\* that has room for it.  The windows are sets of indexes of chunks.
PackWindows ==
    LET sized == InOrder(DOMAIN chunks, LAMBDA i, j :
                     \/ TextLength(chunks[i]) > TextLength(chunks[j])
                     \/ TextLength(chunks[i]) = TextLength(chunks[j]) /\ i < j)
    IN  FoldLeft(PutInWindow, <<>>, sized)

Content(doc) == doc.preamble \o FlatMap(TextOf, RawSections(doc.body))

\* The texts that the model is given, one call each.
Prompts ==
    IF TextLength(Content(document)) <= SINGLE_CALL THEN <<Content(document)>>
    ELSE LET windows == PackWindows
         IN  [w \in DOMAIN windows |->
                 FlatMap(LAMBDA k : chunks[k], Those(Indexes, LAMBDA k : k \in windows[w]))]

-----------------------------------------------------------------------------
TailNext ==
    \/ \E v \in Version : PublishVersion(v)
    \/ \E r \in TailRun : \/ BeginRun(r) \/ LoadInput(r) \/ ListVersions(r)
                      \/ DownloadTexts(r) \/ MakeDocument(r) \/ ChunkDocument(r)
                      \/ StepFails(r)

TailSpec == TailInit /\ [][TailNext]_tailVars

-----------------------------------------------------------------------------
(* Properties                                                              *)

\* The outputs are texts, lists and documents of what was published, and a run that
\* is not under way has nothing loaded.
TailTypeOK ==
    /\ published \subseteq Version
    /\ stage \in [TailRun -> {"off", "done", "failed"} \cup ToSet(Asset)]
    /\ \A r \in TailRun : r \notin UnderWay => input[r] = None
    /\ ToSet(listed) \cup {t.version : t \in ToSet(texts)} \subseteq published
    /\ document.version \in published \cup {None}
    /\ failures \in 0 .. MaxFailures

Pieces(text) == ToSet(text)
PiecesOf(texts_) == UNION {Pieces(t) : t \in ToSet(texts_)}

\* All sections of a body, in whatever containers.
Sections(body) ==
    ToSet(FlatMap(LAMBDA e : IF e.tag = "section" THEN <<e>> ELSE SectionsIn(e), body))

\* What must be in some chunk.  Of a section in the XML that is cut at its subsections
\* these alone are sure to be; of the plain text everything is.
Promised ==
    LET t == XmlOf(document, texts)
        fromXml == IF t = None THEN FALSE
                   ELSE t.xml = "good" /\ XmlChunks(t.version.form, t.version.body) # <<>>
    IN  IF fromXml
        THEN Pieces(t.version.form) \cup
             UNION {IF TextLength(TextOf(e)) <= MAX_CHUNK_CHARS THEN Pieces(TextOf(e))
                    ELSE PiecesOf(e.subs) : e \in Sections(t.version.body)}
        ELSE Pieces(Content(document))

\* Some run was the last, and nothing kept it from finishing.
Settled ==
    /\ UnderWay = {} /\ ~overlapped
    /\ \E r \in TailRun : stage[r] = "done"
    /\ \A r \in TailRun : stage[r] # "failed"

\* The chunks are not of another version than the document.
SameVersion ==
    LET t == XmlOf(document, texts)
    IN  IF t = None THEN TRUE ELSE t.version = document.version

\* Once the runs are done, and none failed or overlapped another, every piece of the
\* text of the bill that the chunker promises to keep is in a chunk and, when the chunks
\* are of the version of the document, in one of the calls for claims.  Every chunk is
\* in one window of these, and a window of several keeps to the budget (bill_tail.py,
\* bill_chunker.py, bill_claims.py).
BillTextKept ==
    LET windows == PackWindows
        promised == Promised
    IN  Settled =>
        /\ promised \subseteq PiecesOf(chunks)
        /\ SameVersion => promised \subseteq PiecesOf(Prompts)
        /\ \A k \in DOMAIN chunks : Cardinality({w \in DOMAIN windows : k \in windows[w]}) = 1
        /\ \A w \in DOMAIN windows :
              \/ Cardinality(windows[w]) = 1
              \/ Tokens(windows[w]) <= BUDGET
=============================================================================
