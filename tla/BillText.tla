------------------------------ MODULE BillText ------------------------------
(***************************************************************************)
(* How the text of a bill is cut into chunks (bill_chunker.py): along the  *)
(* sections and subsections of its XML or, without one, along the headers  *)
(* that regular expressions find in the plain text.                        *)
(*                                                                         *)
(* A piece of text is a record with its length, chars; separators count    *)
(* for nothing.  An element of the XML is a record:                        *)
(*   tag     "section", or "title" for any of the containers               *)
(*   intro   its number and header and what stands before its subsections  *)
(*   subs    the texts of its subsections                                  *)
(*   after   what stands behind them                                       *)
(*   items   the elements in a container; containers nest three deep:      *)
(*           division > title > subtitle > section                         *)
(***************************************************************************)
EXTENDS Python, Sequences

CONSTANTS MAX_CHUNK_CHARS, MAX_SUBSECTION_CHARS,
          FALLBACK_CHUNK_SIZE, FALLBACK_CHUNK_OVERLAP

ASSUME BillTextAssumption ==
    /\ FALLBACK_CHUNK_SIZE \in 1 .. MAX_CHUNK_CHARS
    /\ MAX_SUBSECTION_CHARS = MAX_CHUNK_CHARS
    /\ FALLBACK_CHUNK_OVERLAP \in 0 .. FALLBACK_CHUNK_SIZE

TextLength(text) == FoldLeft(LAMBDA n, piece : n + piece.chars, 0, text)

\* itertext of a section, or of a container with no elements in it.
TextOf(e) == e.intro \o FlattenSeq(e.subs) \o e.after

Text == INSTANCE TextSplitter WITH Chars <- TextLength

Sizes == [max |-> MAX_SUBSECTION_CHARS, size |-> FALLBACK_CHUNK_SIZE,
          overlap |-> FALLBACK_CHUNK_OVERLAP]

Fallback(text) == Text!SplitText(Sizes, text)

-----------------------------------------------------------------------------
(* The XML                                                                 *)

\* _xml_subsection_split.  The intro goes before the first chunk if that is made
\* last or if nothing is in the buffer at the end; else, like what stands behind the
\* subsections, it is in no chunk.
SubsectionSplit(section) ==
    LET all == Text!Pack(Sizes, section.subs)
        WithIntro(chunked) == <<section.intro \o Head(chunked)>> \o Tail(chunked)
    IN  CASE section.subs = <<>> -> Fallback(TextOf(section))
          [] section.subs # <<>> /\ all.buffer # <<>> /\ all.chunked = <<>> ->
                <<section.intro \o all.buffer>>
          [] section.subs # <<>> /\ all.buffer # <<>> /\ all.chunked # <<>> ->
                Append(all.chunked, all.buffer)
          [] OTHER -> IF all.chunked = <<>> THEN <<>> ELSE WithIntro(all.chunked)

SectionChunks(section) ==
    IF TextLength(TextOf(section)) <= MAX_CHUNK_CHARS THEN <<TextOf(section)>>
    ELSE SubsectionSplit(section)

\* The sections anywhere in a container that is in a container.
SectionsBeneath(e) ==
    FlatMap(LAMBDA i : IF i.tag = "section" THEN <<i>> ELSE i.items, e.items)

\* The sections anywhere in a container of the body.
SectionsIn(e) == FlatMap(LAMBDA i : IF i.tag = "section" THEN <<i>> ELSE SectionsBeneath(i), e.items)

\* A container of the body; one with nothing in it is like a section.
ContainerChunks(e) ==
    CASE e.items = <<>> /\ TextOf(e) = <<>> -> <<>>
      [] e.items = <<>> /\ TextOf(e) # <<>> ->
            IF TextLength(TextOf(e)) <= MAX_CHUNK_CHARS THEN <<TextOf(e)>> ELSE Fallback(TextOf(e))
      [] OTHER -> FlatMap(SectionChunks, SectionsIn(e))

\* Variant: a container of the body is passed over.
OnlySections(form, body) ==
    Text!Emit(<<>>, form) \o FlatMap(SectionChunks, Those(body, LAMBDA e : e.tag = "section"))

\* _parse_xml: the preamble and the candidates.
XmlChunks(form, body) ==
    Text!Emit(<<>>, form)
        \o FlatMap(LAMBDA e : IF e.tag = "section" THEN SectionChunks(e) ELSE ContainerChunks(e),
                   body)

-----------------------------------------------------------------------------
(* The plain text                                                          *)

\* _parse_sections_regex: a part begins at each header, of a container or a section.
\* Subsections are marked in the plain text too.
Headed(e) == [intro |-> e.intro, subs |-> e.subs, after |-> e.after]

AsSection(e)  == <<Headed(e)>>
AsSubtitle(e) == AsSection(e) \o FlatMap(AsSection, e.items)
AsTitle(e)    == AsSection(e) \o FlatMap(AsSubtitle, e.items)
AsDivision(e) == AsSection(e) \o FlatMap(AsTitle, e.items)

RawSections(body) == FlatMap(AsDivision, body)

\* _regex_subsection_split: what stands before the first mark goes to the first
\* subsection, and each lasts until the next mark.
Marked(s) ==
    [k \in DOMAIN s.subs |-> (IF k = 1 THEN s.intro ELSE <<>>) \o s.subs[k]
                                \o (IF k = Len(s.subs) THEN s.after ELSE <<>>)]

RawChunks(s) ==
    LET all == Text!Pack(Sizes, Marked(s))
        fits == TextLength(TextOf(s)) <= MAX_CHUNK_CHARS
    IN  CASE fits -> <<TextOf(s)>>
          [] ~fits /\ s.subs = <<>> -> Fallback(TextOf(s))
          [] OTHER -> Text!Emit(all.chunked, all.buffer)

\* The preamble is all that stands before the first header; a text without headers
\* is one section.
RegexChunks(preamble, body) ==
    IF body = <<>> THEN RawChunks([intro |-> preamble, subs |-> <<>>, after |-> <<>>])
    ELSE Text!Emit(<<>>, preamble) \o FlatMap(RawChunks,
                                              Those(RawSections(body), LAMBDA s : TextOf(s) # <<>>))
=============================================================================
