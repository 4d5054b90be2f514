----------------------------- MODULE Transcript -----------------------------
(***************************************************************************)
(* What becomes of the speech in a media file: long audio is split into    *)
(* overlapping windows, each is transcribed, the segments are merged,      *)
(* given speakers, joined into turns and packed into chunks for the models *)
(* (assets/transcription.py, diarization.py, chunks.py and the speaker     *)
(* part of dagster_io/chunking.py).                                        *)
(*                                                                         *)
(* A word stands for its index in the speech; a text is a sequence of such *)
(* words with one space between two.  Times are half seconds.  The speech  *)
(* models hear the words that are wholly inside their window, and cut them *)
(* into segments wherever they like.                                       *)
(***************************************************************************)
EXTENDS Python, Integers, FiniteSetsExt

CONSTANTS
    Speech,         \* records [words, total]: words are [start, end, chars]
    Voices,         \* what the diarization may hear: sequences of [start, end, speaker]
    Backend,        \* openvino splits long audio, the others do not
    CHUNK_DURATION, CHUNK_OVERLAP,  \* of the windows
    MERGE_GAP, PAUSE_THRESHOLD,     \* between segments, between words
    CHUNK_SIZE, TEXT_OVERLAP,       \* chunk_size, and the default of chunk_overlap
    Nobody          \* no speaker

ASSUME TranscriptAssumption ==
    /\ CHUNK_DURATION \in Nat /\ CHUNK_DURATION >= 2
    /\ CHUNK_OVERLAP \in 0 .. CHUNK_DURATION
    /\ MERGE_GAP \in Nat /\ PAUSE_THRESHOLD \in Nat
    /\ CHUNK_SIZE \in Nat /\ TEXT_OVERLAP \in 0 .. CHUNK_SIZE \div 2
    /\ \A turns \in Voices : AList(turns)
    /\ \A s \in Speech :
          /\ AList(s.words) /\ s.total \in Nat \ {0}
          /\ \A i \in DOMAIN s.words : LET word == s.words[i] IN
                /\ word.start \in Nat /\ word.end \in Nat /\ word.chars \in Nat
                /\ word.start <= word.end /\ 2 * word.chars <= CHUNK_SIZE
                /\ \A j \in i + 1 .. Len(s.words) : word.end <= s.words[j].start

VARIABLES
    speech, backend,    \* the file and WHISPER_BACKEND
    mediaStage,         \* the asset that is to be materialized next
    heard,              \* the windows that were transcribed: [offset, segments]
    segments,           \* of the last asset that was materialized
    mediaChunks         \* media_chunks: sequence of texts

transcriptVars == <<speech, backend, mediaStage, heard, segments, mediaChunks>>

TranscriptInit ==
    /\ speech \in Speech /\ backend \in Backend
    /\ mediaStage = "transcribe"
    /\ heard = <<>> /\ segments = <<>> /\ mediaChunks = <<>>

Chars(text) == FoldLeft(LAMBDA n, i : n + speech.words[i].chars + 1, -1, text)

Splitter == INSTANCE TextSplitter

\* s cut behind the positions of a set.
CutBehind(s, cuts) ==
    LET ends == InOrder(cuts \cup {Len(s)}, <)
    IN  IF s = <<>> THEN <<>>
        ELSE [k \in DOMAIN ends |-> SubSeq(s, IF k = 1 THEN 1 ELSE ends[k - 1] + 1, ends[k])]

-----------------------------------------------------------------------------
(* media_transcriptions                                                    *)

\* _split_audio_chunks: windows [start, end], each but the first beginning before
\* the last one ended.
Windows ==
    LET total == speech.total
        count == (total + CHUNK_DURATION - 1) \div CHUNK_DURATION
        Start(k) == IF k = 1 THEN 0 ELSE (k - 1) * CHUNK_DURATION - CHUNK_OVERLAP
    IN  IF backend # "openvino" \/ total <= CHUNK_DURATION + CHUNK_OVERLAP
        THEN <<[start |-> 0, end |-> total]>>
        ELSE [k \in 1 .. count |->
                 [start |-> Start(k),
                  end |-> Min({total, Start(k) + CHUNK_DURATION + CHUNK_OVERLAP})]]

Audible(window) ==
    Those([i \in DOMAIN speech.words |-> i],
          LAMBDA i : /\ window.start <= speech.words[i].start
                     /\ speech.words[i].end <= window.end)

Timed(i, offset) == [word |-> i, start |-> speech.words[i].start - offset,
                     end |-> speech.words[i].end - offset, speaker |-> Nobody]

\* _estimate_word_timestamps: each word in proportion to its length.
Estimated(text, start, end) ==
    LET Before(k) == Chars(SubSeq(text, 1, k)) + 1
        At(k) == start + ((end - start) * Before(k)) \div Before(Len(text))
    IN  [k \in DOMAIN text |-> [word |-> text[k], start |-> At(k - 1), end |-> At(k),
                                speaker |-> Nobody]]

\* A segment of the words in text, its times relative to the window.  Of the other
\* backends each segment may be without timed words.
Segment(text, offset, timed) ==
    LET start == speech.words[Head(text)].start - offset
        end == speech.words[Last(text)].end - offset
    IN  [start |-> start, end |-> end, text |-> text, speaker |-> Nobody,
         words |-> CASE ~timed -> <<>>
                     [] timed /\ backend = "openvino" -> Estimated(text, start, end)
                     [] OTHER -> [k \in DOMAIN text |-> Timed(text[k], offset)]]

\* openvino answers silence with one empty segment.
Silence(window) == IF backend = "openvino"
                   THEN <<[start |-> 0, end |-> window.end - window.start, text |-> <<>>,
                           speaker |-> Nobody, words |-> <<>>]>>
                   ELSE <<>>

TranscribeWindow ==
    /\ mediaStage = "transcribe"
    /\ Len(heard) < Len(Windows)
    /\ LET window == Windows[Len(heard) + 1]
           audible == Audible(window)
       IN  \E cuts \in SUBSET (1 .. Len(audible) - 1) :
           LET texts == CutBehind(audible, cuts)
           IN  \E timed \in [DOMAIN texts -> IF backend = "openvino" THEN {TRUE} ELSE BOOLEAN] :
                  heard' = Append(heard,
                     [offset |-> window.start,
                      segments |-> IF audible = <<>> THEN Silence(window)
                                   ELSE [k \in DOMAIN texts |->
                                            Segment(texts[k], window.start, timed[k])]])
    /\ UNCHANGED <<speech, backend, mediaStage, segments, mediaChunks>>

Shifted(x, offset) == [x EXCEPT !.start = @ + offset, !.end = @ + offset]

\* Variant: a segment is skipped when all of it is covered, not its start.
SkipsCovered(segment, seen) == segment.end < seen - 1

\* What starts more than half a second before the end of the last is skipped.
Skips(segment, seen) == segment.start < seen - 1

\* _merge_chunked_segments: for each window, for each of its segments.
Adjusted(s, offset) ==
    [Shifted(s, offset) EXCEPT !.words = [n \in DOMAIN s.words |-> Shifted(s.words[n], offset)]]

AddSegment(acc, segment) ==
    IF Skips(segment, acc.seen) THEN acc
    ELSE [kept |-> Append(acc.kept, segment), seen |-> segment.end]

AddWindow(acc, h) ==
    FoldLeft(AddSegment, acc, [k \in DOMAIN h.segments |-> Adjusted(h.segments[k], h.offset)])

MergedWindows == FoldLeft(AddWindow, [kept |-> <<>>, seen |-> 0], heard).kept

PassOn(next, result) ==
    /\ mediaStage' = next
    /\ segments' = result
    /\ UNCHANGED <<speech, backend, heard>>

MergeWindows ==
    /\ mediaStage = "transcribe" /\ Len(heard) = Len(Windows)
    /\ PassOn("diarize", IF Len(heard) = 1 THEN heard[1].segments ELSE MergedWindows)
    /\ UNCHANGED mediaChunks

\* A soft failure: the output says so, has no segments, and the assets after it
\* pass it on.
TranscriptionFails ==
    /\ mediaStage = "transcribe"
    /\ PassOn("done", <<>>)
    /\ UNCHANGED mediaChunks

-----------------------------------------------------------------------------
(* media_diarization and media_segment_merge                               *)

\* _find_speaker_at the middle of something: the first turn that it falls in.
SpeakerAt(turns, x) ==
    LET around == {k \in DOMAIN turns : /\ 2 * turns[k].start <= x.start + x.end
                                        /\ x.start + x.end <= 2 * turns[k].end}
    IN  IF around = {} THEN Nobody ELSE turns[Min(around)].speaker

Spoken(turns, s) == [s EXCEPT !.words = [k \in DOMAIN s.words |->
                        [s.words[k] EXCEPT !.speaker = SpeakerAt(turns, s.words[k])]]]

\* The speakers a segment may get: one that has most of its words.
SpeakersOf(turns, s) ==
    LET Count(p) == Cardinality({k \in DOMAIN s.words : SpeakerAt(turns, s.words[k]) = p})
        named == {SpeakerAt(turns, s.words[k]) : k \in DOMAIN s.words} \ {Nobody}
    IN  CASE s.words = <<>> -> {SpeakerAt(turns, s)}
          [] s.words # <<>> /\ named = {} -> {Nobody}
          [] OTHER -> {p \in named : \A q \in named : Count(q) <= Count(p)}

AssignSpeakers ==
    /\ mediaStage = "diarize"
    /\ \E turns \in Voices :
       \E who \in [DOMAIN segments -> {Nobody} \cup {turns[k].speaker : k \in DOMAIN turns}] :
          /\ \A k \in DOMAIN segments : who[k] \in SpeakersOf(turns, segments[k])
          /\ PassOn("join", [k \in DOMAIN segments |->
                                 [Spoken(turns, segments[k]) EXCEPT !.speaker = who[k]]])
    /\ UNCHANGED mediaChunks

\* No text, no source or no token: the transcript goes on without speakers.
SkipDiarization ==
    /\ mediaStage = "diarize"
    /\ PassOn("join", segments)
    /\ UNCHANGED mediaChunks

\* A soft failure: the segments stay as they are, unjoined.
DiarizationFails ==
    /\ mediaStage = "diarize"
    /\ PassOn("chunk", segments)
    /\ UNCHANGED mediaChunks

\* _merge_same_speaker_segments.
Continues(next, s) == /\ s.speaker = next.speaker
                      /\ next.start - s.end \in 0 .. MERGE_GAP

Join(s, next) == [s EXCEPT !.end = next.end, !.text = @ \o next.text,
                           !.words = @ \o next.words]

AddToTurns(acc, next) ==
    IF acc # <<>> /\ Continues(next, Last(acc))
    THEN Append(Front(acc), Join(Last(acc), next))
    ELSE Append(acc, next)

JoinedTurns == FoldLeft(AddToTurns, <<>>, segments)

JoinSegments ==
    /\ mediaStage = "join"
    /\ PassOn("chunk", JoinedTurns)
    /\ UNCHANGED mediaChunks

-----------------------------------------------------------------------------
(* media_chunks                                                            *)

\* _speaker_split_on_pauses: the texts between pauses, made of the timed words if
\* there are any.
PauseSplit(turn) ==
    LET words == turn.words
        pauses == {k \in 1 .. Len(words) - 1 :
                      words[k + 1].start - words[k].end >= PAUSE_THRESHOLD}
        parts == CutBehind(words, pauses)
    IN  IF words = <<>> THEN <<turn.text>>
        ELSE [k \in DOMAIN parts |-> [n \in DOMAIN parts[k] |-> parts[k][n].word]]

TextSizes == [max |-> CHUNK_SIZE, size |-> CHUNK_SIZE \div 2, overlap |-> TEXT_OVERLAP]

\* chunk_speaker_segments of one long turn.  The overlap of 0 that it asks for is
\* falsy, so the splitter takes its default.
Solo(turn) ==
    FlatMap(LAMBDA text : IF Chars(text) <= CHUNK_SIZE THEN <<text>>
                          ELSE Splitter!SplitText(TextSizes, text), PauseSplit(turn))

\* chunk_multi_speaker_segments: turns are packed into a buffer until the next does
\* not fit; a turn that is too long for a chunk is split by itself.
AddTurn(acc, turn) ==
    LET long == Chars(turn.text) > CHUNK_SIZE
    IN  CASE turn.text = <<>> -> acc
          [] turn.text # <<>> /\ long ->
                [chunked |-> Splitter!Emit(acc.chunked, acc.buffer) \o Solo(turn), buffer |-> <<>>]
          [] turn.text # <<>> /\ ~long /\ Chars(acc.buffer \o turn.text) <= CHUNK_SIZE ->
                [acc EXCEPT !.buffer = @ \o turn.text]
          [] OTHER -> [chunked |-> Splitter!Emit(acc.chunked, acc.buffer), buffer |-> turn.text]

Packed ==
    LET all == FoldLeft(AddTurn, [chunked |-> <<>>, buffer |-> <<>>], segments)
    IN  Splitter!Emit(all.chunked, all.buffer)

\* refine_with_semantic: neighbours that are alike are merged as long as they fit.
AddNeighbour(alike, acc, chunk) ==
    LET joined == Last(acc.texts) \o chunk
        merge == acc.n \in alike /\ Chars(joined) <= 2 * CHUNK_SIZE
    IN  [n |-> acc.n + 1,
         texts |-> IF merge THEN Append(Front(acc.texts), joined) ELSE Append(acc.texts, chunk)]

Refined(packed, alike) ==
    FoldLeft(LAMBDA acc, chunk : AddNeighbour(alike, acc, chunk),
             [n |-> 0, texts |-> <<>>], packed).texts

\* Which neighbours are alike is for the embeddings to say; when they cannot be had,
\* none are.
ChunkTurns ==
    /\ mediaStage = "chunk"
    /\ LET packed == Packed IN
       \E alike \in SUBSET (1 .. Len(packed) - 1) : mediaChunks' = Refined(packed, alike)
    /\ PassOn("done", segments)

-----------------------------------------------------------------------------
TranscriptNext ==
    \/ TranscribeWindow \/ MergeWindows \/ TranscriptionFails
    \/ AssignSpeakers \/ SkipDiarization \/ DiarizationFails
    \/ JoinSegments \/ ChunkTurns

TranscriptSpec == TranscriptInit /\ [][TranscriptNext]_transcriptVars

-----------------------------------------------------------------------------
(* Properties                                                              *)

TranscriptTypeOK ==
    /\ speech \in Speech /\ backend \in Backend
    /\ mediaStage \in {"transcribe", "diarize", "join", "chunk", "done"}
    /\ Len(heard) <= Len(Windows)
    /\ \A k \in DOMAIN segments : LET s == segments[k] IN
          /\ ToSet(s.text) \subseteq DOMAIN speech.words /\ s.start <= s.end
          /\ {s.words[n].word : n \in DOMAIN s.words} \subseteq ToSet(s.text)

Together(texts) == FlattenSeq(texts)

Times(i, text) == Cardinality({k \in DOMAIN text : text[k] = i})

\* A word of more than half a second that some window heard is transcribed once,
\* although two may hear it and cut it into segments as they like, unless its
\* segment begins before the window before it ends: then it may be lost.
TranscribedOnce ==
    mediaStage = "diarize" =>
        LET text == Together([k \in DOMAIN segments |-> segments[k].text])
            Begins(s, k) == s.start + heard[k].offset
        IN  \A k \in DOMAIN heard : \A s \in ToSet(heard[k].segments) :
            \A i \in ToSet(s.text) :
                /\ speech.words[i].end - speech.words[i].start > 1 => Times(i, text) <= 1
                /\ k = 1 \/ Begins(s, k) >= Windows[k - 1].end => Times(i, text) >= 1

\* The chunks say what the turns say, except of turns with words that are timed
\* in part; and no chunk is longer than two that were packed.
ChunksSayAll ==
    mediaStage = "done" =>
        LET said == ToSet(Together(mediaChunks)) IN
        /\ \A k \in DOMAIN segments :
              LET timed == {segments[k].words[n].word : n \in DOMAIN segments[k].words}
              IN  timed \in {{}, ToSet(segments[k].text)} => ToSet(segments[k].text) \subseteq said
        /\ \A k \in DOMAIN mediaChunks : Chars(mediaChunks[k]) <= 2 * CHUNK_SIZE
=============================================================================
