------------------------------ MODULE Speakers ------------------------------
(***************************************************************************)
(* Who speaks in the media files (media_ingest/assets):                    *)
(*                                                                         *)
(*   - media_speaker_embeddings takes the voice of each speaker label of   *)
(*     one file, the mean of the segments long enough to tell it by;       *)
(*   - media_speaker_profiles groups the voices of all files, one by one,  *)
(*     each into the nearest profile if that is near enough;               *)
(*   - media_entity_candidates gives a candidate the profile that most of  *)
(*     its mentions are spoken by.                                         *)
(*                                                                         *)
(* A centroid is a point on a line here, so that a mean and a distance are *)
(* integers.  Diarization, the embedding model and the media files are     *)
(* external.                                                               *)
(***************************************************************************)
EXTENDS Integers, FiniteSets, SequencesExt, Python

CONSTANTS MediaFiles,           \* the files, in the order of their partitions
          Diarizations,    \* what diarization may make of a file: sequences of segments,
                           \* each with its speaker, its length, what of it the audio
                           \* has, in seconds, and its voice
          MinSegment,      \* _MIN_SEGMENT_DURATION_S
          THRESHOLD,       \* DEFAULT_MERGE_THRESHOLD
          SpokenBy,        \* the candidates of a file: for each the labels of its mentions
          MaxDiarized, MaxMade, MaxHidden   \* bounds

File == ToSet(MediaFiles)

\* The speakers that diarization may tell apart.
SpeakerLabel == UNION {{d[k].speaker : k \in DOMAIN d} : d \in Diarizations}

SpeakerProfile == [id : Nat \X Int, sum : Int, count : Nat, members : Seq(File \X SpeakerLabel)]

\* A file has one partition.
ASSUME SpeakersAssumption ==
    /\ MediaFiles \in Seq(File)
    /\ \A j, k \in DOMAIN MediaFiles : MediaFiles[j] = MediaFiles[k] => j = k
    /\ None \notin Nat \X Int /\ None \notin Seq(SpeakerProfile)
    /\ \A f \in File : \A c \in DOMAIN SpokenBy[f] : SpokenBy[f][c] \in Seq(ToSet(SpokenBy[f][c]))
    /\ MinSegment \in Nat /\ THRESHOLD \in Nat \ {0}
    /\ MaxDiarized \in Nat /\ MaxMade \in Nat /\ MaxHidden \in Nat
    /\ \A d \in Diarizations : d \in Seq(ToSet(d)) /\ \A k \in DOMAIN d :
          /\ d[k].seconds \in Nat /\ d[k].heard \in 0..d[k].seconds /\ d[k].voice \in Int

VARIABLES diarization,  \* of each file: its segments, or None
          voices,       \* the stored media_speaker_embeddings of each file, or None
          profiles,     \* the stored media_speaker_profiles, or None
          made,         \* materializations of the profiles so far
          tags,         \* the profile of each candidate of each file, or None
          diarized,     \* diarizations so far
          hidden        \* embeddings that found no audio or failed

speakerVars == <<diarization, voices, profiles, made, tags, diarized, hidden>>

SpeakersInit ==
    /\ diarization = [f \in File |-> None] /\ voices = [f \in File |-> None]
    /\ profiles = None /\ made = 0
    /\ tags = [f \in File |-> None] /\ diarized = 0 /\ hidden = 0

Diarize(f) ==
    /\ diarized < MaxDiarized /\ diarized' = diarized + 1
    /\ \E d \in Diarizations : diarization' = [diarization EXCEPT ![f] = d]
    /\ UNCHANGED <<voices, profiles, made, tags, hidden>>

-----------------------------------------------------------------------------
(* media_speaker_embeddings                                                *)

Spoken(s, label) == s.speaker = label /\ s.seconds >= MinSegment

\* A segment whose audio ends within its first second has no vector.
Heard(s, label) == Spoken(s, label) /\ s.heard >= 1

Valid(segments, label)   == {k \in DOMAIN segments : Spoken(segments[k], label)}
Vectors(segments, label) == {k \in DOMAIN segments : Heard(segments[k], label)}

Total(segments, label) ==
    FoldLeft(LAMBDA sum, s : IF Heard(s, label) THEN sum + s.voice ELSE sum, 0, segments)

Mean(segments, label) == Total(segments, label) \div Cardinality(Vectors(segments, label))

\* The speaker labels in the order they first speak; a segment may have none, and a
\* speaker without a vector is left out.
Labels(segments) ==
    FoldLeft(LAMBDA acc, s : IF \/ s.speaker = None \/ s.speaker \in ToSet(acc)
                                \/ Vectors(segments, s.speaker) = {}
                             THEN acc ELSE Append(acc, s.speaker), <<>>, segments)

Centroids(f) ==
    LET segments == diarization[f]
        labels   == Labels(segments)
    IN  [k \in DOMAIN labels |->
            [file |-> f, label |-> labels[k], centroid |-> Mean(segments, labels[k]),
             segments |-> Cardinality(Valid(segments, labels[k]))]]

\* The file may be gone and the model may fail: either way an empty list is stored.
Embed(f) ==
    /\ diarization[f] # None
    /\ \/ voices' = [voices EXCEPT ![f] = Centroids(f)] /\ UNCHANGED hidden
       \/ /\ hidden < MaxHidden /\ hidden' = hidden + 1
          /\ voices' = [voices EXCEPT ![f] = <<>>]
    /\ UNCHANGED <<diarization, profiles, made, tags, diarized>>

-----------------------------------------------------------------------------
(* media_speaker_profiles                                                  *)

Centroid(p) == p.sum \div p.count

Distance(e, p) == IF e.centroid > Centroid(p) THEN e.centroid - Centroid(p)
                                              ELSE Centroid(p) - e.centroid

\* The first of the nearest profiles.
Nearest(e, ps) ==
    CHOOSE k \in DOMAIN ps :
        /\ \A j \in DOMAIN ps : Distance(e, ps[k]) <= Distance(e, ps[j])
        /\ \A j \in 1..(k - 1) : Distance(e, ps[k]) < Distance(e, ps[j])

\* The id is of the first centroid and of the time of the materialization.
NewProfile(e, now) == [id |-> <<now, e.centroid>>, sum |-> e.centroid, count |-> 1,
                       members |-> <<<<e.file, e.label>>>>]

\* Variant: the profile does not weigh more for the voice.
WeighsTheSame(p, e) == [p EXCEPT !.sum = @ + e.centroid,
                                 !.members = Append(@, <<e.file, e.label>>)]

\* The mean is moved by the weight of the members so far.
Joined(p, e) == [p EXCEPT !.sum = @ + e.centroid, !.count = @ + 1,
                          !.members = Append(@, <<e.file, e.label>>)]

\* cluster_embeddings.
Clustered(es, existing, now) ==
    LET Add(ps, e) ==
            LET k == Nearest(e, ps)
            IN  IF ps # <<>> /\ Distance(e, ps[k]) < THRESHOLD
                THEN [ps EXCEPT ![k] = Joined(@, e)]
                ELSE Append(ps, NewProfile(e, now))
    IN  FoldLeft(Add, existing, es)

\* _flatten_partition_fanin: the partitions there are, in their order.
AllVoices ==
    FlattenSeq([k \in DOMAIN MediaFiles |-> IF voices[MediaFiles[k]] = None THEN <<>>
                                       ELSE voices[MediaFiles[k]]])

\* Every materialization starts from no profile.
MakeProfiles ==
    /\ made < MaxMade /\ made' = made + 1
    /\ profiles' = Clustered(AllVoices, <<>>, made')
    /\ UNCHANGED <<diarization, voices, tags, diarized, hidden>>

-----------------------------------------------------------------------------
(* media_entity_candidates                                                 *)

\* member_to_profile: the last profile that has the speaker.
ProfileOfSpeaker(f, label) ==
    LET having == {k \in DOMAIN profiles : <<f, label>> \in ToSet(profiles[k].members)}
    IN  IF profiles = None \/ having = {} THEN None
        ELSE profiles[CHOOSE k \in having : \A j \in having : j <= k].id

\* The votes, a mention's at a time; max() takes the first of those with the most.
Tag(f, labels) ==
    LET Vote(k) == ProfileOfSpeaker(f, labels[k])
        votes   == {k \in DOMAIN labels : Vote(k) # None}
        For(k)  == Cardinality({j \in votes : Vote(j) = Vote(k)})
    IN  IF votes = {} THEN None
        ELSE Vote(CHOOSE k \in votes :
                     /\ \A j \in votes : For(j) <= For(k)
                     /\ \A j \in votes : j < k => For(j) < For(k))

Tagged(f) == [c \in DOMAIN SpokenBy[f] |-> Tag(f, SpokenBy[f][c])]

MakeCandidates(f) ==
    /\ tags' = [tags EXCEPT ![f] = Tagged(f)]
    /\ UNCHANGED <<diarization, voices, profiles, made, diarized, hidden>>

SpeakersNext == (\E f \in File : Diarize(f) \/ Embed(f) \/ MakeCandidates(f)) \/ MakeProfiles

-----------------------------------------------------------------------------
SpeakersTypeOK ==
    /\ diarization \in [File -> Diarizations \union {None}]
    /\ \A f \in File : voices[f] # None => \A k \in DOMAIN voices[f] : voices[f][k].file = f
    /\ made \in 0..MaxMade /\ (profiles = None <=> made = 0)
    /\ diarized \in 0..MaxDiarized /\ hidden \in 0..MaxHidden

\* A speaker of a file is in one profile at most, and a profile has as many members as
\* it weighs; the profile a candidate is tagged with, if it is one of those stored now,
\* has a speaker of the candidate's file.
SpeakersGrouped ==
    profiles # None =>
        /\ \A k \in DOMAIN profiles : profiles[k].count = Len(profiles[k].members)
        /\ \A j, k \in DOMAIN profiles : \A a \in DOMAIN profiles[j].members :
              \A b \in DOMAIN profiles[k].members :
                  profiles[j].members[a] = profiles[k].members[b] => j = k /\ a = b
        /\ \A f \in File : tags[f] # None =>
              \A c \in DOMAIN tags[f] : \A k \in DOMAIN profiles :
                  tags[f][c] = profiles[k].id =>
                      \E i \in DOMAIN SpokenBy[f][c] :
                          \E p \in DOMAIN profiles :
                              /\ profiles[p].id = tags[f][c]
                              /\ <<f, SpokenBy[f][c][i]>> \in ToSet(profiles[p].members)
=============================================================================
