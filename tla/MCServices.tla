----------------------------- MODULE MCServices -----------------------------
(***************************************************************************)
(* The services of the viewer, and of media the discovery, the             *)
(* transcoding, the speakers and the training sets, for TLC.  They share   *)
(* nothing, and the run explores them one by one.                          *)
(***************************************************************************)
EXTENDS BenchRunner, AnnotationStore, MediaIngest, Speakers, Training, MediaServing, TLC

VARIABLE part   \* the one this behaviour is about

CONSTANTS q1, q2, r1, r2, i1, i2, l1, l2, l3, p1, p2, v1, v2, v3, t1, t2

Members == l1 :> p1 @@ l2 :> p1 @@ l3 :> p2

\* Two files of one directory differ in their extension, and a third lies in the other.
Temps == v1 :> t1 @@ v3 :> t1 @@ v2 :> t2
Roots == [p \in {v1, v3, t1} |-> "metube"] @@ [p \in {v2, t2} |-> "tubesync"]
OwnId == [p \in {v1, v2, v3, t1, t2} |-> p]

\* A voice is where it lies on the line; a segment too short to tell it by, one that has
\* no speaker, and one that the audio does not reach.
Segment(speaker, seconds, heard, voice) ==
    [speaker |-> speaker, seconds |-> seconds, heard |-> heard, voice |-> voice]
Duet == <<Segment(l1, 4, 4, 0), Segment(l2, 5, 5, 6), Segment(l1, 1, 1, 9)>>
Trio == <<Segment(None, 4, 4, 2), Segment(l2, 4, 4, 2), Segment(l1, 4, 4, 4),
          Segment(l2, 4, 4, 4), Segment(l3, 4, 0, 1)>>
MCDiarizations == {<<>>, Duet, Trio}
MCSpokenBy == v1 :> <<<<l1>>, <<l2, l1, l2>>>> @@ v2 :> <<<<l2, l1, None>>>>
MCMedia    == <<v1, v2>>

MCManuscripts == <<v1, v2>>
MCPassages    == v1 :> <<l1, l2>> @@ v2 :> <<l3>>
MCModels      == <<q1, q2>>

MCRanges == {None, [start |-> 1, end |-> None], [start |-> None, end |-> 1],
             [start |-> 0, end |-> 3]}

servicesVars == <<part, runnerVars, annotationVars, mediaVars, speakerVars, trainingVars, servingVars>>

ServicesInit ==
    /\ part \in {"runner", "annotations", "discovery", "transcoding", "speakers",
                 "sft", "dpo", "serving"}
    /\ RunnerInit /\ AnnotationInit /\ MediaInit
    /\ SpeakersInit /\ TrainingInit /\ ServingInit

Media == part \in {"discovery", "transcoding"}

\* Discovery is explored without transcoding for two files; and with it for two files that
\* share their temporary file, with discovery runs that do not fail and nothing else
\* between their steps, and a tick of the sensor as soon as it has news.
MediaBound ==
    /\ part = "discovery" => transcodes' = 0 /\ disk'[v3] = Missing
    /\ part = "transcoding" =>
        /\ disk'[v2] = Missing /\ discovery'[v2] = "idle"
        /\ upsets' # upsets => encoder' # encoder
        /\ discovery[v1] # "idle" => discovery' # discovery
        /\ mediaTick # NoTick => mediaTick' # mediaTick
        /\ mediaTick = NoTick => (documents \notin {{}, registered} <=> mediaTick' # mediaTick)

\* What a step of each part leaves alone.
Viewing  == <<runnerVars, annotationVars, servingVars>>
Learning == <<speakerVars, trainingVars>>

NotRunner      == <<part, annotationVars, servingVars, mediaVars, Learning>>
NotAnnotations == <<part, runnerVars, servingVars, mediaVars, Learning>>
NotServing     == <<part, runnerVars, annotationVars, mediaVars, Learning>>
NotMedia       == <<part, Viewing, Learning>>
NotSpeakers    == <<part, Viewing, mediaVars, trainingVars>>
NotTraining    == <<part, Viewing, mediaVars, speakerVars>>

ServicesNext ==
    \/ part = "runner" /\ RunnerNext /\ UNCHANGED NotRunner
    \/ part = "annotations" /\ AnnotationNext /\ UNCHANGED NotAnnotations
    \/ part = "serving" /\ ServingNext /\ UNCHANGED NotServing
    \/ Media /\ MediaNext /\ MediaBound /\ UNCHANGED NotMedia
    \/ part = "speakers" /\ SpeakersNext /\ UNCHANGED NotSpeakers
    \/ part = "sft" /\ SftNext /\ UNCHANGED NotTraining
    \/ part = "dpo" /\ DpoNext /\ UNCHANGED NotTraining

ServicesSpec ==
    /\ ServicesInit /\ [][ServicesNext]_servicesVars
    /\ \A s \in Scan : WF_mediaVars(Media /\ DiscoveryStep(s) /\ MediaBound)
    /\ WF_mediaVars(Media /\ SensorStep /\ MediaBound)

ServicesTypeOK ==
    /\ RunnerTypeOK /\ AnnotationTypeOK /\ MediaTypeOK
    /\ SpeakersTypeOK /\ TrainingTypeOK /\ ServingTypeOK

\* What the viewer has answered of its files: configurations can be read, annotations are
\* stored once, names agree, and responses have what they promised.
EditsKept == ConfigReadable /\ AnnotatedOnce /\ NamesAgree /\ SendsWhatItPromised

\* What is made of the extractions of media is told as it is.
MadeAsTold == SpeakersGrouped /\ TrainingTold
=============================================================================
