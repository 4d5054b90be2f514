---------------------------- MODULE MCPipelines ----------------------------
(***************************************************************************)
(* The pipelines of the code locations, one at a time: they share nothing  *)
(* but the object store, and each has its own instance here.               *)
(***************************************************************************)
EXTENDS MCKnowledgeGraph, BillTail, LeakDownloads, LeakPages, GroundTruth, Transcript

VARIABLE part   \* the pipeline that is running

parts == {"graph", "bill", "cables", "archive", "pages", "truth", "speech"}

-----------------------------------------------------------------------------
(* The texts of a bill                                                     *)

Piece(id, n) == [id |-> id, chars |-> n]

Section(id, subs) == [tag |-> "section", intro |-> <<Piece(<<id, 0>>, 1)>>,
                      subs |-> [k \in DOMAIN subs |-> <<Piece(<<id, k>>, subs[k])>>],
                      after |-> <<>>, items |-> <<>>]

Container(id, items) == [tag |-> "title", intro |-> <<Piece(<<id, 0>>, 1)>>,
                         subs |-> <<>>, after |-> <<>>, items |-> items]

\* The bill as introduced, its sections too long for a chunk or not; as reported, in a
\* title; and as engrossed, with an XML that cannot be parsed and no headers.
MCVersions ==
    LET TextVersion(code, xml, flat, body) ==
            [code |-> code, htm |-> TRUE, xml |-> xml, flat |-> flat,
             form |-> <<Piece(<<code, 0>>, 1)>>, body |-> body]
    IN  <<TextVersion("ih", "good", FALSE, <<Section("a", <<1>>), Section("b", <<2, 1, 2>>)>>),
          TextVersion("rh", "good", FALSE,
               <<Container("t", <<Section("c", <<4, 1>>),
                                  Container("u", <<Container("w", <<Section("d", <<>>)>>)>>)>>)>>),
          TextVersion("eh", "bad", TRUE, <<Section("e", <<2, 2>>)>>)>>

MCTitle == <<Piece(<<"Bill", 0>>, 1)>>

-----------------------------------------------------------------------------
(* The sources of open-leaks                                               *)

Line(id, first) == [id |-> id, first |-> first]
Row(kind, id)   == [kind |-> kind, id |-> id]

\* Two versions of each file: one that the limit does not reach, and a longer one.
MCContents ==
    "cables.csv" :>
        <<<<Line("c1", TRUE), Line("c1", FALSE), Line("c2", TRUE)>>,
          <<Line("c1", TRUE), Line("c1", FALSE), Line("c2", TRUE), Line("c3", TRUE)>>>>
    @@ "icij-offshoreleaks.zip" :>
        <<<<Row("entities", "e1"), Row("relationships", "r1")>>,
          <<Row("entities", "e1"), Row("entities", "e2"), Row("entities", "e3"),
            Row("relationships", "r1")>>>>

MCDocs == <<"d1", "d2", "d3", "d4", "d5">>

-----------------------------------------------------------------------------
(* The ground truth of one document                                        *)

\* By the first chunking both places are known; by the second one chunk has moved, and
\* the place of the other was not found.
MCLayout == <<[c \in Chunk |-> IF c = 1 THEN 0 ELSE 2], [c \in Chunk |-> IF c = 1 THEN 1 ELSE None]>>

-----------------------------------------------------------------------------
(* A recording                                                              *)

Word(start, end) == [start |-> start, end |-> end, chars |-> 3]
Turn(start, end, speaker) == [start |-> start, end |-> end, speaker |-> speaker]

MCSpeech ==
    {[words |-> <<Word(0,3), Word(6,8), Word(8,11), Word(11,13), Word(14,16)>>, total |-> 16],
     [words |-> <<Word(1,3), Word(4,5), Word(8,9), Word(9,11), Word(11,12)>>, total |-> 15]}
MCVoices == {<<Turn(0, 4, "anna"), Turn(4, 16, "ben")>>, <<Turn(0, 8, "anna")>>}

-----------------------------------------------------------------------------
PipelinesInit ==
    /\ part \in parts
    /\ Init /\ TailInit /\ LeakInit /\ PagesInit /\ GroundTruthInit /\ TranscriptInit
    /\ part # "speech" => speech.total = 15 /\ backend = "openvino"

PipelinesNext ==
    /\ UNCHANGED part
    /\ \/ /\ part = "graph" /\ Next
          /\ UNCHANGED <<tailVars, leakVars, pageVars, groundTruthVars, transcriptVars>>
       \/ /\ part = "bill" /\ TailNext
          /\ UNCHANGED <<vars, leakVars, pageVars, groundTruthVars, transcriptVars>>
       \/ /\ part = "cables"
          /\ JobStep("cables") \/ NewVersion("cables.csv")
          /\ UNCHANGED <<vars, tailVars, pageVars, groundTruthVars, transcriptVars>>
       \/ /\ part = "archive"
          /\ \/ \E j \in Job \ {"cables"} : JobStep(j)
             \/ NewVersion("icij-offshoreleaks.zip")
          /\ UNCHANGED <<vars, tailVars, pageVars, groundTruthVars, transcriptVars>>
       \/ /\ part = "pages" /\ PagesNext
          /\ UNCHANGED <<vars, tailVars, leakVars, groundTruthVars, transcriptVars>>
       \/ /\ part = "truth" /\ GroundTruthNext
          /\ UNCHANGED <<vars, tailVars, leakVars, pageVars, transcriptVars>>
       \/ /\ part = "speech" /\ TranscriptNext
          /\ UNCHANGED <<vars, tailVars, leakVars, pageVars, groundTruthVars>>

PipelinesSpec ==
    /\ PipelinesInit
    /\ [][PipelinesNext]_<<part, vars, tailVars, leakVars, pageVars, groundTruthVars,
                           transcriptVars>>

\* The types of every pipeline.
PipelinesTypeOK ==
    /\ TypeOK /\ TailTypeOK /\ LeakTypeOK /\ PagesTypeOK /\ GroundTruthTypeOK
    /\ TranscriptTypeOK

\* What is given is kept: a mention of the ground truth stays where people or models put
\* it, and open-leaks extracts its files and pages as the sources have them.
GivenKept == MentionsStay /\ SourcesWhole /\ PagesComplete

\* The texts keep what was written and said: the chunks of a bill, and of a recording,
\* whose words are transcribed once and are all in the chunks.
TextsKept == BillTextKept /\ TranscribedOnce /\ ChunksSayAll

\* The knowledge graph is what the candidates say: clusters are merged for a reason, and
\* what is reported as linked has its nodes.
GraphSound == MergedForAReason /\ ReportedLinked
=============================================================================
