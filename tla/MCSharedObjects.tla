-------------------------- MODULE MCSharedObjects --------------------------
(***************************************************************************)
(* The caches, the tracker, the local and event files, the model calls and *)
(* the run sensor of dagster_io, for TLC.                                  *)
(* They share no object, so a behaviour of all of them is an interleaving  *)
(* of behaviours of each: the run explores them one by one.                *)
(***************************************************************************)
EXTENDS EmbeddingCache, ClusterCache, ModelCache, ProcessingTracker, AppendStore,
        LlmCalls, RunStatus, LocalStore, TLC

VARIABLE part   \* the one this behaviour is about

CONSTANTS c1, c2, c3, p1, p2, k1, k2, k3, s1, s2, o1, o2, o3, o4, o5, o6, o7, o8

Two      == c1 :> p1 @@ c2 :> p1 @@ c3 :> p2
Sharding == k1 :> s1 @@ k2 :> s1 @@ k3 :> s2
Batches  == {{k1, k3}, {k2}}
Plain    == p1 :> "plain" @@ p2 :> "plain"

\* The outputs of the local store: two models of one partition whose tags differ in a
\* sign, and a third; a month, an asset without partitions, and one whose layer is the
\* same for all models; another asset; and a partition named like a model.
Slash == <<"org", "/", "small">>
Colon == <<"org", ":", "small">>
Large == <<"large">>
Day   == [kind |-> "date", year |-> 2026, month |-> 3, day |-> 9]
Month == [kind |-> "month", year |-> 2026, month |-> 3]
Other == [kind |-> "name", name |-> <<"model", Large>>]
Output(layer, part_, model) ==
    [layer |-> layer, key |-> <<<<"media", "chunks">>>>, partition |-> part_, model |-> model]
Outputs ==
    o1 :> Output("gold", Day, Slash) @@ o2 :> Output("gold", Day, Colon)
    @@ o3 :> Output("gold", Day, Large) @@ o4 :> Output("gold", Month, Slash)
    @@ o5 :> Output("gold", None, Large) @@ o6 :> Output("silver", Day, Slash)
    @@ o7 :> [Output("gold", Day, Slash) EXCEPT !.key = <<<<"media">>, <<"mentions">>>>]
    @@ o8 :> Output("gold", Other, None)

vars == <<part, counters, embeddingVars, clusterVars, modelVars, trackerVars, appendVars,
          llmVars, statusVars, localVars>>

Init == /\ part \in {"embedding", "cluster", "model", "tracker", "append",
                    "batch", "vectors", "extraction", "status", "local"}
        /\ CallersInit
        /\ EmbeddingInit /\ ClusterInit /\ ModelInit /\ TrackerInit /\ AppendInit
        /\ LlmInit /\ StatusInit /\ LocalInit
        /\ part # "cluster" => entries = [d \in Document |-> None]
        /\ part # "tracker" => saved = {}
        /\ part # "append" => manager = "s3"
        /\ part # "batch" => noMessages = {}
        /\ part # "status" => configured /\ job = [r \in Job |->
               [state |-> "running", selected |-> TRUE, planned |-> {}, done |-> {}]]

\* What the steps of one part leave alone.
Caches    == <<embeddingVars, clusterVars, modelVars>>
Stores    == <<trackerVars, appendVars, localVars>>
Others    == <<llmVars, statusVars>>

NotEmbedding  == <<part, clusterVars, modelVars, Stores, Others>>
NotCluster    == <<part, embeddingVars, modelVars, Stores, Others>>
NotModel      == <<part, embeddingVars, clusterVars, Stores, Others>>
NotTracker    == <<part, Caches, appendVars, localVars, Others>>
NotAppend     == <<part, Caches, trackerVars, localVars, Others>>
NotLocal      == <<part, counters, Caches, trackerVars, appendVars, Others>>
NotStatus     == <<part, counters, Caches, Stores, llmVars>>
NotLlm        == <<part, counters, Caches, Stores, statusVars>>
NotBatch      == <<NotLlm, embedVars, extractionVars>>

Next ==
    \/ part = "embedding" /\ EmbeddingNext /\ UNCHANGED NotEmbedding
    \/ part = "cluster" /\ ClusterNext /\ UNCHANGED NotCluster
    \/ part = "model" /\ ModelNext /\ UNCHANGED NotModel
    \/ part = "tracker" /\ TrackerNext /\ UNCHANGED NotTracker
    \/ part = "append" /\ AppendNext /\ UNCHANGED NotAppend
    \/ part = "batch" /\ BatchStep /\ UNCHANGED NotBatch
    \/ part = "vectors" /\ EmbeddingStep /\ UNCHANGED <<NotLlm, batchVars, extractionVars>>
    \/ part = "extraction" /\ ExtractionStep /\ UNCHANGED <<NotLlm, batchVars, embedVars>>
    \/ part = "status" /\ StatusNext /\ UNCHANGED NotStatus
    \/ part = "local" /\ LocalNext /\ UNCHANGED NotLocal

Spec == /\ Init /\ [][Next]_vars
        /\ \A c \in Caller : WF_embeddingVars(part = "embedding" /\ EmbedStep(c))

TypeOK == /\ EmbeddingTypeOK /\ ClusterTypeOK /\ ModelTypeOK /\ TrackerTypeOK
          /\ AppendTypeOK /\ LlmTypeOK /\ StatusTypeOK /\ LocalTypeOK

\* What was stored under one name is found there: a cached model is whole, recorded files
\* stay recorded, events of all runs are loaded, and so are an asset's own outputs.
ObjectsFound == AloneIsWhole /\ RecordedKept /\ EventsLoaded /\ LoadsItsOwn

\* What was asked for is what is handed on: answers of models and services are at what
\* they answer, assertions follow their mentions, and runs are told as they ended.
AnswersKept == AnswersInPlace /\ VectorOfItsChunk /\ MentionsFirst /\ RunsTold
=============================================================================
