------------------------------ MODULE LlmCalls ------------------------------
(***************************************************************************)
(* The calls to language models and embedding services that dagster_io     *)
(* makes for an asset (dagster_io/llm.py, asset_factory.py):               *)
(*                                                                         *)
(*   - invoke_batch puts one task for each item into a pool of threads;    *)
(*     a task tries again after a failure, gives up on an answer that is   *)
(*     too long, and the thread that called collects the results as they   *)
(*     come;                                                               *)
(*   - embed sends the texts in batches, waits and sends a batch again     *)
(*     when the service is at its limit, and puts the vectors in one list, *)
(*     which the embedding asset pairs with the chunks;                    *)
(*   - the extraction asset stores its two outputs, mentions and           *)
(*     assertions, one after the other.                                    *)
(*                                                                         *)
(* The services and the pool are external.  An answer is the item it is    *)
(* the answer to, a vector the text it is of.                              *)
(***************************************************************************)
EXTENDS Naturals, FiniteSets, FiniteSetsExt, Sequences, Python

CONSTANTS Items,           \* the number of items of a batch call
          Suspect,         \* the items that messages_fn may fail to make messages of
          max_concurrency, max_retries,
          Texts,           \* the number of texts to embed
          batch_size,
          MaxExtractions, MaxBreaks   \* bounds

ASSUME LlmAssumption ==
    /\ Items \in Nat \ {0} /\ Suspect \subseteq 1..Items
    /\ max_concurrency \in Nat \ {0} /\ max_retries \in Nat
    /\ Texts \in Nat /\ batch_size \in Nat \ {0}
    /\ MaxExtractions \in Nat /\ MaxBreaks \in Nat

VARIABLES
    noMessages, \* the items of this call that messages_fn cannot make messages of
    task,       \* of each item: its state and the attempts it has made
    collected,  \* the tasks whose results the caller has taken
    results,    \* the list the caller fills
    caller,     \* what the caller is doing
    counted,    \* LLM_REQUESTS by status
    vectors,    \* the vectors so far, in the order they came
    embedding,  \* the state of the embedding asset: batch, attempt and state
    extraction, \* the run of the extraction asset: its number and what is left
    outputs,    \* the run each output was last stored by
    breaks      \* failures of the extraction so far

batchVars      == <<noMessages, task, collected, results, caller, counted>>
embedVars      == <<vectors, embedding>>
extractionVars == <<extraction, outputs, breaks>>
llmVars        == <<batchVars, embedVars, extractionVars>>

Item == 1..Items

MAX_EMBED_ATTEMPTS == 4

LlmInit ==
    /\ noMessages \in SUBSET Suspect
    /\ task = [i \in Item |-> [state |-> "queued", attempts |-> 0]]
    /\ collected = {} /\ results = [i \in Item |-> None]
    /\ caller = "collecting" /\ counted = [success |-> 0, error |-> 0]
    /\ vectors = <<>> /\ embedding = [batch |-> 0, attempt |-> 1, state |-> "sending"]
    /\ extraction = [number |-> 0, left |-> <<>>]
    /\ outputs = [o \in {"mentions", "assertions"} |-> 0] /\ breaks = 0

-----------------------------------------------------------------------------
(* invoke_batch                                                            *)

InState(states)  == {i \in Item : task[i].state \in states}
Over        == {"answered", "skipped", "failed"}

\* A task keeps its thread while it waits to try again.
InFlight == InState({"calling", "waiting"})

Mark(i, s, n) == task' = [task EXCEPT ![i] = [state |-> s, attempts |-> n]]

\* The pool starts the tasks in the order they were submitted.
Start(i) ==
    /\ task[i].state = "queued" /\ \A k \in InState({"queued"}) : i <= k
    /\ Cardinality(InFlight) < max_concurrency
    /\ IF i \in noMessages
       THEN Mark(i, "failed", 0)     \* the handler reads a start that is not set yet
       ELSE Mark(i, "calling", 1)
    /\ UNCHANGED <<noMessages, collected, results, caller, counted>>

Retry(i) ==
    /\ task[i].state = "waiting"
    /\ Mark(i, "calling", task[i].attempts + 1)
    /\ UNCHANGED <<noMessages, collected, results, caller, counted>>

ModelAnswers(i) ==
    /\ task[i].state = "calling"
    /\ Mark(i, "answered", task[i].attempts)
    /\ counted' = [counted EXCEPT !.success = @ + 1]
    /\ UNCHANGED <<noMessages, collected, results, caller>>

\* The same item would exceed the limit again.
AnswerTooLong(i) ==
    /\ task[i].state = "calling"
    /\ Mark(i, "skipped", task[i].attempts)
    /\ counted' = [counted EXCEPT !.error = @ + 1]
    /\ UNCHANGED <<noMessages, collected, results, caller>>

RequestFails(i) ==
    /\ task[i].state = "calling"
    /\ Mark(i, IF task[i].attempts <= max_retries THEN "waiting" ELSE "failed",
            task[i].attempts)
    /\ counted' = [counted EXCEPT !.error = @ + 1]
    /\ UNCHANGED <<noMessages, collected, results, caller>>

\* Variant: the results in the order they came.
InTheOrderTheyCame(i) == Cardinality(collected) + 1

Position(i) == i

\* as_completed hands the futures over as they are done; result() raises what the task
\* raised, and the caller leaves the pool's block.
Collect(i) ==
    /\ caller = "collecting" /\ i \in InState(Over) \ collected
    /\ IF task[i].state = "failed"
       THEN caller' = "leaving" /\ UNCHANGED <<collected, results>>
       ELSE /\ results' = [results EXCEPT ![Position(i)] =
                               IF task[i].state = "answered" THEN i ELSE None]
            /\ collected' = collected \union {i}
            /\ caller' = IF collected' = Item THEN "returned" ELSE caller
    /\ UNCHANGED <<noMessages, task, counted>>

PoolIdle == InState(Over) = Item

\* Leaving the block waits for every task, also for those not started yet.
Raise ==
    /\ caller = "leaving" /\ PoolIdle
    /\ caller' = "raised"
    /\ UNCHANGED <<noMessages, task, collected, results, counted>>

BatchStep ==
    \/ \E i \in Item : \/ Start(i) \/ Retry(i) \/ ModelAnswers(i) \/ AnswerTooLong(i)
                       \/ RequestFails(i) \/ Collect(i)
    \/ Raise

-----------------------------------------------------------------------------
(* embed and the embedding asset                                           *)

Smaller(a, b) == IF a < b THEN a ELSE b

BatchTexts == [k \in 1..Smaller(batch_size, Texts - embedding.batch) |-> embedding.batch + k]

Embedded(answer) == vectors \o answer

Shortened(s) == SubSeq(s, 1, Len(s) - 1)

\* The service answers with the vectors of the batch; nothing in the code holds it to one
\* vector for each text.
BatchEmbedded ==
    /\ embedding.state = "sending" /\ embedding.batch < Texts
    /\ \E answer \in {BatchTexts, Shortened(BatchTexts)} : vectors' = Embedded(answer)
    /\ embedding' = [embedding EXCEPT !.batch = @ + batch_size, !.attempt = 1]

\* Only a rate limit is worth another attempt, and not the last one.
RateLimited ==
    /\ embedding.state = "sending" /\ embedding.batch < Texts
    /\ embedding' = IF embedding.attempt < MAX_EMBED_ATTEMPTS
                    THEN [embedding EXCEPT !.attempt = @ + 1]
                    ELSE [embedding EXCEPT !.state = "raised"]
    /\ UNCHANGED vectors

EmbedFails ==
    /\ embedding.state = "sending" /\ embedding.batch < Texts
    /\ embedding' = [embedding EXCEPT !.state = "raised"]
    /\ UNCHANGED vectors

EmbedReturns ==
    /\ embedding.state = "sending" /\ embedding.batch >= Texts
    /\ embedding' = [embedding EXCEPT !.state = "returned"]
    /\ UNCHANGED vectors

\* The rows of the asset: zip(chunks, vectors, strict=False).
Records == [k \in 1..Smaller(Texts, Len(vectors)) |-> [chunk |-> k, embedding |-> vectors[k]]]

EmbeddingStep == BatchEmbedded \/ RateLimited \/ EmbedFails \/ EmbedReturns

-----------------------------------------------------------------------------
(* The extraction asset                                                    *)

\* One extraction makes both outputs; a location may do without assertions, but then it
\* never has any.
Yields == <<"mentions", "assertions">>

Extract ==
    /\ extraction.left = <<>> /\ extraction.number < MaxExtractions
    /\ extraction' = [number |-> extraction.number + 1, left |-> Yields]
    /\ UNCHANGED <<outputs, breaks>>

StoreOutput ==
    /\ extraction.left # <<>>
    /\ outputs' = [outputs EXCEPT ![Head(extraction.left)] = extraction.number]
    /\ extraction' = [extraction EXCEPT !.left = Tail(@)]
    /\ UNCHANGED breaks

ExtractionFails ==
    /\ extraction.left # <<>> /\ breaks < MaxBreaks
    /\ breaks' = breaks + 1
    /\ extraction' = [extraction EXCEPT !.left = <<>>]
    /\ UNCHANGED outputs

ExtractionStep == Extract \/ StoreOutput \/ ExtractionFails

-----------------------------------------------------------------------------
LlmTypeOK ==
    /\ task \in [Item -> [state : {"queued", "calling", "waiting"} \union Over,
                          attempts : 0..(max_retries + 1)]]
    /\ noMessages \subseteq Suspect /\ collected \subseteq Item /\ results \in [Item -> Item \union {None}]
    /\ caller \in {"collecting", "leaving", "returned", "raised"}
    /\ counted.success \in Nat /\ counted.error \in Nat
    /\ vectors \in Seq(1..Texts)
    /\ embedding.attempt \in 1..MAX_EMBED_ATTEMPTS
    /\ embedding.state \in {"sending", "returned", "raised"}
    /\ extraction.number \in 0..MaxExtractions
    /\ outputs \in [{"mentions", "assertions"} -> 0..MaxExtractions]
    /\ breaks \in 0..MaxBreaks

\* A batch call that returns has each item's own answer in its place, or nothing for an
\* item whose answer was too long; it raises only when an item has failed for good and
\* no request of it is left; and what is counted is what was sent.
AnswersInPlace ==
    /\ caller = "returned" =>
          \A i \in Item : results[i] = (IF task[i].state = "skipped" THEN None ELSE i)
    /\ caller = "raised" =>
          /\ PoolIdle
          /\ \E i \in InState({"failed"}) : i \in noMessages \/ task[i].attempts > max_retries
    /\ Cardinality(InFlight) <= max_concurrency
    /\ counted.success + counted.error
         = MapThenSumSet(LAMBDA i : task[i].attempts, Item) - Cardinality(InState({"calling"}))

\* A row of the embedding asset has the vector of its own chunk whenever the service has
\* answered with one vector for each text.
VectorOfItsChunk ==
    embedding.state = "returned" /\ Len(vectors) = Texts =>
        \A k \in 1..Texts : Records[k].embedding = k

\* The assertions stored are never of a later extraction than the mentions they name.
MentionsFirst == outputs["assertions"] <= outputs["mentions"]

=============================================================================
