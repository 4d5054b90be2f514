------------------------------ MODULE Training ------------------------------
(***************************************************************************)
(* The training sets of media_ingest (assets/training.py):                 *)
(*                                                                         *)
(*   - sft_dataset walks the documents and writes a row for each chunk:    *)
(*     what a person has accepted where the ground truth says that the     *)
(*     chunk is reviewed, and the extraction of the gold layer otherwise;  *)
(*     the rows are put twice, for the domain and for all domains;         *)
(*   - dpo_dataset pairs, for each chunk of the ground truth, the model    *)
(*     of the latest benchmark run that was best with the one that was     *)
(*     worst.                                                              *)
(*                                                                         *)
(* The extractions are known by their number, an entry of the ground truth *)
(* by the edit that wrote it.  The ground truth and the gold layer change  *)
(* while an asset runs.  The scoring is external.                          *)
(***************************************************************************)
EXTENDS Naturals, FiniteSets, SequencesExt, Python

CONSTANTS Manuscripts,  \* the documents, in the order of the silver layer
          Passages,     \* the chunks of each document, in their order
          Models,       \* the models of a benchmark run, in the order they are listed
          F1,           \* the scores a model may have on a chunk
          MaxEdits, MaxWrites, MaxBenches, MaxCuts   \* bounds

ASSUME TrainingAssumption ==
    /\ Manuscripts \in Seq(ToSet(Manuscripts)) /\ Models \in Seq(ToSet(Models))
    /\ \A d \in ToSet(Manuscripts) : Passages[d] \in Seq(ToSet(Passages[d]))
    /\ F1 \subseteq Nat /\ 0 \in F1
    /\ MaxEdits \in Nat /\ MaxWrites \in Nat /\ MaxBenches \in Nat /\ MaxCuts \in Nat

VARIABLES
    gold,     \* the extraction that each gold file of a document is of
    truth,    \* the entry of each chunk in active.json, or None
    sft,      \* the run of sft_dataset: where it is, what it has loaded, its rows
    corpus,   \* the rows put for the domain and for all domains, or None
    bench,    \* the latest benchmark run: the scores of each model, None without output
    pairs,    \* the stored rows of dpo_dataset, or None
    edits, writes, benches, cuts   \* what has happened so far

trainingVars == <<gold, truth, sft, corpus, bench, pairs, edits, writes, benches, cuts>>

Passage == UNION {ToSet(Passages[d]) : d \in ToSet(Manuscripts)}
Model   == ToSet(Models)

\* A file that is missing is read as one without rows.
NoFile == 0

NoJob == [at |-> "idle", truth |-> None, left |-> <<>>, mentions |-> NoFile, rows |-> <<>>]

TrainingInit ==
    /\ gold = [d \in ToSet(Manuscripts) |-> [mentions |-> NoFile, assertions |-> NoFile]]
    /\ truth = [c \in Passage |-> None]
    /\ sft = NoJob /\ corpus = [domain |-> None, all |-> None]
    /\ bench = None /\ pairs = None
    /\ edits = 0 /\ writes = 0 /\ benches = 0 /\ cuts = 0

-----------------------------------------------------------------------------
(* What changes meanwhile                                                  *)

\* A person saves an entry, and says whether the chunk is reviewed.
Review(c) ==
    /\ edits < MaxEdits /\ edits' = edits + 1
    /\ \E r \in BOOLEAN : truth' = [truth EXCEPT ![c] = [reviewed |-> r, edit |-> edits']]
    /\ UNCHANGED <<gold, sft, corpus, bench, pairs, writes, benches, cuts>>

\* The extraction of a document stores one of its outputs.
StoreGold(d) ==
    /\ writes < MaxWrites /\ writes' = writes + 1
    /\ gold' = IF gold[d].mentions = gold[d].assertions
               THEN [gold EXCEPT ![d].mentions = @ + 1]
               ELSE [gold EXCEPT ![d].assertions = @ + 1]
    /\ UNCHANGED <<truth, sft, corpus, bench, pairs, edits, benches, cuts>>

\* A model's extraction may be missing, and may have nothing for a chunk.
BenchRuns ==
    /\ benches < MaxBenches /\ benches' = benches + 1
    /\ bench' \in [Model -> {None} \union [Passage -> F1 \union {None}]]
    /\ UNCHANGED <<gold, truth, sft, corpus, pairs, edits, writes, cuts>>

-----------------------------------------------------------------------------
(* sft_dataset                                                             *)

At(step) == sft.at = step

\* The documents and the ground truth are loaded once, at the start.
LoadTruth ==
    /\ At("idle")
    /\ sft' = [NoJob EXCEPT !.at = "mentions", !.truth = truth, !.left = Manuscripts]
    /\ UNCHANGED <<gold, truth, corpus, bench, pairs, edits, writes, benches, cuts>>

LoadMentions ==
    /\ At("mentions") /\ sft.left # <<>>
    /\ sft' = [sft EXCEPT !.at = "rows", !.mentions = gold[Head(sft.left)].mentions]
    /\ UNCHANGED <<gold, truth, corpus, bench, pairs, edits, writes, benches, cuts>>

Accepted(entry) == entry # None /\ entry.reviewed

Row(c, mentions, assertions) ==
    LET entry == sft.truth[c]
    IN  IF Accepted(entry)
        THEN [chunk |-> c, source |-> "human", mentions |-> entry.edit,
              propositions |-> entry.edit]
        ELSE [chunk |-> c, source |-> "ensemble", mentions |-> mentions,
              propositions |-> assertions]

\* The assertions are a file of their own, read after the mentions.
AddRows ==
    /\ At("rows")
    /\ LET d == Head(sft.left) IN
       sft' = [sft EXCEPT !.at = "mentions", !.left = Tail(@),
                          !.rows = @ \o [k \in DOMAIN Passages[d] |->
                              Row(Passages[d][k], sft.mentions, gold[d].assertions)]]
    /\ UNCHANGED <<gold, truth, corpus, bench, pairs, edits, writes, benches, cuts>>

PutDomain ==
    /\ At("mentions") /\ sft.left = <<>>
    /\ corpus' = [corpus EXCEPT !.domain = sft.rows]
    /\ sft' = [sft EXCEPT !.at = "union"]
    /\ UNCHANGED <<gold, truth, bench, pairs, edits, writes, benches, cuts>>

PutUnion ==
    /\ At("union")
    /\ corpus' = [corpus EXCEPT !.all = sft.rows]
    /\ sft' = NoJob
    /\ UNCHANGED <<gold, truth, bench, pairs, edits, writes, benches, cuts>>

\* A job that ends between the two puts leaves them apart until the next one.
SftFails ==
    /\ ~At("idle") /\ cuts < MaxCuts /\ cuts' = cuts + 1
    /\ sft' = NoJob
    /\ UNCHANGED <<gold, truth, corpus, bench, pairs, edits, writes, benches>>

-----------------------------------------------------------------------------
(* dpo_dataset                                                             *)

\* The models whose extraction could be loaded, by their place.
Scored == {k \in DOMAIN Models : bench # None /\ bench[Models[k]] # None}

\* A model that has nothing for the chunk scores as one that has everything wrong.
ScoreOf(k, c) == LET score == bench[Models[k]][c] IN IF score = None THEN 0 ELSE score

\* sorted() keeps the order of models with one score: the first of the best, and the
\* last of the worst.
Preferred(c) ==
    CHOOSE k \in Scored :
        /\ \A j \in Scored : ScoreOf(j, c) <= ScoreOf(k, c)
        /\ \A j \in Scored : j < k => ScoreOf(j, c) < ScoreOf(k, c)
Rejected(c) ==
    CHOOSE k \in Scored :
        /\ \A j \in Scored : ScoreOf(k, c) <= ScoreOf(j, c)
        /\ \A j \in Scored : k < j => ScoreOf(k, c) < ScoreOf(j, c)

\* No pair without two models, nor where the best is no better than the worst.
Tells(c) == Cardinality(Scored) >= 2 /\ ScoreOf(Preferred(c), c) # ScoreOf(Rejected(c), c)

MakePairs ==
    /\ pairs' = {[chunk |-> c, preferred |-> Models[Preferred(c)],
                  rejected |-> Models[Rejected(c)],
                  delta |-> ScoreOf(Preferred(c), c) - ScoreOf(Rejected(c), c)] :
                 c \in {k \in Passage : truth[k] # None /\ Tells(k)}}
    /\ UNCHANGED <<gold, truth, sft, corpus, bench, edits, writes, benches, cuts>>

Learns == \E c \in Passage : Review(c)

SftNext ==
    \/ Learns
    \/ \E d \in ToSet(Manuscripts) : StoreGold(d)
    \/ LoadTruth \/ LoadMentions \/ AddRows \/ PutDomain \/ PutUnion \/ SftFails

DpoNext == Learns \/ BenchRuns \/ MakePairs

\* The two assets share the ground truth, and nothing they write.
TrainingNext == SftNext \/ DpoNext

-----------------------------------------------------------------------------
TrainingTypeOK ==
    /\ \A d \in ToSet(Manuscripts) : gold[d].mentions - gold[d].assertions \in 0..1
    /\ \A c \in Passage : truth[c] # None => truth[c].edit \in 1..MaxEdits
    /\ sft.at \in {"idle", "mentions", "rows", "union"}
    /\ pairs # None => \A p \in pairs : p.chunk \in Passage /\ {p.preferred, p.rejected} \subseteq Model
    /\ edits \in 0..MaxEdits /\ writes \in 0..MaxWrites
    /\ benches \in 0..MaxBenches /\ cuts \in 0..MaxCuts

\* Each chunk has one row, in the order of the documents; a row that is said to be of a
\* person has both its lists from one edit of the chunk; the rows for all domains are
\* those of the domain unless a job was cut off between the puts; and a pair prefers a
\* model that scored better.
TrainingTold ==
    /\ \A rows \in {corpus.domain, corpus.all} \ {None} :
          /\ [k \in DOMAIN rows |-> rows[k].chunk]
               = FlattenSeq([d \in DOMAIN Manuscripts |-> Passages[Manuscripts[d]]])
          /\ \A k \in DOMAIN rows :
                rows[k].source = "human" =>
                    rows[k].mentions = rows[k].propositions /\ rows[k].mentions \in 1..edits
    /\ cuts = 0 /\ ~At("union") => corpus.all = corpus.domain
    /\ pairs # None => \A p \in pairs : p.delta > 0 /\ p.preferred # p.rejected
=============================================================================
