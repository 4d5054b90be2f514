-------------------------- MODULE MCKnowledgeGraph --------------------------
(* Instances of KnowledgeGraph for TLC. *)
EXTENDS KnowledgeGraph

CONSTANTS joeBiden, biden, newYork, r1, r2

MCWords == joeBiden :> <<"joe", "biden">> @@ biden :> <<"biden">>
           @@ newYork :> <<"new", "york">>
MCLetters == [joe |-> 3, biden |-> 5, new |-> 3, york |-> 4]

\* No embeddings: texts are as similar as they are equal.
MCCosine(s, t) == IF s = t THEN 100 ELSE 0

\* log((n + 1) / (df + 1)) + 1, in hundredths, for up to six candidates.
MCLog == <<0, 69, 110, 139, 161, 179, 195>>
MCRarity(n, df) == 100 + MCLog[n + 1] - MCLog[df + 1]

MCLocations == <<"congress", "media">>
MCLocationOf == [congress |-> "congress", film |-> "media"]

\* A mention of one text, or of two in one document.
Mention(i, t) == [id |-> i, text |-> t, type |-> "PERSON"]
One(t) == <<Mention(1, t)>>
Singles == {One(joeBiden), One(newYork)}

Both == {<<Mention(1, joeBiden), Mention(2, biden)>>}

Runs == Permutations({r1, r2})

Says == {[id |-> "a", subject |-> joeBiden, object |-> biden]}
Same == {[alias |-> biden, target |-> joeBiden, type |-> "PERSON"]}
=============================================================================
