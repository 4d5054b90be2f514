---------------------------- MODULE Concordance ----------------------------
(***************************************************************************)
(* Entity resolution, dagster_io/concordance.py and the clustering of      *)
(* canonical_entities.py: mentions become the candidates of a code         *)
(* location, pairs of candidates become weighted edges, the sameAs edges   *)
(* become clusters, and a cluster becomes a canonical entity.              *)
(*                                                                         *)
(* A text stands for its words; a word for its length.  Values of signals  *)
(* are percents, weights tenths, the rarity of a word hundredths.  A name  *)
(* contains another when its words do: a match that cuts a word in two is  *)
(* left out.                                                               *)
(***************************************************************************)
EXTENDS Python, Integers, Sequences, FiniteSets, SequencesExt, FiniteSetsExt

CONSTANTS
    Words,              \* the words of each text, lower-cased and stripped
    Letters,            \* the length of each word
    Cosine(_, _),       \* the similarity of the embeddings of two texts
    Rarity(_, _),       \* log((n + 1) / (df + 1)) + 1
    MentionType,        \* the members of the enum of that name
    MAX_CLUSTER_SIZE

\* F of x, with x evaluated once and not wherever F uses it.
Once(x, F(_)) == CHOOSE y \in {F(z) : z \in {x}} : TRUE

-----------------------------------------------------------------------------
(* Union-find                                                              *)

\* A forest is a set of trees [root, rank, members]: find says which tree an item
\* is in, and clusters maps each root to the members of its tree.
Forest(items) == {[root |-> i, rank |-> 0, members |-> {i}] : i \in items}

TreeOf(uf, i) == CHOOSE t \in uf : i \in t.members

\* _UnionFind.union: the root of lower rank goes under the other.
Unite(uf, x, y) ==
    LET s == TreeOf(uf, x)
        t == TreeOf(uf, y)
        up == IF s.rank < t.rank THEN t ELSE s
    IN  IF s = t THEN uf
        ELSE (uf \ {s, t}) \cup
             {[root |-> up.root, members |-> s.members \cup t.members,
               rank |-> IF s.rank = t.rank THEN s.rank + 1 ELSE up.rank]}

Uniting(before, p) == Once(before, LAMBDA uf : Unite(uf, p[1], p[2]))

UniteAll(uf, pairs) == FoldLeft(Uniting, uf, pairs)

-----------------------------------------------------------------------------
(* Words                                                                   *)

Length(words) == FoldLeft(LAMBDA n, w : n + Letters[w], Len(words) - 1, words)

Inside(a, b) == \E i \in 1 .. Len(b) - Len(a) + 1 : SubSeq(b, i, i + Len(a) - 1) = a

Shared(a, b) == Cardinality(ToSet(a) \cap ToSet(b))

Shorter(a, b) == IF Length(a) <= Length(b) THEN a ELSE b
Longer(a, b)  == IF Length(a) <= Length(b) THEN b ELSE a

\* Every element of s with every element of t, in the order of two nested loops.
Product(s, t) == FlattenSeq([i \in DOMAIN s |-> [j \in DOMAIN t |-> <<s[i], t[j]>>]])

\* Each element of s with each later one.
Pairs(s) == FlattenSeq([i \in DOMAIN s |-> [j \in 1 .. Len(s) - i |-> <<s[i], s[i + j]>>]])

-----------------------------------------------------------------------------
(* ConcordanceEngine.resolve: mentions of one document to candidates       *)

\* A mention: [id, text, type, doc, profile].  Types outside the enum share one bucket.
Bucket(m) == IF m.type \in MentionType THEN m.type ELSE "OTHER"

\* Passes 2 and 4 compare surfaces of two shared words and similar length.
Comparable(a, b) ==
    /\ Length(Shorter(a, b)) >= 4
    /\ Shared(a, b) >= 2
    /\ 10 * Length(Shorter(a, b)) >= 4 * Length(Longer(a, b))

\* Passes 2 to 4: substring, Jaccard above 0.6, cosine above 0.85.
Near(s, t) ==
    LET a == Words[s] b == Words[t] IN
    \/ Comparable(a, b) /\ (Inside(a, b) \/ Inside(b, a))
    \/ /\ Shared(a, b) >= 2
       /\ 10 * Shared(a, b) > 6 * Cardinality(ToSet(a) \cup ToSet(b))
    \/ Comparable(a, b) /\ Cosine(s, t) > 85

\* Pass 1 joins equal surfaces; the later passes join their first mentions.
Joined(m, n) == /\ Bucket(m) = Bucket(n)
                /\ Words[m.text] = Words[n.text] \/ Near(m.text, n.text)

\* The member that comes first among those with the largest count.
Foremost(members, count, place) ==
    CHOOSE x \in members : \A y \in members \ {x} :
        count[x] > count[y] \/ (count[x] = count[y] /\ place[x] < place[y])

\* Where a text first occurs among the mentions of the cluster.
FirstOf(cluster, mentions, t) ==
    Min({i \in DOMAIN mentions : mentions[i] \in cluster /\ mentions[i].text = t})

\* The candidate of one cluster of mentions; its id is a hash of name, type and
\* code location, whatever the document.
Candidate(cluster, mentions, loc) ==
    LET texts == {m.text : m \in cluster}
        place == [t \in texts |-> FirstOf(cluster, mentions, t)]
        count == [t \in texts |-> Cardinality({m \in cluster : m.text = t})]
        name == Foremost(texts, count, place)
        type == Bucket(CHOOSE m \in cluster : TRUE)
    IN  [id |-> <<name, type, loc>>, name |-> name, type |-> type, loc |-> loc,
         aliases |-> texts \ {name}, count |-> Cardinality(cluster), profile |-> None]

\* The candidates of the clusters, in the order of their first mentions.
CandidatesOf(trees, mentions, loc) ==
    LET Members(i) == TreeOf(trees, mentions[i]).members
        first == Those([i \in DOMAIN mentions |-> i],
                       LAMBDA i : \A j \in 1 .. i - 1 : mentions[j] \notin Members(i))
    IN  [k \in DOMAIN first |-> Candidate(Members(first[k]), mentions, loc)]

Resolve(mentions, loc) ==
    LET pairs == Those(Pairs(mentions), LAMBDA p : Joined(p[1], p[2]))
    IN  Once(UniteAll(Forest(ToSet(mentions)), pairs),
             LAMBDA trees : CandidatesOf(trees, mentions, loc))

-----------------------------------------------------------------------------
(* CrossSourceAligner                                                      *)

NamesOf(c) == {Words[t] : t \in {c.name} \cup c.aliases}
WordsOf(c) == UNION {ToSet(n) : n \in NamesOf(c)}

\* compute_idf: the rarity of a word among the candidates of a list.
Idf(cands) == [w \in UNION {WordsOf(cands[i]) : i \in DOMAIN cands} |->
                  Rarity(Len(cands),
                         Cardinality({i \in DOMAIN cands : w \in WordsOf(cands[i])}))]

Weight(idf, words) == MapThenSumSet(LAMBDA w : idf[w], words)

\* _idf_weighted_jaccard, in percent.
Jaccard(a, b, idf) == IF a = {} \/ b = {} THEN 0
                      ELSE (100 * Weight(idf, a \cap b)) \div Weight(idf, a \cup b)

\* What a pair of names is worth as a substring, or 0.
Substring(a, b, idf) ==
    LET common == ToSet(a) \cap ToSet(b)
        all == ToSet(a) \cup ToSet(b)
        short == Cardinality(ToSet(Shorter(a, b)))
        base == IF 10 * Length(Shorter(a, b)) >= 4 * Length(Longer(a, b)) THEN 80 ELSE 60
        \* the mean rarity of the common words over that of all, within 0.7 .. 1.3
        ratio == (100 * Weight(idf, common) * Cardinality(all))
                    \div (Weight(idf, all) * Cardinality(common))
    IN  IF /\ Inside(a, b) \/ Inside(b, a)
           /\ Length(Shorter(a, b)) >= 4
           /\ Cardinality(common) >= Min({2, short})
        THEN Min({100, (base * Min({130, Max({70, ratio})})) \div 100})
        ELSE 0

\* What each signal of a pair is worth, or 0.  The substring is that of any pair of
\* names that has one: Python goes through two sets.
Worth(a, b, idf) ==
    LET exact == NamesOf(a) \cap NamesOf(b) # {}
        values == {Substring(m, n, idf) : m \in NamesOf(a), n \in NamesOf(b)} \ {0}
        shared == Cardinality(WordsOf(a) \cap WordsOf(b)) >= 2
    IN  [exact |-> IF exact THEN 100 ELSE 0,
         profile |-> IF a.profile = b.profile /\ a.profile # None THEN 92 ELSE 0,
         substring |-> IF exact \/ values = {} THEN 0 ELSE CHOOSE v \in values : TRUE,
         embedding |-> IF shared /\ Cosine(a.name, b.name) > 80
                       THEN Cosine(a.name, b.name) ELSE 0,
         jaccard |-> IF shared /\ Jaccard(WordsOf(a), WordsOf(b), idf) >= 50
                     THEN Jaccard(WordsOf(a), WordsOf(b), idf) ELSE 0]

\* The signals of a pair: name to value.
Signals(a, b, idf) == LET worth == Worth(a, b, idf)
                      IN  [s \in {t \in DOMAIN worth : worth[t] > 0} |-> worth[s]]

Importance == [exact |-> 10, profile |-> 9, substring |-> 7, embedding |-> 6, jaccard |-> 5]

\* The weighted average of the signals.
Score(signals) ==
    MapThenSumSet(LAMBDA s : Importance[s] * signals[s], DOMAIN signals)
        \div MapThenSumSet(LAMBDA s : Importance[s], DOMAIN signals)

\* Variant: one signal is enough.
AnySignal(signals) == Score(signals) >= 65

\* sameAs needs a common name, a common voice, or two signals that agree.
SameAs(signals) ==
    \/ {"exact", "profile"} \cap DOMAIN signals # {}
    \/ Cardinality(DOMAIN signals) >= 2 /\ Score(signals) >= 65

\* _score_pair, as the edges it gives: one or none.
EdgeOf(a, b, idf) ==
    LET Edge(type, signals) == <<[from |-> a.id, to |-> b.id, type |-> type,
                                  score |-> Score(signals)]>>
        Of(signals) ==
            CASE SameAs(signals) -> Edge("sameAs", signals)
              [] ~SameAs(signals) /\ DOMAIN signals # {} /\ Score(signals) >= 50
                    -> Edge("possibleSameAs", signals)
              [] OTHER -> <<>>
    IN  IF a.type # b.type THEN <<>> ELSE Once(Signals(a, b, idf), Of)

EdgesOf(pairs, idf) == FlattenSeq([k \in DOMAIN pairs |-> EdgeOf(pairs[k][1], pairs[k][2], idf)])

Intra(cands) == EdgesOf(Pairs(cands), Idf(cands))

\* The pairs of different locations, in the order of the locations.
Cross(sources) ==
    LET apart == Pairs(sources)
        pairs == FlattenSeq([k \in DOMAIN apart |-> Product(apart[k][1], apart[k][2])])
    IN  EdgesOf(pairs, Idf(FlattenSeq(sources)))

Edges(sources) == FlattenSeq([k \in DOMAIN sources |-> Intra(sources[k])]) \o Cross(sources)

-----------------------------------------------------------------------------
(* Clusters and canonical entities                                         *)

\* The dictionary that is built by writing what is kept of a cluster at its root
\* and then each ejected member at its own id, which may be that root.
Split(clusters, kept) ==
    LET out == UNION {c.members \ kept[c.members] : c \in clusters}
    IN  {[root |-> i, members |-> {i}] : i \in out}
        \cup {[root |-> c.root, members |-> kept[c.members]] :
                 c \in {d \in clusters : d.root \notin out}}

\* cand_by_id: the last candidate of an id.
ById(cands, i) == cands[Max({k \in DOMAIN cands : cands[k].id = i})]

IdPlace(cands, i) == Min({k \in DOMAIN cands : cands[k].id = i})

\* The cap: the members with the most mentions, by a stable sort.
Largest(cands, members) ==
    LET Before(i, j) == LET m == ById(cands, i).count n == ById(cands, j).count
                        IN  m > n \/ (m = n /\ IdPlace(cands, i) < IdPlace(cands, j))
    IN  IF Cardinality(members) <= MAX_CLUSTER_SIZE THEN members
        ELSE {i \in members :
                 Cardinality({j \in members : Before(j, i)}) < MAX_CLUSTER_SIZE}

\* check_cluster_coherence: an edge from a candidate id to itself counts too.
Coherent(edges, members) ==
    LET held == {i \in members : \E k \in DOMAIN edges :
                    /\ edges[k].type = "sameAs" /\ edges[k].score >= 45
                    /\ {edges[k].from, edges[k].to} \subseteq members
                    /\ i \in {edges[k].from, edges[k].to}}
    IN  IF Cardinality(members) <= 2 \/ held = {} THEN members ELSE held

\* The rules of the viewer: every candidate of the alias with every one of the target.
Forced(cands, rule) ==
    LET Named(text) == Those(cands, LAMBDA c :
                          c.type = rule.type /\ Words[text] \in NamesOf(c))
        pairs == Product(Named(rule.alias), Named(rule.target))
    IN  [k \in DOMAIN pairs |-> <<pairs[k][1].id, pairs[k][2].id>>]

\* The clusters of candidate ids that canonical_entities ends with.
Clusters(cands, edges, rules) ==
    LET same == Those(edges, LAMBDA e : e.type = "sameAs")
        alike == [k \in DOMAIN same |-> <<same[k].from, same[k].to>>]
        forced == FlattenSeq([k \in DOMAIN rules |-> Forced(cands, rules[k])])
        Members(clusters) == {c.members : c \in clusters}
        Capped(uf) == Split(uf, [c \in Members(uf) |-> Largest(cands, c)])
        Checked(clusters) == Split(clusters, [c \in Members(clusters) |-> Coherent(edges, c)])
    IN  Once(Once(UniteAll(Forest({cands[k].id : k \in DOMAIN cands}), alike \o forced),
                  Capped), Checked)

\* The canonical entity of a cluster.
Entity(id, cands, members) ==
    LET Of(i) == ById(cands, i)
        count == [i \in members |-> Of(i).count]
        place == [i \in members |-> IdPlace(cands, i)]
        primary == Foremost(members, count, place)
    IN  [id |-> id, name |-> Of(primary).name, type |-> Of(primary).type,
         aliases |-> UNION {{Of(i).name} \cup Of(i).aliases : i \in members}
                        \ {Of(primary).name},
         sources |-> members, locs |-> {Of(i).loc : i \in members},
         count |-> MapThenSumSet(LAMBDA i : count[i], members)]
=============================================================================
