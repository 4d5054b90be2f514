--------------------------- MODULE KnowledgeGraph ---------------------------
(***************************************************************************)
(* The platinum layer: packages/knowledge-graph and its two databases.     *)
(* Gold candidates and assertions land in the object store; a platinum run *)
(* resolves the candidates, replaces the tables of PostgreSQL and merges   *)
(* nodes into Neo4j; a linking run ties the assertions to the entities of  *)
(* the last stored output.  Runs overlap, statements fail, runs die.       *)
(*                                                                         *)
(* A transaction of PostgreSQL deletes what it sees when it begins, so two *)
(* that overlap leave the rows of both.  Neo4j commits each statement.     *)
(***************************************************************************)
EXTENDS Concordance

CONSTANTS
    Part,           \* the lists of gold candidates: a location, or its partition
    LocationOf,     \* the code location of each part
    Locations,      \* the code locations in the order of the assets' sources
    Batch,          \* the lists of mentions that an extraction may hand to a part
    Assertion,      \* records [id, subject, object]
    Rule,           \* the overrides a viewer may add: [alias, target, type]
    Run,            \* the runs there can be at one time
    MaxLandings, MaxRuns, MaxFaults     \* bounds

ASSUME KGAssumption == /\ MaxLandings \in Nat /\ MaxRuns \in Nat /\ MaxFaults \in Nat
                       /\ IsFiniteSet(Part) /\ Locations \in Seq(ToSet(Locations))
                       /\ \A p \in Part : LocationOf[p] \in ToSet(Locations)
                       /\ \A b \in Batch : b \in Seq(ToSet(b))

VARIABLES
    gold,       \* per part: its candidates, or None when never materialized
    claims,     \* the assertions of the gold layer
    rules,      \* viewer_entity_overrides, the active ones
    entities, edges, links,         \* PostgreSQL
    nodes, related, statements, asserts,    \* Neo4j
    output,     \* the stored output of canonical_entities, or None
    reported,   \* the links that the last complete linking run counted as full
    asked,      \* what has changed since a run was last launched for it
    work,       \* per run: what it is doing and holds
    drawn,      \* bound: runs launched, and so generations of uuids
    landings, faults    \* bounds

postgres == <<entities, edges, links>>
neo4j    == <<nodes, related, statements, asserts>>
stored   == <<output, reported>>
inputs   == <<gold, claims, rules>>
vars     == <<inputs, postgres, neo4j, stored, asked, work, drawn, landings, faults>>

Idle == [at |-> "idle", run |-> 0, cands |-> <<>>, forced |-> <<>>,
         ents |-> {}, todo |-> {}, seen |-> {}]

Init ==
    /\ gold = [p \in Part |-> None]
    /\ claims = {} /\ rules = {}
    /\ entities = {} /\ edges = {} /\ links = {}
    /\ nodes = {} /\ related = {} /\ asserts = {}
    /\ statements = [a \in {} |-> None]
    /\ output = None /\ reported = {}
    /\ asked = {}
    /\ work = [r \in Run |-> Idle]
    /\ drawn = 0 /\ landings = 0 /\ faults = 0

-----------------------------------------------------------------------------
(* The gold layer and the viewer                                           *)

Lands == landings < MaxLandings /\ landings' = landings + 1

\* What a batch of mentions is resolved to.
Handed == [b \in Batch |-> [loc \in ToSet(Locations) |-> Resolve(b, loc)]]

\* A part is materialized: the mentions of a document, resolved.
CandidatesLand(p, mentions) ==
    /\ Lands
    /\ gold' = [gold EXCEPT ![p] = Handed[mentions][LocationOf[p]]]
    /\ asked' = asked \cup {"platinum"}
    /\ UNCHANGED <<claims, rules, postgres, neo4j, stored, work, drawn, faults>>

AssertionsLand(A) ==
    /\ Lands
    /\ A # claims
    /\ claims' = A
    /\ asked' = asked \cup {"assertions"}
    /\ UNCHANGED <<gold, rules, postgres, neo4j, stored, work, drawn, faults>>

\* Nothing is launched for a rule: the next run reads it.
RuleAdded(rule) ==
    /\ Lands
    /\ rules' = rules \cup {rule}
    /\ UNCHANGED <<gold, claims, postgres, neo4j, stored, asked, work, drawn, faults>>

-----------------------------------------------------------------------------
(* Platinum runs: canonical_entities, then entity_alignments               *)

Fault == faults < MaxFaults /\ faults' = faults + 1

Step(r, at) == work' = [work EXCEPT ![r].at = at]

Launch(r, what, first) ==
    /\ work[r].at = "idle"
    /\ what \in asked /\ drawn < MaxRuns
    /\ asked' = asked \ {what}
    /\ drawn' = drawn + 1
    /\ work' = [work EXCEPT ![r] = [Idle EXCEPT !.at = first, !.run = drawn + 1]]
    /\ UNCHANGED <<inputs, postgres, neo4j, stored, landings, faults>>

LaunchPlatinum(r) == Launch(r, "platinum", "load")

\* _flatten_partition_fanin: the parts of a location, those that are missing left out.
Flat(loc) ==
    LET parts == SetToSeq({p \in Part : LocationOf[p] = loc /\ gold[p] # None})
    IN  FlattenSeq([k \in DOMAIN parts |-> gold[parts[k]]])

Sources == [k \in DOMAIN Locations |-> Flat(Locations[k])]

\* The inputs are loaded; the rules are read, or, when PostgreSQL cannot be
\* reached, taken for none; the candidates are clustered and given fresh ids.
LoadCandidates(r) ==
    /\ work[r].at = "load"
    /\ \E read \in {rules, {}}, cands \in {FlattenSeq(Sources)}, found \in {Edges(Sources)} :
          /\ IF read = rules THEN UNCHANGED faults ELSE Fault
          /\ work' = [work EXCEPT ![r].at = "delete", ![r].cands = cands,
                         ![r].forced = SetToSeq(read),
                         ![r].ents = {Entity(<<work[r].run, c.root>>, cands, c.members) :
                                        c \in Clusters(cands, found, SetToSeq(read))}]
    /\ UNCHANGED <<inputs, postgres, neo4j, stored, asked, drawn, landings>>

Ids(E) == {e.id : e \in E}

\* upsert_canonical_entities begins: DELETE, of the rows that are there now.  It
\* raises when an assertion refers to one of them; no entities, no statement.
DeleteEntities(r) ==
    /\ work[r].at = "delete"
    /\ LET referred == (UNION {{l.subject, l.object} : l \in links}) \ {None}
       IN  CASE work[r].ents = {} -> Step(r, "nodes")
            [] work[r].ents # {} /\ referred \cap Ids(entities) # {} -> Step(r, "align")
            [] OTHER -> work' = [work EXCEPT ![r].at = "insert", ![r].seen = entities]
    /\ UNCHANGED <<inputs, postgres, neo4j, stored, asked, drawn, landings, faults>>

\* INSERT and commit.  Rows deleted here may have come to be referred to.
InsertEntities(r) ==
    /\ work[r].at = "insert"
    /\ IF \E l \in links : {l.subject, l.object} \cap Ids(work[r].seen) # {}
       THEN Step(r, "align") /\ UNCHANGED entities
       ELSE /\ entities' = (entities \ work[r].seen) \cup work[r].ents
            /\ work' = [work EXCEPT ![r].at = "nodes", ![r].todo = Ids(work[r].ents)]
    /\ UNCHANGED <<inputs, edges, links, neo4j, stored, asked, drawn, landings, faults>>

\* sync_entities_to_neo4j: MERGE of one node, committed by itself.
MergeNode(r) ==
    /\ work[r].at = "nodes"
    /\ \E i \in work[r].todo :
          /\ nodes' = nodes \cup {i}
          /\ work' = [work EXCEPT ![r].todo = @ \ {i}]
    /\ UNCHANGED <<inputs, postgres, related, statements, asserts, stored, asked, drawn,
                   landings, faults>>

\* Variant: the output is stored although nodes are missing.
InAnyCase(r) == TRUE

Merged(r) == work[r].todo = {}

\* The asset returns; its output is stored, which asks for the assertions.
StoreEntities(r) ==
    /\ work[r].at = "nodes"
    /\ Merged(r)
    /\ output' = work[r].ents
    /\ asked' = asked \cup {"assertions"}
    /\ Step(r, "align")
    /\ UNCHANGED <<inputs, postgres, neo4j, reported, drawn, landings, faults>>

\* entity_alignments loads its inputs again and replaces the edges.  A row is
\* known by its two ids and its type.
ReplaceEdges(r) ==
    /\ work[r].at = "align"
    /\ \E found \in {Edges(Sources)} :
       LET rows == {<<{found[k].from, found[k].to}, found[k].type>> : k \in DOMAIN found}
       IN  edges' = IF rows = {} THEN edges ELSE rows
    /\ Step(r, "relate")
    /\ UNCHANGED <<inputs, entities, links, neo4j, stored, asked, drawn, landings, faults>>

\* sync_alignment_edges_to_neo4j matches entities by the ids of candidates.
RelateNodes(r) ==
    /\ work[r].at = "relate"
    /\ related' = related \cup {e \in edges : e[1] \subseteq nodes}
    /\ work' = [work EXCEPT ![r] = Idle]
    /\ UNCHANGED <<inputs, postgres, nodes, statements, asserts, stored, asked, drawn,
                   landings, faults>>

-----------------------------------------------------------------------------
(* Linking runs: assertion_graph                                           *)

\* The run fails at once when there is no output to load.
LaunchLinking(r) == output # None /\ Launch(r, "assertions", "link")

\* _resolve_entity_id: an entity of that name, else one whose name contains it or
\* is contained in it, else none.  Which comes first depends on the order of the
\* clusters, and is left open.
Resolved(text) ==
    LET Names(e) == {Words[t] : t \in {e.name} \cup e.aliases}
        named == {e.id : e \in {d \in output : Words[text] \in Names(d)}}
        close == {e.id : e \in {d \in output : \E n \in Names(d) :
                                   Inside(n, Words[text]) \/ Inside(Words[text], n)}}
    IN  IF named # {} THEN named ELSE IF close # {} THEN close ELSE {None}

Ends == UNION {Resolved(a.subject) \cup Resolved(a.object) : a \in claims}

LinkAssertions(r) ==
    /\ work[r].at = "link"
    /\ \E f \in [claims -> Ends \X Ends] :
          /\ \A a \in claims : f[a] \in Resolved(a.subject) \X Resolved(a.object)
          /\ work' = [work EXCEPT ![r].at = "links",
                         ![r].ents = {[id |-> a.id, subject |-> f[a][1], object |-> f[a][2]] :
                                         a \in claims}]
    /\ UNCHANGED <<inputs, postgres, neo4j, stored, asked, drawn, landings, faults>>

\* upsert_assertions: all rows are replaced, if there is one, and each must refer
\* to entities that exist.
ReplaceLinks(r) ==
    /\ work[r].at = "links"
    /\ LET referred == (UNION {{l.subject, l.object} : l \in work[r].ents}) \ {None}
       IN  IF referred \subseteq Ids(entities)
           THEN /\ links' = IF work[r].ents = {} THEN links ELSE work[r].ents
                /\ work' = [work EXCEPT ![r].at = "states", ![r].todo = work[r].ents]
           ELSE work' = [work EXCEPT ![r] = Idle] /\ UNCHANGED links
    /\ UNCHANGED <<inputs, entities, edges, neo4j, stored, asked, drawn, landings, faults>>

Full(l) == None \notin {l.subject, l.object}

\* MERGE of a Statement; a property that is null is left as it was.
MergeStatement(r, l) ==
    LET old == IF l.id \in DOMAIN statements THEN statements[l.id]
               ELSE [subject |-> None, object |-> None]
        new == [subject |-> IF l.subject = None THEN old.subject ELSE l.subject,
                object |-> IF l.object = None THEN old.object ELSE l.object]
    IN  /\ work[r].at = "states" /\ l \in work[r].todo
        /\ statements' = [i \in DOMAIN statements \cup {l.id} |->
                             IF i = l.id THEN new ELSE statements[i]]
        /\ work' = [work EXCEPT ![r].todo = @ \ {l}, ![r].at = "asserts", ![r].seen = {l}]
        /\ UNCHANGED <<inputs, postgres, nodes, related, asserts, stored, asked, drawn,
                       landings, faults>>

\* The ASSERTS edge, if both ends are known and both are nodes.
MergeAsserts(r) ==
    /\ work[r].at = "asserts"
    /\ asserts' = asserts \cup {l \in work[r].seen :
                                   Full(l) /\ {l.subject, l.object} \subseteq nodes}
    /\ work' = [work EXCEPT ![r].at = "states", ![r].seen = {}]
    /\ UNCHANGED <<inputs, postgres, nodes, related, statements, stored, asked, drawn,
                   landings, faults>>

\* The asset returns its counts.
ReportLinks(r) ==
    /\ work[r].at = "states" /\ work[r].todo = {}
    /\ reported' = {l \in work[r].ents : Full(l)}
    /\ work' = [work EXCEPT ![r] = Idle]
    /\ UNCHANGED <<inputs, postgres, neo4j, output, asked, drawn, landings, faults>>

-----------------------------------------------------------------------------
(* Faults                                                                  *)

Platinum == {"load", "delete", "insert", "nodes"}

\* A step raises: an asset ends without an output, a transaction is rolled back,
\* what Neo4j has committed stays.  The other asset of the job still runs.
StepRaises(r) ==
    /\ work[r].at # "idle"
    /\ Fault
    /\ work' = [work EXCEPT ![r] = IF work[r].at \in Platinum
                                   THEN [Idle EXCEPT !.at = "align", !.run = work[r].run]
                                   ELSE Idle]
    /\ UNCHANGED <<inputs, postgres, neo4j, stored, asked, drawn, landings>>

\* The process of the run is killed.
RunDies(r) ==
    /\ work[r].at # "idle"
    /\ Fault
    /\ work' = [work EXCEPT ![r] = Idle]
    /\ UNCHANGED <<inputs, postgres, neo4j, stored, asked, drawn, landings>>

RunStep(r) ==
    \/ LoadCandidates(r) \/ DeleteEntities(r) \/ InsertEntities(r)
    \/ MergeNode(r) \/ StoreEntities(r) \/ ReplaceEdges(r) \/ RelateNodes(r)
    \/ LinkAssertions(r) \/ ReplaceLinks(r) \/ MergeAsserts(r) \/ ReportLinks(r)
    \/ \E l \in work[r].todo : MergeStatement(r, l)

Next ==
    \/ \E p \in Part, b \in Batch : CandidatesLand(p, b)
    \/ \E A \in SUBSET Assertion : AssertionsLand(A)
    \/ \E rule \in Rule : RuleAdded(rule)
    \/ \E r \in Run :
          \/ LaunchPlatinum(r)
          \/ LaunchLinking(r)
          \/ RunStep(r)
          \/ StepRaises(r)
          \/ RunDies(r)

\* The sensor and the automation launch what they are asked for, and a run that
\* is launched goes on.
Fairness == \A r \in Run : /\ WF_vars(LaunchPlatinum(r))
                           /\ WF_vars(RunStep(r))

Spec == Init /\ [][Next]_vars /\ Fairness

-----------------------------------------------------------------------------
(* Properties                                                              *)

RunState == Platinum \cup {"idle", "align", "relate", "link", "links", "states", "asserts"}

TypeOK ==
    /\ \A p \in Part : gold[p] # None => \A k \in DOMAIN gold[p] : gold[p][k].loc = LocationOf[p]
    /\ claims \subseteq Assertion /\ rules \subseteq Rule
    /\ asked \subseteq {"platinum", "assertions"}
    /\ \A r \in Run : work[r].at \in RunState /\ work[r].run \in 0 .. drawn
    /\ Ids(entities) \subseteq (1 .. drawn) \X UNION {e.sources : e \in entities}
    /\ \A l \in links : {l.subject, l.object} \subseteq Ids(entities) \cup {None}
    /\ drawn \in 0 .. MaxRuns /\ landings \in 0 .. MaxLandings /\ faults \in 0 .. MaxFaults

\* Two candidates of a run have a reason to be one entity: a name, a voice or two
\* words in common, or a rule.  One common word is not enough.  An id may be that of
\* several candidates.
Alike(a, b) ==
    \/ NamesOf(a) \cap NamesOf(b) # {}
    \/ a.profile = b.profile /\ a.profile # None
    \/ Cardinality(WordsOf(a) \cap WordsOf(b)) >= 2

Reason(r, i, j) ==
    \/ \E a, b \in ToSet(work[r].cands) : a.id = i /\ b.id = j /\ Alike(a, b)
    \/ \E k \in DOMAIN work[r].forced :
          <<i, j>> \in ToSet(Forced(work[r].cands, work[r].forced[k]))

\* What is one entity hangs together by reasons: the candidates cannot be divided in two
\* with a part of the entity on either side and no reason between the sides.
\* concordance.py:496: substring alone "can never trigger a merge".
MergedForAReason ==
    \A r \in Run : work[r].at = "delete" =>
        LET ids == Ids(ToSet(work[r].cands)) IN
        \A e \in work[r].ents, S \in SUBSET ids :
            S \cap e.sources # {} /\ e.sources \ S # {} =>
                \E i \in S, j \in ids \ S : Reason(r, i, j) \/ Reason(r, j, i)

\* What a linking run has reported as fully linked is an edge of the graph, in
\* spite of the runs that replace entities, and of those that died.
ReportedLinked == reported \subseteq asserts

\* sensors.py:3: the platinum job runs "so the knowledge graph stays up-to-date as
\* new documents flow through".
GraphUpToDate ==
    []<>(UNION {e.sources : e \in entities} = {c.id : c \in ToSet(FlattenSeq(Sources))})
=============================================================================
