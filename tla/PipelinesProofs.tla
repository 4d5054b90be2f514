--------------------------- MODULE PipelinesProofs ---------------------------
(***************************************************************************)
(* Proofs about the KnowledgeGraph and its Concordance, for every value of *)
(* their constants, and about MCPipelines, which explores the graph and    *)
(* the pipelines of LocationsProofs one by one.                            *)
(***************************************************************************)
EXTENDS MCPipelines, LocationsProofs

-----------------------------------------------------------------------------
(* The knowledge graph: what a linking run reports                         *)

\* What a run has in its hands, of the nodes and edges that are there: a platinum run
\* that merges nodes has the rest still to do; a linking run refers to nodes alone, and
\* has merged the edges of what it has done.
HeldOK(w, N, A) ==
    /\ w.at = "nodes" => Ids(w.ents) \subseteq N \cup w.todo
    /\ w.at \in {"links", "states", "asserts"} =>
          \A l \in w.ents : {l.subject, l.object} \ {None} \subseteq N
    /\ w.at \in {"states", "asserts"} =>
          \A l \in w.ents : Full(l) => l \in A \cup w.todo \cup w.seen
    /\ w.at \in {"link", "links", "states"} => w.seen = {}
    /\ w.at = "states" => w.todo \subseteq w.ents
    /\ w.at = "asserts" => w.seen \subseteq w.ents /\ w.todo \subseteq w.ents

Fields == {"at", "run", "cands", "forced", "ents", "todo", "seen"}

\* There is an output to link with.
Stored == output # None \/ \E r \in Run : work[r].at = "link"

LinkInv ==
    /\ DOMAIN work = Run
    /\ \A r \in Run : DOMAIN work[r] = Fields /\ HeldOK(work[r], nodes, asserts)
    /\ Stored => Ids(output) \subseteq nodes
    /\ reported \subseteq asserts

LEMMA HeldMore ==
  ASSUME NEW w, NEW N, NEW A, NEW M, NEW B, N \subseteq M, A \subseteq B, HeldOK(w, N, A)
  PROVE  HeldOK(w, M, B)
BY DEF HeldOK

\* A step of one run that takes no node or edge away.
LEMMA OneRun ==
  ASSUME LinkInv, NEW r \in Run, NEW w, work' = [work EXCEPT ![r] = w],
         nodes \subseteq nodes', asserts \subseteq asserts',
         DOMAIN w = Fields, HeldOK(w, nodes', asserts'),
         output' = output \/ Ids(output') \subseteq nodes',
         w.at = "link" => output # None,
         reported' \subseteq asserts'
  PROVE  LinkInv'
<1>1. \A s \in Run : HeldOK(work'[s], nodes', asserts')
  <2>1. TAKE s \in Run
  <2>2. CASE s = r
    BY <2>2 DEF LinkInv
  <2>3. CASE s # r
    <3>1. work'[s] = work[s] /\ HeldOK(work[s], nodes, asserts)
      BY <2>3 DEF LinkInv
    <3>2. QED
      BY <3>1, HeldMore
  <2>4. QED
    BY <2>2, <2>3
<1>2. Stored' => Ids(output') \subseteq nodes'
  <2>1. CASE Ids(output') \subseteq nodes'
    BY <2>1
  <2>2. CASE output' = output
    <3>1. Stored' => Stored
      BY <2>2 DEF Stored, LinkInv
    <3>2. QED
      BY <2>2, <3>1 DEF LinkInv
  <2>3. QED
    BY <2>1, <2>2
<1>3. QED
  BY <1>1, <1>2 DEF LinkInv

LEMMA LinkInit == Init => LinkInv
<1> SUFFICES ASSUME Init PROVE LinkInv
  OBVIOUS
<1>1. DOMAIN Idle = Fields /\ Idle.at = "idle"
  BY DEF Idle, Fields
<1>2. HeldOK(Idle, nodes, asserts)
  BY <1>1 DEF HeldOK
<1>3. QED
  BY <1>1, <1>2 DEF Init, LinkInv, Stored

\* Steps that change what a run is at, to something nothing is said of, or do nothing
\* to runs and graph.
Plain == {"idle", "load", "delete", "insert", "align", "relate"}

LEMMA PlainHeld ==
  ASSUME NEW w, w.at \in Plain, NEW N, NEW A
  PROVE  HeldOK(w, N, A)
BY DEF HeldOK, Plain

LEMMA LaunchLinks ==
  ASSUME LinkInv, NEW r \in Run, NEW what, NEW first \in Plain \cup {"link"},
         Launch(r, what, first), first = "link" => output # None
  PROVE  LinkInv'
<1>1. PICK w : w = [Idle EXCEPT !.at = first, !.run = drawn + 1]
  OBVIOUS
<1>2. DOMAIN w = Fields /\ w.at = first /\ w.seen = {}
  BY <1>1 DEF Idle, Fields
<1>3. HeldOK(w, nodes', asserts')
  BY <1>2 DEF HeldOK, Plain
<1>4. work' = [work EXCEPT ![r] = w] /\ UNCHANGED <<neo4j, stored>>
  BY <1>1 DEF Launch
<1>5. QED
  BY <1>2, <1>3, <1>4, OneRun DEF LinkInv, neo4j, stored

\* A run goes over to something of which nothing is said.
LEMMA PlainStep ==
  ASSUME LinkInv, NEW r \in Run, NEW w, work' = [work EXCEPT ![r] = w],
         DOMAIN w = Fields, w.at \in Plain,
         nodes \subseteq nodes', asserts \subseteq asserts',
         output' = output \/ Ids(output') \subseteq nodes',
         reported' \subseteq asserts'
  PROVE  LinkInv'
<1>1. w.at # "link"
  BY DEF Plain
<1>2. QED
  BY <1>1, PlainHeld, OneRun

LEMMA AtChanged ==
  ASSUME LinkInv, NEW r \in Run, NEW at, Step(r, at), at \in Plain
  PROVE  \E w : /\ work' = [work EXCEPT ![r] = w] /\ DOMAIN w = Fields /\ w.at = at
<1>1. PICK w : w = [work[r] EXCEPT !.at = at]
  OBVIOUS
<1>2. work' = [work EXCEPT ![r] = w]
  BY <1>1 DEF Step
<1>3. DOMAIN w = Fields /\ w.at = at
  BY <1>1 DEF LinkInv, Fields
<1>4. QED
  BY <1>2, <1>3

\* The fields of a run after a step that sets some of them.
LEMMA SetAt ==
  ASSUME NEW w, DOMAIN w = Fields, NEW at
  PROVE  LET n == [w EXCEPT !.at = at]
         IN  /\ DOMAIN n = Fields /\ n.at = at /\ n.ents = w.ents
             /\ n.todo = w.todo /\ n.seen = w.seen
BY DEF Fields

LEMMA SetTodo ==
  ASSUME NEW w, DOMAIN w = Fields, NEW todo
  PROVE  LET n == [w EXCEPT !.todo = todo]
         IN  /\ DOMAIN n = Fields /\ n.at = w.at /\ n.ents = w.ents
             /\ n.todo = todo /\ n.seen = w.seen
BY DEF Fields

LEMMA SetAtTodo ==
  ASSUME NEW w, DOMAIN w = Fields, NEW at, NEW todo
  PROVE  LET n == [w EXCEPT !.at = at, !.todo = todo]
         IN  /\ DOMAIN n = Fields /\ n.at = at /\ n.ents = w.ents
             /\ n.todo = todo /\ n.seen = w.seen
BY DEF Fields

LEMMA SetAtSeen ==
  ASSUME NEW w, DOMAIN w = Fields, NEW at, NEW seen
  PROVE  LET n == [w EXCEPT !.at = at, !.seen = seen]
         IN  /\ DOMAIN n = Fields /\ n.at = at /\ n.ents = w.ents
             /\ n.todo = w.todo /\ n.seen = seen
BY DEF Fields

LEMMA SetAtEnts ==
  ASSUME NEW w, DOMAIN w = Fields, NEW at, NEW ents
  PROVE  LET n == [w EXCEPT !.at = at, !.ents = ents]
         IN  /\ DOMAIN n = Fields /\ n.at = at /\ n.ents = ents
             /\ n.todo = w.todo /\ n.seen = w.seen
BY DEF Fields

LEMMA SetTodoAtSeen ==
  ASSUME NEW w, DOMAIN w = Fields, NEW at, NEW todo, NEW seen
  PROVE  LET n == [w EXCEPT !.todo = todo, !.at = at, !.seen = seen]
         IN  /\ DOMAIN n = Fields /\ n.at = at /\ n.ents = w.ents
             /\ n.todo = todo /\ n.seen = seen
BY DEF Fields

LEMMA LoadLinks ==
  ASSUME LinkInv, NEW r \in Run, LoadCandidates(r)
  PROVE  LinkInv'
<1>1. PICK cands, forced, ents :
        work' = [work EXCEPT ![r].at = "delete", ![r].cands = cands, ![r].forced = forced,
                             ![r].ents = ents]
  BY DEF LoadCandidates
<1>2. PICK w : w = [work[r] EXCEPT !.at = "delete", !.cands = cands, !.forced = forced,
                                   !.ents = ents]
  OBVIOUS
<1>3. DOMAIN work[r] = Fields /\ r \in DOMAIN work
  BY DEF LinkInv
<1>4. DOMAIN w = Fields /\ w.at \in Plain
  BY <1>2, <1>3 DEF Fields, Plain
<1>5. work' = [work EXCEPT ![r] = w]
  BY <1>1, <1>2, <1>3
<1>6. UNCHANGED <<neo4j, stored>>
  BY DEF LoadCandidates
<1>7. QED
  BY <1>4, <1>5, <1>6, PlainStep DEF LinkInv, neo4j, stored

LEMMA DeleteLinks ==
  ASSUME LinkInv, NEW r \in Run, DeleteEntities(r)
  PROVE  LinkInv'
<1>1. DOMAIN work[r] = Fields /\ HeldOK(work[r], nodes, asserts)
  BY DEF LinkInv
<1>2. UNCHANGED <<neo4j, stored>> /\ UNCHANGED <<nodes, asserts, output, reported>>
  BY DEF DeleteEntities, neo4j, stored
<1>3. CASE work[r].ents = {} /\ Step(r, "nodes")
  <2>1. PICK w : w = [work[r] EXCEPT !.at = "nodes"]
    OBVIOUS
  <2>2. DOMAIN w = Fields /\ w.at = "nodes" /\ w.ents = {}
    BY <1>1, <1>3, <2>1, SetAt
  <2>3. HeldOK(w, nodes', asserts')
    BY <2>2 DEF HeldOK, Ids
  <2>4. work' = [work EXCEPT ![r] = w]
    BY <1>3, <2>1 DEF Step
  <2>5. QED
    BY <1>2, <2>2, <2>3, <2>4, OneRun DEF LinkInv
<1>4. CASE Step(r, "align")
  <2>1. PICK w : work' = [work EXCEPT ![r] = w] /\ DOMAIN w = Fields /\ w.at = "align"
    BY <1>4, AtChanged DEF Plain
  <2>2. QED
    BY <1>2, <2>1, PlainStep DEF LinkInv, Plain
<1>5. CASE work' = [work EXCEPT ![r].at = "insert", ![r].seen = entities]
  <2>1. PICK w : w = [work[r] EXCEPT !.at = "insert", !.seen = entities]
    OBVIOUS
  <2>2. DOMAIN w = Fields /\ w.at = "insert"
    BY <1>1, <2>1, SetAtSeen
  <2>3. work' = [work EXCEPT ![r] = w]
    BY <1>5, <2>1 DEF LinkInv
  <2>4. QED
    BY <1>2, <2>2, <2>3, PlainStep DEF LinkInv, Plain
<1>6. QED
  BY <1>3, <1>4, <1>5 DEF DeleteEntities

LEMMA InsertLinks ==
  ASSUME LinkInv, NEW r \in Run, InsertEntities(r)
  PROVE  LinkInv'
<1>1. DOMAIN work[r] = Fields
  BY DEF LinkInv
<1>2. UNCHANGED <<nodes, asserts, output, reported>>
  BY DEF InsertEntities, neo4j, stored
<1>3. CASE Step(r, "align")
  <2>1. PICK w : work' = [work EXCEPT ![r] = w] /\ DOMAIN w = Fields /\ w.at = "align"
    BY <1>3, AtChanged DEF Plain
  <2>2. QED
    BY <1>2, <2>1, PlainStep DEF LinkInv, Plain
<1>4. CASE work' = [work EXCEPT ![r].at = "nodes", ![r].todo = Ids(work[r].ents)]
  <2>1. PICK w : w = [work[r] EXCEPT !.at = "nodes", !.todo = Ids(work[r].ents)]
    OBVIOUS
  <2>2. DOMAIN w = Fields /\ w.at = "nodes" /\ w.ents = work[r].ents /\ w.todo = Ids(work[r].ents)
    BY <1>1, <2>1, SetAtTodo
  <2>3. HeldOK(w, nodes', asserts')
    BY <2>2 DEF HeldOK
  <2>4. work' = [work EXCEPT ![r] = w]
    BY <1>4, <2>1 DEF LinkInv
  <2>5. QED
    BY <1>2, <2>2, <2>3, <2>4, OneRun DEF LinkInv
<1>5. QED
  BY <1>3, <1>4 DEF InsertEntities

LEMMA MergeLinks ==
  ASSUME LinkInv, NEW r \in Run, MergeNode(r)
  PROVE  LinkInv'
<1>1. DOMAIN work[r] = Fields /\ HeldOK(work[r], nodes, asserts) /\ work[r].at = "nodes"
  BY DEF LinkInv, MergeNode
<1>2. UNCHANGED <<asserts, output, reported>>
  BY DEF MergeNode, stored
<1>3. PICK i \in work[r].todo : /\ nodes' = nodes \cup {i}
                                /\ work' = [work EXCEPT ![r].todo = @ \ {i}]
  BY DEF MergeNode
<1>4. PICK w : w = [work[r] EXCEPT !.todo = work[r].todo \ {i}]
  OBVIOUS
<1>5. /\ DOMAIN w = Fields /\ w.at = "nodes" /\ w.ents = work[r].ents
      /\ w.todo = work[r].todo \ {i}
  BY <1>1, <1>4, SetTodo
<1>6. HeldOK(w, nodes', asserts')
  BY <1>1, <1>3, <1>5 DEF HeldOK
<1>7. work' = [work EXCEPT ![r] = w]
  BY <1>3, <1>4 DEF LinkInv
<1>8. QED
  BY <1>2, <1>3, <1>5, <1>6, <1>7, OneRun DEF LinkInv

LEMMA StoreLinks ==
  ASSUME LinkInv, NEW r \in Run, StoreEntities(r)
  PROVE  LinkInv'
<1>1. HeldOK(work[r], nodes, asserts) /\ work[r].at = "nodes" /\ work[r].todo = {}
  BY DEF LinkInv, StoreEntities, Merged
<1>2. output' = work[r].ents /\ Ids(work[r].ents) \subseteq nodes
  BY <1>1 DEF HeldOK, StoreEntities
<1>3. PICK w : work' = [work EXCEPT ![r] = w] /\ DOMAIN w = Fields /\ w.at = "align"
  BY AtChanged DEF StoreEntities, Plain
<1>4. UNCHANGED <<nodes, asserts, reported>>
  BY DEF StoreEntities, neo4j
<1>5. QED
  BY <1>2, <1>3, <1>4, PlainStep DEF LinkInv, Plain

LEMMA IdleLinks ==
  ASSUME LinkInv, NEW r \in Run, work' = [work EXCEPT ![r] = Idle],
         UNCHANGED <<nodes, asserts, output>>, reported' \subseteq asserts
  PROVE  LinkInv'
<1>1. DOMAIN Idle = Fields /\ Idle.at \in Plain
  BY DEF Idle, Fields, Plain
<1>2. QED
  BY <1>1, PlainStep DEF LinkInv

\* What a name is resolved to is an entity of the stored output, so a node.
LEMMA EndsAreNodes ==
  ASSUME LinkInv, Stored, NEW text
  PROVE  Resolved(text) \ {None} \subseteq nodes
<1>1. Resolved(text) \ {None} \subseteq Ids(output)
  BY DEF Resolved, Ids
<1>2. QED
  BY <1>1 DEF LinkInv

LEMMA LinkingLinks ==
  ASSUME LinkInv, NEW r \in Run, LinkAssertions(r)
  PROVE  LinkInv'
<1>1. PICK f \in [claims -> Ends \X Ends] :
         /\ \A a \in claims : f[a] \in Resolved(a.subject) \X Resolved(a.object)
         /\ work' = [work EXCEPT ![r].at = "links",
                         ![r].ents = {[id |-> a.id, subject |-> f[a][1], object |-> f[a][2]] :
                                         a \in claims}]
  BY DEF LinkAssertions
<1>2. PICK E, w : /\ E = {[id |-> a.id, subject |-> f[a][1], object |-> f[a][2]] : a \in claims}
                  /\ w = [work[r] EXCEPT !.at = "links", !.ents = E]
  OBVIOUS
<1>3. DOMAIN work[r] = Fields /\ HeldOK(work[r], nodes, asserts) /\ work[r].at = "link"
  BY DEF LinkInv, LinkAssertions
<1>4. DOMAIN w = Fields /\ w.at = "links" /\ w.ents = E /\ w.seen = {}
  BY <1>2, <1>3, SetAtEnts DEF HeldOK
<1>5. ASSUME NEW l \in E
      PROVE  {l.subject, l.object} \ {None} \subseteq nodes
  <2>1. PICK a \in claims : l = [id |-> a.id, subject |-> f[a][1], object |-> f[a][2]]
    BY <1>2
  <2>2. l.subject \in Resolved(a.subject) /\ l.object \in Resolved(a.object)
    BY <1>1, <2>1
  <2>3. Resolved(a.subject) \ {None} \subseteq nodes /\ Resolved(a.object) \ {None} \subseteq nodes
    BY EndsAreNodes DEF Stored, LinkAssertions
  <2>4. QED
    BY <2>2, <2>3
<1>6. UNCHANGED <<nodes, asserts, output, reported>>
  BY DEF LinkAssertions, neo4j, stored
<1>7. HeldOK(w, nodes', asserts')
  BY <1>4, <1>5, <1>6 DEF HeldOK
<1>8. work' = [work EXCEPT ![r] = w]
  BY <1>1, <1>2 DEF LinkInv
<1>9. QED
  BY <1>4, <1>6, <1>7, <1>8, OneRun DEF LinkInv

LEMMA ReplaceLinksLinks ==
  ASSUME LinkInv, NEW r \in Run, ReplaceLinks(r)
  PROVE  LinkInv'
<1>1. DOMAIN work[r] = Fields /\ HeldOK(work[r], nodes, asserts) /\ work[r].at = "links"
  BY DEF LinkInv, ReplaceLinks
<1>2. UNCHANGED <<nodes, asserts, output, reported>>
  BY DEF ReplaceLinks, neo4j, stored
<1>3. CASE work' = [work EXCEPT ![r] = Idle]
  BY <1>2, <1>3, IdleLinks DEF LinkInv
<1>4. CASE work' = [work EXCEPT ![r].at = "states", ![r].todo = work[r].ents]
  <2>1. PICK w : w = [work[r] EXCEPT !.at = "states", !.todo = work[r].ents]
    OBVIOUS
  <2>2. /\ DOMAIN w = Fields /\ w.at = "states" /\ w.ents = work[r].ents
        /\ w.todo = work[r].ents /\ w.seen = work[r].seen
    BY <1>1, <2>1, SetAtTodo
  <2>3. HeldOK(w, nodes', asserts')
    BY <1>1, <1>2, <2>2 DEF HeldOK
  <2>4. work' = [work EXCEPT ![r] = w]
    BY <1>4, <2>1 DEF LinkInv
  <2>5. QED
    BY <1>2, <2>2, <2>3, <2>4, OneRun DEF LinkInv
<1>5. QED
  BY <1>3, <1>4 DEF ReplaceLinks

LEMMA StatementLinks ==
  ASSUME LinkInv, NEW r \in Run, NEW l, MergeStatement(r, l)
  PROVE  LinkInv'
<1>1. /\ DOMAIN work[r] = Fields /\ HeldOK(work[r], nodes, asserts) /\ work[r].at = "states"
      /\ l \in work[r].todo
      /\ work' = [work EXCEPT ![r].todo = @ \ {l}, ![r].at = "asserts", ![r].seen = {l}]
  BY DEF LinkInv, MergeStatement
<1>2. UNCHANGED <<nodes, asserts, output, reported>>
  BY DEF MergeStatement, stored
<1>3. PICK w : w = [work[r] EXCEPT !.todo = work[r].todo \ {l}, !.at = "asserts", !.seen = {l}]
  OBVIOUS
<1>4. /\ DOMAIN w = Fields /\ w.at = "asserts" /\ w.ents = work[r].ents
      /\ w.todo = work[r].todo \ {l} /\ w.seen = {l}
  BY <1>1, <1>3, SetTodoAtSeen
<1>5. HeldOK(w, nodes', asserts')
  BY <1>1, <1>2, <1>4 DEF HeldOK
<1>6. work' = [work EXCEPT ![r] = w]
  BY <1>1, <1>3 DEF LinkInv
<1>7. QED
  BY <1>2, <1>4, <1>5, <1>6, OneRun DEF LinkInv

LEMMA AssertsLinks ==
  ASSUME LinkInv, NEW r \in Run, MergeAsserts(r)
  PROVE  LinkInv'
<1>1. /\ DOMAIN work[r] = Fields /\ HeldOK(work[r], nodes, asserts) /\ work[r].at = "asserts"
      /\ work' = [work EXCEPT ![r].at = "states", ![r].seen = {}]
      /\ asserts' = asserts \cup {l \in work[r].seen :
                                   Full(l) /\ {l.subject, l.object} \subseteq nodes}
  BY DEF LinkInv, MergeAsserts
<1>2. UNCHANGED <<nodes, output, reported>>
  BY DEF MergeAsserts, stored
<1>3. PICK w : w = [work[r] EXCEPT !.at = "states", !.seen = {}]
  OBVIOUS
<1>4. /\ DOMAIN w = Fields /\ w.at = "states" /\ w.ents = work[r].ents
      /\ w.todo = work[r].todo /\ w.seen = {}
  BY <1>1, <1>3, SetAtSeen
<1>5. ASSUME NEW l \in work[r].ents, Full(l)
      PROVE  l \in asserts' \cup work[r].todo
  <2>1. {l.subject, l.object} \subseteq nodes
    BY <1>1, <1>5 DEF HeldOK, Full
  <2>2. l \in asserts \cup work[r].todo \cup work[r].seen
    BY <1>1, <1>5 DEF HeldOK
  <2>3. QED
    BY <1>1, <1>5, <2>1, <2>2
<1>6. HeldOK(w, nodes', asserts')
  BY <1>1, <1>2, <1>4, <1>5 DEF HeldOK
<1>7. work' = [work EXCEPT ![r] = w]
  BY <1>1, <1>3 DEF LinkInv
<1>8. QED
  BY <1>1, <1>2, <1>4, <1>6, <1>7, OneRun DEF LinkInv

LEMMA ReportLinksLinks ==
  ASSUME LinkInv, NEW r \in Run, ReportLinks(r)
  PROVE  LinkInv'
<1>1. HeldOK(work[r], nodes, asserts) /\ work[r].at = "states" /\ work[r].todo = {}
  BY DEF LinkInv, ReportLinks
<1>2. reported' = {l \in work[r].ents : Full(l)}
  BY DEF ReportLinks
<1>3. reported' \subseteq asserts
  BY <1>1, <1>2 DEF HeldOK
<1>4. QED
  BY <1>3, IdleLinks DEF ReportLinks, neo4j

LEMMA EdgesLinks ==
  ASSUME LinkInv, NEW r \in Run, ReplaceEdges(r) \/ RelateNodes(r) \/ StepRaises(r) \/ RunDies(r)
  PROVE  LinkInv'
<1>1. UNCHANGED <<nodes, asserts, output, reported>>
  BY DEF ReplaceEdges, RelateNodes, StepRaises, RunDies, neo4j, stored
<1>2. CASE Step(r, "relate")
  <2>1. PICK w : work' = [work EXCEPT ![r] = w] /\ DOMAIN w = Fields /\ w.at = "relate"
    BY <1>2, AtChanged DEF Plain
  <2>2. QED
    BY <1>1, <2>1, PlainStep DEF LinkInv, Plain
<1>3. CASE work' = [work EXCEPT ![r] = Idle]
  BY <1>1, <1>3, IdleLinks DEF LinkInv
<1>4. CASE work' = [work EXCEPT ![r] = [Idle EXCEPT !.at = "align", !.run = work[r].run]]
  <2>1. PICK w : w = [Idle EXCEPT !.at = "align", !.run = work[r].run]
    OBVIOUS
  <2>2. DOMAIN w = Fields /\ w.at = "align"
    BY <2>1 DEF Idle, Fields
  <2>3. QED
    BY <1>1, <1>4, <2>1, <2>2, PlainStep DEF LinkInv, Plain
<1>5. QED
  BY <1>2, <1>3, <1>4 DEF ReplaceEdges, RelateNodes, StepRaises, RunDies

LEMMA LinkNext ==
  ASSUME LinkInv, [Next]_vars
  PROVE  LinkInv'
<1>1. CASE UNCHANGED vars
  BY <1>1 DEF LinkInv, Stored, vars, neo4j, stored
<1>2. ASSUME UNCHANGED <<nodes, asserts, output, reported, work>>
      PROVE  LinkInv'
  BY <1>2 DEF LinkInv, Stored
<1>3. CASE \E p \in Part, b \in Batch : CandidatesLand(p, b)
  BY <1>2, <1>3 DEF CandidatesLand, neo4j, stored
<1>4. CASE \E A \in SUBSET Assertion : AssertionsLand(A)
  BY <1>2, <1>4 DEF AssertionsLand, neo4j, stored
<1>5. CASE \E rule \in Rule : RuleAdded(rule)
  BY <1>2, <1>5 DEF RuleAdded, neo4j, stored
<1>6. ASSUME NEW r \in Run, LaunchPlatinum(r) \/ LaunchLinking(r)
      PROVE  LinkInv'
  BY <1>6, LaunchLinks DEF LaunchPlatinum, LaunchLinking, Plain
<1>7. ASSUME NEW r \in Run, RunStep(r) \/ StepRaises(r) \/ RunDies(r)
      PROVE  LinkInv'
  BY <1>7, LoadLinks, DeleteLinks, InsertLinks, MergeLinks, StoreLinks, EdgesLinks,
     LinkingLinks, ReplaceLinksLinks, StatementLinks, AssertsLinks, ReportLinksLinks
     DEF RunStep
<1>8. QED
  BY <1>1, <1>3, <1>4, <1>5, <1>6, <1>7 DEF Next

\* What a linking run has reported as full links are edges of the graph, in spite of the
\* platinum runs that replace the entities meanwhile, and of runs that fail or die.
THEOREM ReportedIsLinked == Spec => []ReportedLinked
<1>1. LinkInv => ReportedLinked
  BY DEF LinkInv, ReportedLinked
<1>2. QED
  BY <1>1, LinkInit, LinkNext, PTL DEF Spec

\* The rows of PostgreSQL: an assertion refers to entities that are there.
RowsRefer == \A l \in links : {l.subject, l.object} \subseteq Ids(entities) \cup {None}

LEMMA InsertRows ==
  ASSUME RowsRefer, NEW r \in Run, InsertEntities(r)
  PROVE  RowsRefer'
<1>1. links' = links
  BY DEF InsertEntities
<1>2. CASE UNCHANGED entities
  BY <1>1, <1>2 DEF RowsRefer
<1>3. CASE /\ ~ \E l \in links : {l.subject, l.object} \cap Ids(work[r].seen) # {}
           /\ entities' = (entities \ work[r].seen) \cup work[r].ents
  <2>1. ASSUME NEW l \in links, NEW i \in {l.subject, l.object}, i # None
        PROVE  i \in Ids(entities')
    <3>1. PICK e \in entities : e.id = i
      BY <2>1 DEF RowsRefer, Ids
    <3>2. e \notin work[r].seen
      BY <1>3, <2>1, <3>1 DEF Ids
    <3>3. QED
      BY <1>3, <3>1, <3>2 DEF Ids
  <2>2. QED
    BY <1>1, <2>1 DEF RowsRefer
<1>4. QED
  BY <1>2, <1>3 DEF InsertEntities

LEMMA RowsNext ==
  ASSUME RowsRefer, [Next]_vars
  PROVE  RowsRefer'
<1>1. CASE UNCHANGED <<entities, links>>
  BY <1>1 DEF RowsRefer
<1>2. ASSUME NEW r \in Run, ReplaceLinks(r)
      PROVE  RowsRefer'
  <2>1. entities' = entities
    BY <1>2 DEF ReplaceLinks
  <2>2. CASE UNCHANGED links
    BY <2>1, <2>2 DEF RowsRefer
  <2>3. CASE /\ (UNION {{l.subject, l.object} : l \in work[r].ents}) \ {None} \subseteq Ids(entities)
             /\ links' = work[r].ents
    <3>1. ASSUME NEW l \in work[r].ents, NEW i \in {l.subject, l.object}
          PROVE  i \in Ids(entities) \cup {None}
      <4>1. i \in UNION {{m.subject, m.object} : m \in work[r].ents}
        BY <3>1
      <4>2. QED
        BY <2>3, <4>1
    <3>2. QED
      BY <2>1, <2>3, <3>1 DEF RowsRefer
  <2>4. QED
    BY <1>2, <2>2, <2>3 DEF ReplaceLinks
<1>3. ASSUME NEW r \in Run, RunStep(r) \/ StepRaises(r) \/ RunDies(r),
             ~InsertEntities(r), ~ReplaceLinks(r)
      PROVE  UNCHANGED <<entities, links>>
  BY <1>3 DEF RunStep, LoadCandidates, DeleteEntities, MergeNode, StoreEntities, ReplaceEdges,
     RelateNodes, LinkAssertions, MergeAsserts, ReportLinks, MergeStatement, StepRaises,
     RunDies, postgres
<1>4. ASSUME NEW r \in Run, LaunchPlatinum(r) \/ LaunchLinking(r)
      PROVE  UNCHANGED <<entities, links>>
  BY <1>4 DEF LaunchPlatinum, LaunchLinking, Launch, postgres
<1>5. ASSUME \/ \E p \in Part, b \in Batch : CandidatesLand(p, b)
             \/ \E A \in SUBSET Assertion : AssertionsLand(A)
             \/ \E rule \in Rule : RuleAdded(rule)
             \/ UNCHANGED vars
      PROVE  UNCHANGED <<entities, links>>
  BY <1>5 DEF CandidatesLand, AssertionsLand, RuleAdded, postgres, vars
<1>6. QED
  BY <1>1, <1>2, <1>3, <1>4, <1>5, InsertRows DEF Next

\* However the transactions of overlapping runs delete and insert, no assertion is left
\* that refers to an entity that is gone: the delete that would leave one raises.
THEOREM AssertionsRefer == Spec => []RowsRefer
<1>1. Init => RowsRefer
  BY DEF Init, RowsRefer
<1>2. QED
  BY <1>1, RowsNext, PTL DEF Spec

-----------------------------------------------------------------------------
(* The knowledge graph: sequences of candidates and of edges               *)

LEMMA ProductOf ==
  ASSUME NEW s, NEW t, Sequence(s), Sequence(t)
  PROVE  /\ Sequence(Product(s, t))
         /\ \A p \in ToSet(Product(s, t)) : p[1] \in ToSet(s) /\ p[2] \in ToSet(t)
<1>1. PICK m \in Nat : /\ m = Len(s) /\ DOMAIN s = 1..m /\ \A k \in 1..m : s[k] \in ToSet(s)
  BY Positions
<1>2. PICK n \in Nat : /\ n = Len(t) /\ DOMAIN t = 1..n /\ \A k \in 1..n : t[k] \in ToSet(t)
  BY Positions
<1>3. PICK seqs : seqs = [i \in 1..m |-> [j \in 1..n |-> <<s[i], t[j]>>]]
  OBVIOUS
<1>4. Sequence(seqs) /\ DOMAIN seqs = 1..m
  BY <1>3, Listed
<1>5. ASSUME NEW i \in 1..m
      PROVE  /\ Sequence(seqs[i])
             /\ \A p \in ToSet(seqs[i]) : p[1] \in ToSet(s) /\ p[2] \in ToSet(t)
  <2>1. seqs[i] = [j \in 1..n |-> <<s[i], t[j]>>]
    BY <1>3
  <2>2. Sequence(seqs[i]) /\ DOMAIN seqs[i] = 1..n
    BY <2>1, Listed
  <2>3. \A j \in 1..n : seqs[i][j] = <<s[i], t[j]>>
    BY <2>1
  <2>4. QED
    BY <1>1, <1>2, <2>2, <2>3 DEF ToSet
<1>6. Product(s, t) = FlattenSeq(seqs)
  BY <1>1, <1>2, <1>3 DEF Product
<1>7. Sequence(FlattenSeq(seqs)) /\ ToSet(FlattenSeq(seqs)) = UNION {ToSet(seqs[k]) : k \in 1..m}
  BY <1>4, <1>5, Flattened
<1>8. QED
  BY <1>5, <1>6, <1>7

LEMMA PairsOf ==
  ASSUME NEW s, Sequence(s)
  PROVE  /\ Sequence(Pairs(s))
         /\ \A p \in ToSet(Pairs(s)) : p[1] \in ToSet(s) /\ p[2] \in ToSet(s)
<1>1. PICK m \in Nat : /\ m = Len(s) /\ DOMAIN s = 1..m /\ \A k \in 1..m : s[k] \in ToSet(s)
  BY Positions
<1>2. PICK seqs : seqs = [i \in 1..m |-> [j \in 1..(m - i) |-> <<s[i], s[i + j]>>]]
  OBVIOUS
<1>3. Sequence(seqs) /\ DOMAIN seqs = 1..m
  BY <1>2, Listed
<1>4. ASSUME NEW i \in 1..m
      PROVE  /\ Sequence(seqs[i])
             /\ \A p \in ToSet(seqs[i]) : p[1] \in ToSet(s) /\ p[2] \in ToSet(s)
  <2>1. PICK n \in Nat : n = m - i
    OBVIOUS
  <2>2. seqs[i] = [j \in 1..n |-> <<s[i], s[i + j]>>]
    BY <1>2, <2>1
  <2>3. Sequence(seqs[i]) /\ DOMAIN seqs[i] = 1..n
    BY <2>2, Listed
  <2>4. ASSUME NEW p \in ToSet(seqs[i]) PROVE p[1] \in ToSet(s) /\ p[2] \in ToSet(s)
    <3>1. PICK j \in 1..n : p = seqs[i][j]
      BY <2>3 DEF ToSet
    <3>2. p = <<s[i], s[i + j]>> /\ i + j \in 1..m
      BY <2>1, <2>2, <3>1
    <3>3. QED
      BY <1>1, <3>2
  <2>5. QED
    BY <2>3, <2>4
<1>5. Pairs(s) = FlattenSeq(seqs)
  BY <1>1, <1>2 DEF Pairs
<1>6. Sequence(FlattenSeq(seqs)) /\ ToSet(FlattenSeq(seqs)) = UNION {ToSet(seqs[k]) : k \in 1..m}
  BY <1>3, <1>4, Flattened
<1>7. QED
  BY <1>4, <1>5, <1>6

\* An edge that says two candidates are the same has a reason: a text in common, a voice,
\* or two words.
LEMMA SameForAReason ==
  ASSUME NEW a, NEW b, NEW idf
  PROVE  /\ Sequence(EdgeOf(a, b, idf))
         /\ \A e \in ToSet(EdgeOf(a, b, idf)) :
               e.type = "sameAs" => e.from = a.id /\ e.to = b.id /\ Alike(a, b)
<1>1. PICK signals : signals = Signals(a, b, idf)
  OBVIOUS
<1>14. PICK worth : worth = Worth(a, b, idf)
  OBVIOUS
<1>15. DOMAIN signals = {s \in DOMAIN worth : worth[s] > 0}
  BY <1>1, <1>14 DEF Signals
<1>16. DOMAIN worth = {"exact", "profile", "substring", "embedding", "jaccard"}
  BY <1>14 DEF Worth
<1>2. ASSUME "exact" \in DOMAIN signals PROVE NamesOf(a) \cap NamesOf(b) # {}
  <2>1. worth["exact"] > 0
    BY <1>15, <1>2
  <2>2. NamesOf(a) \cap NamesOf(b) = {} => worth["exact"] = 0
    BY <1>14 DEF Worth
  <2>3. QED
    BY <2>1, <2>2
<1>3. ASSUME "profile" \in DOMAIN signals PROVE a.profile = b.profile /\ a.profile # None
  <2>1. worth["profile"] > 0
    BY <1>15, <1>3
  <2>2. ~(a.profile = b.profile /\ a.profile # None) => worth["profile"] = 0
    BY <1>14 DEF Worth
  <2>3. QED
    BY <2>1, <2>2
<1>4. ASSUME "embedding" \in DOMAIN signals \/ "jaccard" \in DOMAIN signals
      PROVE  Cardinality(WordsOf(a) \cap WordsOf(b)) >= 2
  <2>1. worth["embedding"] > 0 \/ worth["jaccard"] > 0
    BY <1>15, <1>4
  <2>2. ~(Cardinality(WordsOf(a) \cap WordsOf(b)) >= 2)
          => worth["embedding"] = 0 /\ worth["jaccard"] = 0
    BY <1>14 DEF Worth
  <2>3. QED
    BY <2>1, <2>2
<1>5. DOMAIN signals \subseteq {"exact", "profile", "substring", "embedding", "jaccard"}
  BY <1>15, <1>16
<1>6. ASSUME SameAs(signals) PROVE Alike(a, b)
  <2>1. CASE {"exact", "profile"} \cap DOMAIN signals # {}
    BY <1>2, <1>3, <2>1 DEF Alike
  <2>2. CASE {"exact", "profile"} \cap DOMAIN signals = {} /\ Cardinality(DOMAIN signals) >= 2
    <3>1. SUFFICES ASSUME DOMAIN signals \subseteq {"substring"} PROVE FALSE
      BY <1>4, <1>5, <2>2 DEF Alike
    <3>2. DOMAIN signals = {} \/ DOMAIN signals = {"substring"}
      BY <3>1
    <3>3. Cardinality({}) = 0 /\ Cardinality({"substring"}) = 1
      BY FS_EmptySet, FS_Singleton
    <3>4. QED
      BY <2>2, <3>2, <3>3
  <2>3. QED
    BY <1>6, <2>1, <2>2 DEF SameAs
<1> DEFINE Of(type) == <<[from |-> a.id, to |-> b.id, type |-> type, score |-> Score(signals)]>>
<1>7. /\ EdgeOf(a, b, idf) \in {<<>>, Of("sameAs"), Of("possibleSameAs")}
      /\ EdgeOf(a, b, idf) = Of("sameAs") => SameAs(signals)
  <2>1. CASE a.type # b.type
    BY <2>1 DEF EdgeOf
  <2>2. CASE a.type = b.type
    <3>1. EdgeOf(a, b, idf) =
            CASE SameAs(signals) -> Of("sameAs")
              [] ~SameAs(signals) /\ DOMAIN signals # {} /\ Score(signals) >= 50
                    -> Of("possibleSameAs")
              [] OTHER -> <<>>
      BY <1>1, <2>2 DEF EdgeOf, Once
    <3>2. Of("sameAs") # Of("possibleSameAs") /\ Of("sameAs") # <<>>
      OBVIOUS
    <3>3. CASE SameAs(signals)
      BY <3>1, <3>3
    <3>4. CASE ~SameAs(signals)
      <4>1. EdgeOf(a, b, idf) \in {<<>>, Of("possibleSameAs")}
        BY <3>1, <3>4
      <4>2. QED
        BY <3>2, <4>1
    <3>5. QED
      BY <3>3, <3>4
  <2>3. QED
    BY <2>1, <2>2
<1>8. \A t : Sequence(Of(t)) /\ ToSet(Of(t)) = {Of(t)[1]}
  BY DEF Sequence, ToSet
<1>9. Sequence(<<>>) /\ ToSet(<<>>) = {}
  BY DEF Sequence, ToSet
<1>10. CASE EdgeOf(a, b, idf) = <<>>
  BY <1>9, <1>10
<1>11. CASE EdgeOf(a, b, idf) = Of("sameAs")
  BY <1>6, <1>7, <1>8, <1>11
<1>12. CASE EdgeOf(a, b, idf) = Of("possibleSameAs")
  BY <1>8, <1>12
<1>13. QED
  BY <1>7, <1>10, <1>11, <1>12

\* The edges of pairs have reasons.
Reasoned(es, cands) ==
    \A e \in ToSet(es) : e.type = "sameAs" =>
        \E a, b \in cands : e.from = a.id /\ e.to = b.id /\ Alike(a, b)

LEMMA EdgesOfPairs ==
  ASSUME NEW pairs, Sequence(pairs), NEW idf, NEW cands,
         \A p \in ToSet(pairs) : p[1] \in cands /\ p[2] \in cands
  PROVE  Sequence(EdgesOf(pairs, idf)) /\ Reasoned(EdgesOf(pairs, idf), cands)
<1>1. PICK n \in Nat : DOMAIN pairs = 1..n /\ \A k \in 1..n : pairs[k] \in ToSet(pairs)
  BY Positions
<1>2. PICK seqs : seqs = [k \in 1..n |-> EdgeOf(pairs[k][1], pairs[k][2], idf)]
  OBVIOUS
<1>3. Sequence(seqs) /\ DOMAIN seqs = 1..n
  BY <1>2, Listed
<1>4. \A k \in 1..n : Sequence(seqs[k])
  BY <1>2, SameForAReason
<1>5. EdgesOf(pairs, idf) = FlattenSeq(seqs)
  BY <1>1, <1>2 DEF EdgesOf
<1>6. /\ Sequence(FlattenSeq(seqs))
      /\ ToSet(FlattenSeq(seqs)) = UNION {ToSet(seqs[k]) : k \in 1..n}
  BY <1>3, <1>4, Flattened
<1>7. ASSUME NEW e \in ToSet(FlattenSeq(seqs)), e.type = "sameAs"
      PROVE  \E a, b \in cands : e.from = a.id /\ e.to = b.id /\ Alike(a, b)
  <2>1. PICK k \in 1..n : e \in ToSet(EdgeOf(pairs[k][1], pairs[k][2], idf))
    BY <1>2, <1>6
  <2>2. pairs[k][1] \in cands /\ pairs[k][2] \in cands
    BY <1>1
  <2>3. /\ e.from = pairs[k][1].id /\ e.to = pairs[k][2].id
        /\ Alike(pairs[k][1], pairs[k][2])
    BY <1>7, <2>1, SameForAReason
  <2>4. QED
    BY <2>2, <2>3
<1>8. QED
  BY <1>5, <1>6, <1>7 DEF Reasoned

LEMMA EdgesAreReasoned ==
  ASSUME NEW sources, Sequence(sources), \A k \in DOMAIN sources : Sequence(sources[k]),
         NEW cands, \A k \in DOMAIN sources : ToSet(sources[k]) \subseteq cands
  PROVE  Sequence(Edges(sources)) /\ Reasoned(Edges(sources), cands)
<1>1. PICK n \in Nat : DOMAIN sources = 1..n /\ \A k \in 1..n : sources[k] \in ToSet(sources)
  BY Positions
<1>2. PICK within : within = [k \in 1..n |-> Intra(sources[k])]
  OBVIOUS
<1>3. Sequence(within) /\ DOMAIN within = 1..n
  BY <1>2, Listed
<1>4. ASSUME NEW k \in 1..n
      PROVE  Sequence(within[k]) /\ Reasoned(within[k], cands)
  <2>1. PICK s : s = sources[k] /\ Sequence(s) /\ ToSet(s) \subseteq cands
    BY <1>1
  <2>2. /\ Sequence(Pairs(s))
        /\ \A p \in ToSet(Pairs(s)) : p[1] \in cands /\ p[2] \in cands
    BY <2>1, PairsOf
  <2>3. within[k] = EdgesOf(Pairs(s), Idf(s))
    BY <1>2, <2>1 DEF Intra
  <2>4. QED
    BY <2>2, <2>3, EdgesOfPairs
<1>5. Sequence(FlattenSeq(within)) /\ Reasoned(FlattenSeq(within), cands)
  BY <1>3, <1>4, Flattened DEF Reasoned
<1>6. PICK apart : apart = Pairs(sources)
  OBVIOUS
<1>7. /\ Sequence(apart)
      /\ \A p \in ToSet(apart) : p[1] \in ToSet(sources) /\ p[2] \in ToSet(sources)
  BY <1>6, PairsOf
<1>8. \A s \in ToSet(sources) : Sequence(s) /\ ToSet(s) \subseteq cands
  BY DEF ToSet
<1>9. PICK m \in Nat : DOMAIN apart = 1..m /\ \A k \in 1..m : apart[k] \in ToSet(apart)
  BY <1>7, Positions
<1>10. PICK across : across = [k \in 1..m |-> Product(apart[k][1], apart[k][2])]
  OBVIOUS
<1>11. Sequence(across) /\ DOMAIN across = 1..m
  BY <1>10, Listed
<1>12. ASSUME NEW k \in 1..m
       PROVE  /\ Sequence(across[k])
              /\ \A p \in ToSet(across[k]) : p[1] \in cands /\ p[2] \in cands
  <2>1. PICK s, t : s = apart[k][1] /\ t = apart[k][2]
    OBVIOUS
  <2>2. Sequence(s) /\ ToSet(s) \subseteq cands /\ Sequence(t) /\ ToSet(t) \subseteq cands
    BY <1>7, <1>8, <1>9, <2>1
  <2>3. across[k] = Product(s, t)
    BY <1>10, <2>1
  <2>4. QED
    BY <2>2, <2>3, ProductOf
<1>13. /\ Sequence(FlattenSeq(across))
       /\ \A p \in ToSet(FlattenSeq(across)) : p[1] \in cands /\ p[2] \in cands
  BY <1>11, <1>12, Flattened
<1>14. Sequence(Cross(sources)) /\ Reasoned(Cross(sources), cands)
  <2>1. Cross(sources) = EdgesOf(FlattenSeq(across), Idf(FlattenSeq(sources)))
    BY <1>6, <1>9, <1>10 DEF Cross
  <2>2. QED
    BY <1>13, <2>1, EdgesOfPairs
<1>15. Edges(sources) = FlattenSeq(within) \o Cross(sources)
  BY <1>1, <1>2 DEF Edges
<1>16. QED
  BY <1>5, <1>14, <1>15, Joining DEF Reasoned

-----------------------------------------------------------------------------
(* The knowledge graph: union-find                                         *)

\* Every item is in one tree, and a root in its own.
Trees(uf, items) ==
    /\ \A t \in uf : t.root \in t.members /\ t.members \subseteq items
    /\ \A i \in items : \E t \in uf : i \in t.members
    /\ \A t, u \in uf : t.members \cap u.members # {} => t = u

\* The first n pairs tie the members together: no set parts them without a pair between.
Tied(members, pairs, n, items) ==
    \A S \in SUBSET items : S \cap members # {} /\ members \ S # {} =>
        \E k \in 1..n : \/ pairs[k][1] \in S /\ pairs[k][2] \in items \ S
                        \/ pairs[k][2] \in S /\ pairs[k][1] \in items \ S

LEMMA TiedByMore ==
  ASSUME NEW members, NEW pairs, NEW n \in Nat, NEW items, Tied(members, pairs, n, items)
  PROVE  Tied(members, pairs, n + 1, items)
<1>1. \A k \in 1..n : k \in 1..(n + 1)
  OBVIOUS
<1>2. QED
  BY <1>1 DEF Tied

LEMMA InOneTree ==
  ASSUME NEW uf, NEW items, Trees(uf, items), NEW i \in items
  PROVE  TreeOf(uf, i) \in uf /\ i \in TreeOf(uf, i).members
<1>1. \E t \in uf : i \in t.members
  BY DEF Trees
<1>2. QED
  BY <1>1 DEF TreeOf

LEMMA UniteTies ==
  ASSUME NEW uf, NEW items, Trees(uf, items), NEW pairs, NEW n \in Nat,
         \A t \in uf : Tied(t.members, pairs, n, items),
         NEW x \in items, NEW y \in items, x = pairs[n + 1][1], y = pairs[n + 1][2]
  PROVE  /\ Trees(Unite(uf, x, y), items)
         /\ \A t \in Unite(uf, x, y) : Tied(t.members, pairs, n + 1, items)
<1>1. PICK s \in uf : s = TreeOf(uf, x) /\ x \in s.members
  BY InOneTree
<1>2. PICK t \in uf : t = TreeOf(uf, y) /\ y \in t.members
  BY InOneTree
<1>3. CASE s = t
  <2>1. Unite(uf, x, y) = uf
    BY <1>1, <1>2, <1>3 DEF Unite
  <2>2. QED
    BY <2>1, TiedByMore
<1>4. CASE s # t
  <2>1. PICK up : up = IF s.rank < t.rank THEN t ELSE s
    OBVIOUS
  <2>2. PICK rank : rank = IF s.rank = t.rank THEN s.rank + 1 ELSE up.rank
    OBVIOUS
  <2>3. PICK both :
          both = [root |-> up.root, members |-> s.members \cup t.members, rank |-> rank]
    OBVIOUS
  <2>4. Unite(uf, x, y) = (uf \ {s, t}) \cup {both}
    BY <1>1, <1>2, <1>4, <2>1, <2>2, <2>3 DEF Unite
  <2>5. /\ both.members = s.members \cup t.members
        /\ both.root \in {s.root, t.root}
    BY <2>1, <2>3
  <2>6. Trees(Unite(uf, x, y), items)
    <3>1. ASSUME NEW u \in Unite(uf, x, y)
          PROVE  u.root \in u.members /\ u.members \subseteq items
      BY <2>4, <2>5, <3>1 DEF Trees
    <3>2. ASSUME NEW i \in items PROVE \E u \in Unite(uf, x, y) : i \in u.members
      <4>1. PICK u \in uf : i \in u.members
        BY DEF Trees
      <4>2. CASE u \in {s, t}
        BY <2>4, <2>5, <4>1, <4>2
      <4>3. CASE u \notin {s, t}
        BY <2>4, <4>1, <4>3
      <4>4. QED
        BY <4>2, <4>3
    <3>3. ASSUME NEW u \in Unite(uf, x, y), NEW v \in Unite(uf, x, y),
                 u.members \cap v.members # {}
          PROVE  u = v
      <4>1. CASE u = both /\ v # both
        BY <1>4, <2>4, <2>5, <3>3, <4>1 DEF Trees
      <4>2. CASE u # both /\ v = both
        BY <1>4, <2>4, <2>5, <3>3, <4>2 DEF Trees
      <4>3. CASE u # both /\ v # both
        BY <2>4, <3>3, <4>3 DEF Trees
      <4>4. QED
        BY <4>1, <4>2, <4>3
    <3>4. QED
      BY <3>1, <3>2, <3>3 DEF Trees
  <2>7. Tied(both.members, pairs, n + 1, items)
    <3>1. SUFFICES ASSUME NEW S \in SUBSET items,
                          S \cap both.members # {}, both.members \ S # {}
                   PROVE  \E k \in 1..(n + 1) :
                             \/ pairs[k][1] \in S /\ pairs[k][2] \in items \ S
                             \/ pairs[k][2] \in S /\ pairs[k][1] \in items \ S
      BY DEF Tied
    <3>2. \A k \in 1..n : k \in 1..(n + 1)
      OBVIOUS
    <3>3. CASE S \cap s.members # {} /\ s.members \ S # {}
      BY <1>1, <3>2, <3>3 DEF Tied
    <3>4. CASE S \cap t.members # {} /\ t.members \ S # {}
      BY <1>2, <3>2, <3>4 DEF Tied
    <3>5. CASE \/ s.members \subseteq S /\ S \cap t.members = {}
               \/ t.members \subseteq S /\ S \cap s.members = {}
      <4>1. n + 1 \in 1..(n + 1)
        OBVIOUS
      <4>2. x \in s.members /\ y \in t.members
        BY <1>1, <1>2
      <4>3. CASE s.members \subseteq S /\ S \cap t.members = {}
        <5>1. x \in S /\ y \in items \ S
          BY <4>2, <4>3
        <5>2. QED
          BY <4>1, <5>1
      <4>4. CASE t.members \subseteq S /\ S \cap s.members = {}
        <5>1. y \in S /\ x \in items \ S
          BY <4>2, <4>4
        <5>2. QED
          BY <4>1, <5>1
      <4>5. QED
        BY <3>5, <4>3, <4>4
    <3>6. s.members # {} /\ t.members # {}
      BY <1>1, <1>2
    <3>7. QED
      BY <2>5, <3>1, <3>3, <3>4, <3>5, <3>6
  <2>8. QED
    BY <2>4, <2>6, <2>7, TiedByMore
<1>5. QED
  BY <1>3, <1>4

UnitingIn(ctx, before, p) == Uniting(before, p)

Unions == INSTANCE FoldFacts WITH Op <- UnitingIn

\* What union-find makes of items and pairs of them.
LEMMA UnitesAll ==
  ASSUME NEW items, NEW pairs, Sequence(pairs),
         \A p \in ToSet(pairs) : p[1] \in items /\ p[2] \in items
  PROVE  LET uf == UniteAll(Forest(items), pairs)
         IN  /\ Trees(uf, items)
             /\ \A t \in uf : Tied(t.members, pairs, Len(pairs), items)
<1>1. PICK n \in Nat : /\ n = Len(pairs) /\ DOMAIN pairs = 1..n
                       /\ \A k \in 1..n : pairs[k] \in ToSet(pairs)
  BY Positions
<1>2. PICK base : base = Forest(items)
  OBVIOUS
<1>3. Unions!FoldsTo(None, base, pairs, n)
  BY <1>1, Unions!FoldLeftSteps
<1>4. PICK acc : /\ acc[0] = base
                 /\ \A k \in 1..n : acc[k] = UnitingIn(None, acc[k - 1], pairs[k])
                 /\ acc[n] = Unions!Iter(None, base, pairs)[DOMAIN pairs]
  BY <1>3 DEF Unions!FoldsTo
<1> DEFINE OK(uf, k) == Trees(uf, items) /\ \A t \in uf : Tied(t.members, pairs, k, items)
           S == {k \in Nat : k <= n => OK(acc[k], k)}
<1>5. 0 \in S
  <2>1. \A t \in base : \E i \in items : t.root = i /\ t.members = {i}
    BY <1>2 DEF Forest
  <2>2. \A i \in items : \E t \in base : t.members = {i}
    <3>1. TAKE i \in items
    <3>2. [root |-> i, rank |-> 0, members |-> {i}] \in base
      BY <1>2 DEF Forest
    <3>3. QED
      BY <3>2
  <2>3. ASSUME NEW t \in base, NEW u \in base, t.members \cap u.members # {}
        PROVE  t = u
    <3>1. PICK i \in items : t = [root |-> i, rank |-> 0, members |-> {i}]
      BY <1>2 DEF Forest
    <3>2. PICK j \in items : u = [root |-> j, rank |-> 0, members |-> {j}]
      BY <1>2 DEF Forest
    <3>3. i = j
      BY <2>3, <3>1, <3>2
    <3>4. QED
      BY <3>1, <3>2, <3>3
  <2>4. Trees(base, items)
    BY <2>1, <2>2, <2>3 DEF Trees
  <2>5. \A t \in base : Tied(t.members, pairs, 0, items)
    BY <2>1 DEF Tied
  <2>6. QED
    BY <1>4, <2>4, <2>5
<1>6. ASSUME NEW k \in Nat, k \in S PROVE k + 1 \in S
  <2> SUFFICES ASSUME k + 1 <= n PROVE OK(acc[k + 1], k + 1)
    OBVIOUS
  <2>1. k + 1 \in 1..n /\ (k + 1) - 1 = k /\ OK(acc[k], k)
    BY <1>6
  <2>2. PICK p : p = pairs[k + 1] /\ p[1] \in items /\ p[2] \in items
    BY <1>1, <2>1
  <2>3. acc[k + 1] = Unite(acc[k], p[1], p[2])
    BY <1>4, <2>1, <2>2 DEF UnitingIn, Uniting, Once
  <2>4. QED
    BY <2>1, <2>2, <2>3, UniteTies
<1>7. Nat \subseteq S
  <2> HIDE DEF S
  <2> QED
    BY <1>5, <1>6, Unions!NatSetInduction
<1>8. OK(acc[n], n)
  <2>1. n \in S
    BY <1>7
  <2>2. QED
    BY <2>1
<1>9. FoldLeft(Uniting, base, pairs) = Unions!Iter(None, base, pairs)[DOMAIN pairs]
  BY DEF FoldLeft, MapThenFoldSet, Max, UnitingIn, Unions!Iter, Unions!Folding, Unions!Latest
<1>10. UniteAll(Forest(items), pairs) = acc[n]
  BY <1>2, <1>4, <1>9 DEF UniteAll
<1>11. QED
  BY <1>1, <1>8, <1>10

-----------------------------------------------------------------------------
(* The knowledge graph: clusters                                           *)

\* What a rule forces together are candidates.
LEMMA ForcedOf ==
  ASSUME NEW cands, Sequence(cands), NEW rule
  PROVE  /\ Sequence(Forced(cands, rule))
         /\ \A p \in ToSet(Forced(cands, rule)) :
               /\ p[1] \in Ids(ToSet(cands)) /\ p[2] \in Ids(ToSet(cands))
               /\ p = <<p[1], p[2]>>
<1>1. PICK n \in Nat : DOMAIN cands = 1..n /\ \A k \in 1..n : cands[k] \in ToSet(cands)
  BY Positions
<1> DEFINE Named(text) ==
             Those(cands, LAMBDA c : c.type = rule.type /\ Words[text] \in NamesOf(c))
<1>2. ASSUME NEW text
      PROVE  Sequence(Named(text)) /\ ToSet(Named(text)) \subseteq ToSet(cands)
  <2>1. PICK some : some = [k \in 1..n |->
            IF cands[k].type = rule.type /\ Words[text] \in NamesOf(cands[k])
            THEN <<cands[k]>> ELSE <<>>]
    OBVIOUS
  <2>2. Sequence(some) /\ DOMAIN some = 1..n
    BY <2>1, Listed
  <2>3. \A c : Sequence(<<c>>) /\ ToSet(<<c>>) = {c}
    BY DEF Sequence, ToSet
  <2>4. Sequence(<<>>) /\ ToSet(<<>>) = {}
    BY DEF Sequence, ToSet
  <2>5. ASSUME NEW k \in 1..n
        PROVE  Sequence(some[k]) /\ ToSet(some[k]) \subseteq ToSet(cands)
    <3>1. some[k] = <<cands[k]>> \/ some[k] = <<>>
      BY <2>1
    <3>2. QED
      BY <1>1, <2>3, <2>4, <3>1
  <2>6. Named(text) = FlattenSeq(some)
    BY <1>1, <2>1 DEF Those, FlatMap
  <2>7. /\ Sequence(FlattenSeq(some))
        /\ ToSet(FlattenSeq(some)) = UNION {ToSet(some[k]) : k \in 1..n}
    BY <2>2, <2>5, Flattened
  <2>8. ToSet(FlattenSeq(some)) \subseteq ToSet(cands)
    BY <2>5, <2>7
  <2> HIDE DEF Named
  <2>9. QED
    BY <2>6, <2>7, <2>8
<1>3. PICK pairs : pairs = Product(Named(rule.alias), Named(rule.target))
  OBVIOUS
<1>4. /\ Sequence(pairs)
      /\ \A p \in ToSet(pairs) : p[1] \in ToSet(cands) /\ p[2] \in ToSet(cands)
  <2> HIDE DEF Named
  <2> QED
    BY <1>2, <1>3, ProductOf
<1>5. PICK m \in Nat : DOMAIN pairs = 1..m /\ m = Len(pairs) /\ \A k \in 1..m : pairs[k] \in ToSet(pairs)
  BY <1>4, Positions
<1>6. PICK ids : ids = [k \in 1..m |-> <<pairs[k][1].id, pairs[k][2].id>>]
  OBVIOUS
<1>7. Forced(cands, rule) = ids
  BY <1>3, <1>5, <1>6 DEF Forced
<1>8. Sequence(ids) /\ DOMAIN ids = 1..m
  BY <1>6, Listed
<1>9. ASSUME NEW p \in ToSet(ids)
      PROVE  /\ p[1] \in Ids(ToSet(cands)) /\ p[2] \in Ids(ToSet(cands))
             /\ p = <<p[1], p[2]>>
  <2>1. PICK k \in 1..m : p = <<pairs[k][1].id, pairs[k][2].id>>
    BY <1>6, <1>8, <1>9 DEF ToSet
  <2>2. pairs[k][1] \in ToSet(cands) /\ pairs[k][2] \in ToSet(cands)
    BY <1>4, <1>5
  <2>3. QED
    BY <2>1, <2>2 DEF Ids
<1>10. QED
  BY <1>7, <1>8, <1>9

\* What is kept of clusters lies in them, and each has its root.
LEMMA SplitWithin ==
  ASSUME NEW clusters, NEW kept,
         \A c \in clusters : c.root \in c.members /\ kept[c.members] \subseteq c.members
  PROVE  \A d \in Split(clusters, kept) :
            d.root \in d.members /\ \E c \in clusters : d.members \subseteq c.members
<1>1. PICK out : out = UNION {c.members \ kept[c.members] : c \in clusters}
  OBVIOUS
<1>2. Split(clusters, kept) = {[root |-> i, members |-> {i}] : i \in out}
                              \cup {[root |-> c.root, members |-> kept[c.members]] :
                                       c \in {d \in clusters : d.root \notin out}}
  BY <1>1 DEF Split
<1>3. ASSUME NEW i \in out
      PROVE  \E c \in clusters : {i} \subseteq c.members
  BY <1>1
<1>4. ASSUME NEW c \in clusters, c.root \notin out PROVE c.root \in kept[c.members]
  BY <1>1, <1>4
<1>5. SUFFICES ASSUME NEW d \in Split(clusters, kept)
               PROVE  d.root \in d.members /\ \E c \in clusters : d.members \subseteq c.members
  OBVIOUS
<1>6. CASE d \in {[root |-> i, members |-> {i}] : i \in out}
  <2>1. PICK i \in out : d = [root |-> i, members |-> {i}]
    BY <1>6
  <2>2. d.root = i /\ d.members = {i}
    BY <2>1
  <2>3. QED
    BY <1>3, <2>2
<1>7. CASE d \in {[root |-> c.root, members |-> kept[c.members]] :
                     c \in {e \in clusters : e.root \notin out}}
  <2>1. PICK c \in clusters : c.root \notin out /\ d = [root |-> c.root, members |-> kept[c.members]]
    BY <1>7
  <2>2. d.root = c.root /\ d.members = kept[c.members]
    BY <2>1
  <2>3. QED
    BY <1>4, <2>1, <2>2
<1>8. QED
  BY <1>2, <1>6, <1>7

\* Two candidate ids have a reason to be in one cluster.
Because(cands, rules0, i, j) ==
    \/ \E a, b \in ToSet(cands) : a.id = i /\ b.id = j /\ Alike(a, b)
    \/ \E k \in DOMAIN rules0 : <<i, j>> \in ToSet(Forced(cands, rules0[k]))

\* The ids cannot be divided with a part of the members on either side and no reason
\* between the sides.
HangsTogether(members, cands, rules0) ==
    \A S \in SUBSET Ids(ToSet(cands)) : S \cap members # {} /\ members \ S # {} =>
        \E i \in S, j \in Ids(ToSet(cands)) \ S :
            Because(cands, rules0, i, j) \/ Because(cands, rules0, j, i)

LEMMA Parting ==
  ASSUME NEW members, NEW pairs, NEW n, NEW items, Tied(members, pairs, n, items),
         NEW S \in SUBSET items, S \cap members # {}, members \ S # {}
  PROVE  \E k \in 1..n : \/ pairs[k][1] \in S /\ pairs[k][2] \in items \ S
                         \/ pairs[k][2] \in S /\ pairs[k][1] \in items \ S
BY DEF Tied

LEMMA ClustersHangTogether ==
  ASSUME NEW cands, Sequence(cands), NEW edges0, Sequence(edges0),
         Reasoned(edges0, ToSet(cands)), NEW rules0, Sequence(rules0)
  PROVE  \A c \in Clusters(cands, edges0, rules0) :
            c.root \in c.members /\ HangsTogether(c.members, cands, rules0)
<1>1. PICK ids : ids = Ids(ToSet(cands))
  OBVIOUS
<1>2. PICK n \in Nat : DOMAIN edges0 = 1..n /\ \A k \in 1..n : edges0[k] \in ToSet(edges0)
  BY Positions
<1>3. PICK some : some = [k \in 1..n |-> IF edges0[k].type = "sameAs" THEN <<edges0[k]>> ELSE <<>>]
  OBVIOUS
<1>4. PICK same : same = FlattenSeq(some)
  OBVIOUS
<1>5. /\ Sequence(same)
      /\ \A e \in ToSet(same) : e \in ToSet(edges0) /\ e.type = "sameAs"
  <2>1. Sequence(some) /\ DOMAIN some = 1..n
    BY <1>3, Listed
  <2>2. \A e : Sequence(<<e>>) /\ ToSet(<<e>>) = {e}
    BY DEF Sequence, ToSet
  <2>3. Sequence(<<>>) /\ ToSet(<<>>) = {}
    BY DEF Sequence, ToSet
  <2>4. ASSUME NEW k \in 1..n
        PROVE  /\ Sequence(some[k])
               /\ \A e \in ToSet(some[k]) : e \in ToSet(edges0) /\ e.type = "sameAs"
    <3>1. CASE edges0[k].type = "sameAs"
      <4>1. some[k] = <<edges0[k]>>
        BY <1>3, <3>1
      <4>2. ToSet(some[k]) = {edges0[k]} /\ Sequence(some[k])
        BY <2>2, <4>1
      <4>3. QED
        BY <1>2, <3>1, <4>2
    <3>2. CASE edges0[k].type # "sameAs"
      <4>1. some[k] = <<>>
        BY <1>3, <3>2
      <4>2. QED
        BY <2>3, <4>1
    <3>3. QED
      BY <3>1, <3>2
  <2>5. QED
    BY <1>4, <2>1, <2>4, Flattened
<1>6. PICK m \in Nat : DOMAIN same = 1..m /\ \A k \in 1..m : same[k] \in ToSet(same)
  BY <1>5, Positions
<1>7. PICK alike : alike = [k \in 1..m |-> <<same[k].from, same[k].to>>]
  OBVIOUS
<1>8. /\ Sequence(alike)
      /\ \A p \in ToSet(alike) : /\ p[1] \in ids /\ p[2] \in ids
                                 /\ Because(cands, rules0, p[1], p[2])
  <2>1. Sequence(alike) /\ DOMAIN alike = 1..m
    BY <1>7, Listed
  <2>2. ASSUME NEW p \in ToSet(alike)
        PROVE  p[1] \in ids /\ p[2] \in ids /\ Because(cands, rules0, p[1], p[2])
    <3>1. PICK k \in 1..m : p = <<same[k].from, same[k].to>>
      BY <1>7, <2>1, <2>2 DEF ToSet
    <3>2. PICK a \in ToSet(cands), b \in ToSet(cands) :
            same[k].from = a.id /\ same[k].to = b.id /\ Alike(a, b)
      BY <1>5, <1>6 DEF Reasoned
    <3>3. p[1] = a.id /\ p[2] = b.id
      BY <3>1, <3>2
    <3>4. QED
      BY <1>1, <3>2, <3>3 DEF Ids, Because
  <2>3. QED
    BY <2>1, <2>2
<1>9. PICK r \in Nat : DOMAIN rules0 = 1..r
  BY Positions
<1>10. PICK each : each = [k \in 1..r |-> Forced(cands, rules0[k])]
  OBVIOUS
<1>11. /\ Sequence(FlattenSeq(each))
       /\ \A p \in ToSet(FlattenSeq(each)) : /\ p[1] \in ids /\ p[2] \in ids
                                             /\ Because(cands, rules0, p[1], p[2])
  <2>1. Sequence(each) /\ DOMAIN each = 1..r
    BY <1>10, Listed
  <2>2. ASSUME NEW k \in 1..r
        PROVE  /\ Sequence(each[k])
               /\ \A p \in ToSet(each[k]) : /\ p[1] \in ids /\ p[2] \in ids
                                             /\ Because(cands, rules0, p[1], p[2])
    <3>1. each[k] = Forced(cands, rules0[k])
      BY <1>10
    <3>2. ASSUME NEW p \in ToSet(each[k])
          PROVE  p[1] \in ids /\ p[2] \in ids /\ Because(cands, rules0, p[1], p[2])
      <4>1. p[1] \in ids /\ p[2] \in ids /\ p = <<p[1], p[2]>>
        BY <1>1, <3>1, <3>2, ForcedOf
      <4>2. <<p[1], p[2]>> \in ToSet(Forced(cands, rules0[k]))
        BY <3>1, <3>2, <4>1
      <4>3. QED
        BY <1>9, <4>1, <4>2 DEF Because
    <3>3. QED
      BY <3>1, <3>2, ForcedOf
  <2>3. /\ Sequence(FlattenSeq(each))
        /\ ToSet(FlattenSeq(each)) = UNION {ToSet(each[k]) : k \in 1..r}
    BY <2>1, <2>2, Flattened
  <2>4. QED
    BY <2>2, <2>3
<1>12. PICK pairs : pairs = alike \o FlattenSeq(each)
  OBVIOUS
<1>13. /\ Sequence(pairs)
       /\ \A p \in ToSet(pairs) : /\ p[1] \in ids /\ p[2] \in ids
                                  /\ Because(cands, rules0, p[1], p[2])
  BY <1>8, <1>11, <1>12, Joining
<1>14. PICK uf : uf = UniteAll(Forest(ids), pairs)
  OBVIOUS
<1>15. Trees(uf, ids) /\ \A t \in uf : Tied(t.members, pairs, Len(pairs), ids)
  BY <1>13, <1>14, UnitesAll
<1>16. PICK q \in Nat : q = Len(pairs) /\ \A k \in 1..q : pairs[k] \in ToSet(pairs)
  BY <1>13, Positions
<1>17. ASSUME NEW t \in uf, NEW members, members \subseteq t.members
       PROVE  HangsTogether(members, cands, rules0)
  <2>1. SUFFICES ASSUME NEW S \in SUBSET ids, S \cap members # {}, members \ S # {}
                 PROVE  \E i \in S, j \in ids \ S :
                           Because(cands, rules0, i, j) \/ Because(cands, rules0, j, i)
    BY <1>1 DEF HangsTogether
  <2>2. S \cap t.members # {} /\ t.members \ S # {}
    BY <1>17, <2>1
  <2>3. PICK k \in 1..q : \/ pairs[k][1] \in S /\ pairs[k][2] \in ids \ S
                          \/ pairs[k][2] \in S /\ pairs[k][1] \in ids \ S
    <3>1. Tied(t.members, pairs, q, ids)
      BY <1>15, <1>16
    <3>2. QED
      BY <2>1, <2>2, <3>1, Parting
  <2>4. Because(cands, rules0, pairs[k][1], pairs[k][2])
    BY <1>13, <1>16
  <2>5. QED
    BY <2>3, <2>4
<1> DEFINE Capped(u) == Split(u, [c \in {d.members : d \in u} |-> Largest(cands, c)])
           Checked(u) == Split(u, [c \in {d.members : d \in u} |-> Coherent(edges0, c)])
<1>18. \A c : Largest(cands, c) \subseteq c /\ Coherent(edges0, c) \subseteq c
  BY DEF Largest, Coherent
<1>19. \A d \in Capped(uf) : d.root \in d.members /\ \E t \in uf : d.members \subseteq t.members
  <2>1. PICK kept : kept = [c \in {d.members : d \in uf} |-> Largest(cands, c)]
    OBVIOUS
  <2>2. ASSUME NEW c \in uf PROVE c.root \in c.members /\ kept[c.members] \subseteq c.members
    BY <1>15, <1>18, <2>1 DEF Trees
  <2>3. Capped(uf) = Split(uf, kept)
    BY <2>1
  <2> HIDE DEF Capped
  <2>4. QED
    BY <2>2, <2>3, SplitWithin
<1>20. PICK capped : capped = Capped(uf)
  OBVIOUS
<1>21. \A d \in Checked(capped) :
          d.root \in d.members /\ \E t \in capped : d.members \subseteq t.members
  <2> HIDE DEF Capped
  <2>1. PICK kept : kept = [c \in {d.members : d \in capped} |-> Coherent(edges0, c)]
    OBVIOUS
  <2>2. ASSUME NEW c \in capped PROVE c.root \in c.members /\ kept[c.members] \subseteq c.members
    BY <1>18, <1>19, <1>20, <2>1
  <2>3. Checked(capped) = Split(capped, kept)
    BY <2>1
  <2> HIDE DEF Checked
  <2>4. QED
    BY <2>2, <2>3, SplitWithin
<1>22. Clusters(cands, edges0, rules0) = Checked(capped)
  <2>1. same = Those(edges0, LAMBDA e : e.type = "sameAs")
    BY <1>2, <1>3, <1>4 DEF Those, FlatMap
  <2>2. alike = [k \in DOMAIN same |-> <<same[k].from, same[k].to>>]
    BY <1>6, <1>7
  <2>3. FlattenSeq(each) = FlattenSeq([k \in DOMAIN rules0 |-> Forced(cands, rules0[k])])
    <3>1. each = [k \in DOMAIN rules0 |-> Forced(cands, rules0[k])]
      BY <1>9, <1>10
    <3>2. QED
      BY <3>1
  <2>4. {cands[k].id : k \in DOMAIN cands} = ids
    BY <1>1 DEF Ids, ToSet
  <2>5. uf = UniteAll(Forest({cands[k].id : k \in DOMAIN cands}),
                      alike \o FlattenSeq([k \in DOMAIN rules0 |-> Forced(cands, rules0[k])]))
    BY <1>12, <1>14, <2>3, <2>4
  <2>6. Clusters(cands, edges0, rules0) = Once(Once(uf, Capped), Checked)
    BY <2>1, <2>2, <2>5 DEF Clusters
  <2>7. Once(uf, Capped) = capped
    BY <1>20 DEF Once
  <2>8. Once(capped, Checked) = Checked(capped)
    BY DEF Once
  <2>9. QED
    BY <2>6, <2>7, <2>8
<1> HIDE DEF Capped, Checked
<1>23. ASSUME NEW c \in Checked(capped)
       PROVE  c.root \in c.members /\ HangsTogether(c.members, cands, rules0)
  <2>1. PICK d \in capped : c.root \in c.members /\ c.members \subseteq d.members
    BY <1>21
  <2>2. PICK t \in uf : d.members \subseteq t.members
    BY <1>19, <1>20
  <2>3. HangsTogether(c.members, cands, rules0)
    BY <1>17, <2>1, <2>2
  <2>4. QED
    BY <2>1, <2>3
<1>24. QED
  BY <1>22, <1>23

-----------------------------------------------------------------------------
(* The knowledge graph: what is merged has a reason                        *)

\* The elements of a finite set in some order.
LEMMA InSomeOrder ==
  ASSUME NEW S, IsFiniteSet(S)
  PROVE  Sequence(SetToSeq(S)) /\ \A k \in DOMAIN SetToSeq(S) : SetToSeq(S)[k] \in S
<1>1. PICK n \in Nat : n = Cardinality(S) /\ ExistsBijection(1..n, S)
  BY FS_CardinalityType
<1>2. \E f \in [1..n -> S] : IsInjective(f)
  BY <1>1 DEF ExistsBijection, Bijection, Injection
<1>3. SetToSeq(S) \in [1..n -> S]
  BY <1>1, <1>2 DEF SetToSeq
<1>4. PICK f : f = SetToSeq(S)
  OBVIOUS
<1>5. f \in [1..n -> S]
  BY <1>3, <1>4
<1>6. f = [k \in 1..n |-> f[k]]
  BY <1>5
<1>7. QED
  BY <1>4, <1>5, <1>6, Listed

\* The candidates of a document are a list.
LEMMA Resolves ==
  ASSUME NEW mentions, mentions \in Seq(ToSet(mentions)), NEW loc
  PROVE  /\ Sequence(Resolve(mentions, loc))
         /\ \A k \in DOMAIN Resolve(mentions, loc) : Resolve(mentions, loc)[k].loc = loc
<1>1. PICK n \in Nat : DOMAIN mentions = 1..n
  OBVIOUS
<1>2. PICK trees : trees = UniteAll(Forest(ToSet(mentions)),
                              Those(Pairs(mentions), LAMBDA p : Joined(p[1], p[2])))
  OBVIOUS
<1> DEFINE Members(i) == TreeOf(trees, mentions[i]).members
           New(i) == \A j \in 1..i - 1 : mentions[j] \notin Members(i)
<1>3. Resolve(mentions, loc) = CandidatesOf(trees, mentions, loc)
  BY <1>2 DEF Resolve, Once
<1>5. PICK some : some = [k \in 1..n |-> IF New(k) THEN <<k>> ELSE <<>>]
  OBVIOUS
<1>6. Sequence(some) /\ DOMAIN some = 1..n
  BY <1>5, Listed
<1>7. ASSUME NEW k \in 1..n PROVE Sequence(some[k])
  <2>1. Sequence(<<k>>) /\ Sequence(<<>>)
    BY DEF Sequence
  <2>2. some[k] = <<k>> \/ some[k] = <<>>
    BY <1>5
  <2>3. QED
    BY <2>1, <2>2
<1>8. PICK first : first = FlattenSeq(some)
  OBVIOUS
<1>9. Sequence(first)
  BY <1>6, <1>7, <1>8, Flattened
<1>10. PICK m \in Nat : DOMAIN first = 1..m
  BY <1>9, Positions
<1>11. first = Those([i \in DOMAIN mentions |-> i],
                     LAMBDA i : \A j \in 1..i - 1 : mentions[j] \notin TreeOf(trees, mentions[i]).members)
  BY <1>1, <1>5, <1>8 DEF Those, FlatMap
<1>12. CandidatesOf(trees, mentions, loc) = [k \in 1..m |-> Candidate(Members(first[k]), mentions, loc)]
  BY <1>10, <1>11 DEF CandidatesOf
<1>13. Sequence(CandidatesOf(trees, mentions, loc)) /\ DOMAIN CandidatesOf(trees, mentions, loc) = 1..m
  BY <1>12, Listed
<1>14. \A k \in 1..m : CandidatesOf(trees, mentions, loc)[k].loc = loc
  <2>1. \A cluster : Candidate(cluster, mentions, loc).loc = loc
    BY DEF Candidate
  <2>2. QED
    BY <1>12, <2>1
<1>15. QED
  BY <1>3, <1>13, <1>14

\* The gold layer holds lists of candidates of its locations, and the rules are finitely
\* many.
SourceInv ==
    /\ IsFiniteSet(rules)
    /\ \A p \in Part : gold[p] # None =>
          Sequence(gold[p]) /\ \A k \in DOMAIN gold[p] : gold[p][k].loc = LocationOf[p]

LEMMA FlatListed ==
  ASSUME SourceInv, NEW loc
  PROVE  Sequence(Flat(loc))
<1>1. PICK filled : filled = {p \in Part : LocationOf[p] = loc /\ gold[p] # None}
  OBVIOUS
<1>2. IsFiniteSet(filled) /\ filled \subseteq Part
  BY <1>1, KGAssumption, FS_Subset
<1>3. PICK order : order = SetToSeq(filled)
  OBVIOUS
<1>4. Sequence(order) /\ \A k \in DOMAIN order : order[k] \in filled
  BY <1>2, <1>3, InSomeOrder
<1>5. PICK n \in Nat : DOMAIN order = 1..n
  BY <1>4, Positions
<1>6. PICK each : each = [k \in 1..n |-> gold[order[k]]]
  OBVIOUS
<1>7. Sequence(each) /\ DOMAIN each = 1..n
  BY <1>6, Listed
<1>8. \A k \in 1..n : Sequence(each[k])
  BY <1>1, <1>4, <1>5, <1>6 DEF SourceInv
<1>9. Sequence(FlattenSeq(each))
  BY <1>7, <1>8, Flattened
<1>10. Flat(loc) = FlattenSeq(each)
  BY <1>1, <1>3, <1>5, <1>6 DEF Flat
<1>11. QED
  BY <1>9, <1>10

LEMMA SourcesListed ==
  ASSUME SourceInv
  PROVE  /\ Sequence(Sources) /\ \A k \in DOMAIN Sources : Sequence(Sources[k])
         /\ Sequence(FlattenSeq(Sources))
         /\ \A k \in DOMAIN Sources : ToSet(Sources[k]) \subseteq ToSet(FlattenSeq(Sources))
<1>1. PICK n \in Nat : DOMAIN Locations = 1..n
  BY KGAssumption
<1>2. PICK s : s = [k \in 1..n |-> Flat(Locations[k])]
  OBVIOUS
<1>3. Sources = s
  BY <1>1, <1>2 DEF Sources
<1>4. Sequence(s) /\ DOMAIN s = 1..n
  BY <1>2, Listed
<1>5. \A k \in 1..n : Sequence(s[k])
  BY <1>2, FlatListed
<1>6. Sequence(FlattenSeq(s)) /\ ToSet(FlattenSeq(s)) = UNION {ToSet(s[k]) : k \in 1..n}
  BY <1>4, <1>5, Flattened
<1>7. QED
  BY <1>3, <1>4, <1>5, <1>6

\* What a run is about to write hangs together by the reasons it has.
MergedInv ==
    \A r \in Run : work[r].at = "delete" =>
        \A e \in work[r].ents : HangsTogether(e.sources, work[r].cands, work[r].forced)

LEMMA LoadMerges ==
  ASSUME LinkInv, SourceInv, NEW r \in Run, LoadCandidates(r)
  PROVE  /\ \A e \in work'[r].ents :
               /\ HangsTogether(e.sources, work'[r].cands, work'[r].forced)
               /\ \E i \in e.sources : e.id = <<work[r].run, i>>
         /\ \A s \in Run \ {r} : work'[s] = work[s]
<1>1. PICK read \in {rules, {}}, cands \in {FlattenSeq(Sources)}, found \in {Edges(Sources)} :
        work' = [work EXCEPT ![r].at = "delete", ![r].cands = cands, ![r].forced = SetToSeq(read),
                   ![r].ents = {Entity(<<work[r].run, c.root>>, cands, c.members) :
                                  c \in Clusters(cands, found, SetToSeq(read))}]
  BY DEF LoadCandidates
<1>2. cands = FlattenSeq(Sources)
  OBVIOUS
<1>3. found = Edges(Sources)
  OBVIOUS
<1>4. PICK forced : forced = SetToSeq(read)
  OBVIOUS
<1>5. PICK ents : ents = {Entity(<<work[r].run, c.root>>, cands, c.members) :
                             c \in Clusters(cands, found, forced)}
  OBVIOUS
<1>6. /\ Sequence(Sources) /\ \A k \in DOMAIN Sources : Sequence(Sources[k])
      /\ Sequence(cands) /\ \A k \in DOMAIN Sources : ToSet(Sources[k]) \subseteq ToSet(cands)
  BY <1>2, SourcesListed
<1>7. Sequence(found) /\ Reasoned(found, ToSet(cands))
  BY <1>3, <1>6, EdgesAreReasoned
<1>8. Sequence(forced)
  <2>1. IsFiniteSet(read)
    BY FS_EmptySet DEF SourceInv
  <2>2. QED
    BY <1>4, <2>1, InSomeOrder
<1>9. \A c \in Clusters(cands, found, forced) :
         c.root \in c.members /\ HangsTogether(c.members, cands, forced)
  BY <1>6, <1>7, <1>8, ClustersHangTogether
<1>10. \A e \in ents : /\ HangsTogether(e.sources, cands, forced)
                       /\ \E i \in e.sources : e.id = <<work[r].run, i>>
  <2>1. TAKE e \in ents
  <2>2. PICK c \in Clusters(cands, found, forced) :
          e = Entity(<<work[r].run, c.root>>, cands, c.members)
    BY <1>5
  <2>3. e.sources = c.members /\ e.id = <<work[r].run, c.root>>
    BY <2>2 DEF Entity
  <2>4. QED
    BY <1>9, <2>3
<1>11. work' = [work EXCEPT ![r].at = "delete", ![r].cands = cands, ![r].forced = forced,
                            ![r].ents = ents]
  BY <1>1, <1>4, <1>5
<1>12. r \in DOMAIN work /\ DOMAIN work = Run /\ DOMAIN work[r] = Fields
  BY DEF LinkInv
<1>13. /\ work'[r].cands = cands /\ work'[r].forced = forced /\ work'[r].ents = ents
       /\ \A s \in Run \ {r} : work'[s] = work[s]
  BY <1>11, <1>12 DEF Fields
<1>14. QED
  BY <1>10, <1>13

\* Whoever has clusters to write has had them from a step that loads.
LEMMA OthersKeep ==
  ASSUME LinkInv, NEW r \in Run, NEW w, work' = [work EXCEPT ![r] = w], w.at # "delete",
         MergedInv
  PROVE  MergedInv'
BY DEF LinkInv, MergedInv

LEMMA RunsKeep ==
  ASSUME LinkInv, NEW r \in Run, MergedInv, ~LoadCandidates(r),
         \/ LaunchPlatinum(r) \/ LaunchLinking(r)
         \/ RunStep(r) \/ StepRaises(r) \/ RunDies(r)
  PROVE  MergedInv'
<1>1. DOMAIN work[r] = Fields /\ r \in DOMAIN work
  BY DEF LinkInv
<1>2. ASSUME NEW at, Step(r, at), at # "delete" PROVE MergedInv'
  <2>1. [work[r] EXCEPT !.at = at].at = at
    BY <1>1 DEF Fields
  <2>2. QED
    BY <1>2, <2>1, OthersKeep DEF Step
<1>3. ASSUME NEW w, work' = [work EXCEPT ![r] = w], w.at # "delete" PROVE MergedInv'
  BY <1>3, OthersKeep
<1>4. ASSUME NEW at, NEW todo, at # "delete",
             work' = [work EXCEPT ![r].at = at, ![r].todo = todo]
      PROVE  MergedInv'
  <2>1. PICK w : w = [work[r] EXCEPT !.at = at, !.todo = todo]
    OBVIOUS
  <2>2. w.at = at
    BY <1>1, <2>1, SetAtTodo
  <2>3. work' = [work EXCEPT ![r] = w]
    BY <1>1, <1>4, <2>1
  <2>4. QED
    BY <1>4, <2>2, <2>3, OthersKeep
<1>5. ASSUME NEW at, NEW seen, at # "delete",
             work' = [work EXCEPT ![r].at = at, ![r].seen = seen]
      PROVE  MergedInv'
  <2>1. PICK w : w = [work[r] EXCEPT !.at = at, !.seen = seen]
    OBVIOUS
  <2>2. w.at = at
    BY <1>1, <2>1, SetAtSeen
  <2>3. work' = [work EXCEPT ![r] = w]
    BY <1>1, <1>5, <2>1
  <2>4. QED
    BY <1>5, <2>2, <2>3, OthersKeep
<1>6. ASSUME NEW at, NEW ents, at # "delete",
             work' = [work EXCEPT ![r].at = at, ![r].ents = ents]
      PROVE  MergedInv'
  <2>1. PICK w : w = [work[r] EXCEPT !.at = at, !.ents = ents]
    OBVIOUS
  <2>2. w.at = at
    BY <1>1, <2>1, SetAtEnts
  <2>3. work' = [work EXCEPT ![r] = w]
    BY <1>1, <1>6, <2>1
  <2>4. QED
    BY <1>6, <2>2, <2>3, OthersKeep
<1>7. CASE LaunchPlatinum(r) \/ LaunchLinking(r)
  <2>1. PICK first \in {"load", "link"} :
          work' = [work EXCEPT ![r] = [Idle EXCEPT !.at = first, !.run = drawn + 1]]
    BY <1>7 DEF LaunchPlatinum, LaunchLinking, Launch
  <2>2. [Idle EXCEPT !.at = first, !.run = drawn + 1].at = first
    BY DEF Idle
  <2>3. QED
    BY <1>3, <2>1, <2>2
<1>8. CASE DeleteEntities(r)
  <2>1. \/ Step(r, "nodes") \/ Step(r, "align")
        \/ work' = [work EXCEPT ![r].at = "insert", ![r].seen = entities]
    BY <1>8 DEF DeleteEntities
  <2>2. QED
    BY <1>2, <1>5, <2>1
<1>9. CASE InsertEntities(r)
  BY <1>2, <1>4, <1>9 DEF InsertEntities
<1>10. CASE MergeNode(r)
  <2>1. PICK todo : work' = [work EXCEPT ![r].todo = todo] /\ work[r].at = "nodes"
    BY <1>10 DEF MergeNode
  <2>2. PICK w : w = [work[r] EXCEPT !.todo = todo]
    OBVIOUS
  <2>3. work' = [work EXCEPT ![r] = w] /\ w.at = "nodes"
    BY <1>1, <2>1, <2>2, SetTodo
  <2>4. QED
    BY <1>3, <2>3
<1>11. CASE StoreEntities(r) \/ ReplaceEdges(r)
  BY <1>2, <1>11 DEF StoreEntities, ReplaceEdges
<1>12. CASE RelateNodes(r) \/ ReportLinks(r) \/ RunDies(r)
  <2>1. work' = [work EXCEPT ![r] = Idle] /\ Idle.at = "idle"
    BY <1>12 DEF RelateNodes, ReportLinks, RunDies, Idle
  <2>2. QED
    BY <1>3, <2>1
<1>13. CASE LinkAssertions(r)
  BY <1>6, <1>13 DEF LinkAssertions
<1>14. CASE ReplaceLinks(r)
  <2>1. \/ work' = [work EXCEPT ![r].at = "states", ![r].todo = work[r].ents]
        \/ work' = [work EXCEPT ![r] = Idle]
    BY <1>14 DEF ReplaceLinks
  <2>2. Idle.at # "delete"
    BY DEF Idle
  <2>3. QED
    BY <1>3, <1>4, <2>1, <2>2
<1>15. CASE \E l \in work[r].todo : MergeStatement(r, l)
  <2>1. PICK l \in work[r].todo :
          work' = [work EXCEPT ![r].todo = work[r].todo \ {l}, ![r].at = "asserts", ![r].seen = {l}]
    BY <1>15 DEF MergeStatement
  <2>2. PICK w : w = [work[r] EXCEPT !.todo = work[r].todo \ {l}, !.at = "asserts", !.seen = {l}]
    OBVIOUS
  <2>3. w.at = "asserts"
    BY <1>1, <2>2, SetTodoAtSeen
  <2>4. work' = [work EXCEPT ![r] = w]
    BY <1>1, <2>1, <2>2
  <2>5. QED
    BY <1>3, <2>3, <2>4
<1>16. CASE MergeAsserts(r)
  BY <1>5, <1>16 DEF MergeAsserts
<1>17. CASE StepRaises(r)
  <2>1. \/ work' = [work EXCEPT ![r] = [Idle EXCEPT !.at = "align", !.run = work[r].run]]
        \/ work' = [work EXCEPT ![r] = Idle]
    BY <1>17 DEF StepRaises
  <2>2. [Idle EXCEPT !.at = "align", !.run = work[r].run].at = "align" /\ Idle.at = "idle"
    BY DEF Idle
  <2>3. QED
    BY <1>3, <2>1, <2>2
<1>18. QED
  BY <1>7, <1>8, <1>9, <1>10, <1>11, <1>12, <1>13, <1>14, <1>15, <1>16, <1>17 DEF RunStep

LEMMA LandingsKeep ==
  ASSUME SourceInv, NEW p \in Part, NEW b \in Batch, CandidatesLand(p, b)
  PROVE  SourceInv'
<1>1. PICK list : list = Resolve(b, LocationOf[p])
  OBVIOUS
<1>2. LocationOf[p] \in ToSet(Locations) /\ b \in Seq(ToSet(b))
  BY KGAssumption
<1>3. Handed[b][LocationOf[p]] = list
  BY <1>1, <1>2 DEF Handed
<1>4. Sequence(list) /\ \A k \in DOMAIN list : list[k].loc = LocationOf[p]
  BY <1>1, <1>2, Resolves
<1>5. gold' = [gold EXCEPT ![p] = list] /\ rules' = rules
  BY <1>3 DEF CandidatesLand
<1>6. \A q \in Part : gold'[q] = gold[q] \/ (q = p /\ gold'[q] = list)
  BY <1>5
<1>7. QED
  BY <1>4, <1>5, <1>6 DEF SourceInv

\* The knowledge graph is sound in every state, and so are the lists it is made of.
SoundInv == LinkInv /\ SourceInv /\ MergedInv

LEMMA SoundInit == Init => SoundInv
<1> SUFFICES ASSUME Init PROVE SoundInv
  OBVIOUS
<1>1. SourceInv
  BY FS_EmptySet DEF Init, SourceInv
<1>2. MergedInv
  BY DEF Init, MergedInv, Idle
<1>3. QED
  BY <1>1, <1>2, LinkInit DEF SoundInv

LEMMA SoundNext ==
  ASSUME SoundInv, [Next]_vars
  PROVE  SoundInv'
<1>1. LinkInv'
  BY LinkNext DEF SoundInv
<1>2. CASE UNCHANGED <<inputs, work>>
  BY <1>1, <1>2 DEF SoundInv, SourceInv, MergedInv, inputs
<1>3. ASSUME NEW p \in Part, NEW b \in Batch, CandidatesLand(p, b) PROVE SoundInv'
  <2>1. UNCHANGED work
    BY <1>3 DEF CandidatesLand
  <2>2. QED
    BY <1>1, <1>3, <2>1, LandingsKeep DEF SoundInv, MergedInv
<1>4. ASSUME NEW rule \in Rule, RuleAdded(rule) PROVE SoundInv'
  <2>1. UNCHANGED <<work, gold>> /\ rules' = rules \cup {rule}
    BY <1>4 DEF RuleAdded
  <2>2. IsFiniteSet(rules')
    BY <2>1, FS_AddElement DEF SoundInv, SourceInv
  <2>3. QED
    BY <1>1, <2>1, <2>2 DEF SoundInv, SourceInv, MergedInv
<1>5. CASE \E A \in SUBSET Assertion : AssertionsLand(A)
  BY <1>1, <1>5 DEF AssertionsLand, SoundInv, SourceInv, MergedInv
<1>6. ASSUME NEW r \in Run, RunStep(r) \/ StepRaises(r) \/ RunDies(r)
      PROVE  UNCHANGED inputs
  BY <1>6 DEF RunStep, LoadCandidates, DeleteEntities, InsertEntities, MergeNode, StoreEntities,
     ReplaceEdges, RelateNodes, LinkAssertions, ReplaceLinks, MergeAsserts, ReportLinks,
     MergeStatement, StepRaises, RunDies
<1>7. ASSUME NEW r \in Run, LaunchPlatinum(r) \/ LaunchLinking(r)
      PROVE  UNCHANGED inputs
  BY <1>7 DEF LaunchPlatinum, LaunchLinking, Launch
<1>8. ASSUME NEW r \in Run, \/ LaunchPlatinum(r) \/ LaunchLinking(r)
                            \/ RunStep(r) \/ StepRaises(r) \/ RunDies(r)
      PROVE  SoundInv'
  <2>1. SourceInv'
    BY <1>6, <1>7, <1>8 DEF SoundInv, SourceInv, inputs
  <2>2. CASE LoadCandidates(r)
    <3>1. MergedInv'
      BY <2>2, LoadMerges DEF SoundInv, MergedInv
    <3>2. QED
      BY <1>1, <2>1, <3>1 DEF SoundInv
  <2>3. CASE ~LoadCandidates(r)
    BY <1>1, <1>8, <2>1, <2>3, RunsKeep DEF SoundInv
  <2>4. QED
    BY <2>2, <2>3
<1>9. CASE UNCHANGED vars
  BY <1>2, <1>9 DEF vars
<1>10. QED
  BY <1>3, <1>4, <1>5, <1>8, <1>9 DEF Next

LEMMA SoundEnough == SoundInv => GraphSound
<1> SUFFICES ASSUME SoundInv PROVE GraphSound
  OBVIOUS
<1>1. ReportedLinked
  BY DEF SoundInv, LinkInv, ReportedLinked
<1>2. ASSUME NEW r \in Run, work[r].at = "delete", NEW e \in work[r].ents,
             NEW S \in SUBSET Ids(ToSet(work[r].cands)), S \cap e.sources # {}, e.sources \ S # {}
      PROVE  \E i \in S, j \in Ids(ToSet(work[r].cands)) \ S : Reason(r, i, j) \/ Reason(r, j, i)
  <2>1. PICK i \in S, j \in Ids(ToSet(work[r].cands)) \ S :
          \/ Because(work[r].cands, work[r].forced, i, j)
          \/ Because(work[r].cands, work[r].forced, j, i)
    BY <1>2 DEF SoundInv, MergedInv, HangsTogether
  <2>2. \A k, l : Because(work[r].cands, work[r].forced, k, l) <=> Reason(r, k, l)
    BY DEF Because, Reason
  <2>3. QED
    BY <2>1, <2>2
<1>3. MergedForAReason
  BY <1>2 DEF MergedForAReason
<1>4. QED
  BY <1>1, <1>3 DEF GraphSound

\* Entities hang together by names, voices, words and rules, whatever the caps and checks
\* eject, and what is reported as linked is in the graph (GraphSound), for any candidates.
THEOREM GraphIsSound == PipelinesSpec => []GraphSound
<1>1. PipelinesInit => SoundInv
  BY SoundInit DEF PipelinesInit
<1>2. SoundInv /\ [PipelinesNext]_<<part, vars, tailVars, leakVars, pageVars, groundTruthVars,
                                    transcriptVars>> => SoundInv'
  <2>1. [PipelinesNext]_<<part, vars, tailVars, leakVars, pageVars, groundTruthVars,
                          transcriptVars>> => [Next]_vars
    BY DEF PipelinesNext
  <2>2. QED
    BY <2>1, SoundNext
<1>3. QED
  BY <1>1, <1>2, SoundEnough, PTL DEF PipelinesSpec

-----------------------------------------------------------------------------
(* What is written and said is kept, when the pipelines are explored       *)

TextsInv == TailInv /\ SpeechInv

\* The bill and the recording keep their texts (TextsKept), for all bills, runs, recordings
\* and sizes: no piece, turn or word of more than half a second is lost between an asset
\* and the next.
THEOREM TextsAreKept == PipelinesSpec => []TextsKept
<1>1. PipelinesInit => TextsInv
  BY TailStart, SpeechStart DEF PipelinesInit, TextsInv
<1>2. TextsInv /\ [PipelinesNext]_<<part, vars, tailVars, leakVars, pageVars, groundTruthVars,
                                    transcriptVars>> => TextsInv'
  <2>1. [PipelinesNext]_<<part, vars, tailVars, leakVars, pageVars, groundTruthVars,
                          transcriptVars>> => [TailNext]_tailVars /\ [TranscriptNext]_transcriptVars
    BY DEF PipelinesNext
  <2>2. QED
    BY <2>1, TailStep, SpeechStep DEF TextsInv
<1>3. TextsInv => TextsKept
  BY TailKeepsText, SpeechTranscribed, SpeechChunked DEF TextsInv, TextsKept
<1>4. QED
  BY <1>1, <1>2, <1>3, PTL DEF PipelinesSpec

-----------------------------------------------------------------------------
(* What is given is kept, when the pipelines are explored one by one       *)

GivenInv == TruthInv /\ LeakInv /\ PagesInv

LEMMA GivenStep ==
  ASSUME GivenInv, PipelinesNext
  PROVE  GivenInv'
<1>1. CASE part = "cables"
  <2>1. UNCHANGED <<pageVars, groundTruthVars>> /\ (JobStep("cables") \/ NewVersion("cables.csv"))
    BY <1>1 DEF PipelinesNext
  <2>2. LeakNext
    BY <2>1, FilesOfServer DEF LeakNext, CablesFile
  <2>3. QED
    BY <2>1, <2>2, TruthNext, LeakStep, PagesStep DEF GivenInv
<1>2. CASE part = "archive"
  <2>1. /\ UNCHANGED <<pageVars, groundTruthVars>>
        /\ \/ \E j \in Job \ {"cables"} : JobStep(j)
           \/ NewVersion("icij-offshoreleaks.zip")
    BY <1>2 DEF PipelinesNext
  <2>2. LeakNext
    BY <2>1, LeakDownloadsAssumption DEF LeakNext
  <2>3. QED
    BY <2>1, <2>2, TruthNext, LeakStep, PagesStep DEF GivenInv
<1>3. CASE part = "pages"
  <2>1. UNCHANGED <<leakVars, groundTruthVars>> /\ PagesNext
    BY <1>3 DEF PipelinesNext
  <2>2. QED
    BY <2>1, TruthNext, LeakStep, PagesStep DEF GivenInv
<1>4. CASE part = "truth"
  <2>1. UNCHANGED <<leakVars, pageVars>> /\ GroundTruthNext
    BY <1>4 DEF PipelinesNext
  <2>2. QED
    BY <2>1, TruthNext, LeakStep, PagesStep DEF GivenInv
<1>5. CASE part \in {"graph", "bill", "speech"}
  <2>1. UNCHANGED <<leakVars, pageVars, groundTruthVars>>
    BY <1>5 DEF PipelinesNext
  <2>2. QED
    BY <2>1, TruthNext, LeakStep, PagesStep DEF GivenInv
<1>6. QED
  BY <1>1, <1>2, <1>3, <1>4, <1>5 DEF PipelinesNext

\* Mentions stay where they were put and open-leaks has its files and pages as the sources
\* have them (GivenKept), for all constants of the pipelines.
THEOREM GivenIsKept == PipelinesSpec => []GivenKept
<1>1. PipelinesInit => GivenInv
  BY TruthInit, LeakStart, PagesStart DEF PipelinesInit, GivenInv
<1>2. GivenInv /\ UNCHANGED <<leakVars, pageVars, groundTruthVars>> => GivenInv'
  BY TruthNext, LeakStep, PagesStep DEF GivenInv
<1>3. GivenInv /\ [PipelinesNext]_<<part, vars, tailVars, leakVars, pageVars, groundTruthVars,
                                    transcriptVars>> => GivenInv'
  BY <1>2, GivenStep
<1>4. GivenInv => GivenKept
  BY TruthMentions, LeakHolds, PagesHold DEF GivenInv, GivenKept
<1>5. QED
  BY <1>1, <1>3, <1>4, PTL DEF PipelinesSpec

-----------------------------------------------------------------------------
(* The types of the knowledge graph: what PostgreSQL holds has the ids of  *)
(* a run                                                                   *)

\* An entity has the number of one of n runs, and the id of one of its sources.
Numbered(e, n) == \E k \in 1..n : \E i \in e.sources : e.id = <<k, i>>

\* A run has a number when it is launched, and what it may write has it as well.
RunTyped(w, n) ==
    /\ w.at \in RunState /\ w.run \in 0..n
    /\ w.at = "load" => w.run # 0
    /\ w.at \in {"delete", "insert"} => \A e \in w.ents : Numbered(e, n)

Counted == drawn \in 0 .. MaxRuns /\ landings \in 0 .. MaxLandings /\ faults \in 0 .. MaxFaults

GraphTyped ==
    /\ claims \subseteq Assertion /\ rules \subseteq Rule
    /\ asked \subseteq {"platinum", "assertions"}
    /\ \A r \in Run : RunTyped(work[r], drawn)
    /\ \A e \in entities : Numbered(e, drawn)
    /\ RowsRefer /\ Counted

LEMMA GraphStart == Init => GraphTyped
<1> SUFFICES ASSUME Init PROVE GraphTyped
  OBVIOUS
<1>1. Counted
  BY KGAssumption DEF Init, Counted
<1>2. RunTyped(Idle, 0)
  BY DEF RunTyped, Idle, RunState
<1>3. RowsRefer
  BY DEF Init, RowsRefer
<1>4. QED
  BY <1>1, <1>2, <1>3 DEF Init, GraphTyped

LEMMA MoreRuns ==
  ASSUME NEW m \in Nat, NEW n \in Nat, m <= n
  PROVE  /\ \A e : Numbered(e, m) => Numbered(e, n)
         /\ \A w : RunTyped(w, m) => RunTyped(w, n)
<1>1. 1..m \subseteq 1..n /\ 0..m \subseteq 0..n
  OBVIOUS
<1>2. \A e : Numbered(e, m) => Numbered(e, n)
  BY <1>1 DEF Numbered
<1>3. QED
  BY <1>1, <1>2 DEF RunTyped

\* One run goes on, and what the rest of the graph holds keeps its types.
LEMMA OneRunTyped ==
  ASSUME LinkInv, GraphTyped, NEW r \in Run, NEW w, work' = [work EXCEPT ![r] = w],
         RunTyped(w, drawn'), drawn' \in Nat, drawn <= drawn',
         claims' = claims, rules' = rules, asked' \subseteq {"platinum", "assertions"},
         \A e \in entities' : e \in entities \/ Numbered(e, drawn'),
         RowsRefer', Counted'
  PROVE  GraphTyped'
<1>1. drawn \in Nat
  BY KGAssumption DEF GraphTyped, Counted
<1>2. \A s \in Run : RunTyped(work'[s], drawn')
  <2>1. TAKE s \in Run
  <2>2. CASE s = r
    BY <2>2 DEF LinkInv
  <2>3. CASE s # r
    <3>1. work'[s] = work[s] /\ RunTyped(work[s], drawn)
      BY <2>3 DEF LinkInv, GraphTyped
    <3>2. QED
      BY <1>1, <3>1, MoreRuns
  <2>4. QED
    BY <2>2, <2>3
<1>3. \A e \in entities' : Numbered(e, drawn')
  BY <1>1, MoreRuns DEF GraphTyped
<1>4. QED
  BY <1>2, <1>3 DEF GraphTyped

\* A run that goes over to a state in which it writes no entities.
LEMMA RunGoesOn ==
  ASSUME LinkInv, GraphTyped, NEW r \in Run, NEW w, work' = [work EXCEPT ![r] = w],
         w.at \in RunState \ {"load", "delete", "insert"}, w.run = work[r].run \/ w.run = 0,
         UNCHANGED <<claims, rules, drawn, landings>>, asked' \subseteq {"platinum", "assertions"},
         entities' = entities \/ (work[r].at = "insert"
                                  /\ entities' = (entities \ work[r].seen) \cup work[r].ents),
         RowsRefer', faults' = faults \/ Fault
  PROVE  GraphTyped'
<1>1. RunTyped(work[r], drawn) /\ drawn \in Nat /\ Counted
  BY KGAssumption DEF GraphTyped, Counted
<1>2. RunTyped(w, drawn)
  BY <1>1 DEF RunTyped
<1>3. Counted'
  BY <1>1, KGAssumption DEF Counted, Fault
<1>4. \A e \in entities' : e \in entities \/ Numbered(e, drawn)
  BY <1>1 DEF RunTyped
<1>5. /\ drawn' \in Nat /\ drawn <= drawn' /\ RunTyped(w, drawn')
      /\ \A e \in entities' : e \in entities \/ Numbered(e, drawn')
      /\ claims' = claims /\ rules' = rules
  BY <1>1, <1>2, <1>4
<1>6. QED
  BY <1>3, <1>5, OneRunTyped

LEMMA LaunchTyped ==
  ASSUME LinkInv, GraphTyped, RowsRefer', NEW r \in Run, NEW what, NEW first \in {"load", "link"},
         Launch(r, what, first)
  PROVE  GraphTyped'
<1>1. drawn \in Nat /\ drawn < MaxRuns /\ drawn' = drawn + 1 /\ Counted
  BY KGAssumption DEF Launch, GraphTyped, Counted
<1>2. PICK w : w = [Idle EXCEPT !.at = first, !.run = drawn + 1]
  OBVIOUS
<1>3. w.at = first /\ w.run = drawn + 1
  BY <1>2 DEF Idle
<1>4. RunTyped(w, drawn')
  BY <1>1, <1>3 DEF RunTyped, RunState, Platinum
<1>5. /\ work' = [work EXCEPT ![r] = w]
      /\ UNCHANGED <<claims, rules, entities, landings, faults>>
      /\ asked' \subseteq asked
  BY <1>2 DEF Launch, inputs, postgres
<1>6. Counted'
  BY <1>1, <1>5, KGAssumption DEF Counted
<1>7. asked' \subseteq {"platinum", "assertions"}
  BY <1>5 DEF GraphTyped
<1>8. /\ drawn' \in Nat /\ drawn <= drawn' /\ claims' = claims /\ rules' = rules
      /\ entities' = entities /\ work' = [work EXCEPT ![r] = w]
  BY <1>1, <1>5
<1>9. QED
  BY <1>4, <1>6, <1>7, <1>8, OneRunTyped

LEMMA LoadTyped ==
  ASSUME LinkInv, SourceInv, GraphTyped, RowsRefer', NEW r \in Run, LoadCandidates(r)
  PROVE  GraphTyped'
<1>1. PICK cands, forced, ents :
        work' = [work EXCEPT ![r].at = "delete", ![r].cands = cands, ![r].forced = forced,
                             ![r].ents = ents]
  BY DEF LoadCandidates
<1>2. PICK w : w = [work[r] EXCEPT !.at = "delete", !.cands = cands, !.forced = forced,
                                   !.ents = ents]
  OBVIOUS
<1>3. DOMAIN work[r] = Fields /\ r \in DOMAIN work
  BY DEF LinkInv
<1>4. w.at = "delete" /\ w.run = work[r].run /\ w.ents = ents
  BY <1>2, <1>3 DEF Fields
<1>5. work' = [work EXCEPT ![r] = w]
  BY <1>1, <1>2, <1>3
<1>6. /\ RunTyped(work[r], drawn) /\ work[r].at = "load" /\ drawn \in Nat /\ Counted
      /\ drawn' = drawn /\ landings' = landings /\ (faults' = faults \/ Fault)
      /\ claims' = claims /\ rules' = rules /\ entities' = entities /\ asked' = asked
  BY KGAssumption DEF GraphTyped, Counted, LoadCandidates, inputs, postgres
<1>7. ASSUME NEW e \in ents PROVE Numbered(e, drawn)
  <2>1. work'[r].ents = ents
    BY <1>3, <1>4, <1>5
  <2>2. \E i \in e.sources : e.id = <<work[r].run, i>>
    BY <1>7, <2>1, LoadMerges
  <2>3. work[r].run \in 1..drawn
    BY <1>6 DEF RunTyped
  <2>4. QED
    BY <2>2, <2>3 DEF Numbered
<1>8. RunTyped(w, drawn)
  BY <1>4, <1>6, <1>7 DEF RunTyped, RunState, Platinum
<1>9. Counted'
  BY <1>6, KGAssumption DEF Counted, Fault
<1>10. QED
  BY <1>5, <1>6, <1>8, <1>9, OneRunTyped DEF GraphTyped

\* What a step that sets fields of a run leaves of it.
LEMMA RunKeepsNumber ==
  ASSUME NEW w, DOMAIN w = Fields, NEW at, NEW other
  PROVE  /\ [w EXCEPT !.at = at].at = at /\ [w EXCEPT !.at = at].run = w.run
         /\ [w EXCEPT !.at = at].ents = w.ents
         /\ [w EXCEPT !.todo = other].at = w.at /\ [w EXCEPT !.todo = other].run = w.run
         /\ [w EXCEPT !.at = at, !.todo = other].at = at
         /\ [w EXCEPT !.at = at, !.todo = other].run = w.run
         /\ [w EXCEPT !.at = at, !.seen = other].at = at
         /\ [w EXCEPT !.at = at, !.seen = other].run = w.run
         /\ [w EXCEPT !.at = at, !.seen = other].ents = w.ents
         /\ [w EXCEPT !.at = at, !.ents = other].at = at
         /\ [w EXCEPT !.at = at, !.ents = other].run = w.run
BY DEF Fields

LEMMA DeleteTyped ==
  ASSUME LinkInv, GraphTyped, RowsRefer', NEW r \in Run, DeleteEntities(r)
  PROVE  GraphTyped'
<1>1. /\ DOMAIN work[r] = Fields /\ work[r].at = "delete" /\ RunTyped(work[r], drawn)
      /\ drawn \in Nat /\ Counted
      /\ UNCHANGED <<claims, rules, asked, entities, drawn, landings, faults>>
  BY KGAssumption DEF LinkInv, GraphTyped, Counted, DeleteEntities, inputs, postgres
<1>2. ASSUME NEW at \in {"nodes", "align"}, Step(r, at) PROVE GraphTyped'
  <2>1. PICK w : w = [work[r] EXCEPT !.at = at]
    OBVIOUS
  <2>2. w.at = at /\ w.run = work[r].run
    BY <1>1, <2>1, RunKeepsNumber
  <2>3. work' = [work EXCEPT ![r] = w]
    BY <1>2, <2>1 DEF Step
  <2>4. w.at \in RunState \ {"load", "delete", "insert"}
    BY <2>2 DEF RunState, Platinum
  <2>5. QED
    BY <1>1, <2>2, <2>3, <2>4, RunGoesOn DEF GraphTyped
<1>3. CASE work' = [work EXCEPT ![r].at = "insert", ![r].seen = entities]
  <2>1. PICK w : w = [work[r] EXCEPT !.at = "insert", !.seen = entities]
    OBVIOUS
  <2>2. w.at = "insert" /\ w.run = work[r].run /\ w.ents = work[r].ents
    BY <1>1, <2>1, RunKeepsNumber
  <2>3. work' = [work EXCEPT ![r] = w]
    BY <1>3, <2>1 DEF LinkInv
  <2>4. RunTyped(w, drawn)
    BY <1>1, <2>2 DEF RunTyped, RunState, Platinum
  <2>5. Counted'
    BY <1>1 DEF Counted
  <2>6. QED
    BY <1>1, <2>3, <2>4, <2>5, OneRunTyped DEF GraphTyped
<1>4. QED
  BY <1>2, <1>3 DEF DeleteEntities

\* A run that is in a state in which it writes no entities and has its number, or none.
Onward(w, r) ==
    /\ work' = [work EXCEPT ![r] = w]
    /\ w.at \in RunState \ {"load", "delete", "insert"}
    /\ w.run = work[r].run \/ w.run = 0

LEMMA StepOnward ==
  ASSUME LinkInv, NEW r \in Run, NEW at \in RunState \ {"load", "delete", "insert"}, Step(r, at)
  PROVE  \E w : Onward(w, r)
<1>1. PICK w : w = [work[r] EXCEPT !.at = at]
  OBVIOUS
<1>2. w.at = at /\ w.run = work[r].run
  BY <1>1, RunKeepsNumber DEF LinkInv
<1>3. QED
  BY <1>1, <1>2 DEF Step, Onward

LEMMA SetsOnward ==
  ASSUME LinkInv, NEW r \in Run, NEW at \in RunState \ {"load", "delete", "insert"}, NEW x,
         \/ work' = [work EXCEPT ![r].at = at, ![r].todo = x]
         \/ work' = [work EXCEPT ![r].at = at, ![r].seen = x]
         \/ work' = [work EXCEPT ![r].at = at, ![r].ents = x]
  PROVE  \E w : Onward(w, r)
<1>1. DOMAIN work[r] = Fields /\ r \in DOMAIN work
  BY DEF LinkInv
<1>2. CASE work' = [work EXCEPT ![r].at = at, ![r].todo = x]
  <2>1. PICK w : w = [work[r] EXCEPT !.at = at, !.todo = x]
    OBVIOUS
  <2>2. w.at = at /\ w.run = work[r].run
    BY <1>1, <2>1, RunKeepsNumber
  <2>3. work' = [work EXCEPT ![r] = w]
    BY <1>1, <1>2, <2>1
  <2>4. QED
    BY <2>2, <2>3 DEF Onward
<1>3. CASE work' = [work EXCEPT ![r].at = at, ![r].seen = x]
  <2>1. PICK w : w = [work[r] EXCEPT !.at = at, !.seen = x]
    OBVIOUS
  <2>2. w.at = at /\ w.run = work[r].run
    BY <1>1, <2>1, RunKeepsNumber
  <2>3. work' = [work EXCEPT ![r] = w]
    BY <1>1, <1>3, <2>1
  <2>4. QED
    BY <2>2, <2>3 DEF Onward
<1>4. CASE work' = [work EXCEPT ![r].at = at, ![r].ents = x]
  <2>1. PICK w : w = [work[r] EXCEPT !.at = at, !.ents = x]
    OBVIOUS
  <2>2. w.at = at /\ w.run = work[r].run
    BY <1>1, <2>1, RunKeepsNumber
  <2>3. work' = [work EXCEPT ![r] = w]
    BY <1>1, <1>4, <2>1
  <2>4. QED
    BY <2>2, <2>3 DEF Onward
<1>5. QED
  BY <1>2, <1>3, <1>4

LEMMA IdleOnward ==
  ASSUME NEW r \in Run, work' = [work EXCEPT ![r] = Idle]
  PROVE  \E w : Onward(w, r)
<1>1. Idle.at = "idle" /\ Idle.run = 0
  BY DEF Idle
<1>2. Onward(Idle, r)
  BY <1>1 DEF Onward, RunState
<1>3. QED
  BY <1>2

LEMMA RunsOnward ==
  ASSUME LinkInv, NEW r \in Run, RunStep(r) \/ StepRaises(r) \/ RunDies(r),
         ~LoadCandidates(r), ~DeleteEntities(r)
  PROVE  \E w : Onward(w, r)
<1> DEFINE States == RunState \ {"load", "delete", "insert"}
<1>0. {"idle", "nodes", "align", "relate", "links", "states", "asserts"} \subseteq States
  BY DEF RunState, Platinum
<1>1. CASE InsertEntities(r)
  <2>1. \/ Step(r, "align")
        \/ work' = [work EXCEPT ![r].at = "nodes", ![r].todo = Ids(work[r].ents)]
    BY <1>1 DEF InsertEntities
  <2> HIDE DEF States
  <2>2. QED
    BY <1>0, <2>1, StepOnward, SetsOnward DEF States
<1>2. CASE MergeNode(r)
  <2>1. PICK x : work' = [work EXCEPT ![r].todo = x] /\ work[r].at = "nodes"
    BY <1>2 DEF MergeNode
  <2>2. PICK w : w = [work[r] EXCEPT !.todo = x]
    OBVIOUS
  <2>3. DOMAIN work[r] = Fields /\ r \in DOMAIN work
    BY DEF LinkInv
  <2>4. w.at = "nodes" /\ w.run = work[r].run
    BY <2>1, <2>2, <2>3, RunKeepsNumber
  <2>5. work' = [work EXCEPT ![r] = w]
    BY <2>1, <2>2, <2>3
  <2>6. QED
    BY <1>0, <2>4, <2>5 DEF Onward
<1>3. CASE StoreEntities(r) \/ ReplaceEdges(r)
  <2>1. Step(r, "align") \/ Step(r, "relate")
    BY <1>3 DEF StoreEntities, ReplaceEdges
  <2>2. QED
    BY <1>0, <2>1, StepOnward
<1>4. CASE RelateNodes(r) \/ ReportLinks(r) \/ RunDies(r)
  <2>1. work' = [work EXCEPT ![r] = Idle]
    BY <1>4 DEF RelateNodes, ReportLinks, RunDies
  <2>2. QED
    BY <2>1, IdleOnward
<1>5. CASE LinkAssertions(r)
  <2>1. PICK x : work' = [work EXCEPT ![r].at = "links", ![r].ents = x]
    BY <1>5 DEF LinkAssertions
  <2>2. QED
    BY <1>0, <2>1, SetsOnward
<1>6. CASE ReplaceLinks(r)
  <2>1. \/ work' = [work EXCEPT ![r].at = "states", ![r].todo = work[r].ents]
        \/ work' = [work EXCEPT ![r] = Idle]
    BY <1>6 DEF ReplaceLinks
  <2>2. QED
    BY <1>0, <2>1, SetsOnward, IdleOnward
<1>7. CASE \E l \in work[r].todo : MergeStatement(r, l)
  <2>1. PICK l \in work[r].todo :
          work' = [work EXCEPT ![r].todo = work[r].todo \ {l}, ![r].at = "asserts", ![r].seen = {l}]
    BY <1>7 DEF MergeStatement
  <2>2. PICK w : w = [work[r] EXCEPT !.todo = work[r].todo \ {l}, !.at = "asserts", !.seen = {l}]
    OBVIOUS
  <2>3. DOMAIN work[r] = Fields /\ r \in DOMAIN work
    BY DEF LinkInv
  <2>4. w.at = "asserts" /\ w.run = work[r].run
    BY <2>2, <2>3 DEF Fields
  <2>5. work' = [work EXCEPT ![r] = w]
    BY <2>1, <2>2, <2>3
  <2>6. QED
    BY <1>0, <2>4, <2>5 DEF Onward
<1>8. CASE MergeAsserts(r)
  <2>1. work' = [work EXCEPT ![r].at = "states", ![r].seen = {}]
    BY <1>8 DEF MergeAsserts
  <2>2. QED
    BY <1>0, <2>1, SetsOnward
<1>9. CASE StepRaises(r)
  <2>1. \/ work' = [work EXCEPT ![r] = [Idle EXCEPT !.at = "align", !.run = work[r].run]]
        \/ work' = [work EXCEPT ![r] = Idle]
    BY <1>9 DEF StepRaises
  <2>2. PICK w : w = [Idle EXCEPT !.at = "align", !.run = work[r].run]
    OBVIOUS
  <2>3. w.at = "align" /\ w.run = work[r].run
    BY <2>2 DEF Idle
  <2>4. CASE work' = [work EXCEPT ![r] = w]
    BY <1>0, <2>3, <2>4 DEF Onward
  <2>5. QED
    BY <2>1, <2>2, <2>4, IdleOnward
<1>10. QED
  BY <1>1, <1>2, <1>3, <1>4, <1>5, <1>6, <1>7, <1>8, <1>9 DEF RunStep

LEMMA OnwardTyped ==
  ASSUME LinkInv, GraphTyped, RowsRefer', NEW r \in Run,
         RunStep(r) \/ StepRaises(r) \/ RunDies(r), ~LoadCandidates(r), ~DeleteEntities(r)
  PROVE  GraphTyped'
<1>1. PICK w : Onward(w, r)
  BY RunsOnward
<1>2. UNCHANGED <<claims, rules, drawn, landings>> /\ (faults' = faults \/ Fault)
  BY DEF RunStep, InsertEntities, MergeNode, StoreEntities, ReplaceEdges, RelateNodes,
         LinkAssertions, ReplaceLinks, MergeAsserts, ReportLinks, MergeStatement, StepRaises,
         RunDies, inputs
<1>3. asked' = asked \/ asked' = asked \cup {"assertions"}
  BY DEF RunStep, InsertEntities, MergeNode, StoreEntities, ReplaceEdges, RelateNodes,
         LinkAssertions, ReplaceLinks, MergeAsserts, ReportLinks, MergeStatement, StepRaises,
         RunDies
<1>4. CASE InsertEntities(r)
  <2>1. work[r].at = "insert"
    BY <1>4 DEF InsertEntities
  <2>2. entities' = entities \/ entities' = (entities \ work[r].seen) \cup work[r].ents
    BY <1>4 DEF InsertEntities
  <2>3. asked' \subseteq {"platinum", "assertions"}
    BY <1>3 DEF GraphTyped
  <2>4. QED
    BY <1>1, <1>2, <2>1, <2>2, <2>3, RunGoesOn DEF Onward
<1>5. CASE ~InsertEntities(r)
  <2>1. entities' = entities
    BY <1>5 DEF RunStep, MergeNode, StoreEntities, ReplaceEdges, RelateNodes, LinkAssertions,
       ReplaceLinks, MergeAsserts, ReportLinks, MergeStatement, StepRaises, RunDies, postgres
  <2>2. asked' \subseteq {"platinum", "assertions"}
    BY <1>3 DEF GraphTyped
  <2>3. QED
    BY <1>1, <1>2, <2>1, <2>2, RunGoesOn DEF Onward
<1>6. QED
  BY <1>4, <1>5

\* The types of the graph, with what its candidates and links need.
TypeInv == SoundInv /\ GraphTyped

LEMMA TypeStart == Init => TypeInv
BY SoundInit, GraphStart DEF TypeInv

LEMMA TypeStep == TypeInv /\ [Next]_vars => TypeInv'
<1> SUFFICES ASSUME TypeInv, [Next]_vars PROVE TypeInv'
  OBVIOUS
<1>1. SoundInv' /\ RowsRefer'
  BY SoundNext, RowsNext DEF TypeInv, GraphTyped
<1>2. LinkInv /\ SourceInv /\ GraphTyped
  BY DEF TypeInv, SoundInv
<1>3. drawn \in Nat /\ landings \in Nat /\ faults \in Nat /\ Counted
  BY KGAssumption DEF TypeInv, GraphTyped, Counted
<1>4. CASE UNCHANGED vars
  BY <1>1, <1>2, <1>4 DEF TypeInv, GraphTyped, vars, inputs, postgres, Counted
<1>5. ASSUME NEW p \in Part, NEW b \in Batch, CandidatesLand(p, b) PROVE GraphTyped'
  <2>1. /\ UNCHANGED <<claims, rules, entities, work, drawn, faults>>
        /\ landings < MaxLandings /\ landings' = landings + 1
        /\ asked' = asked \cup {"platinum"}
    BY <1>5 DEF CandidatesLand, Lands, postgres
  <2>2. Counted'
    BY <1>3, <2>1, KGAssumption DEF Counted
  <2>3. QED
    BY <1>1, <1>2, <2>1, <2>2 DEF GraphTyped
<1>6. ASSUME NEW A \in SUBSET Assertion, AssertionsLand(A) PROVE GraphTyped'
  <2>1. /\ UNCHANGED <<rules, entities, work, drawn, faults>> /\ claims' = A
        /\ landings < MaxLandings /\ landings' = landings + 1
        /\ asked' = asked \cup {"assertions"}
    BY <1>6 DEF AssertionsLand, Lands, postgres
  <2>2. Counted'
    BY <1>3, <2>1, KGAssumption DEF Counted
  <2>3. QED
    BY <1>1, <1>2, <2>1, <2>2 DEF GraphTyped
<1>7. ASSUME NEW rule \in Rule, RuleAdded(rule) PROVE GraphTyped'
  <2>1. /\ UNCHANGED <<claims, entities, work, drawn, faults, asked>>
        /\ rules' = rules \cup {rule}
        /\ landings < MaxLandings /\ landings' = landings + 1
    BY <1>7 DEF RuleAdded, Lands, postgres
  <2>2. Counted'
    BY <1>3, <2>1, KGAssumption DEF Counted
  <2>3. QED
    BY <1>1, <1>2, <2>1, <2>2 DEF GraphTyped
<1>8. ASSUME NEW r \in Run, LaunchPlatinum(r) \/ LaunchLinking(r) PROVE GraphTyped'
  BY <1>1, <1>2, <1>8, LaunchTyped DEF LaunchPlatinum, LaunchLinking
<1>9. ASSUME NEW r \in Run, RunStep(r) \/ StepRaises(r) \/ RunDies(r) PROVE GraphTyped'
  BY <1>1, <1>2, <1>9, LoadTyped, DeleteTyped, OnwardTyped
<1>10. QED
  BY <1>1, <1>4, <1>5, <1>6, <1>7, <1>8, <1>9 DEF Next, TypeInv

LEMMA TypesOfGraph == TypeInv => TypeOK
<1> SUFFICES ASSUME TypeInv PROVE TypeOK
  OBVIOUS
<1>1. Ids(entities) \subseteq (1 .. drawn) \X UNION {e.sources : e \in entities}
  <2>1. ASSUME NEW e \in entities PROVE e.id \in (1 .. drawn) \X UNION {d.sources : d \in entities}
    <3>1. PICK k \in 1..drawn : \E i \in e.sources : e.id = <<k, i>>
      BY DEF TypeInv, GraphTyped, Numbered
    <3>2. PICK i \in e.sources : e.id = <<k, i>>
      BY <3>1
    <3>3. i \in UNION {d.sources : d \in entities}
      OBVIOUS
    <3>4. QED
      BY <3>2, <3>3
  <2>2. QED
    BY <2>1 DEF Ids
<1>2. \A p \in Part : gold[p] # None => \A k \in DOMAIN gold[p] : gold[p][k].loc = LocationOf[p]
  BY DEF TypeInv, SoundInv, SourceInv
<1>3. \A r \in Run : work[r].at \in RunState /\ work[r].run \in 0 .. drawn
  BY DEF TypeInv, GraphTyped, RunTyped
<1>4. QED
  BY <1>1, <1>2, <1>3 DEF TypeInv, GraphTyped, RowsRefer, Counted, TypeOK

-----------------------------------------------------------------------------
(* The types of the pages, and of all pipelines                            *)

\* Each page before the one at hand has given a document or has failed; so there are no
\* more pages than documents and failures.
PagesCounted ==
    /\ reader \in {"idle", "reading", "done", "cut"}
    /\ docs \in Seq(ToSet(Docs))
    /\ failed \in 0 .. MaxFailed /\ consecutive_failures \in 0 .. MAX_CONSECUTIVE_FAILURES
    /\ page \in 1 .. Len(Docs) + MaxFailed + 1
    /\ reader \in {"idle", "reading"} =>
          /\ consecutive_failures < MAX_CONSECUTIVE_FAILURES
          /\ page <= Len(docs) + failed + 1 /\ Len(docs) <= Len(Docs)

LEMMA PagesCountedStart == PagesInit => PagesCounted
<1> SUFFICES ASSUME PagesInit PROVE PagesCounted
  OBVIOUS
<1>1. PICK n \in Nat : n = Len(Docs)
  BY LeakPagesAssumption
<1>2. docs \in Seq(ToSet(Docs)) /\ Len(docs) = 0
  BY DEF PagesInit
<1>3. QED
  BY <1>1, <1>2, LeakPagesAssumption DEF PagesInit, PagesCounted

LEMMA PagesCountedStep == PagesInv /\ PagesCounted /\ [PagesNext]_pageVars => PagesCounted'
<1> SUFFICES ASSUME PagesInv, PagesCounted, [PagesNext]_pageVars PROVE PagesCounted'
  OBVIOUS
<1>0. PICK top, most, limit : /\ top = Len(Docs) /\ most = MaxFailed
                              /\ limit = MAX_CONSECUTIVE_FAILURES
  OBVIOUS
<1>1. top \in Nat /\ most \in Nat /\ limit \in Nat \ {0}
  BY <1>0, LeakPagesAssumption
<1>2. /\ docs \in Seq(ToSet(Docs)) /\ failed \in 0..most /\ consecutive_failures \in 0..limit
      /\ page \in 1..(top + most + 1) /\ Len(docs) \in Nat
  <2>1. /\ docs \in Seq(ToSet(Docs)) /\ failed \in 0..most
        /\ consecutive_failures \in 0..limit /\ page \in 1..(top + most + 1)
    BY <1>0 DEF PagesCounted
  <2>2. Len(docs) \in Nat
    BY <2>1
  <2>3. QED
    BY <2>1, <2>2
<1>3. CASE UNCHANGED pageVars
  BY <1>3 DEF pageVars, PagesCounted
<1>4. CASE CheckApiReachable
  <2>1. /\ reader = "idle" /\ UNCHANGED <<page, docs, consecutive_failures>>
        /\ \/ reader' = "reading" /\ failed' = failed
           \/ reader' = "cut" /\ failed < most /\ failed' = failed + 1
    BY <1>0, <1>4 DEF CheckApiReachable, Fails
  <2>2. failed' \in 0..most
    BY <1>1, <1>2, <2>1
  <2>3. QED
    BY <1>0, <2>1, <2>2 DEF PagesCounted
<1>5. CASE StopReading
  <2>1. /\ UNCHANGED <<page, docs, consecutive_failures>>
        /\ reader' = "cut" /\ failed < most /\ failed' = failed + 1
    BY <1>0, <1>5 DEF StopReading, Fails
  <2>2. failed' \in 0..most
    BY <1>1, <1>2, <2>1
  <2>3. QED
    BY <1>0, <2>1, <2>2 DEF PagesCounted
<1>6. CASE SkipPage
  <2>1. /\ reader = "reading" /\ docs' = docs /\ failed < most /\ failed' = failed + 1
        /\ consecutive_failures' = consecutive_failures + 1
        /\ \/ consecutive_failures + 1 >= limit /\ reader' = "cut" /\ page' = page
           \/ consecutive_failures + 1 < limit /\ reader' = "reading" /\ page' = page + 1
    BY <1>0, <1>1, <1>2, <1>6 DEF SkipPage, Fails
  <2>2. /\ consecutive_failures < limit /\ page <= Len(docs) + failed + 1 /\ Len(docs) <= top
    BY <1>0, <2>1 DEF PagesCounted
  <2>3. failed' \in 0..most /\ consecutive_failures' \in 0..limit
    BY <1>1, <1>2, <2>1, <2>2
  <2>4. page' \in 1..(top + most + 1) /\ (page' = page \/ page' <= Len(docs) + failed' + 1)
    BY <1>1, <1>2, <2>1, <2>2
  <2>5. reader' = "cut" \/ (reader' = "reading" /\ consecutive_failures' < limit
                                /\ page' <= Len(docs) + failed' + 1)
    BY <1>1, <1>2, <2>1, <2>2, SMTT(30)
  <2>6. QED
    BY <1>0, <1>2, <2>1, <2>2, <2>3, <2>4, <2>5 DEF PagesCounted
<1>7. CASE FetchPage
  <2>1. PICK items : items = Items(page)
    OBVIOUS
  <2>2. /\ reader = "reading" /\ docs' = Taken(items) /\ consecutive_failures' = 0 /\ failed' = failed
        /\ \/ LastPage(items) /\ reader' = "done" /\ page' = page
           \/ ~LastPage(items) /\ reader' = "reading" /\ page' = page + 1
    BY <1>7, <2>1 DEF FetchPage
  <2>3. /\ page <= Len(docs) + failed + 1 /\ Len(docs) <= top
        /\ (MaxDocs > 0 => Len(docs) < MaxDocs) /\ page \in Nat \ {0}
    BY <1>0, <2>2 DEF PagesCounted, PagesInv
  <2>4. items \in Seq(ToSet(Docs))
    BY <2>1, <2>3, ItemsOfPage
  <2>5. /\ Taken(items) \in Seq(ToSet(Docs))
        /\ ~(MaxDocs > 0 /\ Len(Taken(items)) >= MaxDocs) => Taken(items) = docs \o items
    BY <1>2, <2>3, <2>4, CutPage
  <2>6. CASE LastPage(items)
    BY <1>0, <1>1, <1>2, <2>2, <2>5, <2>6 DEF PagesCounted
  <2>7. CASE ~LastPage(items)
    <3>1. PICK m : m = Len(items)
      OBVIOUS
    <3>2. m \in Nat /\ m >= 1
      <4>1. Len(items) \in Nat /\ ~(Len(items) < PAGE_SIZE)
        BY <2>4, <2>7 DEF LastPage
      <4>2. QED
        BY <3>1, <4>1, LeakPagesAssumption
    <3>3. Taken(items) = docs \o items /\ ~(Len(Taken(items)) >= top)
      BY <1>0, <2>5, <2>7 DEF LastPage
    <3>4. Len(Taken(items)) = Len(docs) + m
      BY <1>2, <2>4, <3>1, <3>3
    <3>5. Len(docs') = Len(docs) + m /\ Len(docs) + m < top
      BY <1>1, <1>2, <2>2, <3>2, <3>3, <3>4
    <3>6. page' = page + 1 /\ reader' = "reading"
      BY <2>2, <2>7
    <3>7. page' \in 1..(top + most + 1) /\ page' <= Len(docs') + failed' + 1 /\ Len(docs') <= top
      BY <1>1, <1>2, <2>2, <2>3, <3>2, <3>5, <3>6
    <3>8. QED
      BY <1>0, <1>1, <1>2, <2>2, <2>5, <3>6, <3>7 DEF PagesCounted
  <2>8. QED
    BY <2>6, <2>7
<1>8. QED
  BY <1>3, <1>4, <1>5, <1>6, <1>7 DEF PagesNext

LEMMA TypesOfLeak == LeakTyped => LeakTypeOK
<1> SUFFICES ASSUME LeakTyped PROVE LeakTypeOK
  OBVIOUS
<1>1. ASSUME NEW j \in Job
      PROVE  /\ job[j].pc \in {"idle", "head", "get", "stream", "parse", "done", "failed"}
             /\ job[j].attempt \in 1 .. MAX_RETRIES + 1
             /\ job[j].of \in DOMAIN Contents[Path(j)]
             /\ job[j].next \in 1 .. Len(Contents[Path(j)][job[j].of]) + 1
  <2>1. job[j] \in Jobs /\ Streams(job[j], Contents[Path(j)])
    BY DEF LeakTyped
  <2>2. QED
    BY <2>1 DEF Jobs, PlaceOfJob, Streams
<1>2. QED
  BY <1>1 DEF LeakTyped, LeakTypeOK

LEMMA TypesOfTail == TailTyped => TailTypeOK
<1> SUFFICES ASSUME TailTyped PROVE TailTypeOK
  OBVIOUS
<1>1. Loaded([versions |-> listed, texts |-> texts, document |-> document], published)
  BY DEF TailTyped
<1>2. /\ ToSet(listed) \subseteq published /\ TextsFrom(texts, published)
      /\ document.version \in published \cup {None}
  BY <1>1 DEF Loaded
<1>3. {t.version : t \in ToSet(texts)} \subseteq published
  BY <1>2 DEF TextsFrom
<1>4. QED
  BY <1>2, <1>3 DEF TailTyped, TailTypeOK

LEMMA TypesOfSpeech == SpeechInv => TranscriptTypeOK
<1> SUFFICES ASSUME SpeechInv PROVE TranscriptTypeOK
  OBVIOUS
<1>1. ASSUME NEW k \in DOMAIN segments
      PROVE  LET s == segments[k]
             IN  /\ ToSet(s.text) \subseteq DOMAIN speech.words /\ s.start <= s.end
                 /\ {s.words[n].word : n \in DOMAIN s.words} \subseteq ToSet(s.text)
  <2>1. SegmentOK(segments[k])
    BY DEF SpeechInv, SegmentsOK
  <2>2. QED
    BY <2>1 DEF SegmentOK, Worded
<1>2. QED
  BY <1>1 DEF SpeechInv, Listened, TranscriptTypeOK

\* What is always true of the pipelines.
AllInv == GivenInv /\ TextsInv /\ TypeInv /\ PagesCounted

\* The pipelines keep their types (PipelinesTypeOK), for all constants: an entity of
\* PostgreSQL has the number of a run and the id of one of its sources, a row of the links
\* refers to entities that are there, no page is read beyond the documents and failures.
THEOREM PipelinesAreTyped == PipelinesSpec => []PipelinesTypeOK
<1>1. PipelinesInit => AllInv
  BY TruthInit, LeakStart, PagesStart, TailStart, SpeechStart, TypeStart, PagesCountedStart
     DEF PipelinesInit, GivenInv, TextsInv, AllInv
<1>2. AllInv /\ [PipelinesNext]_<<part, vars, tailVars, leakVars, pageVars, groundTruthVars,
                                  transcriptVars>> => AllInv'
  <2>1. SUFFICES ASSUME AllInv, [PipelinesNext]_<<part, vars, tailVars, leakVars, pageVars,
                                                  groundTruthVars, transcriptVars>>
                 PROVE  AllInv'
    OBVIOUS
  <2>2. /\ [TailNext]_tailVars /\ [TranscriptNext]_transcriptVars /\ [Next]_vars
        /\ [PagesNext]_pageVars
    BY <2>1 DEF PipelinesNext
  <2>3. GivenInv'
    <3>1. CASE UNCHANGED <<leakVars, pageVars, groundTruthVars>>
      BY <2>1, <3>1, TruthNext, LeakStep, PagesStep DEF GivenInv, AllInv
    <3>2. QED
      BY <2>1, <3>1, GivenStep DEF AllInv
  <2>4. QED
    BY <2>1, <2>2, <2>3, TailStep, SpeechStep, TypeStep, PagesCountedStep
       DEF AllInv, TextsInv, GivenInv
<1>3. AllInv => PipelinesTypeOK
  <2>1. SUFFICES ASSUME AllInv PROVE PipelinesTypeOK
    OBVIOUS
  <2>2. PagesTypeOK
    BY <2>1 DEF AllInv, PagesCounted, PagesTypeOK
  <2>3. QED
    BY <2>1, <2>2, TypesOfGraph, TypesOfTail, TypesOfLeak, TruthTyped, TypesOfSpeech
       DEF AllInv, GivenInv, LeakInv, TextsInv, TailInv, PipelinesTypeOK
<1>4. QED
  BY <1>1, <1>2, <1>3, PTL DEF PipelinesSpec
=============================================================================
