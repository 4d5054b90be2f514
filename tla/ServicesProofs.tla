--------------------------- MODULE ServicesProofs ---------------------------
(***************************************************************************)
(* Proofs about the services of the viewer and of media: BenchRunner,      *)
(* AnnotationStore, MediaServing, MediaIngest, Speakers and Training, for  *)
(* every value of their constants; MCServices, which explores them side    *)
(* by side; and the incremental ingest of CongressIngest.                  *)
(***************************************************************************)
EXTENDS MCServices, CongressIngest, FiniteSetTheorems, TLAPS

-----------------------------------------------------------------------------
(* Sequences, and the best of some places                                  *)

\* A voice is added to what there is of profiles; the fold that groups the voices is
\* about this operation.
Adding(now, ps, e) ==
    LET k == Nearest(e, ps)
    IN  IF ps # <<>> /\ Distance(e, ps[k]) < THRESHOLD
        THEN [ps EXCEPT ![k] = Joined(@, e)]
        ELSE Append(ps, NewProfile(e, now))

Grouping == INSTANCE FoldFacts WITH Op <- Adding

\* A segment counts for the voice of a label; and a label is added to those there are.
Hearing(label, sum, s) == IF Heard(s, label) THEN sum + s.voice ELSE sum

Listing(segments, acc, s) ==
    IF s.speaker = None \/ s.speaker \in ToSet(acc) \/ Vectors(segments, s.speaker) = {}
    THEN acc ELSE Append(acc, s.speaker)

Summing  == INSTANCE FoldFacts WITH Op <- Hearing
Labeling == INSTANCE FoldFacts WITH Op <- Listing

\* The first of the places with the highest score, and the last with the lowest.
FirstBest(f, D, k) == /\ k \in D
                      /\ \A j \in D : f[j] <= f[k]
                      /\ \A j \in D : j < k => f[j] < f[k]
LastWorst(f, D, k) == /\ k \in D
                      /\ \A j \in D : f[k] <= f[j]
                      /\ \A j \in D : k < j => f[k] < f[j]

LEMMA SomeIsBest ==
  ASSUME NEW n \in Nat, NEW D \in SUBSET (1..n), D # {}, NEW f, \A k \in D : f[k] \in Int
  PROVE  (\E k \in D : FirstBest(f, D, k)) /\ (\E k \in D : LastWorst(f, D, k))
<1> DEFINE Has(E) == (\E k \in E : FirstBest(f, E, k)) /\ (\E k \in E : LastWorst(f, E, k))
           S == {m \in Nat : \A E \in SUBSET (1..m) :
                    E # {} /\ (\A k \in E : f[k] \in Int) => Has(E)}
<1>1. 0 \in S
  <2>1. 1..0 = {}
    OBVIOUS
  <2>2. QED
    BY <2>1
<1>2. ASSUME NEW m \in Nat, m \in S PROVE m + 1 \in S
  <2> SUFFICES ASSUME NEW E \in SUBSET (1..(m + 1)), E # {}, \A k \in E : f[k] \in Int
               PROVE  Has(E)
    OBVIOUS
  <2> DEFINE R == E \ {m + 1}
  <2>1. R \in SUBSET (1..m) /\ \A k \in R : f[k] \in Int
    OBVIOUS
  <2>2. R # {} => Has(R)
    BY <1>2, <2>1
  <2>3. CASE R = {}
    <3>1. E = {m + 1}
      BY <2>3
    <3>2. QED
      BY <3>1 DEF FirstBest, LastWorst
  <2>4. CASE R # {}
    <3>1. PICK a \in R : FirstBest(f, R, a)
      BY <2>2, <2>4
    <3>2. PICK b \in R : LastWorst(f, R, b)
      BY <2>2, <2>4
    <3>3. CASE m + 1 \notin E
      BY <2>2, <2>4, <3>3, R = E
    <3>4. CASE m + 1 \in E
      <4>1. E = R \cup {m + 1} /\ f[m + 1] \in Int /\ \A j \in R : j < m + 1 /\ j \in Int
        BY <3>4
      <4>2. \E k \in E : FirstBest(f, E, k)
        <5>1. CASE f[m + 1] > f[a]
          <6>1. FirstBest(f, E, m + 1)
            BY <2>1, <3>1, <3>4, <4>1, <5>1 DEF FirstBest
          <6>2. QED
            BY <3>4, <6>1
        <5>2. CASE ~(f[m + 1] > f[a])
          <6>1. FirstBest(f, E, a)
            BY <2>1, <3>1, <4>1, <5>2 DEF FirstBest
          <6>2. QED
            BY <6>1
        <5>3. QED
          BY <5>1, <5>2
      <4>3. \E k \in E : LastWorst(f, E, k)
        <5>1. CASE f[m + 1] <= f[b]
          <6>1. LastWorst(f, E, m + 1)
            BY <2>1, <3>2, <3>4, <4>1, <5>1 DEF LastWorst
          <6>2. QED
            BY <3>4, <6>1
        <5>2. CASE ~(f[m + 1] <= f[b])
          <6>1. LastWorst(f, E, b)
            BY <2>1, <3>2, <4>1, <5>2 DEF LastWorst
          <6>2. QED
            BY <6>1
        <5>3. QED
          BY <5>1, <5>2
      <4>4. QED
        BY <4>2, <4>3
    <3>5. QED
      BY <3>3, <3>4
  <2>5. QED
    BY <2>3, <2>4
<1>3. Nat \subseteq S
  <2> HIDE DEF S
  <2> QED
    BY <1>1, <1>2, Grouping!NatSetInduction
<1>4. QED
  BY <1>3

-----------------------------------------------------------------------------
(* The annotation store                                                    *)

\* A request has items to insert or labels to name; the mapping that was stored
\* last is still to be handed on to its profile.
RequestInv ==
    /\ request = "none" => left = {}
    /\ request = "create" => left \subseteq Item
    /\ request = "names" => left \subseteq Label /\ newName \in Name
    /\ upserted \subseteq left
    /\ upserted # {} => request = "names"
    /\ \A l \in upserted : mapping[l] = newName

\* How many rows an item can have: a request that is being served has not stored
\* it yet, or once more; one that has failed may have done either.
ToInsert == IF request = "create" THEN left ELSE {}

RowsInv ==
    \A i \in Item :
        /\ answer[i] = "sent" => request = "create"
        /\ i \in ToInsert => answer[i] = "sent"
        /\ answer[i] \notin {"sent", "created"} \/ i \in ToInsert => stored[i] <= unsure[i]
        /\ answer[i] \in {"sent", "created"} /\ i \notin ToInsert => stored[i] >= 1
        /\ stored[i] <= unsure[i] + 1

\* The profiles of speakers that no request is in the middle of naming.
NamesInv ==
    errors = 0 =>
        \A p \in Profile :
            LET spoken == {l \in Label : ProfileOf[l] = p /\ mapping[l] # Unnamed} IN
            spoken # {} => \E l \in spoken : mapping[l] = display[p] \/ l \in upserted

AnnotationInv == AnnotationTypeOK /\ RequestInv /\ RowsInv /\ NamesInv

LEMMA AnnotationInvInit == AnnotationInit => AnnotationInv
BY ProfileAssumption, AskedAssumption
   DEF AnnotationInit, AnnotationInv, AnnotationTypeOK, RequestInv, RowsInv, ToInsert, NamesInv

LEMMA AnnotationTypeNext ==
  ASSUME AnnotationInv, [AnnotationNext]_annotationVars
  PROVE  AnnotationTypeOK'
<1> USE AskedAssumption, ProfileAssumption DEF AnnotationInv, AnnotationTypeOK, RequestInv, RowsInv
<1>1. ASSUME NEW S \in SUBSET Item \ {{}}, CreateAnnotations(S) PROVE AnnotationTypeOK'
  BY <1>1 DEF CreateAnnotations, Asks
<1>2. ASSUME NEW i \in Item, InsertRow(i) PROVE AnnotationTypeOK'
  BY <1>2 DEF InsertRow
<1>3. ASSUME NEW i \in Item, DeleteAnnotation(i) PROVE AnnotationTypeOK'
  BY <1>3 DEF DeleteAnnotation
<1>4. ASSUME NEW S \in SUBSET Label \ {{}}, NEW n \in Name, SaveMappings(S, n)
      PROVE  AnnotationTypeOK'
  BY <1>4 DEF SaveMappings, Asks
<1>5. ASSUME NEW l \in Label, UpsertMapping(l) PROVE AnnotationTypeOK'
  BY <1>5 DEF UpsertMapping
<1>6. CASE UpdateProfile
  BY <1>6 DEF UpdateProfile, Renamed
<1>7. CASE RequestDone
  BY <1>7 DEF RequestDone, Answers
<1>8. CASE StatementFails
  BY <1>8 DEF StatementFails, Answers, OnError
<1>9. CASE UNCHANGED annotationVars
  BY <1>9 DEF annotationVars
<1>10. QED
  BY <1>1, <1>2, <1>3, <1>4, <1>5, <1>6, <1>7, <1>8, <1>9 DEF AnnotationNext

LEMMA RequestNext ==
  ASSUME AnnotationInv, [AnnotationNext]_annotationVars
  PROVE  RequestInv'
<1> USE ProfileAssumption DEF AnnotationInv, AnnotationTypeOK, RequestInv
<1>1. ASSUME NEW S \in SUBSET Item \ {{}}, CreateAnnotations(S) PROVE RequestInv'
  BY <1>1 DEF CreateAnnotations, Asks
<1>2. ASSUME NEW i \in Item, InsertRow(i) \/ DeleteAnnotation(i) PROVE RequestInv'
  BY <1>2 DEF InsertRow, DeleteAnnotation
<1>3. ASSUME NEW S \in SUBSET Label \ {{}}, NEW n \in Name, SaveMappings(S, n)
      PROVE  RequestInv'
  BY <1>3 DEF SaveMappings, Asks
<1>4. ASSUME NEW l \in Label, UpsertMapping(l) PROVE RequestInv'
  BY <1>4 DEF UpsertMapping
<1>5. CASE UpdateProfile
  BY <1>5 DEF UpdateProfile
<1>6. CASE RequestDone \/ StatementFails
  BY <1>6 DEF RequestDone, StatementFails, Answers
<1>7. CASE UNCHANGED annotationVars
  BY <1>7 DEF annotationVars
<1>8. QED
  BY <1>1, <1>2, <1>3, <1>4, <1>5, <1>6, <1>7 DEF AnnotationNext

LEMMA RowsNext ==
  ASSUME AnnotationInv, [AnnotationNext]_annotationVars
  PROVE  RowsInv'
<1> USE DEF AnnotationInv, AnnotationTypeOK, RequestInv, RowsInv, ToInsert
<1>1. ASSUME NEW S \in SUBSET Item \ {{}}, CreateAnnotations(S) PROVE RowsInv'
  BY <1>1 DEF CreateAnnotations, Asks
<1>2. ASSUME NEW i \in Item, InsertRow(i) PROVE RowsInv'
  BY <1>2 DEF InsertRow
<1>3. ASSUME NEW i \in Item, DeleteAnnotation(i) PROVE RowsInv'
  BY <1>3 DEF DeleteAnnotation
<1>4. ASSUME NEW S \in SUBSET Label \ {{}}, NEW n \in Name, SaveMappings(S, n)
      PROVE  RowsInv'
  BY <1>4 DEF SaveMappings, Asks
<1>5. ASSUME NEW l \in Label, UpsertMapping(l) PROVE RowsInv'
  BY <1>5 DEF UpsertMapping
<1>6. CASE UpdateProfile
  BY <1>6 DEF UpdateProfile
<1>7. CASE RequestDone
  BY <1>7 DEF RequestDone, Answers
<1>8. CASE StatementFails
  BY <1>8 DEF StatementFails, Answers, OnError
<1>9. CASE UNCHANGED annotationVars
  BY <1>9 DEF annotationVars
<1>10. QED
  BY <1>1, <1>2, <1>3, <1>4, <1>5, <1>6, <1>7, <1>8, <1>9 DEF AnnotationNext

LEMMA NamesNext ==
  ASSUME AnnotationInv, [AnnotationNext]_annotationVars
  PROVE  NamesInv'
<1> USE ProfileAssumption DEF AnnotationInv, AnnotationTypeOK, RequestInv, NamesInv
<1>1. CASE UNCHANGED <<mapping, display, upserted, errors>>
  BY <1>1
<1>2. ASSUME NEW l \in Label, UpsertMapping(l) PROVE NamesInv'
  BY <1>2 DEF UpsertMapping
<1>3. CASE UpdateProfile
  BY <1>3 DEF UpdateProfile, Renamed
<1>4. CASE RequestDone
  BY <1>4 DEF RequestDone, Answers
<1>5. CASE StatementFails
  BY <1>5 DEF StatementFails
<1>6. QED
  BY <1>1, <1>2, <1>3, <1>4, <1>5
     DEF AnnotationNext, CreateAnnotations, Asks, InsertRow, DeleteAnnotation, SaveMappings,
         annotationVars

LEMMA AnnotationInvNext == AnnotationInv /\ [AnnotationNext]_annotationVars => AnnotationInv'
BY AnnotationTypeNext, RequestNext, RowsNext, NamesNext DEF AnnotationInv

LEMMA AnnotationsKept == AnnotationInv => AnnotatedOnce /\ NamesAgree
BY DEF AnnotationInv, AnnotationTypeOK, RequestInv, RowsInv, ToInsert, NamesInv, AnnotatedOnce, NamesAgree
-----------------------------------------------------------------------------
(* The media that are served                                               *)

Files == Source \X Clip

Version == 1..MaxReplaced

\* What a request can be: one that was answered knows the file by its path, one
\* that is sending has it open.
Views == [at : {"idle"}]
    \cup [at : {"answered"}, file : Files, version : Version, start : Nat, length : Nat]
    \cup [at : {"sending", "sent"}, version : Version, start : Nat, length : Nat,
          opened : [version : Version, size : 0..MaxSize], sent : Nat]
    \cup [at : {"making"}, path : Clip, of : Source \X Version]

\* Versions are never used again.
DiskInv ==
    /\ replaced \in 0..MaxReplaced /\ asks \in 0..MaxAsks
    /\ onDisk \in [Files -> [version : 1..replaced, size : 0..MaxSize] \cup {None}]

\* A file that is still of the version that was measured has all that was promised.
Promised(v) ==
    /\ view[v].at = "answered" =>
          LET now == onDisk[view[v].file] IN
          /\ view[v].version <= replaced
          /\ now # None /\ now.version = view[v].version
                => view[v].start + view[v].length <= now.size
    /\ view[v].at \in {"sending", "sent"} =>
          /\ view[v].sent <= view[v].length
          /\ view[v].opened.version = view[v].version
                => view[v].start + view[v].length <= view[v].opened.size
          /\ view[v].at = "sent" /\ view[v].sent < view[v].length
                => view[v].opened.size <= view[v].start + view[v].sent

ServingInv ==
    /\ DiskInv
    /\ view \in [Viewer -> Views]
    /\ \A v \in Viewer : Promised(v)
    /\ thumbs \in [Clip -> Source \X Version \cup {None}]

LEMMA ServingInvInit == ServingInit => ServingInv
BY ServingAssumption
   DEF ServingInit, ServingInv, DiskInv, Views, NoView, Promised, Files, Version

LEMMA ReplaceKeeps ==
  ASSUME ServingInv, NEW f \in Files, Replace(f)
  PROVE  ServingInv'
<1> USE ServingAssumption DEF ServingInv, DiskInv, Version
<1>1. /\ replaced' = replaced + 1 /\ replaced' \in 0..MaxReplaced
      /\ UNCHANGED <<view, thumbs, asks>>
  BY DEF Replace
<1>2. \E x \in [version : {replaced'}, size : 0..MaxSize] \cup {None} :
         onDisk' = [onDisk EXCEPT ![f] = x]
  BY DEF Replace
<1>3. DiskInv'
  BY <1>1, <1>2
<1>4. ASSUME NEW v \in Viewer PROVE Promised(v)'
  <2>1. CASE view[v].at = "answered"
    <3>1. view[v].file \in Files /\ view[v].version \in 1..replaced
      BY <2>1 DEF Views, Promised
    <3>2. QED
      BY <1>1, <1>2, <2>1, <3>1 DEF Promised
  <2>2. CASE view[v].at # "answered"
    BY <1>1, <2>2 DEF Promised
  <2>3. QED
    BY <2>1, <2>2
<1>5. QED
  BY <1>1, <1>3, <1>4

\* One request goes on, the files are as they were.
LEMMA TurnKeeps ==
  ASSUME ServingInv, NEW v \in Viewer, NEW x \in Views, Turns(v, x),
         UNCHANGED <<onDisk, replaced>>, asks' \in 0..MaxAsks,
         thumbs' \in [Clip -> Source \X Version \cup {None}],
         Promised(v)'
  PROVE  ServingInv'
BY DEF ServingInv, DiskInv, Turns, Promised, Version, Files

LEMMA MeasureKeeps ==
  ASSUME ServingInv, NEW v \in Viewer, NEW f \in Files, NEW r \in RangeAsked, Measure(v, f, r)
  PROVE  ServingInv'
<1> USE ServingAssumption
<1> DEFINE n == onDisk[f].size
<1> DEFINE x == IF onDisk[f] = None THEN NoView
                ELSE IF r # None /\ (From(r) > To(r, n) \/ From(r) >= n) THEN NoView
                ELSE [at |-> "answered", file |-> f, version |-> onDisk[f].version,
                      start |-> From(r), length |-> To(r, n) - From(r) + 1]
<1>1. /\ Turns(v, x) /\ asks' \in 0..MaxAsks /\ UNCHANGED <<onDisk, thumbs, replaced>>
  BY DEF Measure, ServingInv, DiskInv
<1>2. CASE x = NoView
  BY <1>1, <1>2, TurnKeeps DEF ServingInv, Turns, Promised, NoView, Views
<1>3. CASE x # NoView
  <2>1. /\ onDisk[f] \in [version : 1..replaced, size : 0..MaxSize]
        /\ onDisk[f] # None /\ n \in Nat
    BY <1>3 DEF ServingInv, DiskInv
  <2>2. /\ From(r) \in Nat
        /\ To(r, n) \in Int /\ To(r, n) <= n - 1
        /\ From(r) <= To(r, n) + 1
    BY <1>3, <2>1 DEF From, To, Smallest
  <2>3. x = [at |-> "answered", file |-> f, version |-> onDisk[f].version,
             start |-> From(r), length |-> To(r, n) - From(r) + 1]
    BY <1>3
  <2> HIDE DEF x
  <2>4. x \in Views
    BY <2>1, <2>2, <2>3 DEF Views, Version, ServingInv, DiskInv
  <2>5. view'[v] = x
    BY <1>1 DEF Turns, ServingInv
  <2>6. Promised(v)'
    BY <1>1, <2>1, <2>2, <2>3, <2>5 DEF Promised
  <2>7. QED
    BY <1>1, <2>4, <2>6, TurnKeeps DEF ServingInv
<1>4. QED
  BY <1>2, <1>3

LEMMA OpenKeeps ==
  ASSUME ServingInv, NEW v \in Viewer, OpenClip(v)
  PROVE  ServingInv'
<1> USE ServingAssumption
<1> DEFINE now == onDisk[view[v].file]
<1> DEFINE x == IF now = None THEN NoView
                ELSE [at |-> "sending", version |-> view[v].version, start |-> view[v].start,
                      length |-> view[v].length, opened |-> now, sent |-> 0]
<1>1. /\ view[v].at = "answered" /\ Turns(v, x)
      /\ UNCHANGED <<onDisk, thumbs, replaced, asks>>
  BY DEF OpenClip
<1>2. /\ view[v].file \in Files /\ view[v].version \in Version
      /\ view[v].start \in Nat /\ view[v].length \in Nat
  BY <1>1 DEF ServingInv, Views
<1>3. view'[v] = x
  BY <1>1 DEF Turns, ServingInv
<1>4. CASE now = None
  BY <1>1, <1>4, TurnKeeps DEF ServingInv, DiskInv, Turns, Promised, NoView, Views
<1>5. CASE now # None
  <2>1. now \in [version : Version, size : 0..MaxSize]
    BY <1>2, <1>5 DEF ServingInv, DiskInv, Version
  <2>2. x \in Views
    BY <1>2, <1>5, <2>1 DEF Views
  <2>3. Promised(v)
    BY DEF ServingInv
  <2>4. Promised(v)'
    BY <1>1, <1>2, <1>3, <1>5, <2>1, <2>3 DEF Promised
  <2>5. QED
    BY <1>1, <2>2, <2>4, TurnKeeps DEF ServingInv, DiskInv
<1>6. QED
  BY <1>4, <1>5

LEMMA SendKeeps ==
  ASSUME ServingInv, NEW v \in Viewer, Send(v)
  PROVE  ServingInv'
<1> USE ServingAssumption
<1> DEFINE w == view[v]
<1> DEFINE x == IF w.sent < w.length /\ w.start + w.sent < w.opened.size
                THEN [w EXCEPT !.sent = @ + 1] ELSE [w EXCEPT !.at = "sent"]
<1>1. w.at = "sending" /\ Turns(v, x) /\ UNCHANGED <<onDisk, thumbs, replaced, asks>>
  BY DEF Send
<1>2. w \in [at : {"sending", "sent"}, version : Version, start : Nat, length : Nat,
             opened : [version : Version, size : 0..MaxSize], sent : Nat]
  BY <1>1 DEF ServingInv, Views
<1>3. view'[v] = x
  BY <1>1 DEF Turns, ServingInv
<1>4. Promised(v)
  BY DEF ServingInv
<1>5. x \in [at : {"sending", "sent"}, version : Version, start : Nat, length : Nat,
             opened : [version : Version, size : 0..MaxSize], sent : Nat]
  BY <1>1, <1>2
<1>6. x \in Views
  BY <1>5 DEF Views
<1>7. Promised(v)'
  BY <1>1, <1>2, <1>3, <1>4 DEF Promised
<1>8. QED
  BY <1>1, <1>6, <1>7, TurnKeeps DEF ServingInv, DiskInv

LEMMA ServingInvNext ==
  ASSUME ServingInv, [ServingNext]_servingVars
  PROVE  ServingInv'
<1>1. ASSUME NEW v \in Viewer, Close(v) PROVE ServingInv'
  BY <1>1, TurnKeeps DEF Close, ServingInv, DiskInv, Turns, Promised, NoView, Views
<1>2. ASSUME NEW v \in Viewer, NEW f \in Files, Thumbnail(v, f) PROVE ServingInv'
  <2> DEFINE x == IF thumbs[f[2]] = None
                  THEN [at |-> "making", path |-> f[2], of |-> <<f[1], onDisk[f].version>>]
                  ELSE NoView
  <2>1. Turns(v, x) /\ asks' \in 0..MaxAsks /\ UNCHANGED <<onDisk, thumbs, replaced>>
    BY <1>2, ServingAssumption DEF Thumbnail, ServingInv, DiskInv
  <2>2. onDisk[f].version \in Version
    BY <1>2, ServingAssumption DEF Thumbnail, ServingInv, DiskInv, Version
  <2>3. x \in Views /\ x.at \in {"making", "idle"}
    BY <2>2 DEF Views, NoView, Files
  <2>4. view'[v] = x
    BY <2>1 DEF Turns, ServingInv
  <2>5. Promised(v)'
    BY <2>3, <2>4 DEF Promised
  <2>6. QED
    BY <2>1, <2>3, <2>5, TurnKeeps DEF ServingInv
<1>3. ASSUME NEW v \in Viewer, StoreThumbnail(v) PROVE ServingInv'
  <2>1. view[v].path \in Clip /\ view[v].of \in Source \X Version
    BY <1>3 DEF StoreThumbnail, ServingInv, Views
  <2>2. thumbs' \in [Clip -> Source \X Version \cup {None}]
    BY <1>3, <2>1 DEF StoreThumbnail, ServingInv
  <2>3. QED
    BY <1>3, <2>2, TurnKeeps
       DEF StoreThumbnail, ServingInv, DiskInv, Turns, Promised, NoView, Views
<1>4. CASE UNCHANGED servingVars
  BY <1>4 DEF servingVars, ServingInv, DiskInv, Promised
<1>5. QED
  BY <1>1, <1>2, <1>3, <1>4, ReplaceKeeps, MeasureKeeps, OpenKeeps, SendKeeps
     DEF ServingNext, Files

LEMMA ServingTyped == ServingInv => ServingTypeOK
<1> SUFFICES ASSUME ServingInv PROVE ServingTypeOK
  OBVIOUS
<1>1. \A v \in Viewer : view[v].at \in {"idle", "answered", "sending", "sent", "making"}
  BY DEF ServingInv, Views
<1>2. QED
  BY <1>1, ServingAssumption DEF ServingInv, DiskInv, ServingTypeOK, Files, Version

LEMMA PromisesKept == ServingInv => SendsWhatItPromised
<1> SUFFICES ASSUME ServingInv, NEW v \in Viewer, view[v].at \in {"sending", "sent"}
             PROVE  /\ view[v].sent <= view[v].length
                    /\ view[v].at = "sent" /\ view[v].sent < view[v].length =>
                          /\ view[v].opened.version # view[v].version
                          /\ view[v].opened.size < view[v].start + view[v].length
  BY DEF SendsWhatItPromised
<1>1. view[v] \in [at : {"sending", "sent"}, version : Version, start : Nat, length : Nat,
                   opened : [version : Version, size : 0..MaxSize], sent : Nat]
  BY DEF ServingInv, Views
<1>2. Promised(v)
  BY DEF ServingInv
<1>3. QED
  BY <1>1, <1>2, ServingAssumption DEF Promised

-----------------------------------------------------------------------------
(* The training sets                                                       *)

\* What may be in the ground truth after some edits.
Entries(n) == {None} \cup [reviewed : BOOLEAN, edit : 1..n]
Truths(n)  == [Passage -> Entries(n)]

Chunks(d) == Passages[Manuscripts[d]]

\* The chunks of the first documents, one document after the other.
ReadUpTo == CHOOSE acc \in [0..Len(Manuscripts) -> Seq(Passage)] :
            Grouping!Appends(acc, [d \in DOMAIN Manuscripts |-> Chunks(d)], Len(Manuscripts))

\* A row that is said to be of a person has one edit.
TrainingRow(n) ==
    {r \in [chunk : Passage, source : {"human", "ensemble"}, mentions : Nat,
             propositions : Nat] :
        r.source = "human" => r.mentions = r.propositions /\ r.mentions \in 1..n}

\* Rows of the first k documents.
Told(rows, k, n) ==
    /\ rows \in Seq(TrainingRow(n)) /\ Len(rows) = Len(ReadUpTo[k])
    /\ \A i \in 1..Len(rows) : rows[i].chunk = ReadUpTo[k][i]

\* The run has the rows of the documents it has done, and has the others left.
JobInv ==
    /\ DOMAIN sft = {"at", "truth", "left", "mentions", "rows"}
    /\ sft.at \in {"idle", "mentions", "rows", "union"}
    /\ ~At("idle") =>
          /\ sft.truth \in Truths(edits)
          /\ \E k \in 0..Len(Manuscripts) :
                /\ sft.left = SubSeq(Manuscripts, k + 1, Len(Manuscripts))
                /\ Told(sft.rows, k, edits)
    /\ At("rows") => sft.left # <<>> /\ sft.mentions \in Nat
    /\ At("union") => sft.left = <<>> /\ corpus.domain = sft.rows

GoldInv ==
    /\ gold \in [ToSet(Manuscripts) -> [mentions : Nat, assertions : Nat]]
    /\ \A d \in ToSet(Manuscripts) : gold[d].mentions - gold[d].assertions \in 0..1
    /\ truth \in Truths(edits)

CorpusInv ==
    /\ DOMAIN corpus = {"domain", "all"}
    /\ corpus.domain = None \/ Told(corpus.domain, Len(Manuscripts), edits)
    /\ corpus.all = None \/ Told(corpus.all, Len(Manuscripts), edits)
    /\ cuts = 0 /\ ~At("union") => corpus.all = corpus.domain

PairsInv ==
    /\ bench = None \/ bench \in [Model -> {None} \cup [Passage -> F1 \cup {None}]]
    /\ pairs # None =>
          \A p \in pairs : /\ p.chunk \in Passage /\ {p.preferred, p.rejected} \subseteq Model
                           /\ p.delta > 0 /\ p.preferred # p.rejected

CountsInv ==
    /\ edits \in 0..MaxEdits /\ writes \in 0..MaxWrites
    /\ benches \in 0..MaxBenches /\ cuts \in 0..MaxCuts

TrainingInv == JobInv /\ GoldInv /\ CorpusInv /\ PairsInv /\ CountsInv

LEMMA ManuscriptsTyped ==
  /\ Manuscripts \in Seq(ToSet(Manuscripts))
  /\ Len(Manuscripts) \in Nat /\ DOMAIN Manuscripts = 1..Len(Manuscripts)
  /\ \A d \in 1..Len(Manuscripts) : Manuscripts[d] \in ToSet(Manuscripts)
  /\ \A d \in ToSet(Manuscripts) : Passages[d] \in Seq(Passage)
<1>1. Manuscripts \in Seq(ToSet(Manuscripts))
  BY TrainingAssumption
<1>2. ASSUME NEW d \in ToSet(Manuscripts) PROVE Passages[d] \in Seq(Passage)
  <2>1. Passages[d] \in Seq(ToSet(Passages[d]))
    BY TrainingAssumption
  <2>2. ToSet(Passages[d]) \subseteq Passage
    BY DEF Passage
  <2>3. QED
    BY <2>1, <2>2
<1>3. \A d \in DOMAIN Manuscripts : Manuscripts[d] \in ToSet(Manuscripts)
  BY DEF ToSet
<1>4. QED
  BY <1>1, <1>2, <1>3

LEMMA Exhausted ==
  ASSUME NEW S, NEW s \in Seq(S), NEW k \in 0..Len(s), SubSeq(s, k + 1, Len(s)) = <<>>
  PROVE  k = Len(s)
OBVIOUS

LEMMA NothingLeft ==
  ASSUME NEW k \in 0..Len(Manuscripts), SubSeq(Manuscripts, k + 1, Len(Manuscripts)) = <<>>
  PROVE  k = Len(Manuscripts)
<1>1. PICK s, S : s = Manuscripts /\ S = ToSet(Manuscripts)
  OBVIOUS
<1>2. s \in Seq(S) /\ k \in 0..Len(s) /\ SubSeq(s, k + 1, Len(s)) = <<>>
  BY <1>1, ManuscriptsTyped
<1>3. k = Len(s)
  BY <1>2, Exhausted
<1>4. QED
  BY <1>1, <1>3

LEMMA ReadSteps ==
  /\ ReadUpTo \in [0..Len(Manuscripts) -> Seq(Passage)]
  /\ ReadUpTo[0] = <<>>
  /\ \A k \in 1..Len(Manuscripts) : ReadUpTo[k] = ReadUpTo[k - 1] \o Chunks(k)
  /\ ReadUpTo[Len(Manuscripts)]
       = FlattenSeq([d \in DOMAIN Manuscripts |-> Passages[Manuscripts[d]]])
<1>0. PICK seqs : seqs = [d \in DOMAIN Manuscripts |-> Chunks(d)]
  OBVIOUS
<1>1. DOMAIN Manuscripts = 1..Len(Manuscripts) /\ Len(Manuscripts) \in Nat
  BY ManuscriptsTyped
<1>2. \A d \in DOMAIN Manuscripts : Chunks(d) \in Seq(Passage)
  BY ManuscriptsTyped DEF Chunks
<1>3. seqs \in Seq(Seq(Passage)) /\ Len(seqs) = Len(Manuscripts)
  BY <1>0, <1>1, <1>2
<1> DEFINE Is(acc) == Grouping!Appends(acc, seqs, Len(Manuscripts))
<1>4. \E acc \in [0..Len(Manuscripts) -> Seq(Passage)] : Is(acc)
  <2>1. \E acc \in [0..Len(seqs) -> Seq(Passage)] : Grouping!Appends(acc, seqs, Len(seqs))
    BY <1>3, Grouping!FlattenSteps
  <2>2. QED
    BY <1>3, <2>1
<1>5. ReadUpTo \in [0..Len(Manuscripts) -> Seq(Passage)] /\ Is(ReadUpTo)
  <2>1. ReadUpTo = CHOOSE acc \in [0..Len(Manuscripts) -> Seq(Passage)] : Is(acc)
    BY <1>0 DEF ReadUpTo
  <2>2. QED
    <3> HIDE DEF Is
    <3> QED
      BY <1>4, <2>1
<1>6. \A k \in 1..Len(Manuscripts) : seqs[k] = Chunks(k)
  BY <1>0, <1>1
<1>7. seqs = [d \in DOMAIN Manuscripts |-> Passages[Manuscripts[d]]]
  BY <1>0 DEF Chunks
<1>8. QED
  <2>1. /\ ReadUpTo[0] = <<>>
        /\ \A k \in 1..Len(Manuscripts) : ReadUpTo[k] = ReadUpTo[k - 1] \o seqs[k]
        /\ ReadUpTo[Len(Manuscripts)] = FlattenSeq(seqs)
    <3>1. Grouping!Appends(ReadUpTo, seqs, Len(Manuscripts))
      BY <1>5
    <3> QED
      BY <3>1 DEF Grouping!Appends, Grouping!FlattenSeq, FlattenSeq
  <2>2. QED
    <3> QED
      BY <1>5, <1>6, <1>7, <2>1

\* More edits take nothing from what is said of the earlier ones.
LEMMA MoreEdits ==
  ASSUME NEW n \in Nat
  PROVE  /\ Truths(n) \subseteq Truths(n + 1)
         /\ \A rows, k : Told(rows, k, n) => Told(rows, k, n + 1)
<1>1. 1..n \subseteq 1..(n + 1)
  OBVIOUS
<1>2. Entries(n) \subseteq Entries(n + 1)
  BY <1>1 DEF Entries
<1>3. TrainingRow(n) \subseteq TrainingRow(n + 1)
  BY <1>1 DEF TrainingRow
<1>4. ASSUME NEW rows, NEW k, Told(rows, k, n) PROVE Told(rows, k, n + 1)
  <2>1. rows \in Seq(TrainingRow(n + 1))
    BY <1>3, <1>4 DEF Told
  <2>2. QED
    BY <1>4, <2>1 DEF Told
<1>5. QED
  BY <1>2, <1>4 DEF Truths

\* What is where in two sequences, one after the other.
LEMMA Concatenated ==
  ASSUME NEW S, NEW a \in Seq(S), NEW b \in Seq(S)
  PROVE  /\ a \o b \in Seq(S) /\ Len(a \o b) = Len(a) + Len(b)
         /\ \A i \in 1..Len(a) : (a \o b)[i] = a[i]
         /\ \A i \in 1..Len(b) : (a \o b)[Len(a) + i] = b[i]
         /\ \A i \in 1..(Len(a) + Len(b)) :
               i \in 1..Len(a) \/ \E j \in 1..Len(b) : i = Len(a) + j
<1>1. /\ a \o b \in Seq(S) /\ Len(a \o b) = Len(a) + Len(b)
      /\ \A i \in 1..Len(a) : (a \o b)[i] = a[i]
      /\ \A i \in 1..Len(b) : (a \o b)[Len(a) + i] = b[i]
  OBVIOUS
<1>2. ASSUME NEW i \in 1..(Len(a) + Len(b)), i \notin 1..Len(a)
      PROVE  \E j \in 1..Len(b) : i = Len(a) + j
  <2>1. i - Len(a) \in 1..Len(b) /\ i = Len(a) + (i - Len(a))
    BY <1>2
  <2>2. QED
    BY <2>1
<1>3. QED
  BY <1>1, <1>2

LEMMA TrainingInvInit == TrainingInit => TrainingInv
<1> SUFFICES ASSUME TrainingInit PROVE TrainingInv
  OBVIOUS
<1> USE DEF TrainingInit
<1>1. JobInv
  BY DEF JobInv, At, NoJob
<1>2. GoldInv
  BY DEF GoldInv, NoFile, Truths, Entries
<1>3. CorpusInv /\ PairsInv
  BY DEF CorpusInv, PairsInv
<1>4. CountsInv
  BY TrainingAssumption DEF CountsInv
<1>5. QED
  BY <1>1, <1>2, <1>3, <1>4 DEF TrainingInv

LEMMA ReviewKeeps ==
  ASSUME TrainingInv, NEW c \in Passage, Review(c)
  PROVE  TrainingInv'
<1> USE DEF TrainingInv
<1>1. /\ edits \in Nat /\ edits' = edits + 1 /\ edits' \in 0..MaxEdits
      /\ UNCHANGED <<gold, sft, corpus, bench, pairs, writes, benches, cuts>>
  BY TrainingAssumption DEF Review, CountsInv
<1>2. GoldInv'
  <2>1. PICK r \in BOOLEAN : truth' = [truth EXCEPT ![c] = [reviewed |-> r, edit |-> edits']]
    BY DEF Review
  <2>2. truth \in Truths(edits')
    BY <1>1, MoreEdits DEF GoldInv
  <2>3. truth' \in Truths(edits')
    BY <1>1, <2>1, <2>2 DEF Truths, Entries
  <2>4. QED
    BY <1>1, <2>3 DEF GoldInv
<1>3. JobInv'
  BY <1>1, MoreEdits DEF JobInv, At
<1>4. CorpusInv'
  BY <1>1, MoreEdits DEF CorpusInv, At
<1>5. PairsInv' /\ CountsInv'
  BY <1>1 DEF PairsInv, CountsInv
<1>6. QED
  BY <1>2, <1>3, <1>4, <1>5

LEMMA StoreGoldKeeps ==
  ASSUME TrainingInv, NEW d \in ToSet(Manuscripts), StoreGold(d)
  PROVE  TrainingInv'
<1> USE DEF TrainingInv
<1>1. UNCHANGED <<truth, sft, corpus, bench, pairs, edits, benches, cuts>>
  BY DEF StoreGold
<1>2. GoldInv'
  <2>1. PICK g : g = gold[d]
    OBVIOUS
  <2>2. /\ g \in [mentions : Nat, assertions : Nat] /\ g.mentions - g.assertions \in 0..1
    BY <2>1 DEF GoldInv
  <2>3. CASE g.mentions = g.assertions
    <3>1. gold' = [gold EXCEPT ![d].mentions = g.mentions + 1]
      BY <2>1, <2>3 DEF StoreGold
    <3>2. /\ gold' \in [ToSet(Manuscripts) -> [mentions : Nat, assertions : Nat]]
          /\ gold'[d] = [mentions |-> g.mentions + 1, assertions |-> g.assertions]
          /\ \A e \in ToSet(Manuscripts) : e # d => gold'[e] = gold[e]
      BY <2>1, <2>2, <3>1 DEF GoldInv
    <3>3. QED
      BY <1>1, <2>2, <2>3, <3>2 DEF GoldInv
  <2>4. CASE g.mentions # g.assertions
    <3>1. gold' = [gold EXCEPT ![d].assertions = g.assertions + 1]
      BY <2>1, <2>4 DEF StoreGold
    <3>2. /\ gold' \in [ToSet(Manuscripts) -> [mentions : Nat, assertions : Nat]]
          /\ gold'[d] = [mentions |-> g.mentions, assertions |-> g.assertions + 1]
          /\ \A e \in ToSet(Manuscripts) : e # d => gold'[e] = gold[e]
      BY <2>1, <2>2, <3>1 DEF GoldInv
    <3>3. QED
      BY <1>1, <2>2, <2>4, <3>2 DEF GoldInv
  <2>5. QED
    BY <2>3, <2>4
<1>3. CountsInv'
  BY TrainingAssumption, SMTT(30) DEF StoreGold, CountsInv
<1>4. JobInv' /\ CorpusInv' /\ PairsInv'
  BY <1>1 DEF JobInv, CorpusInv, PairsInv, At
<1>5. QED
  BY <1>2, <1>3, <1>4

LEMMA LoadsKeep ==
  ASSUME TrainingInv, LoadTruth \/ LoadMentions
  PROVE  TrainingInv'
<1> USE DEF TrainingInv
<1>1. UNCHANGED <<gold, truth, corpus, bench, pairs, edits, writes, benches, cuts>>
  BY DEF LoadTruth, LoadMentions
<1>2. GoldInv' /\ PairsInv' /\ CountsInv'
  BY <1>1 DEF GoldInv, PairsInv, CountsInv
<1>3. CASE LoadTruth
  <2>1. /\ sft' = [at |-> "mentions", truth |-> truth, left |-> Manuscripts,
                   mentions |-> NoFile, rows |-> <<>>]
        /\ At("idle")
    BY <1>3 DEF LoadTruth, NoJob
  <2>2. Told(<<>>, 0, edits)
    BY ReadSteps DEF Told
  <2>3. Manuscripts = SubSeq(Manuscripts, 0 + 1, Len(Manuscripts)) /\ 0 \in 0..Len(Manuscripts)
    BY ManuscriptsTyped
  <2>4. JobInv'
    BY <1>1, <2>1, <2>2, <2>3 DEF JobInv, GoldInv, At
  <2>5. CorpusInv'
    BY <1>1, <2>1 DEF CorpusInv, At
  <2>6. QED
    BY <1>2, <2>4, <2>5
<1>4. CASE LoadMentions
  <2>1. Head(sft.left) \in ToSet(Manuscripts)
    <3>1. PICK k \in 0..Len(Manuscripts) : sft.left = SubSeq(Manuscripts, k + 1, Len(Manuscripts))
      BY <1>4 DEF LoadMentions, JobInv, At
    <3>2. k + 1 \in 1..Len(Manuscripts) /\ Head(sft.left) = Manuscripts[k + 1]
      BY <1>4, <3>1, ManuscriptsTyped DEF LoadMentions
    <3>3. QED
      BY <3>2, ManuscriptsTyped
  <2>2. /\ sft' = [sft EXCEPT !.at = "rows", !.mentions = gold[Head(sft.left)].mentions]
        /\ At("mentions") /\ sft.left # <<>>
    BY <1>4 DEF LoadMentions
  <2>3. gold[Head(sft.left)].mentions \in Nat
    BY <2>1 DEF GoldInv
  <2>fields. /\ sft'.at = "rows" /\ sft'.mentions = gold[Head(sft.left)].mentions
             /\ sft'.truth = sft.truth /\ sft'.left = sft.left /\ sft'.rows = sft.rows
             /\ DOMAIN sft' = DOMAIN sft
    BY <2>2 DEF JobInv
  <2>4. QED
    BY <1>1, <1>2, <2>2, <2>3, <2>fields DEF JobInv, CorpusInv, At
<1>5. QED
  BY <1>3, <1>4

LEMMA AddRowsKeeps ==
  ASSUME TrainingInv, AddRows
  PROVE  TrainingInv'
<1> USE DEF TrainingInv
<1>1. /\ At("rows") /\ sft.left # <<>> /\ sft.mentions \in Nat /\ sft.truth \in Truths(edits)
      /\ UNCHANGED <<gold, truth, corpus, bench, pairs, edits, writes, benches, cuts>>
  BY DEF AddRows, JobInv, At
<1>2. PICK k \in 0..Len(Manuscripts) : /\ sft.left = SubSeq(Manuscripts, k + 1, Len(Manuscripts))
                                       /\ Told(sft.rows, k, edits)
  BY <1>1 DEF JobInv, At
<1>3. PICK d : d = Head(sft.left)
  OBVIOUS
<1>4. /\ k + 1 \in 1..Len(Manuscripts) /\ d = Manuscripts[k + 1] /\ d \in ToSet(Manuscripts)
      /\ Tail(sft.left) = SubSeq(Manuscripts, (k + 1) + 1, Len(Manuscripts))
      /\ k + 1 \in 0..Len(Manuscripts)
  <2>1. k + 1 \in 1..Len(Manuscripts)
    BY <1>1, <1>2, ManuscriptsTyped
  <2>2. Head(sft.left) = Manuscripts[k + 1]
    BY <1>2, <2>1, ManuscriptsTyped
  <2>3. Tail(sft.left) = SubSeq(Manuscripts, (k + 1) + 1, Len(Manuscripts))
    BY <1>2, <2>1, ManuscriptsTyped
  <2>4. QED
    BY <1>3, <2>1, <2>2, <2>3, ManuscriptsTyped
<1>5. PICK g : g = gold[d].assertions
  OBVIOUS
<1>6. g \in Nat
  BY <1>4, <1>5 DEF GoldInv
<1>7. PICK new : new = [j \in DOMAIN Passages[d] |-> Row(Passages[d][j], sft.mentions, g)]
  OBVIOUS
<1>8. /\ sft'.at = "mentions" /\ sft'.left = Tail(sft.left) /\ sft'.rows = sft.rows \o new
      /\ sft'.truth = sft.truth /\ DOMAIN sft' = DOMAIN sft
  BY <1>3, <1>5, <1>7 DEF AddRows, JobInv
<1>9. Told(sft.rows \o new, k + 1, edits)
  <2>1. Passages[d] \in Seq(Passage) /\ ReadUpTo[k + 1] = ReadUpTo[k] \o Passages[d]
    <3>1. (k + 1) - 1 = k
      OBVIOUS
    <3>2. ReadUpTo[k + 1] = ReadUpTo[(k + 1) - 1] \o Chunks(k + 1)
      BY <1>4, ReadSteps
    <3>3. QED
      BY <1>4, <3>1, <3>2, ManuscriptsTyped DEF Chunks
  <2>2. ASSUME NEW c \in Passage
        PROVE  /\ Row(c, sft.mentions, g) \in TrainingRow(edits)
               /\ Row(c, sft.mentions, g).chunk = c
    <3>1. sft.truth[c] = None \/ sft.truth[c] \in [reviewed : BOOLEAN, edit : 1..edits]
      BY <1>1 DEF Truths, Entries
    <3>2. edits \in Nat
      BY DEF CountsInv
    <3>3. QED
      BY <1>1, <1>6, <3>1, <3>2 DEF Row, Accepted, TrainingRow
  <2>3. /\ DOMAIN new = 1..Len(Passages[d]) /\ Len(Passages[d]) \in Nat
        /\ \A j \in 1..Len(Passages[d]) :
              new[j] = Row(Passages[d][j], sft.mentions, g) /\ Passages[d][j] \in Passage
    BY <1>7, <2>1
  <2>4. new \in Seq(TrainingRow(edits)) /\ Len(new) = Len(Passages[d])
    <3>1. new = [j \in 1..Len(Passages[d]) |-> new[j]]
      BY <1>7, <2>3
    <3>2. \A j \in 1..Len(Passages[d]) : new[j] \in TrainingRow(edits)
      BY <2>2, <2>3
    <3>3. QED
      BY <2>3, <3>1, <3>2
  <2>5. \A j \in 1..Len(new) : new[j].chunk = Passages[d][j]
    BY <2>2, <2>3, <2>4
  <2>6. PICK rows, read : rows = sft.rows /\ read = ReadUpTo[k]
    OBVIOUS
  <2>7. /\ rows \in Seq(TrainingRow(edits)) /\ read \in Seq(Passage) /\ Len(rows) = Len(read)
        /\ \A i \in 1..Len(rows) : rows[i].chunk = read[i]
    BY <1>2, <2>6, ReadSteps DEF Told
  <2>8. /\ rows \o new \in Seq(TrainingRow(edits))
        /\ Len(rows \o new) = Len(read \o Passages[d])
        /\ \A i \in 1..Len(rows \o new) : (rows \o new)[i].chunk = (read \o Passages[d])[i]
    <3>1. PICK T, more : T = TrainingRow(edits) /\ more = Passages[d]
      OBVIOUS
    <3>2. /\ rows \in Seq(T) /\ new \in Seq(T) /\ read \in Seq(Passage) /\ more \in Seq(Passage)
          /\ Len(rows) = Len(read) /\ \A i \in 1..Len(rows) : rows[i].chunk = read[i]
          /\ Len(new) = Len(more) /\ \A i \in 1..Len(new) : new[i].chunk = more[i]
      BY <2>1, <2>4, <2>5, <2>7, <3>1
    <3>3. /\ rows \o new \in Seq(T) /\ Len(rows \o new) = Len(read \o more)
          /\ \A i \in 1..Len(rows \o new) : (rows \o new)[i].chunk = (read \o more)[i]
      <4>1. /\ rows \o new \in Seq(T) /\ Len(rows \o new) = Len(rows) + Len(new)
            /\ \A i \in 1..Len(rows) : (rows \o new)[i] = rows[i]
            /\ \A i \in 1..Len(new) : (rows \o new)[Len(rows) + i] = new[i]
            /\ \A i \in 1..(Len(rows) + Len(new)) :
                  i \in 1..Len(rows) \/ \E j \in 1..Len(new) : i = Len(rows) + j
        <5>1. rows \in Seq(T) /\ new \in Seq(T)
          BY <3>2
        <5>2. QED
          BY <5>1, Concatenated
      <4>2. /\ Len(read \o more) = Len(read) + Len(more)
            /\ \A i \in 1..Len(read) : (read \o more)[i] = read[i]
            /\ \A i \in 1..Len(more) : (read \o more)[Len(read) + i] = more[i]
        <5>1. read \in Seq(Passage) /\ more \in Seq(Passage)
          BY <3>2
        <5>2. QED
          BY <5>1, Concatenated
      <4>3. ASSUME NEW i \in 1..Len(rows \o new)
            PROVE  (rows \o new)[i].chunk = (read \o more)[i]
        <5>1. CASE i \in 1..Len(rows)
          BY <3>2, <4>1, <4>2, <5>1
        <5>2. CASE i \notin 1..Len(rows)
          <6>1. PICK j \in 1..Len(new) : i = Len(rows) + j
            BY <4>1, <5>2
          <6>2. (rows \o new)[i] = new[j] /\ (read \o more)[i] = more[j]
            BY <3>2, <4>1, <4>2, <6>1
          <6>3. QED
            BY <3>2, <6>2
        <5>3. QED
          BY <5>1, <5>2
      <4>4. QED
        BY <3>2, <4>1, <4>2, <4>3
    <3>4. QED
      BY <3>1, <3>3
  <2>9. QED
    BY <2>1, <2>6, <2>8 DEF Told
<1>10. JobInv'
  <2>1. /\ sft'.left = SubSeq(Manuscripts, (k + 1) + 1, Len(Manuscripts))
        /\ Told(sft'.rows, k + 1, edits') /\ sft'.truth \in Truths(edits')
    BY <1>1, <1>4, <1>8, <1>9
  <2>2. QED
    BY <1>4, <1>8, <2>1 DEF JobInv, At
<1>11. CorpusInv'
  BY <1>1, <1>8 DEF CorpusInv, At
<1>12. GoldInv' /\ PairsInv' /\ CountsInv'
  BY <1>1 DEF GoldInv, PairsInv, CountsInv
<1>13. QED
  BY <1>10, <1>11, <1>12

LEMMA PutsKeep ==
  ASSUME TrainingInv, PutDomain \/ PutUnion \/ SftFails
  PROVE  TrainingInv'
<1> USE DEF TrainingInv
<1>1. /\ UNCHANGED <<gold, truth, bench, pairs, edits, writes, benches>>
      /\ GoldInv' /\ PairsInv' /\ CountsInv'
  <2>1. UNCHANGED <<gold, truth, bench, pairs, edits, writes, benches>>
    BY DEF PutDomain, PutUnion, SftFails
  <2>2. GoldInv' /\ PairsInv'
    BY <2>1 DEF GoldInv, PairsInv
  <2>3. cuts' \in 0..MaxCuts
    BY TrainingAssumption DEF PutDomain, PutUnion, SftFails, CountsInv
  <2>4. QED
    BY <2>1, <2>2, <2>3 DEF CountsInv
<1>2. CASE PutDomain
  <2>1. /\ sft'.at = "union" /\ sft'.left = sft.left /\ sft'.rows = sft.rows
        /\ sft'.truth = sft.truth /\ DOMAIN sft' = DOMAIN sft
        /\ corpus'.domain = sft.rows /\ corpus'.all = corpus.all
        /\ DOMAIN corpus' = DOMAIN corpus /\ At("mentions") /\ sft.left = <<>>
    BY <1>2 DEF PutDomain, JobInv, CorpusInv
  <2>2. Told(sft.rows, Len(Manuscripts), edits)
    <3>1. PICK k \in 0..Len(Manuscripts) :
              /\ sft.left = SubSeq(Manuscripts, k + 1, Len(Manuscripts))
              /\ Told(sft.rows, k, edits)
      BY <2>1 DEF JobInv, At
    <3>2. k = Len(Manuscripts)
      BY <2>1, <3>1, NothingLeft
    <3>3. QED
      BY <3>1, <3>2
  <2>3. QED
    BY <1>1, <2>1, <2>2 DEF JobInv, CorpusInv, At
<1>3. CASE PutUnion
  <2>1. /\ sft' = NoJob /\ At("union") /\ cuts' = cuts
        /\ corpus'.all = sft.rows /\ corpus'.domain = corpus.domain
        /\ DOMAIN corpus' = DOMAIN corpus
    BY <1>3 DEF PutUnion, CorpusInv
  <2>2. corpus.domain = sft.rows /\ \E k : Told(sft.rows, k, edits)
    BY <2>1 DEF JobInv, At
  <2>3. Told(sft.rows, Len(Manuscripts), edits)
    <3>1. PICK k \in 0..Len(Manuscripts) :
              /\ sft.left = SubSeq(Manuscripts, k + 1, Len(Manuscripts))
              /\ Told(sft.rows, k, edits)
      BY <2>1 DEF JobInv, At
    <3>2. sft.left = <<>>
      BY <2>1 DEF JobInv
    <3>3. k = Len(Manuscripts)
      BY <3>1, <3>2, NothingLeft
    <3>4. QED
      BY <3>1, <3>3
  <2>4. CorpusInv'
    BY <1>1, <2>1, <2>2, <2>3 DEF CorpusInv
  <2>5. JobInv'
    BY <2>1 DEF JobInv, At, NoJob
  <2>6. QED
    BY <1>1, <2>4, <2>5
<1>4. CASE SftFails
  <2>1. sft' = NoJob /\ cuts' = cuts + 1 /\ cuts \in Nat /\ UNCHANGED corpus
    BY <1>4, TrainingAssumption DEF SftFails, CountsInv
  <2>2. JobInv'
    BY <2>1 DEF JobInv, At, NoJob
  <2>3. CorpusInv'
    BY <1>1, <2>1 DEF CorpusInv
  <2>4. QED
    BY <1>1, <2>2, <2>3
<1>5. QED
  BY <1>2, <1>3, <1>4

LEMMA BenchKeeps ==
  ASSUME TrainingInv, BenchRuns \/ MakePairs
  PROVE  TrainingInv'
<1> USE DEF TrainingInv
<1>1. UNCHANGED <<gold, truth, sft, corpus, edits, writes, cuts>>
  BY DEF BenchRuns, MakePairs
<1>2. JobInv' /\ GoldInv' /\ CorpusInv'
  BY <1>1 DEF JobInv, GoldInv, CorpusInv, At
<1>3. CountsInv'
  BY TrainingAssumption DEF BenchRuns, MakePairs, CountsInv
<1>4. CASE BenchRuns
  <2>1. PairsInv'
    BY <1>4 DEF BenchRuns, PairsInv
  <2>2. QED
    BY <1>2, <1>3, <2>1
<1>5. CASE MakePairs
  <2>1. ASSUME NEW c \in Passage, Tells(c)
        PROVE  /\ {Models[Preferred(c)], Models[Rejected(c)]} \subseteq Model
               /\ ScoreOf(Preferred(c), c) - ScoreOf(Rejected(c), c) > 0
               /\ Models[Preferred(c)] # Models[Rejected(c)]
    <3>1. \A k \in Scored : Models[k] \in Model /\ ScoreOf(k, c) \in Int
      <4>1. ASSUME NEW k \in Scored PROVE Models[k] \in Model /\ ScoreOf(k, c) \in Int
        <5>1. k \in DOMAIN Models /\ bench # None /\ bench[Models[k]] # None
          BY DEF Scored
        <5>2. Models[k] \in Model
          BY <5>1 DEF Model, ToSet
        <5>3. bench[Models[k]] \in [Passage -> F1 \cup {None}]
          BY <5>1, <5>2 DEF PairsInv
        <5>4. bench[Models[k]][c] \in F1 \cup {None}
          BY <5>3
        <5>5. ScoreOf(k, c) \in F1 \cup {0}
          BY <5>4 DEF ScoreOf
        <5>6. F1 \cup {0} \subseteq Int
          BY TrainingAssumption
        <5>7. QED
          BY <5>2, <5>5, <5>6
      <4>2. QED
        BY <4>1
    <3>2. Scored # {} /\ Scored \in SUBSET (1..Len(Models)) /\ Len(Models) \in Nat
      <4>1. Models \in Seq(ToSet(Models))
        BY TrainingAssumption
      <4>2. Scored # {}
        <5>1. Cardinality(Scored) >= 2
          BY <2>1 DEF Tells
        <5>2. QED
          BY <5>1, FS_EmptySet
      <4>3. QED
        BY <4>1, <4>2 DEF Scored
    <3>3. PICK f : f = [k \in Scored |-> ScoreOf(k, c)]
      OBVIOUS
    <3>4. (\E k \in Scored : FirstBest(f, Scored, k)) /\ (\E k \in Scored : LastWorst(f, Scored, k))
      <4>1. \A k \in Scored : f[k] \in Int
        BY <3>1, <3>3
      <4>2. PICK D : D = Scored
        OBVIOUS
      <4>3. (\E k \in D : FirstBest(f, D, k)) /\ (\E k \in D : LastWorst(f, D, k))
        BY <3>2, <4>1, <4>2, SomeIsBest
      <4>4. QED
        BY <4>2, <4>3
    <3>5. /\ Preferred(c) \in Scored
          /\ \A j \in Scored : ScoreOf(j, c) <= ScoreOf(Preferred(c), c)
      BY <3>3, <3>4 DEF Preferred, FirstBest
    <3>6. Rejected(c) \in Scored
      BY <3>3, <3>4 DEF Rejected, LastWorst
    <3>7. ScoreOf(Preferred(c), c) # ScoreOf(Rejected(c), c)
      BY <2>1 DEF Tells
    <3>8. PICK a, b : a = Preferred(c) /\ b = Rejected(c)
      OBVIOUS
    <3>9. a \in Scored /\ b \in Scored /\ ScoreOf(a, c) > ScoreOf(b, c)
      BY <3>1, <3>5, <3>6, <3>7, <3>8
    <3>10. Models[a] # Models[b]
      BY <3>9, <3>1 DEF ScoreOf
    <3>11. ScoreOf(a, c) - ScoreOf(b, c) > 0
      BY <3>1, <3>9
    <3>12. QED
      BY <3>1, <3>8, <3>9, <3>10, <3>11
  <2>2. PairsInv'
    BY <1>5, <2>1 DEF MakePairs, PairsInv
  <2>3. QED
    BY <1>2, <1>3, <2>2
<1>6. QED
  BY <1>4, <1>5

LEMMA TrainingInvNext ==
  ASSUME TrainingInv, [TrainingNext]_trainingVars
  PROVE  TrainingInv'
<1>1. CASE UNCHANGED trainingVars
  BY <1>1 DEF trainingVars, TrainingInv, JobInv, GoldInv, CorpusInv, PairsInv, CountsInv, At
<1>2. QED
  BY <1>1, ReviewKeeps, StoreGoldKeeps, LoadsKeep, AddRowsKeeps, PutsKeep, BenchKeeps
     DEF TrainingNext, SftNext, DpoNext, Learns

LEMMA TrainingTyped == TrainingInv => TrainingTypeOK
<1> SUFFICES ASSUME TrainingInv PROVE TrainingTypeOK
  OBVIOUS
<1>1. ASSUME NEW c \in Passage, truth[c] # None PROVE truth[c].edit \in 1..MaxEdits
  <2>1. truth[c].edit \in 1..edits /\ edits \in 0..MaxEdits
    BY <1>1 DEF TrainingInv, GoldInv, CountsInv, Truths, Entries
  <2>2. QED
    BY <2>1, TrainingAssumption
<1>2. QED
  BY <1>1 DEF TrainingInv, TrainingTypeOK, JobInv, GoldInv, PairsInv, CountsInv

LEMMA TrainingKept == TrainingInv => TrainingTold
<1> SUFFICES ASSUME TrainingInv PROVE TrainingTold
  OBVIOUS
<1>1. ASSUME NEW rows \in {corpus.domain, corpus.all} \ {None}
      PROVE  Told(rows, Len(Manuscripts), edits)
  BY DEF TrainingInv, CorpusInv
<1>2. ASSUME NEW rows \in {corpus.domain, corpus.all} \ {None}
      PROVE  /\ [k \in DOMAIN rows |-> rows[k].chunk] = ReadUpTo[Len(Manuscripts)]
             /\ \A k \in DOMAIN rows :
                   rows[k].source = "human" =>
                       rows[k].mentions = rows[k].propositions /\ rows[k].mentions \in 1..edits
  <2>1. /\ rows \in Seq(TrainingRow(edits)) /\ Len(rows) = Len(ReadUpTo[Len(Manuscripts)])
        /\ \A i \in 1..Len(rows) : rows[i].chunk = ReadUpTo[Len(Manuscripts)][i]
    BY <1>1 DEF Told
  <2>2. DOMAIN rows = 1..Len(rows) /\ \A k \in 1..Len(rows) : rows[k] \in TrainingRow(edits)
    BY <2>1
  <2>3. PICK read : read = ReadUpTo[Len(Manuscripts)]
    OBVIOUS
  <2>4. read \in Seq(Passage)
    BY <2>3, ReadSteps, ManuscriptsTyped
  <2>5. read = [i \in 1..Len(rows) |-> read[i]]
    BY <2>1, <2>3, <2>4
  <2>6. [k \in DOMAIN rows |-> rows[k].chunk] = read
    BY <2>1, <2>2, <2>3, <2>5
  <2>7. QED
    BY <2>2, <2>3, <2>6 DEF TrainingRow
<1>3. QED
  BY <1>2, ReadSteps DEF TrainingTold, TrainingInv, CorpusInv, PairsInv

-----------------------------------------------------------------------------
(* The speakers                                                            *)

Voice == [file : File, label : SpeakerLabel, centroid : Int, segments : Nat]

\* No voice of a sequence is of the same speaker of the same file as another.
Distinct(es) ==
    \A j, k \in 1..Len(es) : es[j].file = es[k].file /\ es[j].label = es[k].label => j = k

\* The first n voices by what they are members of profiles as.
Keys(es, n) == {<<es[v].file, es[v].label>> : v \in 1..n}

\* A profile of a materialization, of some voices, each of them once.
OneProfile(p, keys, now) ==
    /\ p \in SpeakerProfile /\ p.count = Len(p.members) /\ p.id[1] = now
    /\ ToSet(p.members) \subseteq keys
    /\ \A a, b \in 1..Len(p.members) : p.members[a] = p.members[b] => a = b

Apart(p, q) == ToSet(p.members) \cap ToSet(q.members) = {}

Grouped(ps, keys, now) ==
    /\ ps \in Seq(SpeakerProfile)
    /\ \A k \in 1..Len(ps) : OneProfile(ps[k], keys, now)
    /\ \A j, k \in 1..Len(ps) : j # k => Apart(ps[j], ps[k])

\* A tag of a profile stored now is of one that has a speaker of the candidate.
SpokenFor(f, tag, labels) ==
    \E i \in DOMAIN labels : \E p \in DOMAIN profiles :
        /\ profiles[p].id = tag
        /\ <<f, labels[i]>> \in ToSet(profiles[p].members)

VoicesInv ==
    /\ diarization \in [File -> Diarizations \cup {None}]
    /\ DOMAIN voices = File
    /\ \A f \in File : voices[f] # None =>
          /\ voices[f] \in Seq(Voice) /\ Distinct(voices[f])
          /\ \A k \in 1..Len(voices[f]) : voices[f][k].file = f

ProfilesInv ==
    /\ made \in 0..MaxMade /\ (profiles = None <=> made = 0)
    /\ profiles # None => Grouped(profiles, File \X SpeakerLabel, made)

TagsInv ==
    /\ DOMAIN tags = File
    /\ \A f \in File : tags[f] # None =>
          /\ DOMAIN tags[f] = DOMAIN SpokenBy[f]
          /\ \A c \in DOMAIN tags[f] :
                \/ tags[f][c] = None
                \/ /\ tags[f][c] \in Nat \X Int /\ tags[f][c][1] <= made
                   /\ tags[f][c][1] = made => SpokenFor(f, tags[f][c], SpokenBy[f][c])

SpeakersInv ==
    /\ VoicesInv /\ ProfilesInv /\ TagsInv
    /\ diarized \in 0..MaxDiarized /\ hidden \in 0..MaxHidden

LEMMA SpeakersInvInit == SpeakersInit => SpeakersInv
BY SpeakersAssumption DEF SpeakersInit, SpeakersInv, VoicesInv, ProfilesInv, TagsInv

-----------------------------------------------------------------------------
(* The voices of one file                                                  *)

LEMMA SegmentsTyped ==
  ASSUME NEW d \in Diarizations
  PROVE  /\ Len(d) \in Nat /\ DOMAIN d = 1..Len(d)
         /\ \A k \in 1..Len(d) : d[k].voice \in Int /\ d[k].speaker \in SpeakerLabel
<1>1. d \in Seq(ToSet(d))
  BY SpeakersAssumption
<1>2. \A k \in DOMAIN d : d[k].voice \in Int /\ d[k].speaker \in SpeakerLabel
  BY SpeakersAssumption DEF SpeakerLabel
<1>3. QED
  BY <1>1, <1>2

\* What the segments of a label add up to is an integer.
LEMMA TotalTyped ==
  ASSUME NEW d \in Diarizations, NEW l
  PROVE  Total(d, l) \in Int
<1>1. PICK n \in Nat : n = Len(d)
  BY SegmentsTyped
<1>2. Summing!FoldsTo(l, 0, d, n)
  BY <1>1, SegmentsTyped, Summing!FoldLeftSteps
<1>3. PICK acc : /\ acc[0] = 0
                 /\ \A k \in 1..n : acc[k] = Hearing(l, acc[k - 1], d[k])
                 /\ acc[n] = Summing!Iter(l, 0, d)[DOMAIN d]
  BY <1>2 DEF Summing!FoldsTo
<1> DEFINE S == {k \in Nat : k <= n => acc[k] \in Int}
<1>4. 0 \in S
  BY <1>3
<1>5. ASSUME NEW k \in Nat, k \in S PROVE k + 1 \in S
  <2> SUFFICES ASSUME k + 1 <= n PROVE acc[k + 1] \in Int
    OBVIOUS
  <2>1. acc[k] \in Int /\ k + 1 \in 1..n /\ (k + 1) - 1 = k
    BY <1>5
  <2>2. acc[k + 1] = Hearing(l, acc[k], d[k + 1])
    BY <1>3, <2>1
  <2>3. d[k + 1].voice \in Int
    BY <1>1, <2>1, SegmentsTyped
  <2>4. QED
    BY <2>1, <2>2, <2>3 DEF Hearing
<1>6. Nat \subseteq S
  <2> HIDE DEF S
  <2> QED
    BY <1>4, <1>5, Summing!NatSetInduction
<1>7. acc[n] \in Int
  BY <1>6
<1>8. Total(d, l) = Summing!Iter(l, 0, d)[DOMAIN d]
  BY DEF Total, FoldLeft, MapThenFoldSet, Max, Hearing, Summing!Iter, Summing!Folding, Summing!Latest
<1>9. QED
  BY <1>3, <1>7, <1>8

\* The labels are of speakers that can be told, and each is listed once.
LabelsOf(acc, d) ==
    /\ acc \in Seq(SpeakerLabel)
    /\ \A i, j \in 1..Len(acc) : acc[i] = acc[j] => i = j
    /\ \A i \in 1..Len(acc) : Vectors(d, acc[i]) # {}

LEMMA LabelsTyped ==
  ASSUME NEW d \in Diarizations
  PROVE  LabelsOf(Labels(d), d)
<1>1. PICK n \in Nat : n = Len(d)
  BY SegmentsTyped
<1>2. Labeling!FoldsTo(d, <<>>, d, n)
  BY <1>1, SegmentsTyped, Labeling!FoldLeftSteps
<1>3. PICK acc : /\ acc[0] = <<>>
                 /\ \A k \in 1..n : acc[k] = Listing(d, acc[k - 1], d[k])
                 /\ acc[n] = Labeling!Iter(d, <<>>, d)[DOMAIN d]
  BY <1>2 DEF Labeling!FoldsTo
<1> DEFINE S == {k \in Nat : k <= n => LabelsOf(acc[k], d)}
<1>4. 0 \in S
  <2>1. LabelsOf(<<>>, d)
    BY DEF LabelsOf
  <2>2. QED
    BY <1>3, <2>1
<1>5. ASSUME NEW k \in Nat, k \in S PROVE k + 1 \in S
  <2> SUFFICES ASSUME k + 1 <= n PROVE LabelsOf(acc[k + 1], d)
    OBVIOUS
  <2>1. LabelsOf(acc[k], d) /\ k + 1 \in 1..n /\ (k + 1) - 1 = k
    BY <1>5
  <2>2. acc[k + 1] = Listing(d, acc[k], d[k + 1])
    BY <1>3, <2>1
  <2>3. d[k + 1].speaker \in SpeakerLabel
    BY <1>1, <2>1, SegmentsTyped
  <2>4. PICK was, l : was = acc[k] /\ l = d[k + 1].speaker
    OBVIOUS
  <2>5. CASE acc[k + 1] = was
    BY <2>1, <2>4, <2>5
  <2>6. CASE l \notin ToSet(was) /\ Vectors(d, l) # {} /\ acc[k + 1] = Append(was, l)
    <3>1. /\ was \in Seq(SpeakerLabel) /\ \A i, j \in 1..Len(was) : was[i] = was[j] => i = j
          /\ \A i \in 1..Len(was) : Vectors(d, was[i]) # {}
      BY <2>1, <2>4 DEF LabelsOf
    <3>2. \A i \in 1..Len(was) : was[i] # l
      <4>1. DOMAIN was = 1..Len(was)
        BY <3>1
      <4>2. QED
        BY <2>6, <4>1 DEF ToSet
    <3>3. PICK next : next = Append(was, l)
      OBVIOUS
    <3>4. /\ next \in Seq(SpeakerLabel) /\ Len(next) = Len(was) + 1
          /\ \A i \in 1..Len(was) : next[i] = was[i]
          /\ next[Len(was) + 1] = l /\ Len(was) \in Nat
      BY <2>3, <2>4, <3>1, <3>3
    <3>5. \A i \in 1..Len(next) : i \in 1..Len(was) \/ i = Len(was) + 1
      BY <3>4
    <3>6. LabelsOf(next, d)
      BY <2>6, <3>1, <3>2, <3>4, <3>5 DEF LabelsOf
    <3>7. QED
      BY <2>6, <3>3, <3>6
  <2>7. QED
    BY <2>2, <2>4, <2>5, <2>6 DEF Listing
<1>6. Nat \subseteq S
  <2> HIDE DEF S
  <2> QED
    BY <1>4, <1>5, Summing!NatSetInduction
<1>7. LabelsOf(acc[n], d)
  BY <1>6
<1>8. Labels(d) = Labeling!Iter(d, <<>>, d)[DOMAIN d]
  BY DEF Labels, FoldLeft, MapThenFoldSet, Max, Listing, Labeling!Iter, Labeling!Folding,
         Labeling!Latest
<1>9. QED
  BY <1>3, <1>7, <1>8

LEMMA CentroidsTyped ==
  ASSUME NEW f \in File, diarization[f] \in Diarizations
  PROVE  /\ Centroids(f) \in Seq(Voice) /\ Distinct(Centroids(f))
         /\ \A k \in 1..Len(Centroids(f)) : Centroids(f)[k].file = f
<1>1. PICK d \in Diarizations : d = diarization[f]
  OBVIOUS
<1>2. PICK ls : ls = Labels(d)
  OBVIOUS
<1>3. /\ ls \in Seq(SpeakerLabel) /\ \A i, j \in 1..Len(ls) : ls[i] = ls[j] => i = j
      /\ \A i \in 1..Len(ls) : Vectors(d, ls[i]) # {}
  BY <1>2, LabelsTyped DEF LabelsOf
<1>4. \A l : IsFiniteSet(Vectors(d, l)) /\ IsFiniteSet(Valid(d, l))
  <2>1. IsFiniteSet(DOMAIN d)
    BY SegmentsTyped, FS_Interval
  <2>2. QED
    BY <2>1, FS_Subset DEF Vectors, Valid
<1>5. ASSUME NEW i \in 1..Len(ls) PROVE Mean(d, ls[i]) \in Int /\ Cardinality(Valid(d, ls[i])) \in Nat
  <2>1. PICK l : l = ls[i]
    OBVIOUS
  <2>2. Cardinality(Vectors(d, l)) \in Nat /\ Cardinality(Vectors(d, l)) # 0
    BY <1>3, <1>4, <2>1, FS_CardinalityType, FS_EmptySet
  <2>3. Cardinality(Valid(d, l)) \in Nat
    BY <1>4, FS_CardinalityType
  <2>4. PICK t \in Int : Mean(d, l) = t \div Cardinality(Vectors(d, l))
    BY TotalTyped DEF Mean
  <2>5. \A n \in Nat : n # 0 => t \div n \in Int
    OBVIOUS
  <2>6. QED
    BY <2>1, <2>2, <2>3, <2>4, <2>5
<1>6. Centroids(f) = [k \in 1..Len(ls) |->
            [file |-> f, label |-> ls[k], centroid |-> Mean(d, ls[k]),
             segments |-> Cardinality(Valid(d, ls[k]))]]
  BY <1>1, <1>2, <1>3 DEF Centroids
<1>7. PICK cs : cs = Centroids(f)
  OBVIOUS
<1>8. \A k \in 1..Len(ls) : cs[k] \in Voice /\ cs[k].file = f /\ cs[k].label = ls[k]
  BY <1>3, <1>5, <1>6, <1>7 DEF Voice
<1>9. cs \in Seq(Voice) /\ Len(cs) = Len(ls)
  <2>1. cs = [k \in 1..Len(ls) |-> cs[k]] /\ Len(ls) \in Nat
    BY <1>3, <1>6, <1>7
  <2>2. QED
    BY <1>8, <2>1
<1>10. QED
  BY <1>3, <1>7, <1>8, <1>9 DEF Distinct

-----------------------------------------------------------------------------
(* The profiles of all files                                               *)

VoicesOf(k) == IF voices[MediaFiles[k]] = None THEN <<>> ELSE voices[MediaFiles[k]]

\* Voices of the first k files.
VoicesUpTo(es, k) ==
    /\ es \in Seq(Voice) /\ Distinct(es)
    /\ \A v \in 1..Len(es) : \E i \in 1..k : es[v].file = MediaFiles[i]

LEMMA FilesInOrder ==
  /\ Len(MediaFiles) \in Nat /\ DOMAIN MediaFiles = 1..Len(MediaFiles)
  /\ \A k \in 1..Len(MediaFiles) : MediaFiles[k] \in File
  /\ \A j, k \in 1..Len(MediaFiles) : MediaFiles[j] = MediaFiles[k] => j = k
<1>1. MediaFiles \in Seq(File)
  BY SpeakersAssumption
<1>2. QED
  BY <1>1, SpeakersAssumption DEF File, ToSet

LEMMA MoreVoices ==
  ASSUME NEW k \in Nat, NEW es, NEW more \in Seq(Voice),
         k + 1 <= Len(MediaFiles), VoicesUpTo(es, k), Distinct(more), \A v \in 1..Len(more) : more[v].file = MediaFiles[k + 1]
  PROVE  VoicesUpTo(es \o more, k + 1)
<1>1. es \in Seq(Voice) /\ Distinct(es) /\ \A v \in 1..Len(es) : \E i \in 1..k : es[v].file = MediaFiles[i]
  BY DEF VoicesUpTo
<1>2. PICK both : both = es \o more
  OBVIOUS
<1>3. /\ both \in Seq(Voice) /\ Len(both) = Len(es) + Len(more)
      /\ \A i \in 1..Len(es) : both[i] = es[i]
      /\ \A i \in 1..Len(more) : both[Len(es) + i] = more[i]
      /\ \A i \in 1..(Len(es) + Len(more)) :
            i \in 1..Len(es) \/ \E j \in 1..Len(more) : i = Len(es) + j
  BY <1>1, <1>2, Concatenated
<1>4. \A v \in 1..Len(es) : es[v].file # MediaFiles[k + 1]
  <2>1. k + 1 \in 1..Len(MediaFiles) /\ \A i \in 1..k : i \in 1..Len(MediaFiles) /\ i # k + 1
    BY FilesInOrder
  <2>2. QED
    BY <1>1, <2>1, FilesInOrder
<1>5. \A v \in 1..Len(both) : \E i \in 1..(k + 1) : both[v].file = MediaFiles[i]
  <2>1. ASSUME NEW v \in 1..Len(es) PROVE \E i \in 1..(k + 1) : both[v].file = MediaFiles[i]
    <3>1. PICK i \in 1..k : es[v].file = MediaFiles[i]
      BY <1>1
    <3>2. i \in 1..(k + 1)
      OBVIOUS
    <3>3. QED
      BY <1>3, <3>1, <3>2
  <2>2. ASSUME NEW v \in 1..Len(more)
        PROVE  \E i \in 1..(k + 1) : both[Len(es) + v].file = MediaFiles[i]
    <3>1. k + 1 \in 1..(k + 1)
      OBVIOUS
    <3>2. QED
      BY <1>3, <3>1
  <2>3. ASSUME NEW v \in 1..Len(both), v \notin 1..Len(es)
        PROVE  \E i \in 1..(k + 1) : both[v].file = MediaFiles[i]
    <3>1. PICK j \in 1..Len(more) : v = Len(es) + j
      BY <1>3, <2>3
    <3>2. QED
      BY <2>2, <3>1
  <2>4. QED
    BY <2>1, <2>3
<1>6. ASSUME NEW i \in 1..Len(both), NEW j \in 1..Len(both), both[i].file = both[j].file,
             both[i].label = both[j].label
      PROVE  i = j
  <2>1. CASE i \in 1..Len(es) /\ j \in 1..Len(es)
    BY <1>1, <1>3, <1>6, <2>1 DEF Distinct
  <2>2. CASE i \notin 1..Len(es) /\ j \notin 1..Len(es)
    <3>1. PICK a \in 1..Len(more) : i = Len(es) + a
      BY <1>3, <2>2
    <3>2. PICK b \in 1..Len(more) : j = Len(es) + b
      BY <1>3, <2>2
    <3>3. both[i] = more[a] /\ both[j] = more[b]
      BY <1>3, <3>1, <3>2
    <3>4. a = b
      BY <1>6, <3>3 DEF Distinct
    <3>5. QED
      BY <3>1, <3>2, <3>4
  <2>3. CASE i \in 1..Len(es) /\ j \notin 1..Len(es)
    <3>1. PICK b \in 1..Len(more) : j = Len(es) + b
      BY <1>3, <2>3
    <3>2. both[i].file # MediaFiles[k + 1] /\ both[j].file = MediaFiles[k + 1]
      BY <1>3, <1>4, <2>3, <3>1
    <3>3. QED
      BY <1>6, <3>2
  <2>4. CASE i \notin 1..Len(es) /\ j \in 1..Len(es)
    <3>1. PICK a \in 1..Len(more) : i = Len(es) + a
      BY <1>3, <2>4
    <3>2. both[j].file # MediaFiles[k + 1] /\ both[i].file = MediaFiles[k + 1]
      BY <1>3, <1>4, <2>4, <3>1
    <3>3. QED
      BY <1>6, <3>2
  <2>5. QED
    BY <2>1, <2>2, <2>3, <2>4
<1>7. Distinct(both)
  BY <1>6 DEF Distinct
<1>8. QED
  BY <1>2, <1>3, <1>5, <1>7 DEF VoicesUpTo

LEMMA AllVoicesTyped ==
  ASSUME VoicesInv
  PROVE  AllVoices \in Seq(Voice) /\ Distinct(AllVoices)
<1>1. PICK n \in Nat : n = Len(MediaFiles)
  BY FilesInOrder
<1>2. ASSUME NEW k \in 1..n
      PROVE  /\ VoicesOf(k) \in Seq(Voice) /\ Distinct(VoicesOf(k))
             /\ \A v \in 1..Len(VoicesOf(k)) : VoicesOf(k)[v].file = MediaFiles[k]
  <2>1. MediaFiles[k] \in File
    BY <1>1, FilesInOrder
  <2>2. CASE voices[MediaFiles[k]] = None
    BY <2>2 DEF VoicesOf, Distinct
  <2>3. CASE voices[MediaFiles[k]] # None
    BY <2>1, <2>3 DEF VoicesOf, VoicesInv
  <2>4. QED
    BY <2>2, <2>3
<1>3. PICK seqs : seqs = [k \in 1..n |-> VoicesOf(k)]
  OBVIOUS
<1>4. seqs \in Seq(Seq(Voice)) /\ Len(seqs) = n /\ \A k \in 1..n : seqs[k] = VoicesOf(k)
  BY <1>2, <1>3
<1>5. AllVoices = FlattenSeq(seqs)
  BY <1>1, <1>3, FilesInOrder DEF AllVoices, VoicesOf
<1>6. PICK acc \in [0..n -> Seq(Voice)] : Grouping!Appends(acc, seqs, n)
  BY <1>4, Grouping!FlattenSteps
<1>7. /\ acc[0] = <<>>
      /\ \A k \in 1..n : acc[k] = acc[k - 1] \o seqs[k]
      /\ acc[n] = FlattenSeq(seqs)
  BY <1>6 DEF Grouping!Appends, Grouping!FlattenSeq, FlattenSeq
<1> DEFINE S == {k \in Nat : k <= n => VoicesUpTo(acc[k], k)}
<1>8. 0 \in S
  <2>1. VoicesUpTo(<<>>, 0)
    BY DEF VoicesUpTo, Distinct
  <2>2. QED
    BY <1>7, <2>1
<1>9. ASSUME NEW k \in Nat, k \in S PROVE k + 1 \in S
  <2> SUFFICES ASSUME k + 1 <= n PROVE VoicesUpTo(acc[k + 1], k + 1)
    OBVIOUS
  <2>1. VoicesUpTo(acc[k], k) /\ k + 1 \in 1..n /\ (k + 1) - 1 = k
    BY <1>9
  <2>2. acc[k + 1] = acc[k] \o VoicesOf(k + 1)
    BY <1>4, <1>7, <2>1
  <2>3. VoicesUpTo(acc[k] \o VoicesOf(k + 1), k + 1)
    BY <1>1, <1>2, <2>1, MoreVoices
  <2>4. QED
    BY <2>2, <2>3
<1>10. Nat \subseteq S
  <2> HIDE DEF S
  <2> QED
    BY <1>8, <1>9, Summing!NatSetInduction
<1>11. VoicesUpTo(acc[n], n)
  BY <1>10
<1>12. QED
  BY <1>5, <1>7, <1>11 DEF VoicesUpTo

\* A profile that a voice has joined, and the one that a voice begins.
LEMMA OneMore ==
  ASSUME NEW S, NEW ms \in Seq(S), NEW m \in S
  PROVE  /\ Append(ms, m) \in Seq(S) /\ Len(Append(ms, m)) = Len(ms) + 1
         /\ ToSet(Append(ms, m)) = ToSet(ms) \cup {m}
         /\ m \notin ToSet(ms) /\ (\A a, b \in 1..Len(ms) : ms[a] = ms[b] => a = b) =>
               \A a, b \in 1..Len(Append(ms, m)) : Append(ms, m)[a] = Append(ms, m)[b] => a = b
<1>1. PICK new : new = Append(ms, m)
  OBVIOUS
<1>2. /\ new \in Seq(S) /\ Len(new) = Len(ms) + 1 /\ Len(ms) \in Nat
      /\ \A a \in 1..Len(ms) : new[a] = ms[a]
      /\ new[Len(ms) + 1] = m
      /\ \A a \in 1..Len(new) : a \in 1..Len(ms) \/ a = Len(ms) + 1
      /\ DOMAIN ms = 1..Len(ms) /\ DOMAIN new = 1..Len(new) /\ Len(ms) + 1 \in 1..Len(new)
      /\ \A a \in 1..Len(ms) : a \in 1..Len(new)
  BY <1>1
<1>3. ToSet(new) = ToSet(ms) \cup {m}
  BY <1>2 DEF ToSet
<1>4. ASSUME m \notin ToSet(ms), \A a, b \in 1..Len(ms) : ms[a] = ms[b] => a = b,
             NEW a \in 1..Len(new), NEW b \in 1..Len(new), new[a] = new[b]
      PROVE  a = b
  <2>1. \A i \in 1..Len(ms) : ms[i] # m
    BY <1>2, <1>4 DEF ToSet
  <2>2. QED
    BY <1>2, <1>4, <2>1
<1>5. QED
  BY <1>1, <1>2, <1>3, <1>4

JoinsAs(p, e, q, m) == /\ e \in Voice /\ m = <<e.file, e.label>>
                       /\ q = Joined(p, e)

LEMMA JoinedAs ==
  ASSUME NEW keys, NEW now, NEW p, NEW q, NEW m, NEW e,
         JoinsAs(p, e, q, m), m \notin keys, OneProfile(p, keys, now)
  PROVE  /\ OneProfile(q, keys \cup {m}, now)
         /\ ToSet(q.members) = ToSet(p.members) \cup {m}
<1>1. e \in Voice /\ m = <<e.file, e.label>> /\ q = Joined(p, e)
  BY DEF JoinsAs
<1>2. e.centroid \in Int /\ m \in File \X SpeakerLabel
  BY <1>1 DEF Voice
<1>3. /\ p.id \in Nat \X Int /\ p.sum \in Int /\ p.count \in Nat
      /\ p.members \in Seq(File \X SpeakerLabel)
      /\ p = [id |-> p.id, sum |-> p.sum, count |-> p.count, members |-> p.members]
  BY DEF OneProfile, SpeakerProfile
<1>4. PICK ms : ms = Append(p.members, m)
  OBVIOUS
<1>5. /\ ms \in Seq(File \X SpeakerLabel) /\ Len(ms) = Len(p.members) + 1
      /\ ToSet(ms) = ToSet(p.members) \cup {m}
      /\ \A a, b \in 1..Len(ms) : ms[a] = ms[b] => a = b
  <2>1. m \notin ToSet(p.members)
    BY <1>1 DEF OneProfile
  <2>2. \A a, b \in 1..Len(p.members) : p.members[a] = p.members[b] => a = b
    BY DEF OneProfile
  <2>3. PICK S, old : S = File \X SpeakerLabel /\ old = p.members
    OBVIOUS
  <2>4. /\ old \in Seq(S) /\ m \in S /\ m \notin ToSet(old)
        /\ \A a, b \in 1..Len(old) : old[a] = old[b] => a = b
    BY <1>2, <1>3, <2>1, <2>2, <2>3
  <2>5. /\ Append(old, m) \in Seq(S) /\ Len(Append(old, m)) = Len(old) + 1
        /\ ToSet(Append(old, m)) = ToSet(old) \cup {m}
    BY <2>4, OneMore
  <2>6. \A a, b \in 1..Len(Append(old, m)) : Append(old, m)[a] = Append(old, m)[b] => a = b
    BY <2>4, OneMore
  <2>7. QED
    BY <1>4, <2>3, <2>5, <2>6
<1>7. q = [id |-> p.id, sum |-> p.sum + e.centroid, count |-> p.count + 1, members |-> ms]
  BY <1>1, <1>3, <1>4 DEF Joined
<1>8. /\ q \in SpeakerProfile /\ q.count = p.count + 1 /\ q.members = ms /\ q.id = p.id
  BY <1>2, <1>3, <1>5, <1>7 DEF SpeakerProfile
<1>9. OneProfile(q, keys \cup {m}, now)
  <2>1. p.count = Len(p.members) /\ p.id[1] = now /\ ToSet(p.members) \subseteq keys
    BY DEF OneProfile
  <2>2. QED
    BY <1>5, <1>8, <2>1 DEF OneProfile
<1>10. QED
  BY <1>5, <1>8, <1>9

LEMMA NewTyped ==
  ASSUME NEW keys, NEW now \in Nat, NEW e \in Voice
  PROVE  /\ OneProfile(NewProfile(e, now), keys \cup {<<e.file, e.label>>}, now)
         /\ ToSet(NewProfile(e, now).members) = {<<e.file, e.label>>}
<1>1. PICK m : m = <<e.file, e.label>>
  OBVIOUS
<1>2. e.centroid \in Int /\ m \in File \X SpeakerLabel
  BY <1>1 DEF Voice
<1>3. PICK q : q = NewProfile(e, now)
  OBVIOUS
<1>4. q = [id |-> <<now, e.centroid>>, sum |-> e.centroid, count |-> 1, members |-> <<m>>]
  BY <1>1, <1>3 DEF NewProfile
<1>5. /\ q \in SpeakerProfile /\ q.count = 1 /\ q.members = <<m>> /\ q.id[1] = now
      /\ Len(q.members) = 1 /\ q.members[1] = m
  BY <1>2, <1>4 DEF SpeakerProfile
<1>6. ToSet(q.members) = {m}
  BY <1>5 DEF ToSet
<1>7. QED
  BY <1>1, <1>3, <1>5, <1>6 DEF OneProfile

\* A voice is put into one profile, and nowhere else.
LEMMA AddingKeeps ==
  ASSUME NEW keys, NEW now \in Nat, NEW e \in Voice, NEW ps, <<e.file, e.label>> \notin keys,
         Grouped(ps, keys, now)
  PROVE  Grouped(Adding(now, ps, e), keys \cup {<<e.file, e.label>>}, now)
<1>1. PICK m, more : m = <<e.file, e.label>> /\ more = keys \cup {m}
  OBVIOUS
<1>2. /\ ps \in Seq(SpeakerProfile) /\ Len(ps) \in Nat
      /\ \A k \in 1..Len(ps) : OneProfile(ps[k], keys, now)
      /\ \A j, k \in 1..Len(ps) : j # k => Apart(ps[j], ps[k])
  BY DEF Grouped
<1>3. \A k \in 1..Len(ps) : OneProfile(ps[k], more, now) /\ m \notin ToSet(ps[k].members)
  BY <1>1, <1>2 DEF OneProfile
<1>4. PICK rs : rs = Adding(now, ps, e)
  OBVIOUS
<1>5. CASE rs = ps
  BY <1>1, <1>2, <1>3, <1>4, <1>5 DEF Grouped
<1>6. CASE \E k \in 1..Len(ps) : rs = [ps EXCEPT ![k] = Joined(ps[k], e)]
  <2>1. PICK k \in 1..Len(ps) : rs = [ps EXCEPT ![k] = Joined(ps[k], e)]
    BY <1>6
  <2>2. PICK q : q = Joined(ps[k], e)
    OBVIOUS
  <2>3. OneProfile(q, more, now) /\ ToSet(q.members) = ToSet(ps[k].members) \cup {m}
    <3>1. OneProfile(ps[k], keys, now) /\ m \notin keys
      BY <1>1, <1>2, <2>1
    <3>2. PICK p : p = ps[k]
      OBVIOUS
    <3>3. OneProfile(p, keys, now) /\ JoinsAs(p, e, q, m) /\ m \notin keys
      BY <1>1, <2>2, <3>1, <3>2 DEF JoinsAs
    <3>4. /\ OneProfile(q, keys \cup {m}, now)
          /\ ToSet(q.members) = ToSet(p.members) \cup {m}
      BY <3>3, JoinedAs, SMTT(30)
    <3>5. QED
      BY <1>1, <3>2, <3>4
  <2>4. q \in SpeakerProfile
    BY <2>3 DEF OneProfile
  <2>5. /\ rs \in Seq(SpeakerProfile) /\ Len(rs) = Len(ps) /\ rs[k] = q
        /\ \A j \in 1..Len(ps) : j # k => rs[j] = ps[j]
    BY <1>2, <2>1, <2>2, <2>4
  <2>6. \A j \in 1..Len(ps) : j # k => Apart(q, ps[j]) /\ Apart(ps[j], q)
    BY <1>2, <1>3, <2>3 DEF Apart
  <2>7. \A j \in 1..Len(rs) : OneProfile(rs[j], more, now)
    BY <1>3, <2>3, <2>5
  <2>8. \A i, j \in 1..Len(rs) : i # j => Apart(rs[i], rs[j])
    BY <1>2, <2>5, <2>6
  <2>9. QED
    BY <1>1, <1>4, <2>5, <2>7, <2>8 DEF Grouped
<1>7. CASE rs = Append(ps, NewProfile(e, now))
  <2>1. PICK q : q = NewProfile(e, now)
    OBVIOUS
  <2>2. OneProfile(q, more, now) /\ ToSet(q.members) = {m}
    BY <1>1, <2>1, NewTyped
  <2>3. q \in SpeakerProfile
    BY <2>2 DEF OneProfile
  <2>4. /\ rs \in Seq(SpeakerProfile) /\ Len(rs) = Len(ps) + 1 /\ rs[Len(ps) + 1] = q
        /\ \A j \in 1..Len(ps) : rs[j] = ps[j]
        /\ \A j \in 1..Len(rs) : j \in 1..Len(ps) \/ j = Len(ps) + 1
    BY <1>2, <1>7, <2>1, <2>3
  <2>5. \A j \in 1..Len(ps) : Apart(q, ps[j]) /\ Apart(ps[j], q)
    BY <1>3, <2>2 DEF Apart
  <2>6. \A j \in 1..Len(rs) : OneProfile(rs[j], more, now)
    BY <1>3, <2>2, <2>4
  <2>7. \A i, j \in 1..Len(rs) : i # j => Apart(rs[i], rs[j])
    BY <1>2, <2>4, <2>5
  <2>8. QED
    BY <1>1, <1>4, <2>4, <2>6, <2>7 DEF Grouped
<1>8. rs = ps \/ (\E k \in 1..Len(ps) : rs = [ps EXCEPT ![k] = Joined(ps[k], e)])
         \/ rs = Append(ps, NewProfile(e, now))
  <2>1. PICK k : k = Nearest(e, ps)
    OBVIOUS
  <2>2. rs = [ps EXCEPT ![k] = Joined(ps[k], e)] \/ rs = Append(ps, NewProfile(e, now))
    BY <1>4, <2>1 DEF Adding
  <2>3. CASE k \in 1..Len(ps)
    BY <2>2, <2>3
  <2>4. CASE k \notin 1..Len(ps)
    <3>1. [ps EXCEPT ![k] = Joined(ps[k], e)] = ps
      BY <1>2, <2>4
    <3>2. QED
      BY <2>2, <3>1
  <2>5. QED
    BY <2>3, <2>4
<1>9. QED
  BY <1>5, <1>6, <1>7, <1>8

\* The voices before one are not of its speaker.
LEMMA OneMoreKey ==
  ASSUME NEW es \in Seq(Voice), NEW n \in Nat, Distinct(es), n + 1 <= Len(es)
  PROVE  /\ <<es[n + 1].file, es[n + 1].label>> \notin Keys(es, n)
         /\ Keys(es, n + 1) = Keys(es, n) \cup {<<es[n + 1].file, es[n + 1].label>>}
<1>1. n + 1 \in 1..Len(es) /\ \A v \in 1..n : v \in 1..Len(es) /\ v # n + 1
  OBVIOUS
<1>2. \A v \in 1..n : <<es[v].file, es[v].label>> # <<es[n + 1].file, es[n + 1].label>>
  <2>1. ASSUME NEW v \in 1..n, es[v].file = es[n + 1].file, es[v].label = es[n + 1].label
        PROVE  FALSE
    BY <1>1, <2>1 DEF Distinct
  <2>2. QED
    BY <2>1
<1>3. 1..(n + 1) = (1..n) \cup {n + 1}
  OBVIOUS
<1>4. QED
  BY <1>2, <1>3 DEF Keys

LEMMA ClusteredTyped ==
  ASSUME NEW es \in Seq(Voice), NEW now \in Nat, Distinct(es)
  PROVE  Grouped(Clustered(es, <<>>, now), File \X SpeakerLabel, now)
<1>1. PICK n \in Nat : n = Len(es)
  OBVIOUS
<1>2. Grouping!FoldsTo(now, <<>>, es, n)
  BY <1>1, Grouping!FoldLeftSteps
<1>3. PICK acc : /\ acc[0] = <<>>
                 /\ \A k \in 1..n : acc[k] = Adding(now, acc[k - 1], es[k])
                 /\ acc[n] = Grouping!Iter(now, <<>>, es)[DOMAIN es]
  BY <1>2 DEF Grouping!FoldsTo
<1> DEFINE S == {k \in Nat : k <= n => Grouped(acc[k], Keys(es, k), now)}
<1>4. 0 \in S
  <2>1. Grouped(<<>>, Keys(es, 0), now)
    BY DEF Grouped
  <2>2. QED
    BY <1>3, <2>1
<1>5. ASSUME NEW k \in Nat, k \in S PROVE k + 1 \in S
  <2> SUFFICES ASSUME k + 1 <= n PROVE Grouped(acc[k + 1], Keys(es, k + 1), now)
    OBVIOUS
  <2>1. Grouped(acc[k], Keys(es, k), now) /\ k + 1 \in 1..n /\ (k + 1) - 1 = k
    BY <1>5
  <2>2. acc[k + 1] = Adding(now, acc[k], es[k + 1])
    BY <1>3, <2>1
  <2>3. PICK e \in Voice : e = es[k + 1]
    BY <1>1, <2>1
  <2>4. <<e.file, e.label>> \notin Keys(es, k) /\ Keys(es, k + 1) = Keys(es, k) \cup {<<e.file, e.label>>}
    BY <1>1, <2>3, OneMoreKey
  <2>5. PICK keys : keys = Keys(es, k)
    OBVIOUS
  <2>6. Grouped(Adding(now, acc[k], e), keys \cup {<<e.file, e.label>>}, now)
    BY <2>1, <2>4, <2>5, AddingKeeps
  <2>7. QED
    BY <2>2, <2>3, <2>4, <2>5, <2>6
<1>6. Nat \subseteq S
  <2> HIDE DEF S
  <2> QED
    BY <1>4, <1>5, Summing!NatSetInduction
<1>7. Grouped(acc[n], Keys(es, n), now)
  BY <1>6
<1>8. Clustered(es, <<>>, now) = Grouping!Iter(now, <<>>, es)[DOMAIN es]
  BY DEF Clustered, FoldLeft, MapThenFoldSet, Max, Adding, Grouping!Iter, Grouping!Folding,
         Grouping!Latest
<1>9. Keys(es, n) \subseteq File \X SpeakerLabel
  <2>1. \A v \in 1..n : es[v] \in Voice
    BY <1>1
  <2>2. QED
    BY <2>1 DEF Keys, Voice
<1>10. \A p : OneProfile(p, Keys(es, n), now) => OneProfile(p, File \X SpeakerLabel, now)
  BY <1>9 DEF OneProfile
<1>11. Grouped(acc[n], File \X SpeakerLabel, now)
  BY <1>7, <1>10 DEF Grouped
<1>12. QED
  BY <1>3, <1>8, <1>11

-----------------------------------------------------------------------------
(* The tags of candidates                                                  *)

\* A vote of a mention is a profile that its speaker is a member of.
LEMMA VoteTyped ==
  ASSUME NEW f, NEW label, ProfilesInv, ProfileOfSpeaker(f, label) # None
  PROVE  \E p \in DOMAIN profiles : /\ profiles[p].id = ProfileOfSpeaker(f, label)
                                    /\ <<f, label>> \in ToSet(profiles[p].members)
                                    /\ profiles[p] \in SpeakerProfile
                                    /\ profiles[p].id[1] = made /\ profiles # None
<1>1. PICK having : having = {k \in DOMAIN profiles : <<f, label>> \in ToSet(profiles[k].members)}
  OBVIOUS
<1>2. profiles # None /\ having # {}
  BY <1>1 DEF ProfileOfSpeaker
<1>3. /\ profiles \in Seq(SpeakerProfile)
      /\ \A k \in 1..Len(profiles) : OneProfile(profiles[k], File \X SpeakerLabel, made)
  BY <1>2 DEF ProfilesInv, Grouped
<1>4. having \in SUBSET (1..Len(profiles)) /\ Len(profiles) \in Nat /\ DOMAIN profiles = 1..Len(profiles)
  BY <1>1, <1>3
<1>5. PICK last : last = CHOOSE k \in having : \A j \in having : j <= k
  OBVIOUS
<1>6. last \in having
  <2>1. PICK w : w = [k \in having |-> k]
    OBVIOUS
  <2>2. \A k \in having : w[k] \in Int
    BY <1>4, <2>1
  <2>3. \E k \in having : FirstBest(w, having, k)
    BY <1>2, <1>4, <2>2, SomeIsBest
  <2>4. \E k \in having : \A j \in having : j <= k
    BY <2>1, <2>3 DEF FirstBest
  <2>5. QED
    BY <1>5, <2>4
<1>7. ProfileOfSpeaker(f, label) = profiles[last].id
  BY <1>1, <1>2, <1>5 DEF ProfileOfSpeaker
<1>8. last \in 1..Len(profiles) /\ OneProfile(profiles[last], File \X SpeakerLabel, made)
  BY <1>3, <1>4, <1>6
<1>9. QED
  BY <1>1, <1>2, <1>4, <1>6, <1>7, <1>8 DEF OneProfile

LEMMA TagTyped ==
  ASSUME NEW f, NEW labels, labels \in Seq(ToSet(labels)), ProfilesInv, Tag(f, labels) # None
  PROVE  /\ Tag(f, labels) \in Nat \X Int /\ Tag(f, labels)[1] = made
         /\ SpokenFor(f, Tag(f, labels), labels) /\ profiles # None
<1> DEFINE Vote(k) == ProfileOfSpeaker(f, labels[k])
<1>1. PICK votes : votes = {k \in DOMAIN labels : Vote(k) # None}
  OBVIOUS
<1> DEFINE For(k) == Cardinality({j \in votes : Vote(j) = Vote(k)})
           Most == CHOOSE k \in votes : /\ \A j \in votes : For(j) <= For(k)
                                        /\ \A j \in votes : j < k => For(j) < For(k)
<1>2. Tag(f, labels) = IF votes = {} THEN None ELSE Vote(Most)
  BY <1>1 DEF Tag
<1>3. votes # {}
  BY <1>2
<1>4. votes \in SUBSET (1..Len(labels)) /\ Len(labels) \in Nat /\ DOMAIN labels = 1..Len(labels)
  BY <1>1
<1>5. \A k : For(k) \in Nat
  <2>1. IsFiniteSet(1..Len(labels))
    BY <1>4, FS_Interval
  <2>2. ASSUME NEW k PROVE For(k) \in Nat
    <3>1. IsFiniteSet({j \in votes : Vote(j) = Vote(k)})
      BY <1>4, <2>1, FS_Subset
    <3>2. QED
      BY <3>1, FS_CardinalityType
  <2>3. QED
    BY <2>2
<1>6. Most \in votes
  <2> HIDE DEF For, Vote
  <2>1. PICK w : w = [k \in votes |-> For(k)]
    OBVIOUS
  <2>2. \A k \in votes : w[k] \in Int
    BY <1>5, <2>1
  <2>3. \E k \in votes : FirstBest(w, votes, k)
    BY <1>3, <1>4, <2>2, SomeIsBest
  <2>4. \E k \in votes : /\ \A j \in votes : For(j) <= For(k)
                         /\ \A j \in votes : j < k => For(j) < For(k)
    BY <2>1, <2>3 DEF FirstBest
  <2>5. QED
    BY <2>4
<1>7. PICK i : i = Most
  OBVIOUS
<1>8. i \in DOMAIN labels /\ Vote(i) # None /\ Tag(f, labels) = Vote(i)
  BY <1>1, <1>2, <1>3, <1>6, <1>7
<1>9. PICK p \in DOMAIN profiles : /\ profiles[p].id = Tag(f, labels)
                                   /\ <<f, labels[i]>> \in ToSet(profiles[p].members)
                                   /\ profiles[p] \in SpeakerProfile
                                   /\ profiles[p].id[1] = made /\ profiles # None
  BY <1>8, VoteTyped
<1>10. profiles[p].id \in Nat \X Int
  BY <1>9 DEF SpeakerProfile
<1>11. QED
  BY <1>8, <1>9, <1>10 DEF SpokenFor

-----------------------------------------------------------------------------
(* The steps                                                               *)

LEMMA MakeProfilesKeeps ==
  ASSUME SpeakersInv, MakeProfiles
  PROVE  SpeakersInv'
<1>1. /\ made \in Nat /\ made' = made + 1 /\ made' \in 0..MaxMade /\ made' \in Nat /\ made' # 0
      /\ profiles' = Clustered(AllVoices, <<>>, made')
      /\ UNCHANGED <<diarization, voices, tags, diarized, hidden>>
  BY SpeakersAssumption DEF MakeProfiles, SpeakersInv, ProfilesInv
<1>2. Grouped(profiles', File \X SpeakerLabel, made')
  <2>1. AllVoices \in Seq(Voice) /\ Distinct(AllVoices)
    BY AllVoicesTyped DEF SpeakersInv
  <2>2. PICK es, now : es = AllVoices /\ now = made'
    OBVIOUS
  <2>3. Grouped(Clustered(es, <<>>, now), File \X SpeakerLabel, now)
    BY <1>1, <2>1, <2>2, ClusteredTyped
  <2>4. QED
    BY <1>1, <2>2, <2>3
<1>3. profiles' # None
  BY <1>2, SpeakersAssumption DEF Grouped
<1>4. ProfilesInv'
  BY <1>1, <1>2, <1>3 DEF ProfilesInv
<1>5. VoicesInv'
  BY <1>1 DEF SpeakersInv, VoicesInv
<1>6. TagsInv'
  <2>1. DOMAIN tags' = File
    BY <1>1 DEF SpeakersInv, TagsInv
  <2>2. ASSUME NEW f \in File, tags'[f] # None, NEW c \in DOMAIN tags'[f], tags'[f][c] # None
        PROVE  tags'[f][c] \in Nat \X Int /\ tags'[f][c][1] <= made' /\ tags'[f][c][1] # made'
    <3>1. tags[f][c] \in Nat \X Int /\ tags[f][c][1] <= made
      BY <1>1, <2>2 DEF SpeakersInv, TagsInv
    <3>2. tags[f][c][1] \in Nat
      BY <3>1
    <3>3. QED
      BY <1>1, <3>1, <3>2
  <2>3. \A f \in File : tags'[f] # None => DOMAIN tags'[f] = DOMAIN SpokenBy[f]
    BY <1>1 DEF SpeakersInv, TagsInv
  <2>4. QED
    BY <2>1, <2>2, <2>3 DEF TagsInv
<1>7. QED
  BY <1>1, <1>4, <1>5, <1>6 DEF SpeakersInv

LEMMA MakeCandidatesKeeps ==
  ASSUME SpeakersInv, NEW f \in File, MakeCandidates(f)
  PROVE  SpeakersInv'
<1>1. /\ tags' = [tags EXCEPT ![f] = Tagged(f)]
      /\ UNCHANGED <<diarization, voices, profiles, made, diarized, hidden>>
  BY DEF MakeCandidates
<1>2. PICK tagged : tagged = Tagged(f)
  OBVIOUS
<1>3. /\ DOMAIN tagged = DOMAIN SpokenBy[f]
      /\ \A c \in DOMAIN tagged : tagged[c] = Tag(f, SpokenBy[f][c])
  BY <1>2 DEF Tagged
<1>4. ASSUME NEW c \in DOMAIN tagged, tagged[c] # None
      PROVE  /\ tagged[c] \in Nat \X Int /\ tagged[c][1] <= made
             /\ SpokenFor(f, tagged[c], SpokenBy[f][c])
  <2>1. PICK labels : labels = SpokenBy[f][c]
    OBVIOUS
  <2>2. labels \in Seq(ToSet(labels))
    BY <1>3, <2>1, SpeakersAssumption
  <2>3. /\ Tag(f, labels) \in Nat \X Int /\ Tag(f, labels)[1] = made
        /\ SpokenFor(f, Tag(f, labels), labels)
    BY <1>3, <1>4, <2>1, <2>2, TagTyped DEF SpeakersInv
  <2>4. made \in Nat
    BY DEF SpeakersInv, ProfilesInv
  <2>5. QED
    BY <1>3, <2>1, <2>3, <2>4
<1>5. \A g, t, ls : SpokenFor(g, t, ls)' <=> SpokenFor(g, t, ls)
  BY <1>1 DEF SpokenFor
<1>6. TagsInv'
  <2>1. DOMAIN tags' = File /\ tags'[f] = tagged /\ \A g \in File : g # f => tags'[g] = tags[g]
    BY <1>1, <1>2 DEF SpeakersInv, TagsInv
  <2>2. ASSUME NEW g \in File, tags'[g] # None
        PROVE  /\ DOMAIN tags'[g] = DOMAIN SpokenBy[g]
               /\ \A c \in DOMAIN tags'[g] :
                     \/ tags'[g][c] = None
                     \/ /\ tags'[g][c] \in Nat \X Int /\ tags'[g][c][1] <= made
                        /\ tags'[g][c][1] = made => SpokenFor(g, tags'[g][c], SpokenBy[g][c])
    <3>1. CASE g = f
      BY <1>3, <1>4, <2>1, <3>1
    <3>2. CASE g # f
      BY <2>1, <2>2, <3>2 DEF SpeakersInv, TagsInv
    <3>3. QED
      BY <3>1, <3>2
  <2>3. made' = made /\ \A g, t, ls : SpokenFor(g, t, ls) => SpokenFor(g, t, ls)'
    BY <1>1, <1>5
  <2>4. QED
    BY <2>1, <2>2, <2>3 DEF TagsInv
<1>7. VoicesInv' /\ ProfilesInv'
  BY <1>1 DEF SpeakersInv, VoicesInv, ProfilesInv
<1>8. QED
  BY <1>1, <1>6, <1>7 DEF SpeakersInv

LEMMA VoicesKeep ==
  ASSUME SpeakersInv, NEW f \in File, Diarize(f) \/ Embed(f)
  PROVE  SpeakersInv'
<1>1. UNCHANGED <<profiles, made, tags>>
  BY DEF Diarize, Embed
<1>2. ProfilesInv'
  BY <1>1 DEF SpeakersInv, ProfilesInv
<1>3. TagsInv'
  BY <1>1 DEF SpeakersInv, TagsInv, SpokenFor
<1>4. diarized' \in 0..MaxDiarized /\ hidden' \in 0..MaxHidden
  BY SpeakersAssumption DEF Diarize, Embed, SpeakersInv
<1>5. VoicesInv'
  <2>1. CASE Diarize(f)
    BY <2>1 DEF Diarize, SpeakersInv, VoicesInv
  <2>2. CASE Embed(f)
    <3>1. UNCHANGED diarization /\ diarization[f] \in Diarizations
      BY <2>2 DEF Embed, SpeakersInv, VoicesInv
    <3>2. PICK cs : voices' = [voices EXCEPT ![f] = cs] /\ (cs = Centroids(f) \/ cs = <<>>)
      BY <2>2 DEF Embed
    <3>3. cs \in Seq(Voice) /\ Distinct(cs) /\ \A k \in 1..Len(cs) : cs[k].file = f
      <4>1. CASE cs = <<>>
        BY <4>1 DEF Distinct
      <4>2. CASE cs = Centroids(f)
        BY <3>1, <4>2, CentroidsTyped
      <4>3. QED
        BY <3>2, <4>1, <4>2
    <3>4. QED
      BY <3>1, <3>2, <3>3 DEF SpeakersInv, VoicesInv
  <2>3. QED
    BY <2>1, <2>2
<1>6. QED
  BY <1>2, <1>3, <1>4, <1>5 DEF SpeakersInv

LEMMA SpeakersInvNext ==
  ASSUME SpeakersInv, [SpeakersNext]_speakerVars
  PROVE  SpeakersInv'
<1>1. CASE UNCHANGED speakerVars
  BY <1>1 DEF speakerVars, SpeakersInv, VoicesInv, ProfilesInv, TagsInv, SpokenFor
<1>2. QED
  BY <1>1, MakeProfilesKeeps, MakeCandidatesKeeps, VoicesKeep DEF SpeakersNext

LEMMA SpeakersTyped == SpeakersInv => SpeakersTypeOK
<1> SUFFICES ASSUME SpeakersInv PROVE SpeakersTypeOK
  OBVIOUS
<1>1. ASSUME NEW f \in File, voices[f] # None, NEW k \in DOMAIN voices[f]
      PROVE  voices[f][k].file = f
  BY <1>1 DEF SpeakersInv, VoicesInv
<1>2. QED
  BY <1>1 DEF SpeakersTypeOK, SpeakersInv, VoicesInv, ProfilesInv

LEMMA SpeakersKept == SpeakersInv => SpeakersGrouped
<1> SUFFICES ASSUME SpeakersInv, profiles # None PROVE SpeakersGrouped
  BY DEF SpeakersGrouped
<1>1. /\ profiles \in Seq(SpeakerProfile)
      /\ \A k \in 1..Len(profiles) : OneProfile(profiles[k], File \X SpeakerLabel, made)
      /\ \A j, k \in 1..Len(profiles) : j # k => Apart(profiles[j], profiles[k])
  BY DEF SpeakersInv, ProfilesInv, Grouped
<1>2. DOMAIN profiles = 1..Len(profiles)
  BY <1>1
<1>3. \A k \in 1..Len(profiles) : /\ profiles[k].count = Len(profiles[k].members)
                                  /\ DOMAIN profiles[k].members = 1..Len(profiles[k].members)
  <2>1. ASSUME NEW k \in 1..Len(profiles)
        PROVE  /\ profiles[k].count = Len(profiles[k].members)
               /\ DOMAIN profiles[k].members = 1..Len(profiles[k].members)
    <3>1. PICK p : p = profiles[k]
      OBVIOUS
    <3>2. OneProfile(p, File \X SpeakerLabel, made)
      BY <1>1, <2>1, <3>1
    <3>3. p.count = Len(p.members) /\ p.members \in Seq(File \X SpeakerLabel)
      BY <3>2 DEF OneProfile, SpeakerProfile
    <3>4. DOMAIN p.members = 1..Len(p.members)
      BY <3>3
    <3>5. QED
      BY <3>1, <3>3, <3>4
  <2>2. QED
    BY <2>1
<1>4. ASSUME NEW j \in DOMAIN profiles, NEW k \in DOMAIN profiles,
             NEW a \in DOMAIN profiles[j].members, NEW b \in DOMAIN profiles[k].members,
             profiles[j].members[a] = profiles[k].members[b]
      PROVE  j = k /\ a = b
  <2>1. j = k
    <3>1. /\ profiles[j].members[a] \in ToSet(profiles[j].members)
          /\ profiles[k].members[b] \in ToSet(profiles[k].members)
      BY DEF ToSet
    <3>2. QED
      BY <1>1, <1>2, <1>4, <3>1 DEF Apart
  <2>2. QED
    BY <1>1, <1>2, <1>3, <1>4, <2>1 DEF OneProfile
<1>5. ASSUME NEW f \in File, tags[f] # None, NEW c \in DOMAIN tags[f], NEW k \in DOMAIN profiles,
             tags[f][c] = profiles[k].id
      PROVE  SpokenFor(f, tags[f][c], SpokenBy[f][c])
  <2>1. profiles[k].id \in Nat \X Int /\ profiles[k].id[1] = made
    BY <1>1, <1>2 DEF OneProfile, SpeakerProfile
  <2>2. tags[f][c] # None
    BY <1>5, <2>1, SpeakersAssumption
  <2>3. QED
    BY <1>5, <2>1, <2>2 DEF SpeakersInv, TagsInv
<1>6. QED
  BY <1>2, <1>3, <1>4, <1>5 DEF SpeakersGrouped, SpokenFor
-----------------------------------------------------------------------------
USE NilAssumption, RunnerBoundAssumption

-----------------------------------------------------------------------------
(* The benchmark runner: types                                             *)

\* A request that has spawned a harness knows a run that exists.
SpawnedExists == \A q \in Request : at[q] = "spawned" => proc[subject[q]] # "none"

RunnerInv == RunnerTypeOK /\ SpawnedExists

LEMMA RunnerTypeInit == RunnerInit => RunnerInv
<1> SUFFICES ASSUME RunnerInit PROVE RunnerInv
  OBVIOUS
<1>1. together \in BOOLEAN /\ restarted \in BOOLEAN
  BY Zenon DEF RunnerInit
<1>2. QED
  BY <1>1 DEF RunnerInit, RunnerInv, RunnerTypeOK, SpawnedExists

\* Counting does not pass a bound.
LEMMA ServedNext ==
  ASSUME RunnerInv, NEW q \in Request, Arrives(q)
  PROVE  served' \in 0..MaxServed
BY DEF RunnerInv, RunnerTypeOK, Arrives

LEMMA BrokenNext ==
  ASSUME RunnerInv, Breaks
  PROVE  broken' \in 0..MaxBroken
BY DEF RunnerInv, RunnerTypeOK, Breaks

LEMMA RunnerTypeNext ==
  ASSUME RunnerInv, [RunnerNext]_runnerVars
  PROVE  RunnerInv'
<1> USE DEF RunnerInv, RunnerTypeOK, SpawnedExists
<1>1. ASSUME NEW q \in Request, StartRun(q) PROVE RunnerInv'
  <2>1. served' \in 0..MaxServed /\ at[q] = "idle"
    BY <1>1, ServedNext DEF StartRun, Arrives
  <2>2. together' \in BOOLEAN
    BY <1>1 DEF StartRun
  <2>3. /\ at' = [at EXCEPT ![q] = "start"] /\ subject' = [subject EXCEPT ![q] = Nil]
        \/ UNCHANGED <<at, subject>>
    BY <1>1 DEF StartRun, Goes
  <2>4. QED
    BY <1>1, <2>1, <2>2, <2>3 DEF StartRun, processVars
<1>2. ASSUME NEW q \in Request, NEW r \in Run, Spawn(q, r) PROVE RunnerInv'
  <2>1. CASE proc' = [proc EXCEPT ![r] = "running"] /\ Goes(q, "spawned", r)
             /\ UNCHANGED <<text, broken>>
    BY <1>2, <2>1 DEF Spawn, Goes, history
  <2>2. CASE Breaks /\ Replies(q) /\ UNCHANGED proc
    <3>1. broken' \in 0..MaxBroken
      BY <2>2, BrokenNext
    <3>2. QED
      BY <1>2, <2>2, <3>1 DEF Spawn, Replies, Goes, history
  <2>3. QED
    BY <1>2, <2>1, <2>2 DEF Spawn
<1>3. ASSUME NEW q \in Request, Register(q) PROVE RunnerInv'
  BY <1>3 DEF Register, Replies, Goes, processVars, history
<1>4. ASSUME NEW r \in Run, HarnessEnds(r) PROVE RunnerInv'
  BY <1>4 DEF HarnessEnds, Alive, requestVars, history
<1>5. ASSUME NEW q \in Request, NEW R \in SUBSET Run, ListRuns(q, R) PROVE RunnerInv'
  <2>1. served' \in 0..MaxServed
    BY <1>5, ServedNext DEF ListRuns
  <2>2. QED
    BY <1>5, <2>1 DEF ListRuns, Polled, Alive, processVars, requestVars, history
<1>6. ASSUME NEW q \in Request, NEW r \in Run, StopRun(q, r) PROVE RunnerInv'
  <2>1. served' \in 0..MaxServed
    BY <1>6, ServedNext DEF StopRun
  <2>2. QED
    BY <1>6, <2>1 DEF StopRun, Goes, processVars, history
<1>7. ASSUME NEW q \in Request, Signal(q) PROVE RunnerInv'
  BY <1>7 DEF Signal, ToSignal, Replies, Goes, history
<1>8. ASSUME NEW q \in Request, NEW i \in Config, NEW t \in Text, SaveConfig(q, i, t)
      PROVE  RunnerInv'
  <2>1. served' \in 0..MaxServed
    BY <1>8, ServedNext DEF SaveConfig
  <2>2. QED
    BY <1>8, <2>1 DEF SaveConfig, Goes, processVars
<1>9. ASSUME NEW q \in Request, OpenFile(q) PROVE RunnerInv'
  BY <1>9 DEF OpenFile, Opened, Goes, processVars, history
<1>10. ASSUME NEW q \in Request, WriteFile(q) PROVE RunnerInv'
  BY <1>10 DEF WriteFile, Over, Replies, Goes, processVars, history
<1>11. ASSUME NEW q \in Request, NEW i \in Config, DeleteConfig(q, i) PROVE RunnerInv'
  <2>1. served' \in 0..MaxServed
    BY <1>11, ServedNext DEF DeleteConfig
  <2>2. QED
    BY <1>11, <2>1 DEF DeleteConfig, processVars, requestVars, history
<1>12. ASSUME RestartViewer PROVE RunnerInv'
  <2>1. broken' \in 0..MaxBroken
    BY <1>12, BrokenNext DEF RestartViewer
  <2>2. QED
    BY <1>12, <2>1 DEF RestartViewer, processVars
<1>13. ASSUME UNCHANGED runnerVars PROVE RunnerInv'
  BY <1>13 DEF runnerVars, processVars, requestVars, history
<1>14. QED
  BY <1>1, <1>2, <1>3, <1>4, <1>5, <1>6, <1>7, <1>8, <1>9, <1>10, <1>11, <1>12, <1>13
     DEF RunnerNext, Handler

\* Runs, requests and configurations stay what they are meant to be; a handle
\* is never of a run that was not spawned, and never says of a run that is over
\* that it ended otherwise.
THEOREM RunnerTypeCorrect == RunnerSpec => []RunnerTypeOK
<1>1. RunnerInv => RunnerTypeOK
  BY DEF RunnerInv
<1>2. QED
  BY RunnerTypeInit, RunnerTypeNext, <1>1, PTL DEF RunnerSpec

-----------------------------------------------------------------------------
(* The benchmark runner: the cap                                           *)

\* The runs that a check of the cap counts.
Held == {r \in Run : runs[r] # "none" /\ Alive(r)}

\* Every run that is alive is counted, or is the one being started.
Accounted == \A r \in AliveRuns \ Held : \E q \in Request :
                at[q] = "spawned" /\ subject[q] = r

\* Why the cap is kept: there is one start at a time, which has found room, and
\* the room is there until its run is counted.
OneStart == /\ \A p, q \in Starting : p = q
            /\ Starting # {} => Cardinality(Held) < MaxActive

CapInv == /\ IsFiniteSet(AliveRuns)
          /\ ~together /\ ~restarted =>
                OneStart /\ Accounted /\ Cardinality(Held) <= MaxActive

LEMMA HeldFinite ==
  ASSUME IsFiniteSet(AliveRuns)
  PROVE  /\ IsFiniteSet(Held) /\ Cardinality(Held) \in Nat
         /\ \A S \in SUBSET Held : IsFiniteSet(S) /\ Cardinality(S) \in Nat
                                   /\ Cardinality(S) <= Cardinality(Held)
<1>1. Held \in SUBSET AliveRuns
  BY DEF Held, AliveRuns
<1>2. QED
  BY <1>1, FS_Subset, FS_CardinalityType

LEMMA CapInit == RunnerInit => CapInv
<1> SUFFICES ASSUME RunnerInit PROVE CapInv
  OBVIOUS
<1>1. AliveRuns = {} /\ Held = {} /\ Starting = {}
  BY DEF RunnerInit, AliveRuns, Alive, Held, Starting
<1>2. QED
  BY <1>1, FS_EmptySet DEF CapInv, OneStart, Accounted

\* A step that starts nothing, spawns nothing and forgets nothing: of the runs
\* that are alive some may end, and those that are left are counted as before.
LEMMA QuietStep ==
  ASSUME CapInv,
         AliveRuns' \subseteq AliveRuns,
         Held' = Held \cap AliveRuns',
         \A q \in Request : (at'[q] \in {"start", "spawned"} \/ at[q] \in {"start", "spawned"})
                               => at'[q] = at[q] /\ subject'[q] = subject[q],
         UNCHANGED <<together, restarted>>
  PROVE  CapInv'
<1>1. IsFiniteSet(AliveRuns')
  BY FS_Subset DEF CapInv
<1>2. ASSUME ~together, ~restarted
      PROVE  (OneStart /\ Accounted /\ Cardinality(Held) <= MaxActive)'
  <2>1. OneStart /\ Accounted /\ Cardinality(Held) <= MaxActive
    BY <1>2 DEF CapInv
  <2>2. Starting' = Starting
    BY DEF Starting
  <2>3. /\ Cardinality(Held) \in Nat /\ Cardinality(Held') \in Nat
        /\ Cardinality(Held') <= Cardinality(Held)
    BY HeldFinite DEF CapInv
  <2>4. OneStart'
    BY <2>1, <2>2, <2>3 DEF OneStart
  <2>5. Accounted'
    BY <2>1 DEF Accounted
  <2>6. QED
    BY <2>1, <2>3, <2>4, <2>5
<1>3. QED
  BY <1>1, <1>2 DEF CapInv

LEMMA StartKeepsCap ==
  ASSUME RunnerInv, CapInv, NEW q \in Request, StartRun(q)
  PROVE  CapInv'
<1>1. AliveRuns' = AliveRuns /\ Held' = Held /\ UNCHANGED restarted /\ at[q] = "idle"
  BY DEF StartRun, Arrives, processVars, AliveRuns, Held, Alive
<1>2. IsFiniteSet(AliveRuns')
  BY <1>1 DEF CapInv
<1>3. ASSUME ~together', ~restarted'
      PROVE  (OneStart /\ Accounted /\ Cardinality(Held) <= MaxActive)'
  <2>0. ~together
    BY <1>3 DEF StartRun
  <2>1. OneStart /\ Accounted /\ Cardinality(Held) <= MaxActive
    BY <1>1, <1>3, <2>0 DEF CapInv
  <2>2. at \in [Request -> {"idle", "start", "spawned", "stop", "save", "write"}]
    BY DEF RunnerInv, RunnerTypeOK
  <2>3. CASE Room /\ Goes(q, "start", Nil) /\ together' = (together \/ Starting # {})
    <3>1. Starting = {} /\ Cardinality(Held) < MaxActive
      BY <1>3, <2>3 DEF Room, Held
    <3>2. Starting' = {q}
      BY <2>2, <2>3, <3>1 DEF Starting, Goes
    <3>3. OneStart'
      BY <1>1, <3>1, <3>2 DEF OneStart
    <3>4. Held = AliveRuns
      BY <2>1, <3>1 DEF Accounted, Starting, Held, AliveRuns
    <3>5. Accounted'
      BY <1>1, <3>4 DEF Accounted
    <3>6. QED
      BY <1>1, <2>1, <3>3, <3>5
  <2>4. CASE UNCHANGED <<at, subject>>
    BY <1>1, <2>1, <2>4 DEF OneStart, Accounted, Starting
  <2>5. QED
    BY <2>3, <2>4 DEF StartRun
<1>4. QED
  BY <1>2, <1>3 DEF CapInv

LEMMA SpawnKeepsCap ==
  ASSUME RunnerInv, CapInv, NEW q \in Request, NEW r \in Run, Spawn(q, r)
  PROVE  CapInv'
<1>1. /\ at \in [Request -> {"idle", "start", "spawned", "stop", "save", "write"}]
      /\ subject \in [Request -> Run \cup Config \cup {Nil}]
      /\ proc \in [Run -> {"none", "running", "ok", "error"}]
      /\ runs[r] = "none"
  BY DEF Spawn, RunnerInv, RunnerTypeOK
<1>2. at[q] = "start" /\ UNCHANGED <<runs, together, restarted>>
  BY DEF Spawn, history
<1>3. CASE proc' = [proc EXCEPT ![r] = "running"] /\ Goes(q, "spawned", r)
  <2>1. AliveRuns' = AliveRuns \cup {r} /\ Held' = Held
    BY <1>1, <1>2, <1>3 DEF AliveRuns, Held, Alive
  <2>2. IsFiniteSet(AliveRuns')
    BY <2>1, FS_AddElement DEF CapInv
  <2>3. Starting' = Starting
    BY <1>1, <1>2, <1>3 DEF Starting, Goes
  <2>4. Accounted => Accounted'
    BY <1>1, <1>2, <1>3, <2>1 DEF Accounted, Goes
  <2>5. OneStart => OneStart'
    BY <2>1, <2>3 DEF OneStart
  <2>6. QED
    BY <1>2, <2>1, <2>2, <2>4, <2>5 DEF CapInv
<1>4. CASE Replies(q) /\ UNCHANGED proc
  <2>1. AliveRuns' = AliveRuns /\ Held' = Held
    BY <1>2, <1>4 DEF AliveRuns, Held, Alive
  <2>2. Starting' \subseteq Starting
    BY <1>1, <1>4 DEF Starting, Replies, Goes
  <2>3. Accounted => Accounted'
    BY <1>1, <1>2, <1>4, <2>1 DEF Accounted, Replies, Goes
  <2>4. OneStart => OneStart'
    BY <2>1, <2>2 DEF OneStart
  <2>5. QED
    BY <1>2, <2>1, <2>3, <2>4 DEF CapInv
<1>5. QED
  BY <1>3, <1>4 DEF Spawn

LEMMA RegisterKeepsCap ==
  ASSUME RunnerInv, CapInv, NEW q \in Request, Register(q)
  PROVE  CapInv'
<1> DEFINE r == subject[q]
<1>1. /\ at \in [Request -> {"idle", "start", "spawned", "stop", "save", "write"}]
      /\ runs \in [Run -> {"none", "running", "ok", "error"}]
      /\ r \in Run
  BY DEF Register, RunnerInv, RunnerTypeOK
<1>2. at[q] = "spawned" /\ UNCHANGED <<proc, together, restarted>>
  BY DEF Register, processVars, history
<1>3. AliveRuns' = AliveRuns /\ Held' \subseteq Held \cup {r} /\ Held \subseteq Held'
      /\ (r \in AliveRuns => r \in Held')
  BY <1>1, <1>2 DEF Register, AliveRuns, Held, Alive
<1>4. IsFiniteSet(Held \cup {r}) /\ Cardinality(Held \cup {r}) <= Cardinality(Held) + 1
      /\ Cardinality(Held) \in Nat /\ Cardinality(Held \cup {r}) \in Nat
  BY HeldFinite, FS_AddElement, FS_CardinalityType DEF CapInv
<1>5. Cardinality(Held') \in Nat /\ Cardinality(Held') <= Cardinality(Held) + 1
  BY <1>3, <1>4, FS_Subset, FS_CardinalityType
<1>6. ASSUME ~together, ~restarted
      PROVE  (OneStart /\ Accounted /\ Cardinality(Held) <= MaxActive)'
  <2>1. OneStart /\ Accounted /\ q \in Starting
    BY <1>2, <1>6 DEF CapInv, Starting
  <2>2. Cardinality(Held') <= MaxActive
    BY <1>4, <1>5, <2>1 DEF OneStart
  <2>3. Starting' = {}
    BY <1>1, <2>1 DEF Register, Replies, Goes, Starting, OneStart
  <2>4. Accounted'
    BY <1>3, <2>1 DEF Accounted, OneStart, Starting
  <2>5. QED
    BY <2>2, <2>3, <2>4 DEF OneStart
<1>7. QED
  BY <1>2, <1>3, <1>6 DEF CapInv

LEMMA CapNext ==
  ASSUME RunnerInv, CapInv, [RunnerNext]_runnerVars
  PROVE  CapInv'
<1>typed. /\ at \in [Request -> {"idle", "start", "spawned", "stop", "save", "write"}]
          /\ subject \in [Request -> Run \cup Config \cup {Nil}]
          /\ proc \in [Run -> {"none", "running", "ok", "error"}]
  BY DEF RunnerInv, RunnerTypeOK
\* The handlers of the requests that neither start nor register a run.
<1>1. ASSUME NEW q \in Request, NEW to, NEW x, at[q] \notin {"start", "spawned"},
             to \notin {"start", "spawned"}, Goes(q, to, x),
             UNCHANGED <<proc, runs, together, restarted>>
      PROVE  CapInv'
  <2>1. AliveRuns' = AliveRuns /\ Held' = Held
    BY <1>1 DEF AliveRuns, Held, Alive
  <2>2. QED
    BY <1>1, <1>typed, <2>1, QuietStep DEF Goes, Held, AliveRuns
<1>2. ASSUME UNCHANGED <<proc, runs, at, subject, together, restarted>> PROVE CapInv'
  <2>1. AliveRuns' = AliveRuns /\ Held' = Held
    BY <1>2 DEF AliveRuns, Held, Alive
  <2>2. QED
    BY <1>2, <2>1, QuietStep DEF Held, AliveRuns
<1>3. ASSUME NEW r \in Run, HarnessEnds(r) PROVE CapInv'
  <2>1. AliveRuns' \subseteq AliveRuns /\ Held' = Held \cap AliveRuns'
    BY <1>3, <1>typed DEF HarnessEnds, AliveRuns, Held, Alive
  <2>2. QED
    BY <1>3, <2>1, QuietStep DEF HarnessEnds, requestVars, history
<1>4. ASSUME NEW q \in Request, NEW R \in SUBSET Run, ListRuns(q, R) PROVE CapInv'
  <2>1. \A r \in Run : runs'[r] # "none" <=> runs[r] # "none"
    BY <1>4 DEF ListRuns, Polled, Alive, RunnerInv, RunnerTypeOK
  <2>2. AliveRuns' = AliveRuns /\ Held' = Held
    BY <1>4, <2>1 DEF ListRuns, AliveRuns, Held, Alive, processVars
  <2>3. QED
    BY <1>4, <2>2, QuietStep DEF ListRuns, Held, AliveRuns, requestVars, history
<1>5. ASSUME NEW q \in Request, NEW r \in Run, StopRun(q, r) PROVE CapInv'
  <2>1. at[q] = "idle" /\ UNCHANGED <<proc, runs, together, restarted>>
        /\ (Goes(q, "stop", r) \/ UNCHANGED <<at, subject>>)
    BY <1>5 DEF StopRun, Arrives, processVars, history
  <2>2. QED
    BY <1>1, <1>2, <2>1
<1>6. ASSUME NEW q \in Request, Signal(q) PROVE CapInv'
  BY <1>1, <1>6 DEF Signal, Replies, history
<1>7. ASSUME NEW q \in Request, NEW i \in Config, NEW t \in Text, SaveConfig(q, i, t)
      PROVE  CapInv'
  BY <1>1, <1>7 DEF SaveConfig, Arrives, processVars
<1>8. ASSUME NEW q \in Request, OpenFile(q) \/ WriteFile(q) PROVE CapInv'
  BY <1>1, <1>8 DEF OpenFile, WriteFile, Replies, processVars, history
<1>9. ASSUME NEW q \in Request, NEW i \in Config, DeleteConfig(q, i) PROVE CapInv'
  BY <1>2, <1>9 DEF DeleteConfig, processVars, requestVars, history
<1>10. ASSUME RestartViewer PROVE CapInv'
  BY <1>10 DEF RestartViewer, CapInv, AliveRuns, Alive, processVars
<1>11. ASSUME UNCHANGED runnerVars PROVE CapInv'
  BY <1>2, <1>11 DEF runnerVars, processVars, requestVars, history
<1>12. QED
  BY <1>3, <1>4, <1>5, <1>6, <1>7, <1>8, <1>9, <1>10, <1>11,
     StartKeepsCap, SpawnKeepsCap, RegisterKeepsCap DEF RunnerNext, Handler

LEMMA CapEnough == CapInv => CapKept
<1> SUFFICES ASSUME CapInv, ~together, ~restarted PROVE Cardinality(AliveRuns) <= MaxActive
  BY DEF CapKept, AtMostOne
<1>1. OneStart /\ Accounted /\ Cardinality(Held) <= MaxActive
  BY DEF CapInv
<1>2. CASE AliveRuns \subseteq Held
  <2>1. AliveRuns = Held
    BY <1>2 DEF AliveRuns, Held
  <2>2. QED
    BY <1>1, <2>1
<1>3. CASE ~(AliveRuns \subseteq Held)
  <2>1. PICK r \in AliveRuns : r \notin Held
    BY <1>3
  <2>2. PICK q \in Request : at[q] = "spawned" /\ subject[q] = r
    BY <1>1, <2>1 DEF Accounted
  <2>3. q \in Starting
    BY <2>2 DEF Starting
  <2>4. AliveRuns \subseteq Held \cup {r}
    BY <1>1, <2>2, <2>3 DEF Accounted, OneStart, Starting
  <2>5. IsFiniteSet(Held \cup {r}) /\ Cardinality(Held \cup {r}) = Cardinality(Held) + 1
        /\ Cardinality(Held) \in Nat
    BY <2>1, HeldFinite, FS_AddElement DEF CapInv
  <2>6. Cardinality(AliveRuns) \in Nat /\ Cardinality(AliveRuns) <= Cardinality(Held) + 1
    BY <2>4, <2>5, FS_Subset, FS_CardinalityType DEF CapInv
  <2>7. Cardinality(Held) < MaxActive
    BY <1>1, <2>3 DEF OneStart
  <2>8. QED
    BY <2>5, <2>6, <2>7
<1>4. QED
  BY <1>2, <1>3

\* No more harnesses run than the cap says, those included that are spawned and
\* have no handle yet, unless two starts have overlapped or the viewer was
\* restarted: for one start at a time two holds of the lock are as good as one.
THEOREM CapHolds == RunnerSpec => []CapKept
<1>1. RunnerInit => RunnerInv /\ CapInv
  BY RunnerTypeInit, CapInit
<1>2. RunnerInv /\ CapInv /\ [RunnerNext]_runnerVars => (RunnerInv /\ CapInv)'
  BY RunnerTypeNext, CapNext
<1>3. RunnerInv /\ CapInv => CapKept
  BY CapEnough
<1>4. QED
  BY <1>1, <1>2, <1>3, PTL DEF RunnerSpec

-----------------------------------------------------------------------------
(* The benchmark runner: the configurations                                *)

\* What the file of a configuration holds, and who is writing it: one request at
\* most, and a file that was emptied is its to fill.
WrittenBy(i) == {q \in Request : at[q] = "write" /\ subject[q] = i}

ConfigInv ==
    \A i \in Config \ doubled :
        /\ \A p, q \in Writers(i) : p = q
        /\ ~restarted /\ WrittenBy(i) = {} => file[i] \in Text \cup {"absent"}
        /\ ~restarted /\ WrittenBy(i) # {} => file[i] \in {"empty", "absent"}

LEMMA ConfigInvInit == RunnerInit => ConfigInv
BY DEF RunnerInit, ConfigInv, Writers, WrittenBy

\* A step of a request that is not writing, or of nobody.
LEMMA ElsewhereKeepsConfig ==
  ASSUME RunnerInv, ConfigInv, UNCHANGED <<file, restarted, doubled>>,
         \A q \in Request : (at[q] \in {"save", "write"} \/ at'[q] \in {"save", "write"})
                               => at'[q] = at[q] /\ subject'[q] = subject[q]
  PROVE  ConfigInv'
<1>1. \A i \in Config : Writers(i)' = Writers(i) /\ WrittenBy(i)' = WrittenBy(i)
  BY DEF Writers, WrittenBy
<1>2. QED
  BY <1>1 DEF ConfigInv

LEMMA ConfigInvNext ==
  ASSUME RunnerInv, ConfigInv, [RunnerNext]_runnerVars
  PROVE  ConfigInv'
<1>typed. /\ at \in [Request -> {"idle", "start", "spawned", "stop", "save", "write"}]
          /\ subject \in [Request -> Run \cup Config \cup {Nil}]
          /\ text \in [Request -> Text \cup {"none"}]
          /\ file \in [Config -> Text \cup {"absent", "empty", "mixed"}]
          /\ \A q \in Request : at[q] \in {"save", "write"}
                                  => subject[q] \in Config /\ text[q] \in Text
  BY DEF RunnerInv, RunnerTypeOK
<1>1. ASSUME NEW q \in Request, NEW to, NEW x, at[q] \notin {"save", "write"},
             to \notin {"save", "write"}, Goes(q, to, x),
             UNCHANGED <<file, restarted, doubled>>
      PROVE  ConfigInv'
  BY <1>1, <1>typed, ElsewhereKeepsConfig DEF Goes
<1>2. ASSUME UNCHANGED <<at, subject, file, restarted, doubled>> PROVE ConfigInv'
  BY <1>2, ElsewhereKeepsConfig
<1>3. ASSUME NEW q \in Request, NEW i \in Config, NEW t \in Text, SaveConfig(q, i, t)
      PROVE  ConfigInv'
  <2>1. /\ at[q] = "idle" /\ Goes(q, "save", i) /\ UNCHANGED <<file, restarted>>
        /\ doubled' = IF Writers(i) = {} THEN doubled ELSE doubled \cup {i}
    BY <1>3 DEF SaveConfig, Arrives
  <2>2. \A j \in Config : WrittenBy(j)' = WrittenBy(j)
    BY <1>typed, <2>1 DEF WrittenBy, Goes
  <2>3. \A j \in Config : Writers(j)' = IF j = i THEN Writers(j) \cup {q} ELSE Writers(j)
    BY <1>typed, <2>1 DEF Writers, Goes
  <2>4. QED
    BY <2>1, <2>2, <2>3 DEF ConfigInv
<1>4. ASSUME NEW q \in Request, OpenFile(q) PROVE ConfigInv'
  <2>0. PICK i \in Config : i = subject[q]
    BY <1>4, <1>typed DEF OpenFile
  <2>1. /\ at[q] = "save" /\ q \in Writers(i)
        /\ Goes(q, "write", i) /\ UNCHANGED <<restarted, doubled>>
        /\ file' = [file EXCEPT ![i] = "empty"]
    BY <1>4, <1>typed, <2>0 DEF OpenFile, Opened, Writers, history
  <2>2. \A j \in Config : Writers(j)' = Writers(j)
    BY <1>typed, <2>1 DEF Writers, Goes
  <2>3. \A j \in Config : WrittenBy(j)' = IF j = i THEN WrittenBy(j) \cup {q} ELSE WrittenBy(j)
    BY <1>typed, <2>1 DEF WrittenBy, Goes
  <2>4. QED
    BY <1>typed, <2>1, <2>2, <2>3 DEF ConfigInv
<1>5. ASSUME NEW q \in Request, WriteFile(q) PROVE ConfigInv'
  <2>0. PICK i \in Config : i = subject[q]
    BY <1>5, <1>typed DEF WriteFile
  <2>1. /\ at[q] = "write" /\ q \in Writers(i) /\ q \in WrittenBy(i)
        /\ text[q] \in Text /\ Goes(q, "idle", Nil) /\ UNCHANGED <<restarted, doubled>>
        /\ file' = [file EXCEPT ![i] = IF @ = "absent" THEN "absent" ELSE Over(@, text[q])]
    BY <1>5, <1>typed, <2>0 DEF WriteFile, Writers, WrittenBy, Replies, history
  <2>2. \A j \in Config : Writers(j)' = Writers(j) \ {q} /\ WrittenBy(j)' = WrittenBy(j) \ {q}
    BY <1>typed, <2>1 DEF Writers, WrittenBy, Goes
  <2>3. \A j \in Config : WrittenBy(j) \subseteq Writers(j)
    BY DEF Writers, WrittenBy
  <2>4. ASSUME NEW j \in Config \ doubled, j # i, ~restarted
        PROVE  file'[j] = file[j] /\ WrittenBy(j)' = WrittenBy(j)
    BY <1>typed, <2>1, <2>2, <2>4 DEF WrittenBy
  <2>5. ASSUME i \notin doubled, ~restarted
        PROVE  WrittenBy(i)' = {} /\ file'[i] \in Text \cup {"absent"}
    <3>1. WrittenBy(i) = {q}
      BY <2>1, <2>3, <2>5 DEF ConfigInv
    <3>2. file[i] \in {"empty", "absent"}
      BY <2>1, <2>5, <3>1 DEF ConfigInv
    <3>3. WrittenBy(i)' = {}
      BY <2>1, <2>2, <3>1
    <3>4. file'[i] = IF file[i] = "absent" THEN "absent" ELSE Over(file[i], text[q])
      BY <1>typed, <2>1
    <3>5. QED
      BY <2>1, <3>2, <3>3, <3>4 DEF Over
  <2>6. ASSUME NEW j \in Config \ doubled'
        PROVE  /\ \A p, u \in Writers(j)' : p = u
               /\ ~restarted' /\ WrittenBy(j)' = {} => file'[j] \in Text \cup {"absent"}
               /\ ~restarted' /\ WrittenBy(j)' # {} => file'[j] \in {"empty", "absent"}
    <3>1. \A p, u \in Writers(j)' : p = u
      BY <2>1, <2>2, <2>6 DEF ConfigInv
    <3>2. CASE j = i
      BY <2>1, <2>5, <2>6, <3>1, <3>2
    <3>3. CASE j # i
      BY <2>1, <2>4, <2>6, <3>1, <3>3 DEF ConfigInv
    <3>4. QED
      BY <3>2, <3>3
  <2>7. QED
    BY <2>6 DEF ConfigInv
<1>6. ASSUME NEW q \in Request, NEW i \in Config, DeleteConfig(q, i) PROVE ConfigInv'
  <2>1. /\ file' = [file EXCEPT ![i] = "absent"]
        /\ UNCHANGED <<at, subject, restarted, doubled>>
    BY <1>6 DEF DeleteConfig, requestVars, history
  <2>2. QED
    BY <1>typed, <2>1 DEF ConfigInv, Writers, WrittenBy
<1>7. ASSUME NEW q \in Request, StartRun(q) PROVE ConfigInv'
  BY <1>1, <1>2, <1>7 DEF StartRun, Arrives
<1>8. ASSUME NEW q \in Request, NEW r \in Run, Spawn(q, r) \/ StopRun(q, r) PROVE ConfigInv'
  BY <1>1, <1>2, <1>8 DEF Spawn, StopRun, Arrives, Replies, history
<1>9. ASSUME NEW q \in Request, Register(q) \/ Signal(q) PROVE ConfigInv'
  BY <1>1, <1>9 DEF Register, Signal, Replies, history
<1>10. ASSUME NEW q \in Request, NEW R \in SUBSET Run, ListRuns(q, R) PROVE ConfigInv'
  BY <1>2, <1>10 DEF ListRuns, requestVars, history
<1>11. ASSUME NEW r \in Run, HarnessEnds(r) PROVE ConfigInv'
  BY <1>2, <1>11 DEF HarnessEnds, requestVars, history
<1>12. ASSUME RestartViewer PROVE ConfigInv'
  BY <1>12 DEF RestartViewer, ConfigInv, Writers, WrittenBy
<1>13. ASSUME UNCHANGED runnerVars PROVE ConfigInv'
  BY <1>2, <1>13 DEF runnerVars, requestVars, history
<1>14. QED
  BY <1>3, <1>4, <1>5, <1>6, <1>7, <1>8, <1>9, <1>10, <1>11, <1>12, <1>13
     DEF RunnerNext, Handler

LEMMA ConfigsReadable == ConfigInv => ConfigReadable
BY DEF ConfigInv, ConfigReadable, Readable, Writers, WrittenBy
-----------------------------------------------------------------------------
USE MediaAssumption

-----------------------------------------------------------------------------
(* Media ingestion: types                                                  *)

Content == {"large", "small", "part"}

Tasks == [at : {"idle", "next", "encode"}, todo : SUBSET Downloads,
          path : Downloads \cup {Missing}, sole : BOOLEAN]

\* Only a download is ever above the bitrate: a transcoding never takes the
\* output of another one for its input.
OnlyDownloads ==
    /\ \A p \in Path : disk[p] = "large" => p \in Downloads
    /\ \A m \in probes : m.video = "large" => m.path \in Downloads
    /\ encoder \in [Transcode -> Tasks]
    /\ \A t \in Transcode : encoder[t].at = "encode" => encoder[t].path \in Downloads

\* The conjuncts of MediaTypeOK, by the part of the state they are about.
FilesTyped == disk \in [Path -> {Missing} \cup Content]

AssetsTyped ==
    /\ listed \subseteq Path /\ {m.path : m \in probes} \subseteq Path
    /\ documents \subseteq {DocumentId[p] : p \in Path}
    /\ discovery \in [Scan -> {"idle", "media_files", "media_metadata", "media_documents"}]

TickTyped ==
    /\ mediaTick.at \in {"idle", "collect", "register", "request"}
    /\ mediaTick.new \subseteq mediaTick.ids
    /\ mediaTick.at = "request" => mediaTick.new \subseteq registered

BoundsTyped == /\ changes \in 0..MaxChanges /\ transcodes \in 0..MaxTranscodes
               /\ upsets \in 0..MaxUpsets

MediaInv == /\ OnlyDownloads /\ FilesTyped /\ AssetsTyped /\ TickTyped /\ BoundsTyped

LEMMA MediaInvInit == MediaInit => MediaInv
BY DEF MediaInit, MediaInv, OnlyDownloads, FilesTyped, AssetsTyped, TickTyped,
       BoundsTyped, NoTick, NoTask, Tasks, Content

LEMMA MediaBoundsNext ==
  ASSUME MediaInv, [MediaNext]_mediaVars
  PROVE  BoundsTyped'
<1> DEFINE Counted == \/ UNCHANGED bounds
                      \/ Upset
                      \/ changes < MaxChanges /\ changes' = changes + 1
                           /\ UNCHANGED <<transcodes, upsets>>
                      \/ transcodes < MaxTranscodes /\ transcodes' = transcodes + 1
                           /\ UNCHANGED <<changes, upsets>>
<1>1. ASSUME NEW s \in Scan, DiscoveryStep(s) \/ DiscoveryFails(s) PROVE Counted
  BY <1>1 DEF DiscoveryStep, ScheduleTick, ScanFiles, ProbeFiles, MakeDocuments, DiscoveryFails
<1>2. ASSUME SensorStep \/ TickDies PROVE Counted
  BY <1>2 DEF SensorStep, TickLoads, TickCollects, TickRegisters, TickRequests, TickDies
<1>3. ASSUME NEW t \in Transcode, TranscodeStarts(t) \/ EncodeDies(t) PROVE Counted
  BY <1>3 DEF TranscodeStarts, EncodeDies
<1>4. ASSUME NEW t \in Transcode, TranscodeStep(t) PROVE Counted
  <2>1. CASE EncodeEnds(t)
    BY <2>1, Zenon DEF EncodeEnds
  <2>2. CASE TranscodeEnds(t) \/ \E p \in Path : EncodeBegins(t, p)
    BY <2>2 DEF TranscodeEnds, EncodeBegins
  <2>3. QED
    BY <1>4, <2>1, <2>2 DEF TranscodeStep
<1>5. ASSUME NEW p \in Downloads, FileChanges(p) PROVE Counted
  BY <1>5 DEF FileChanges
<1>6. Counted
  BY <1>1, <1>2, <1>3, <1>4, <1>5 DEF MediaNext, mediaVars
<1>7. QED
  BY <1>6 DEF MediaInv, BoundsTyped, Upset, bounds

\* The sensor is the only one that touches its tick and the partitions.
LEMMA TickNext ==
  ASSUME MediaInv, [MediaNext]_mediaVars
  PROVE  TickTyped'
<1> USE DEF MediaInv, TickTyped
<1>1. CASE UNCHANGED <<mediaTick, registered>>
  BY <1>1
<1>2. CASE TickLoads
  BY <1>2 DEF TickLoads, Ticks
<1>3. CASE TickCollects
  BY <1>3 DEF TickCollects, Ticks, NoTick
<1>4. CASE TickRegisters
  BY <1>4 DEF TickRegisters, Ticks, Registered
<1>5. CASE TickRequests \/ TickDies
  BY <1>5 DEF TickRequests, TickDies, NoTick
<1>6. QED
  BY <1>1, <1>2, <1>3, <1>4, <1>5
     DEF MediaNext, DiscoveryStep, SensorStep, TranscodeStep, FileChanges, ScheduleTick,
         ScanFiles, ProbeFiles, MakeDocuments, DiscoveryFails, Elsewhere, TranscodeStarts,
         EncodeBegins, EncodeEnds, EncodeDies, TranscodeEnds, Beyond, mediaVars

LEMMA AssetsNext ==
  ASSUME MediaInv, [MediaNext]_mediaVars
  PROVE  AssetsTyped'
<1> USE DEF MediaInv, AssetsTyped
<1>1. CASE UNCHANGED <<assets, discovery>>
  BY <1>1 DEF assets
<1>2. ASSUME NEW s \in Scan, ScheduleTick(s) \/ DiscoveryFails(s) PROVE AssetsTyped'
  BY <1>2 DEF ScheduleTick, DiscoveryFails, Moves, assets
<1>3. ASSUME NEW s \in Scan, ScanFiles(s) PROVE AssetsTyped'
  BY <1>3 DEF ScanFiles, Moves
<1>4. ASSUME NEW s \in Scan, ProbeFiles(s) PROVE AssetsTyped'
  BY <1>4 DEF ProbeFiles, Probed, Moves
<1>5. ASSUME NEW s \in Scan, MakeDocuments(s) PROVE AssetsTyped'
  BY <1>5 DEF MakeDocuments, Moves
<1>6. QED
  BY <1>1, <1>2, <1>3, <1>4, <1>5
     DEF MediaNext, DiscoveryStep, SensorStep, TranscodeStep, FileChanges, Outside,
         TickLoads, TickCollects, TickRegisters, TickRequests, TickDies, TranscodeStarts,
         EncodeBegins, EncodeEnds, EncodeDies, TranscodeEnds, Beyond, mediaVars, assets

\* What the transcodings and the downloads do to the files.
FilesInv == OnlyDownloads /\ FilesTyped

LEMMA FilesNext ==
  ASSUME MediaInv, [MediaNext]_mediaVars
  PROVE  FilesInv'
<1> USE DEF MediaInv, FilesInv, OnlyDownloads, FilesTyped, Content
<1> DEFINE Tasked == /\ encoder' \in [Transcode -> Tasks]
                     /\ \A u \in Transcode : encoder'[u].at = "encode"
                                              => encoder'[u].path \in Downloads
<1>1. CASE UNCHANGED <<disk, probes, encoder>>
  BY <1>1
<1>does. ASSUME NEW t \in Transcode, NEW stage \in {"idle", "next"}, NEW todo \in SUBSET Downloads,
                Does(t, stage, todo)
         PROVE  Tasked
  <2>1. PICK rest : rest = [at |-> stage, todo |-> todo, path |-> Missing, sole |-> TRUE]
    OBVIOUS
  <2>2. rest \in Tasks /\ rest.at # "encode"
    BY <2>1 DEF Tasks
  <2>3. encoder' = [encoder EXCEPT ![t] = rest]
    BY <1>does, <2>1 DEF Does
  <2>4. encoder \in [Transcode -> Tasks]
    OBVIOUS
  <2>5. encoder' \in [Transcode -> Tasks]
    BY <2>2, <2>3, <2>4
  <2>6. \A u \in Transcode : encoder'[u] = IF u = t THEN rest ELSE encoder[u]
    BY <2>3, <2>4
  <2>7. QED
    BY <2>2, <2>5, <2>6
<1>2. ASSUME NEW p \in Downloads, FileChanges(p) PROVE FilesInv'
  BY <1>2 DEF FileChanges, There, assets
<1>3. ASSUME NEW s \in Scan, ProbeFiles(s) PROVE FilesInv'
  BY <1>3 DEF ProbeFiles, Probed, Elsewhere, AssetsTyped
<1>4. ASSUME NEW t \in Transcode, TranscodeStarts(t) PROVE FilesInv'
  BY <1>4 DEF TranscodeStarts, Does, Tasks, Beyond, assets
<1>5. ASSUME NEW t \in Transcode, NEW p \in Path, EncodeBegins(t, p) PROVE FilesInv'
  <2>1. p \in Downloads /\ encoder[t].todo \subseteq Downloads
    BY <1>5 DEF EncodeBegins, Tasks
  <2>2. TempOf[p] \in Path \ Downloads
    BY <2>1
  <2>3. UNCHANGED probes
    BY <1>5 DEF EncodeBegins, Beyond, assets
  <2>4. CASE There(p)
    <3>1. PICK others : others = WritersOf(TempOf[p])
      OBVIOUS
    <3>2. /\ encoder' = [u \in Transcode |->
                 IF u = t THEN [at |-> "encode", todo |-> encoder[t].todo \ {p},
                                path |-> p, sole |-> others = {}]
                 ELSE [encoder[u] EXCEPT !.sole = @ /\ u \notin others]]
          /\ disk' = [disk EXCEPT ![TempOf[p]] = "part"]
      BY <1>5, <2>4, <3>1 DEF EncodeBegins
    <3>3. ASSUME NEW u \in Transcode
          PROVE  encoder'[u] \in Tasks /\ (encoder'[u].at = "encode" => encoder'[u].path \in Downloads)
      <4>1. CASE u = t
        <5>1. encoder'[u] = [at |-> "encode", todo |-> encoder[t].todo \ {p},
                             path |-> p, sole |-> others = {}]
          BY <3>2, <4>1
        <5>2. (others = {}) \in BOOLEAN
          OBVIOUS
        <5>3. QED
          BY <2>1, <5>1, <5>2 DEF Tasks
      <4>2. CASE u # t
        <5>1. encoder'[u] = [encoder[u] EXCEPT !.sole = encoder[u].sole /\ u \notin others]
          BY <3>2, <4>2
        <5>2. encoder[u] \in Tasks
          OBVIOUS
        <5>3. (encoder[u].sole /\ u \notin others) \in BOOLEAN
          OBVIOUS
        <5>4. QED
          BY <5>1, <5>2, <5>3 DEF Tasks
      <4>3. QED
        BY <4>1, <4>2
    <3>4. encoder' \in [Transcode -> Tasks]
      BY <3>2, <3>3
    <3>5. FilesTyped' /\ \A q \in Path : disk'[q] = "large" => disk[q] = "large"
      BY <2>2, <3>2
    <3>6. QED
      BY <2>3, <3>3, <3>4, <3>5
  <2>5. CASE ~There(p)
    <3>1. Does(t, "idle", {}) /\ UNCHANGED disk
      BY <1>5, <2>5 DEF EncodeBegins
    <3>2. Tasked
      BY <3>1, <1>does
    <3>3. QED
      BY <2>3, <3>1, <3>2
  <2>6. QED
    BY <2>4, <2>5
<1>6. ASSUME NEW t \in Transcode, EncodeEnds(t) PROVE FilesInv'
  <2> DEFINE p == encoder[t].path
  <2>1. p \in Downloads /\ TempOf[p] \in Path /\ encoder[t].todo \subseteq Downloads
    BY <1>6 DEF EncodeEnds, Tasks
  <2>2. \/ \E w \in {"small", "part"} : disk' = [disk EXCEPT ![p] = w, ![TempOf[p]] = Missing]
        \/ disk' = [disk EXCEPT ![TempOf[p]] = Missing]
        \/ UNCHANGED disk
    BY <1>6 DEF EncodeEnds
  <2>3. \/ Does(t, "next", encoder[t].todo)
        \/ Does(t, "idle", {})
    BY <1>6 DEF EncodeEnds
  <2>4. UNCHANGED probes
    BY <1>6 DEF EncodeEnds, Beyond, assets
  <2>5. FilesTyped' /\ \A q \in Path : disk'[q] = "large" => disk[q] = "large"
    BY <2>1, <2>2
  <2>6. /\ encoder' \in [Transcode -> Tasks]
        /\ \A u \in Transcode : encoder'[u].at = "encode" => encoder'[u].path \in Downloads
    BY <2>1, <2>3, <1>does
  <2>7. QED
    BY <2>4, <2>5, <2>6
<1>7. ASSUME NEW t \in Transcode, EncodeDies(t) \/ TranscodeEnds(t) PROVE FilesInv'
  <2>1. Does(t, "idle", {}) /\ UNCHANGED <<disk, probes>>
    BY <1>7 DEF EncodeDies, TranscodeEnds, Beyond, assets
  <2>2. Tasked
    BY <2>1, <1>does
  <2>3. QED
    BY <2>1, <2>2
<1>8. QED
  BY <1>1, <1>2, <1>3, <1>4, <1>5, <1>6, <1>7
     DEF MediaNext, DiscoveryStep, SensorStep, TranscodeStep, ScheduleTick, ScanFiles,
         MakeDocuments, DiscoveryFails, Elsewhere, Outside, TickLoads, TickCollects,
         TickRegisters, TickRequests, TickDies, mediaVars, assets

LEMMA MediaInvNext == MediaInv /\ [MediaNext]_mediaVars => MediaInv'
BY MediaBoundsNext, TickNext, AssetsNext, FilesNext DEF MediaInv, FilesInv

\* Paths, assets, partitions and tasks stay what they are meant to be; a tick
\* requests runs of partitions only that it has registered, and a transcoding is
\* of a download.
THEOREM MediaTypeCorrect == MediaSpec => []MediaTypeOK
<1>1. MediaInv => MediaTypeOK
  BY DEF MediaInv, MediaTypeOK, OnlyDownloads, FilesTyped, AssetsTyped, TickTyped,
         BoundsTyped, Tasks, Content
<1>2. QED
  BY MediaInvInit, MediaInvNext, <1>1, PTL DEF MediaSpec

-----------------------------------------------------------------------------
(* Media ingestion: the originals                                          *)

\* Who is not the only one to have opened its temporary file encodes a path that was raced
\* for; what any other moves over its path is the whole of what it wrote.
SoleOrRaced ==
    \A t \in Transcode :
        encoder[t].at = "encode" /\ ~encoder[t].sole => encoder[t].path \in raced

LEMMA SoleOrRacedNext ==
  ASSUME MediaInv, SoleOrRaced, [MediaNext]_mediaVars
  PROVE  SoleOrRaced'
<1>typed. encoder \in [Transcode -> Tasks]
  BY DEF MediaInv, OnlyDownloads
<1> USE DEF SoleOrRaced
\* Nobody begins: whoever encodes afterwards did before.
<1>1. ASSUME UNCHANGED raced, NEW t \in Transcode, NEW pc, NEW todo,
             pc # "encode", Does(t, pc, todo)
      PROVE  SoleOrRaced'
  BY <1>1, <1>typed DEF Does
<1>2. ASSUME NEW t \in Transcode, NEW p \in Path, EncodeBegins(t, p) PROVE SoleOrRaced'
  <2>1. CASE There(p)
    <3>1. PICK others : others = WritersOf(TempOf[p])
      OBVIOUS
    <3>2. /\ encoder' = [u \in Transcode |->
                 IF u = t THEN [at |-> "encode", todo |-> encoder[t].todo \ {p},
                                path |-> p, sole |-> others = {}]
                 ELSE [encoder[u] EXCEPT !.sole = @ /\ u \notin others]]
          /\ raced' = IF others = {} THEN raced
                      ELSE raced \cup {p} \cup {encoder[u].path : u \in others}
      BY <1>2, <2>1, <3>1 DEF EncodeBegins
    <3>3. ASSUME NEW u \in Transcode, encoder'[u].at = "encode", ~encoder'[u].sole
          PROVE  encoder'[u].path \in raced'
      <4>1. CASE u = t
        BY <3>2, <3>3, <4>1
      <4>2. CASE u # t
        <5>1. encoder[u] \in Tasks /\ encoder'[u] = [encoder[u] EXCEPT !.sole = @ /\ u \notin others]
          BY <1>typed, <3>2, <4>2
        <5>2. /\ encoder[u].at = "encode" /\ encoder'[u].path = encoder[u].path
              /\ ~encoder[u].sole \/ u \in others
          BY <3>3, <5>1 DEF Tasks
        <5>3. QED
          BY <3>2, <5>2
      <4>3. QED
        BY <4>1, <4>2
    <3>4. QED
      BY <3>3
  <2>2. CASE ~There(p)
    <3>1. Does(t, "idle", {}) /\ UNCHANGED raced
      BY <1>2, <2>2 DEF EncodeBegins
    <3>2. QED
      BY <1>1, <3>1
  <2>3. QED
    BY <2>1, <2>2
<1>3. ASSUME NEW t \in Transcode,
             TranscodeStarts(t) \/ EncodeEnds(t) \/ EncodeDies(t) \/ TranscodeEnds(t)
      PROVE  SoleOrRaced'
  <2>1. UNCHANGED raced
    BY <1>3 DEF TranscodeStarts, EncodeEnds, EncodeDies, TranscodeEnds, Beyond
  <2>2. \E pc \in {"idle", "next"} : \E todo : Does(t, pc, todo)
    BY <1>3 DEF TranscodeStarts, EncodeEnds, EncodeDies, TranscodeEnds
  <2>3. QED
    BY <1>1, <2>1, <2>2
<1>4. CASE UNCHANGED <<encoder, raced>>
  BY <1>4
<1>5. QED
  BY <1>2, <1>3, <1>4
     DEF MediaNext, DiscoveryStep, SensorStep, TranscodeStep, FileChanges, ScheduleTick,
         ScanFiles, ProbeFiles, MakeDocuments, DiscoveryFails, Elsewhere, Outside, TickLoads,
         TickCollects, TickRegisters, TickRequests, TickDies, mediaVars

LEMMA OriginalNext ==
  ASSUME MediaInv, SoleOrRaced, OriginalKept, [MediaNext]_mediaVars
  PROVE  OriginalKept'
<1>typed. /\ disk \in [Path -> {Missing} \cup Content]
          /\ encoder \in [Transcode -> Tasks]
          /\ \A t \in Transcode : encoder[t].at = "encode" => encoder[t].path \in Downloads
  BY DEF MediaInv, OnlyDownloads, FilesTyped
<1> USE DEF OriginalKept
<1>1. ASSUME NEW p \in Downloads, FileChanges(p) PROVE OriginalKept'
  BY <1>1, <1>typed DEF FileChanges, There
<1>2. ASSUME NEW t \in Transcode, NEW p \in Path, EncodeBegins(t, p) PROVE OriginalKept'
  <2>1. p \in Downloads /\ TempOf[p] \notin Downloads /\ TempOf[p] \in Path
    BY <1>2, <1>typed DEF EncodeBegins, Tasks
  <2>2. raced \subseteq raced'
    BY <1>2 DEF EncodeBegins
  <2>3. \A q \in Downloads : disk'[q] = disk[q]
    BY <1>2, <1>typed, <2>1 DEF EncodeBegins
  <2>4. QED
    BY <2>2, <2>3
<1>3. ASSUME NEW t \in Transcode, EncodeEnds(t) PROVE OriginalKept'
  <2> DEFINE p == encoder[t].path
  <2>1. p \in Downloads /\ TempOf[p] \notin Downloads /\ TempOf[p] \in Path
    BY <1>3, <1>typed DEF EncodeEnds
  <2>2. p \in raced \/ encoder[t].sole
    BY <1>3 DEF EncodeEnds, SoleOrRaced
  <2>3. \/ p \in raced /\ \E w : disk' = [disk EXCEPT ![p] = w, ![TempOf[p]] = Missing]
        \/ disk' = [disk EXCEPT ![p] = "small", ![TempOf[p]] = Missing]
        \/ disk' = [disk EXCEPT ![TempOf[p]] = Missing]
        \/ UNCHANGED disk
    BY <1>3, <2>2 DEF EncodeEnds, Success
  <2>4. UNCHANGED raced
    BY <1>3 DEF EncodeEnds
  <2>5. QED
    BY <1>typed, <2>1, <2>3, <2>4
<1>4. CASE UNCHANGED <<disk, raced>>
  BY <1>4
<1>5. QED
  BY <1>1, <1>2, <1>3, <1>4
     DEF MediaNext, DiscoveryStep, SensorStep, TranscodeStep, ScheduleTick, ScanFiles,
         ProbeFiles, MakeDocuments, DiscoveryFails, Elsewhere, Outside, TickLoads,
         TickCollects, TickRegisters, TickRequests, TickDies, TranscodeStarts, EncodeDies,
         TranscodeEnds, mediaVars

\* No download is ever replaced by a piece of itself, or by what was made of another,
\* however often ffmpeg fails or is killed, whatever it leaves behind, and whichever paths
\* share their temporary file, as long as no two transcodings that share one overlap.
THEOREM OriginalsSurvive == MediaSpec => []OriginalKept
<1>1. MediaInit => MediaInv /\ SoleOrRaced /\ OriginalKept
  <2>1. MediaInit => SoleOrRaced /\ OriginalKept
    BY DEF MediaInit, SoleOrRaced, NoTask, OriginalKept
  <2>2. QED
    BY <2>1, MediaInvInit
<1>2. MediaInv /\ SoleOrRaced /\ OriginalKept /\ [MediaNext]_mediaVars
        => (MediaInv /\ SoleOrRaced /\ OriginalKept)'
  BY MediaInvNext, SoleOrRacedNext, OriginalNext
<1>3. QED
  BY <1>1, <1>2, PTL DEF MediaSpec

-----------------------------------------------------------------------------
(* Side by side                                                            *)

\* What each component sees of a step of any of them.
LEMMA EachStep ==
  ASSUME [ServicesNext]_servicesVars
  PROVE  /\ [RunnerNext]_runnerVars
         /\ [AnnotationNext]_annotationVars
         /\ [ServingNext]_servingVars
         /\ [MediaNext]_mediaVars
         /\ [SpeakersNext]_speakerVars
         /\ [TrainingNext]_trainingVars
BY DEF ServicesNext, servicesVars, NotRunner, NotAnnotations, NotServing, NotMedia, NotSpeakers,
       NotTraining, Viewing, Learning, TrainingNext

ServicesInv == /\ RunnerInv /\ CapInv /\ ConfigInv /\ AnnotationInv /\ ServingInv
               /\ MediaInv /\ SoleOrRaced /\ OriginalKept /\ SpeakersInv /\ TrainingInv

LEMMA ServicesInvInit == ServicesInit => ServicesInv
<1> SUFFICES ASSUME ServicesInit PROVE ServicesInv
  OBVIOUS
<1>1. RunnerInv /\ CapInv /\ ConfigInv
  BY RunnerTypeInit, CapInit, ConfigInvInit DEF ServicesInit
<1>2. AnnotationInv /\ ServingInv /\ SpeakersInv /\ TrainingInv
  BY AnnotationInvInit, ServingInvInit, SpeakersInvInit, TrainingInvInit DEF ServicesInit
<1>3. MediaInv /\ SoleOrRaced /\ OriginalKept
  <2>1. MediaInit => SoleOrRaced /\ OriginalKept
    BY DEF MediaInit, SoleOrRaced, NoTask, OriginalKept
  <2>2. QED
    BY <2>1, MediaInvInit DEF ServicesInit
<1>4. QED
  BY <1>1, <1>2, <1>3 DEF ServicesInv

LEMMA ServicesInvNext == ServicesInv /\ [ServicesNext]_servicesVars => ServicesInv'
<1> SUFFICES ASSUME ServicesInv, [ServicesNext]_servicesVars PROVE ServicesInv'
  OBVIOUS
<1> USE DEF ServicesInv
<1>1. RunnerInv' /\ CapInv' /\ ConfigInv'
  BY EachStep, RunnerTypeNext, CapNext, ConfigInvNext
<1>2. AnnotationInv' /\ ServingInv'
  BY EachStep, AnnotationInvNext, ServingInvNext
<1>3. MediaInv' /\ SoleOrRaced' /\ OriginalKept'
  BY EachStep, MediaInvNext, SoleOrRacedNext, OriginalNext
<1>4. SpeakersInv' /\ TrainingInv'
  BY EachStep, SpeakersInvNext, TrainingInvNext
<1>5. QED
  BY <1>1, <1>2, <1>3, <1>4

\* The state of every service is of its type, whichever of them a behaviour is about.
THEOREM ServicesTypeCorrect == ServicesSpec => []ServicesTypeOK
<1>1. ServicesInv => ServicesTypeOK
  <2>1. RunnerInv => RunnerTypeOK
    BY DEF RunnerInv
  <2>2. AnnotationInv => AnnotationTypeOK
    BY DEF AnnotationInv
  <2>3. MediaInv => MediaTypeOK
    BY DEF MediaInv, MediaTypeOK, OnlyDownloads, FilesTyped, AssetsTyped, TickTyped,
           BoundsTyped, Tasks, Content
  <2>4. QED
    BY <2>1, <2>2, <2>3, ServingTyped, SpeakersTyped, TrainingTyped DEF ServicesInv, ServicesTypeOK
<1>2. QED
  BY <1>1, ServicesInvInit, ServicesInvNext, PTL DEF ServicesSpec

\* What the viewer has answered of its files, whichever of its services a behaviour is
\* about: a configuration can be read however its writers interleave, an annotation is
\* stored once and names agree between the two tables although each statement commits
\* alone, and a response has no more than its promised length, and less of it only where
\* the file has been replaced in between by a shorter one.
THEOREM EditsAreKept == ServicesSpec => []EditsKept
<1>1. ServicesInv => EditsKept
  BY ConfigsReadable, AnnotationsKept, PromisesKept DEF ServicesInv, EditsKept
<1>2. QED
  BY <1>1, ServicesInvInit, ServicesInvNext, PTL DEF ServicesSpec

\* What is made of the extractions of media: a speaker is in one profile and counted once
\* by it, a candidate's tag is of a profile that one of its speakers is in, every chunk
\* has its row although documents are taken one by one while people edit, and a pair
\* prefers the model that scored better.
THEOREM MediaIsToldAsItIs == ServicesSpec => []MadeAsTold
<1>1. ServicesInv => MadeAsTold
  BY SpeakersKept, TrainingKept DEF ServicesInv, MadeAsTold
<1>2. QED
  BY <1>1, ServicesInvInit, ServicesInvNext, PTL DEF ServicesSpec

-----------------------------------------------------------------------------
(* The incremental ingest of congress-data, for every set of bills, page   *)
(* size, number of runs per tick and number of failures; what is said of   *)
(* the watermark and the manifest is for jobs that do not overlap          *)

USE BillAssumption, BoundAssumption

-----------------------------------------------------------------------------
(* Dates                                                                   *)

\* The bills after n in a set of dates shrink as n grows, and such a chain of
\* finite sets has an end.
LEMMA LatestExists ==
  ASSUME NEW S \in SUBSET Date, S # {}
  PROVE  \E x \in S : \A y \in S : x >= y
<1> DEFINE Later(x) == {y \in S : y > x}
           All == 0..MaxDate
           T == {Later(x) : x \in S}
<1>1. IsFiniteSet(All)
  BY FS_Interval
<1>2. IsWellFoundedOn(StrictSubsetOrdering(All), FiniteSubsetsOf(All))
  BY FS_StrictSubsetOrderingWellFounded
<1>3. IsWellFoundedOn(StrictSubsetOrdering(All), SUBSET All)
  <2> HIDE DEF All
  <2>1. FiniteSubsetsOf(All) = SUBSET All
    BY <1>1, FS_FiniteSubsetsOfFinite
  <2>2. QED
    BY <1>2, <2>1
<1>4. S \subseteq All /\ S \subseteq Nat
  BY DEF Date
<1>5. /\ T \subseteq SUBSET All /\ T # {}
      /\ \A x \in S : Later(x) \in T
      /\ \A t \in T : \E x \in S : t = Later(x)
  <2>1. \A x \in S : Later(x) \in SUBSET All
    BY <1>4
  <2>2. PICK x \in S : TRUE
    OBVIOUS
  <2>3. Later(x) \in T
    BY <2>2
  <2> HIDE DEF All
  <2>4. T \subseteq SUBSET All
    BY <2>1
  <2>5. QED
    BY <2>3, <2>4
<1> HIDE DEF T
<1>6. PICK t \in T : \A u \in T : ~ (<<u, t>> \in StrictSubsetOrdering(All))
  <2> HIDE DEF All, Later
  <2>1. QED
    BY <1>3, <1>5, WFMin, Zenon
<1>7. PICK x \in S : t = Later(x)
  BY <1>5, <1>6
<1>8. ASSUME NEW y \in S, y > x PROVE FALSE
  <2>1. Later(y) \in T /\ Later(y) \in SUBSET All /\ t \in SUBSET All
    BY <1>5, <1>6, <1>8
  <2>2. Later(y) \subseteq t /\ y \in t /\ y \notin Later(y)
    <3>1. x \in Nat /\ y \in Nat /\ \A z \in S : z \in Nat
      BY <1>4
    <3> HIDE DEF All
    <3>2. \A z \in Later(y) : z \in Later(x)
      BY <1>8, <3>1
    <3>3. y \in Later(x) /\ y \notin Later(y)
      BY <1>8, <3>1
    <3> HIDE DEF Later
    <3>4. QED
      BY <1>7, <3>2, <3>3
  <2>3. <<Later(y), t>> \in StrictSubsetOrdering(All)
    BY <2>1, <2>2 DEF StrictSubsetOrdering
  <2>4. QED
    BY <1>6, <2>1, <2>3
<1>9. QED
  BY <1>4, <1>8

\* Latest is the latest date listed, or the watermark loaded when no bill had one.
LEMMA LatestIs ==
  ASSUME TypeOK, NEW j \in Job
  PROVE  LET known == {d \in {entries[j][b] : b \in Bill} : Known(d)}
         IN  /\ known = {} => Latest(j) = from[j]
             /\ known # {} => /\ Latest(j) \in known
                              /\ \A d \in known : d <= Latest(j)
<1> DEFINE known == {d \in {entries[j][b] : b \in Bill} : Known(d)}
<1>1. known \in SUBSET Date
  BY DEF TypeOK, Dates
<1>2. known # {} => \E x \in known : \A y \in known : x >= y
  BY <1>1, LatestExists
<1>3. known # {} => Max(known) \in known /\ \A y \in known : Max(known) >= y
  BY <1>2 DEF Max
<1>4. Latest(j) = IF known = {} THEN from[j] ELSE Max(known)
  BY DEF Latest
<1>5. \A y \in known : y \in Nat
  BY <1>1 DEF Date
<1>6. known # {} => \A y \in known : y <= Max(known)
  <2> HIDE DEF known
  <2>1. QED
    BY <1>3, <1>5
<1>7. QED
  <2> HIDE DEF known
  <2>1. /\ known = {} => Latest(j) = from[j]
        /\ known # {} => /\ Latest(j) \in known
                         /\ \A d \in known : d <= Latest(j)
    BY <1>3, <1>4, <1>6
  <2>2. QED
    BY <2>1 DEF known

LEMMA MergedTyped ==
  ASSUME NEW f \in Dates, NEW g \in Dates
  PROVE  MergedWith(f, g) \in Dates
BY DEF MergedWith, Dates

LEMMA NothingTyped == Nothing \in Dates /\ Absent \in Date /\ Absent # Undated
BY DEF Nothing, Dates, Date, Absent, Undated

LEMMA UpdatesTyped ==
  ASSUME NEW f \in Dates
  PROVE  /\ Updates(f) \subseteq Bill \X Date
         /\ \A b \in Bill : f[b] # Absent => <<b, f[b]>> \in Updates(f)
         /\ \A u \in Updates(f) : u[1] \in Bill /\ u[2] = f[u[1]] /\ u[2] # Absent
BY DEF Updates, Dates

-----------------------------------------------------------------------------
(* Type correctness                                                        *)

LEMMA TypeInit == Init => TypeOK
<1> SUFFICES ASSUME Init PROVE TypeOK
  OBVIOUS
<1> USE NothingTyped DEF Init
<1>1. /\ date \in Dates /\ manifest \in Dates /\ cursor \in Dates
      /\ loaded \in Dates /\ batch \in Dates /\ processed \in Dates
      /\ watermark \in Date \ {Undated}
  OBVIOUS
<1>2. /\ phase \in [Job -> {"off", "listing", "listed", "output", "loaded"}]
      /\ from \in [Job -> Date] /\ offset \in [Job -> Nat]
      /\ entries \in [Job -> Dates] /\ base \in [Job -> Dates]
  OBVIOUS
<1>3. /\ partitions \subseteq Bill
      /\ tick \in {"idle", "registered", "saved"}
      /\ queue \subseteq runKeys /\ runKeys \subseteq Bill \X Date
      /\ dropped \subseteq Bill \X Date /\ astray \subseteq Job
      /\ shifted \in BOOLEAN
  OBVIOUS
<1>4. faults \in 0..MaxFaults
  OBVIOUS
<1>5. QED
  BY <1>1, <1>2, <1>3, <1>4 DEF TypeOK

LEMMA ReadTyped ==
  ASSUME TypeOK, NEW held, NEW none, NEW result, Read(held, none, result)
  PROVE  faults' \in 0..MaxFaults /\ (result = held \/ result = none)
BY DEF Read, Fault, TypeOK

LEMMA FaultTyped ==
  ASSUME TypeOK, Fault
  PROVE  faults' \in 0..MaxFaults
BY DEF Fault, TypeOK

LEMMA EndJobTyped ==
  ASSUME TypeOK, NEW j \in Job, EndJob(j)
  PROVE  /\ phase' \in [Job -> {"off", "listing", "listed", "output", "loaded"}]
         /\ from' \in [Job -> Date] /\ offset' \in [Job -> Nat]
         /\ entries' \in [Job -> Dates] /\ base' \in [Job -> Dates]
BY NothingTyped DEF EndJob, TypeOK

LEMMA LatestTyped ==
  ASSUME TypeOK, NEW j \in Job, from[j] # Undated
  PROVE  Latest(j) \in Date \ {Undated}
<1> DEFINE known == {d \in {entries[j][b] : b \in Bill} : Known(d)}
<1>1. known \subseteq Date \ {Undated}
  BY DEF TypeOK, Dates, Date, Known, Undated
<1>2. from[j] \in Date
  BY DEF TypeOK
<1>3. /\ known = {} => Latest(j) = from[j]
      /\ known # {} => Latest(j) \in known
  BY LatestIs
<1> HIDE DEF known
<1>4. QED
  BY <1>1, <1>2, <1>3

\* The watermark is never None, and so neither is what a job has loaded of it.
Dated == \A j \in Job : from[j] # Undated

TypeInv == TypeOK /\ Dated

LEMMA DatedInit == Init => Dated
BY DEF Init, Dated, Absent, Undated

LEMMA JobTyped ==
  ASSUME TypeInv, NEW j \in Job, StartJob(j) \/ JobStep(j) \/ JobFails(j)
  PROVE  TypeInv'
<1> USE DEF TypeInv, Dated
<1> USE NothingTyped
<1>1. CASE StartJob(j)
  <2>1. PICK wm \in Date : /\ Read(watermark, Absent, wm)
                           /\ from' = [from EXCEPT ![j] = wm]
    BY <1>1 DEF StartJob
  <2>2. faults' \in 0..MaxFaults /\ wm # Undated
    BY <2>1, ReadTyped DEF TypeOK
  <2>3. QED
    BY <1>1, <2>1, <2>2 DEF StartJob, TypeOK, apiVars, sensorVars, runVars
<1>2. CASE FetchPage(j)
  <2>1. entries' \in [Job -> Dates]
    BY <1>2 DEF FetchPage, TypeOK, Dates
  <2>2. offset' \in [Job -> Nat]
    BY <1>2 DEF FetchPage, TypeOK
  <2>3. phase' \in [Job -> {"off", "listing", "listed", "output", "loaded"}]
    BY <1>2 DEF FetchPage, TypeOK
  <2>4. UNCHANGED <<date, shifted, watermark, from, base, manifest, partitions,
                    cursor, tick, loaded, batch, runKeys, queue, processed,
                    faults, dropped, astray>>
    BY <1>2 DEF FetchPage, apiVars, sensorVars, runVars
  <2>5. QED
    BY <2>1, <2>2, <2>3, <2>4 DEF TypeOK
<1>3. CASE SaveWatermark(j)
  <2>1. watermark' \in Date \ {Undated}
    BY <1>3, LatestTyped DEF SaveWatermark, MoveWatermark, TypeOK
  <2>2. QED
    BY <1>3, <2>1 DEF SaveWatermark, TypeOK, apiVars, sensorVars, runVars
<1>4. CASE LoadManifest(j)
  <2>1. PICK held \in {manifest, Nothing} : /\ Read(manifest, Nothing, held)
                                            /\ base' = [base EXCEPT ![j] = held]
    BY <1>4 DEF LoadManifest
  <2>2. faults' \in 0..MaxFaults /\ held \in Dates
    BY <2>1, ReadTyped DEF TypeOK
  <2>3. QED
    BY <1>4, <2>1, <2>2 DEF LoadManifest, TypeOK, apiVars, sensorVars, runVars
<1>5. CASE PutManifest(j)
  <2>1. manifest' \in Dates
    BY <1>5, MergedTyped DEF PutManifest, Merge, TypeOK
  <2>2. dropped' \subseteq Bill \X Date
    BY <1>5, UpdatesTyped DEF PutManifest, Behind, TypeOK
  <2>3. Dated'
    BY <1>5 DEF PutManifest, EndJob, TypeOK
  <2>4. QED
    BY <1>5, <2>1, <2>2, <2>3, EndJobTyped
    DEF PutManifest, TypeOK, apiVars, sensorVars, runVars
<1>6. CASE JobFails(j)
  <2>1. dropped' \subseteq Bill \X Date
    BY <1>6, UpdatesTyped DEF JobFails, TypeOK
  <2>2. Dated'
    BY <1>6 DEF JobFails, EndJob, TypeOK
  <2>3. QED
    BY <1>6, <2>1, <2>2, EndJobTyped, FaultTyped
    DEF JobFails, TypeOK, apiVars, sensorVars, runVars
<1>7. QED
  BY <1>1, <1>2, <1>3, <1>4, <1>5, <1>6 DEF JobStep

LEMMA SensorTyped ==
  ASSUME TypeOK, TickBegin \/ SaveCursor \/ Submit \/ TickFails
  PROVE  TypeOK'
<1> USE NothingTyped
<1>1. CASE TickBegin
  <2>1. PICK seen \in {cursor, Nothing} :
          /\ Read(cursor, Nothing, seen)
          /\ loaded' = seen
          /\ \E S \in Batches(seen) :
                /\ batch' = [b \in Bill |-> IF b \in S THEN manifest[b] ELSE Absent]
                /\ partitions' = partitions \cup (S \cap New)
    BY <1>1 DEF TickBegin
  <2>2. faults' \in 0..MaxFaults /\ loaded' \in Dates
    BY <2>1, ReadTyped DEF TypeOK
  <2>3. batch' \in Dates /\ partitions' \subseteq Bill
    <3>1. Absent \in Date /\ \A b \in Bill : manifest[b] \in Date
      BY DEF TypeOK, Dates, Date, Absent
    <3>2. PICK S \in Batches(seen) :
            /\ batch' = [b \in Bill |-> IF b \in S THEN manifest[b] ELSE Absent]
            /\ partitions' = partitions \cup (S \cap New)
      BY <2>1
    <3>3. batch' \in Dates
      BY <3>1, <3>2 DEF Dates
    <3>4. partitions \subseteq Bill /\ New \subseteq Bill
      BY DEF TypeOK, New
    <3>5. QED
      BY <3>2, <3>3, <3>4
  <2>4. QED
    BY <1>1, <2>2, <2>3 DEF TickBegin, TypeOK, apiVars, jobVars, runVars
<1>2. CASE SaveCursor
  <2>1. cursor' \in Dates
    BY <1>2, MergedTyped DEF SaveCursor, Seen, TypeOK
  <2>2. QED
    BY <1>2, <2>1 DEF SaveCursor, TypeOK, apiVars, jobVars, runVars
<1>3. CASE Submit
  <2>1. Updates(batch) \subseteq Bill \X Date
    BY UpdatesTyped DEF TypeOK
  <2>2. QED
    BY <1>3, <2>1 DEF Submit, EndTick, TypeOK, apiVars, jobVars
<1>4. CASE TickFails
  <2>1. dropped' \subseteq Bill \X Date
    BY <1>4, UpdatesTyped DEF TickFails, TypeOK
  <2>2. QED
    BY <1>4, <2>1, FaultTyped DEF TickFails, EndTick, TypeOK, apiVars, jobVars, runVars
<1>5. QED
  BY <1>1, <1>2, <1>3, <1>4

LEMMA RestTyped ==
  ASSUME TypeOK, (\E b \in Bill : Publish(b)) \/ RunTail \/ RunFails
  PROVE  TypeOK'
<1>1. ASSUME NEW b \in Bill, Publish(b) PROVE TypeOK'
  BY <1>1 DEF Publish, TypeOK, Dates, jobVars, sensorVars, runVars
<1>2. CASE RunTail
  <2>1. processed' \in Dates
    BY <1>2 DEF RunTail, TypeOK, Dates
  <2>2. QED
    BY <1>2, <2>1 DEF RunTail, TypeOK, apiVars, jobVars, sensorVars
<1>3. CASE RunFails
  BY <1>3, FaultTyped DEF RunFails, TypeOK, apiVars, jobVars, sensorVars
<1>4. QED
  BY <1>1, <1>2, <1>3

LEMMA TypeNext == TypeInv /\ [Next]_vars => TypeInv'
<1> SUFFICES ASSUME TypeInv, [Next]_vars PROVE TypeInv'
  OBVIOUS
<1>1. ASSUME NEW j \in Job, StartJob(j) \/ JobStep(j) \/ JobFails(j)
      PROVE  TypeInv'
  BY <1>1, JobTyped
<1>2. CASE TickBegin \/ SaveCursor \/ Submit \/ TickFails
  <2>1. UNCHANGED from
    BY <1>2 DEF TickBegin, SaveCursor, Submit, TickFails, jobVars
  <2>2. QED
    BY <1>2, <2>1, SensorTyped DEF TypeInv, Dated
<1>3. CASE (\E b \in Bill : Publish(b)) \/ RunTail \/ RunFails
  <2>1. UNCHANGED from
    BY <1>3 DEF Publish, RunTail, RunFails, jobVars
  <2>2. QED
    BY <1>3, <2>1, RestTyped DEF TypeInv, Dated
<1>4. CASE UNCHANGED vars
  BY <1>4 DEF vars, apiVars, jobVars, sensorVars, runVars, TypeInv, Dated, TypeOK
<1>5. QED
  BY <1>1, <1>2, <1>3, <1>4 DEF Next

\* Every variable of the ingestion keeps its type; what a job saves as watermark is
\* a date or what it has loaded, never the None of a bill without a date.
THEOREM IngestTypeCorrect == Spec => []TypeOK
<1>1. Init => TypeInv
  BY TypeInit, DatedInit DEF TypeInv
<1>2. TypeInv => TypeOK
  BY DEF TypeInv
<1>3. QED
  BY <1>1, <1>2, TypeNext, PTL DEF Spec

-----------------------------------------------------------------------------
(* The cursor                                                              *)

\* What a tick has loaded of the cursor, before it saves it, has been requested.
LoadedHonest ==
    tick = "registered" =>
        \A b \in Bill : loaded[b] # Absent => <<b, loaded[b]>> \in runKeys \cup dropped

CursorInv == TypeInv /\ CursorHonest /\ LoadedHonest

LEMMA CursorNext == CursorInv /\ [Next]_vars => CursorInv'
<1> SUFFICES ASSUME CursorInv, [Next]_vars PROVE CursorInv'
  OBVIOUS
<1> USE DEF CursorInv
<1>1. TypeInv'
  BY TypeNext
<1>2. TypeOK
  BY DEF TypeInv
<1>3. ASSUME UNCHANGED <<cursor, tick, loaded, batch>>,
             runKeys \subseteq runKeys', dropped \subseteq dropped'
      PROVE  CursorInv'
  BY <1>1, <1>3 DEF CursorHonest, LoadedHonest
<1>4. ASSUME NEW j \in Job, StartJob(j) \/ JobStep(j) \/ JobFails(j)
      PROVE  CursorInv'
  <2>1. /\ UNCHANGED <<cursor, tick, loaded, batch>>
        /\ runKeys \subseteq runKeys' /\ dropped \subseteq dropped'
    BY <1>4 DEF StartJob, JobStep, FetchPage, SaveWatermark, LoadManifest,
                PutManifest, JobFails, sensorVars, runVars
  <2>2. QED
    BY <1>3, <2>1
<1>5. CASE (\E b \in Bill : Publish(b)) \/ RunTail \/ RunFails
  <2>1. /\ UNCHANGED <<cursor, tick, loaded, batch>>
        /\ runKeys \subseteq runKeys' /\ dropped \subseteq dropped'
    BY <1>5 DEF Publish, RunTail, RunFails, sensorVars, runVars
  <2>2. QED
    BY <1>3, <2>1
<1>6. CASE TickBegin
  <2>1. /\ tick = "idle" /\ tick' = "registered"
        /\ loaded' = cursor \/ loaded' = Nothing
        /\ UNCHANGED <<cursor, runKeys, dropped>>
    BY <1>6 DEF TickBegin, runVars
  <2>2. \A b \in Bill : cursor[b] # Absent => <<b, cursor[b]>> \in runKeys \cup dropped
    BY <2>1 DEF CursorHonest
  <2>3. QED
    BY <1>1, <2>1, <2>2 DEF CursorHonest, LoadedHonest, Nothing
<1>7. CASE SaveCursor
  <2>1. /\ tick = "registered" /\ tick' = "saved"
        /\ cursor' = MergedWith(loaded, batch)
        /\ UNCHANGED <<batch, runKeys, dropped>>
    BY <1>7 DEF SaveCursor, Seen, runVars
  <2>2. \A b \in Bill : cursor'[b] = IF batch[b] # Absent THEN batch[b] ELSE loaded[b]
    BY <2>1 DEF MergedWith
  <2>3. QED
    BY <1>1, <2>1, <2>2 DEF CursorHonest, LoadedHonest
<1>8. CASE Submit
  <2>1. /\ runKeys' = runKeys \cup Updates(batch) /\ tick' = "idle"
        /\ UNCHANGED <<cursor, dropped>>
    BY <1>8 DEF Submit, EndTick
  <2>2. \A b \in Bill : batch[b] # Absent => <<b, batch[b]>> \in Updates(batch)
    BY <1>2, UpdatesTyped DEF TypeOK
  <2>3. QED
    BY <1>1, <2>1, <2>2 DEF CursorHonest, LoadedHonest
<1>9. CASE TickFails
  <2>1. /\ tick' = "idle" /\ UNCHANGED <<cursor, runKeys>> /\ dropped \subseteq dropped'
        /\ tick = "saved" => Updates(batch) \subseteq runKeys \cup dropped'
    BY <1>9 DEF TickFails, EndTick, runVars
  <2>2. \A b \in Bill : batch[b] # Absent => <<b, batch[b]>> \in Updates(batch)
    BY <1>2, UpdatesTyped DEF TypeOK
  <2>3. QED
    BY <1>1, <2>1, <2>2 DEF CursorHonest, LoadedHonest
<1>10. CASE UNCHANGED vars
  BY <1>3, <1>10 DEF vars, sensorVars, runVars
<1>11. QED
  BY <1>4, <1>5, <1>6, <1>7, <1>8, <1>9, <1>10 DEF Next

\* A bill is taken as seen only at a date for which a run was asked for, is about to
\* be, or was lost to a failure, however many discovery jobs write the manifest
\* under the ticks of the sensor.
THEOREM CursorsAreHonest == Spec => []CursorHonest
<1>1. Init => CursorInv
  BY TypeInit, DatedInit
  DEF Init, CursorInv, TypeInv, CursorHonest, LoadedHonest, Nothing
<1>2. CursorInv => CursorHonest
  BY DEF CursorInv
<1>3. QED
  BY <1>1, <1>2, CursorNext, PTL DEF Spec

-----------------------------------------------------------------------------
(* The watermark and the manifest, however many jobs overlap               *)

\* What a listing has started from, or the next one will.
Marks == {watermark} \cup {from[j] : j \in Job}

\* No mark is later than all bills.
Reached == \A w \in Marks : w = Absent \/ \E c \in Bill : w <= date[c]

\* Nothing that was written down of a bill is ahead of the API.
NotAhead ==
    \A b \in Bill :
        /\ manifest[b] <= date[b]
        /\ \A j \in Job : entries[j][b] <= date[b] /\ base[j][b] <= date[b]

\* A job that is not astray has read what it will replace, and its list is not behind it.
Informed ==
    \A j \in Job \ astray :
        /\ \A b \in Bill : entries[j][b] # Absent => manifest[b] <= entries[j][b]
        /\ phase[j] = "loaded" => base[j] = manifest

Offsets == \A j \in Job : phase[j] # "listing" => offset[j] = 0

\* The pages fetched have every bill up to the offset.
Fetched(j) ==
    \A b \in Listed(from[j]) : Rank(b, from[j]) < offset[j] => entries[j][b] = date[b]

\* What is older than the latest bill of a list is in the list.
NoGap(j) ==
    \A b \in Bill :
        /\ Known(date[b]) /\ date[b] >= from[j]
        /\ \E c \in Bill : date[b] < entries[j][c]
        => entries[j][b] = date[b]

Pages ==
    ~shifted => \A j \in Job : /\ phase[j] = "listing" => Fetched(j)
                               /\ phase[j] = "listed" => NoGap(j)

\* A bill that will not be listed again has got further than the list; a job that has
\* moved the watermark past it accounts for it when it fails.
Handed(b) ==
    \/ manifest[b] = date[b]
    \/ <<b, date[b]>> \in dropped
    \/ \E j \in Job : /\ phase[j] \in {"output", "loaded"}
                      /\ entries[j][b] = date[b]
                      /\ \E c \in Bill : date[b] < entries[j][c]

\* This holds of what is before any mark, since a job may put an old mark back.
HandedOver ==
    ~shifted => \A w \in Marks : \A b \in Bill :
                    Known(date[b]) /\ date[b] < w => Handed(b)

WatermarkInv == /\ TypeInv
                /\ Reached /\ NotAhead /\ Informed /\ Offsets
                /\ Pages /\ HandedOver

\* The numbers these compare.
LEMMA Numbers ==
  ASSUME TypeOK
  PROVE  /\ watermark \in Nat /\ \A w \in Marks : w \in Nat
         /\ \A b \in Bill : date[b] \in Nat /\ manifest[b] \in Nat /\ cursor[b] \in Nat
         /\ \A j \in Job : /\ from[j] \in Nat /\ offset[j] \in Nat
                           /\ \A b \in Bill : entries[j][b] \in Nat /\ base[j][b] \in Nat
BY DEF TypeOK, Dates, Date, Marks

LEMMA WatermarkInit == Init => WatermarkInv
<1> SUFFICES ASSUME Init PROVE WatermarkInv
  OBVIOUS
<1>1. TypeInv
  BY TypeInit, DatedInit DEF TypeInv
<1>2. Reached /\ NotAhead /\ Informed /\ Offsets
  BY DEF Init, Reached, Marks, NotAhead, Informed, Offsets, Nothing, Absent
<1>3. Pages /\ HandedOver
  BY DEF Init, Pages, HandedOver, Nothing, Absent, Known, Undated
<1>4. QED
  BY <1>1, <1>2, <1>3 DEF WatermarkInv

\* A rank counts the bills before, and the bill itself is not one of them.
LEMMA RankBelow ==
  ASSUME NEW since, NEW b \in Listed(since), \A c \in Bill : date[c] \in Nat
  PROVE  /\ Rank(b, since) \in Nat /\ Cardinality(Listed(since)) \in Nat
         /\ Rank(b, since) < Cardinality(Listed(since))
<1> DEFINE all == Listed(since)
           before == {c \in all : date[c] < date[b] \/ (date[c] = date[b] /\ c < b)}
<1>1. IsFiniteSet(Bill) /\ all \subseteq Bill /\ b \in Bill /\ b \in Nat
  BY DEF Listed
<1>2. IsFiniteSet(all)
  BY <1>1, FS_Subset
<1>3. before \in SUBSET all /\ b \notin before
  BY <1>1
<1>4. Rank(b, since) = Cardinality(before)
  BY DEF Rank
<1> HIDE DEF before, all
<1>5. /\ IsFiniteSet(before) /\ Cardinality(before) <= Cardinality(all)
      /\ Cardinality(all) = Cardinality(before) => all = before
  BY <1>2, <1>3, FS_Subset
<1>6. Cardinality(before) \in Nat /\ Cardinality(all) \in Nat
  BY <1>2, <1>5, FS_CardinalityType
<1>7. b \in all
  BY DEF all
<1>8. all # before
  BY <1>3, <1>7
<1>9. QED
  BY <1>4, <1>5, <1>6, <1>8 DEF all

\* A job's list stands as it stood while the API, the list and its start stay the same.
LEMMA SameList ==
  ASSUME NEW i \in Job, date' = date,
         from'[i] = from[i], offset'[i] = offset[i], entries'[i] = entries[i]
  PROVE  Fetched(i)' = Fetched(i) /\ NoGap(i)' = NoGap(i)
<1>1. Listed(from[i])' = Listed(from[i])
  BY DEF Listed
<1>2. \A b \in Bill : Rank(b, from[i])' = Rank(b, from[i])
  BY <1>1 DEF Rank
<1>3. \A b \in Listed(from[i]) : b \in Bill
  BY DEF Listed
<1>4. Fetched(i)' = Fetched(i)
  BY <1>1, <1>2, <1>3 DEF Fetched
<1>5. NoGap(i)' = NoGap(i)
  BY DEF NoGap
<1>6. QED
  BY <1>4, <1>5

\* Steps of others than the API and the jobs.
LEMMA OutsideStep ==
  ASSUME WatermarkInv, TypeInv', UNCHANGED <<apiVars, watermark, jobVars, manifest, astray>>,
         dropped \subseteq dropped'
  PROVE  WatermarkInv'
<1> USE DEF WatermarkInv, apiVars, jobVars
<1>1. Reached' /\ NotAhead' /\ Informed' /\ Offsets'
  BY DEF Reached, Marks, NotAhead, Informed, Offsets
<1>2. Pages'
  <2>1. \A i \in Job : Fetched(i)' = Fetched(i) /\ NoGap(i)' = NoGap(i)
    BY SameList
  <2>2. QED
    BY <2>1 DEF Pages
<1>3. HandedOver'
  BY DEF HandedOver, Handed, Marks
<1>4. QED
  BY <1>1, <1>2, <1>3

\* A bill that is published with a date is as late as all others, and so it is not
\* before a mark or the end of a list.
LEMMA PublishStep ==
  ASSUME WatermarkInv, TypeInv', NEW p \in Bill, Publish(p)
  PROVE  WatermarkInv'
<1> USE DEF WatermarkInv
<1>1. TypeOK /\ TypeOK'
  BY DEF TypeInv
<1>2. PICK d \in Date : /\ d > date[p]
                        /\ d = Undated \/ \A c \in Bill : d >= date[c]
                        /\ date' = [date EXCEPT ![p] = d]
  BY DEF Publish
<1>3. /\ d \in Nat /\ date'[p] = d
      /\ \A b \in Bill : b # p => date'[b] = date[b]
      /\ \A b \in Bill : date[b] <= date'[b] /\ date'[b] \in Nat
  BY <1>1, <1>2, Numbers DEF TypeOK, Dates, Date
<1>4. Known(d) => \A c \in Bill : d >= date[c]
  BY <1>2, <1>3 DEF Known, Undated
<1>5. /\ UNCHANGED <<watermark, phase, from, offset, entries, base, manifest,
                     dropped, astray>>
      /\ shifted' = (shifted \/ \E j \in Job : phase[j] = "listing" /\ offset[j] > 0)
  BY DEF Publish, jobVars
<1>6. Reached'
  <2> SUFFICES ASSUME NEW w \in Marks, w # Absent PROVE \E c \in Bill : w <= date'[c]
    BY <1>5 DEF Reached, Marks
  <2>1. PICK c \in Bill : w <= date[c]
    BY DEF Reached
  <2>2. w \in Nat /\ date[c] \in Nat /\ date'[c] \in Nat /\ date[c] <= date'[c]
    BY <1>1, <1>3, Numbers
  <2>3. QED
    BY <2>1, <2>2
<1>7. NotAhead'
  BY <1>1, <1>3, <1>5, Numbers DEF NotAhead
<1>8. Informed' /\ Offsets'
  BY <1>5 DEF Informed, Offsets
<1>9. Pages'
  <2> SUFFICES ASSUME ~shifted', NEW j \in Job
               PROVE  /\ phase[j] = "listing" => Fetched(j)'
                      /\ phase[j] = "listed" => NoGap(j)'
    BY <1>5 DEF Pages
  <2>1. CASE phase[j] = "listing"
    <3>1. offset'[j] = 0
      <4>1. ~(offset[j] > 0)
        BY <1>5, <2>1, Zenon
      <4>2. offset[j] \in Nat
        BY <1>1, Numbers
      <4>3. QED
        BY <1>5, <4>1, <4>2
    <3>2. \A b \in Listed(from[j])' : Rank(b, from[j])' \in Nat
      <4> SUFFICES ASSUME NEW b \in Listed(from[j])' PROVE Rank(b, from[j])' \in Nat
        OBVIOUS
      <4> DEFINE all == Listed(from[j])'
                 before == {c \in all : date'[c] < date'[b] \/ (date'[c] = date'[b] /\ c < b)}
      <4>1. all \subseteq Bill /\ before \in SUBSET Bill
        BY DEF Listed
      <4>2. IsFiniteSet(before)
        BY <4>1, FS_Subset
      <4>3. Rank(b, from[j])' = Cardinality(before)
        BY DEF Rank
      <4>4. QED
        BY <4>2, <4>3, FS_CardinalityType
    <3>3. QED
      BY <2>1, <3>1, <3>2 DEF Fetched
  <2>2. CASE phase[j] = "listed"
    <3>1. ~shifted /\ NoGap(j)
      BY <1>5, <2>2 DEF Pages
    <3>2. ASSUME NEW b \in Bill, Known(date'[b]), date'[b] >= from[j],
                 NEW c \in Bill, date'[b] < entries[j][c]
          PROVE  entries[j][b] = date'[b]
      <4>1. entries[j][c] <= date[c] /\ entries[j][c] \in Nat /\ date[c] \in Nat
        BY <1>1, Numbers DEF NotAhead
      <4>2. b # p
        BY <1>3, <1>4, <3>2, <4>1
      <4>3. QED
        BY <1>3, <3>1, <3>2, <4>2 DEF NoGap
    <3>3. QED
      BY <1>5, <2>2, <3>2 DEF NoGap
  <2>3. QED
    BY <2>1, <2>2
<1>10. HandedOver'
  <2> SUFFICES ASSUME ~shifted', NEW w \in Marks,
                      NEW b \in Bill, Known(date'[b]), date'[b] < w
               PROVE  Handed(b)'
    BY <1>5 DEF HandedOver, Marks
  <2>1. b # p
    <3>1. w \in Nat /\ \A c \in Bill : date[c] \in Nat
      BY <1>1, Numbers
    <3>2. CASE w = Absent
      BY <1>3, <3>2 DEF Absent, Known, Undated
    <3>3. CASE \E c \in Bill : w <= date[c]
      BY <1>3, <1>4, <3>1, <3>3
    <3>4. QED
      BY <3>2, <3>3 DEF Reached
  <2>2. Known(date[b]) /\ date[b] < w /\ ~shifted
    BY <1>3, <1>5, <2>1
  <2>3. Handed(b)
    BY <2>2 DEF HandedOver
  <2>4. QED
    BY <1>3, <1>5, <2>1, <2>3 DEF Handed
<1>11. QED
  BY <1>6, <1>7, <1>8, <1>9, <1>10

LEMMA StartStep ==
  ASSUME WatermarkInv, TypeInv', NEW j \in Job, StartJob(j)
  PROVE  WatermarkInv'
<1> USE DEF WatermarkInv
<1>1. TypeOK /\ TypeOK'
  BY DEF TypeInv
<1>2. PICK wm \in Date : /\ Read(watermark, Absent, wm)
                         /\ from' = [from EXCEPT ![j] = wm]
  BY DEF StartJob
<1>3. /\ phase[j] = "off" /\ phase' = [phase EXCEPT ![j] = "listing"]
      /\ UNCHANGED <<date, shifted, watermark, offset, entries, base, manifest, dropped,
                     astray>>
  BY DEF StartJob, apiVars
<1>4. /\ phase'[j] = "listing" /\ from'[j] = wm /\ offset[j] = 0
      /\ \A i \in Job : i # j => phase'[i] = phase[i] /\ from'[i] = from[i]
  BY <1>1, <1>2, <1>3 DEF TypeOK, Offsets
<1>5. \A w \in Marks' : w \in Marks \/ w = Absent
  BY <1>2, <1>3, <1>4 DEF Read, Marks
<1>6. Reached' /\ NotAhead'
  BY <1>3, <1>5 DEF Reached, NotAhead
<1>7. Informed' /\ Offsets'
  BY <1>3, <1>4 DEF Informed, Offsets
<1>8. Pages'
  <2> SUFFICES ASSUME ~shifted, NEW i \in Job
               PROVE  /\ phase'[i] = "listing" => Fetched(i)'
                      /\ phase'[i] = "listed" => NoGap(i)'
    BY <1>3 DEF Pages
  <2>1. CASE i # j
    <3>1. Fetched(i)' = Fetched(i) /\ NoGap(i)' = NoGap(i)
      BY <1>3, <1>4, <2>1, SameList
    <3>2. QED
      BY <1>3, <1>4, <2>1, <3>1 DEF Pages
  <2>2. CASE i = j
    <3> SUFFICES ASSUME NEW b \in Listed(from[j])'
                 PROVE  ~(Rank(b, from[j])' < offset[j])
      BY <1>3, <1>4, <2>2 DEF Fetched
    <3>1. date' = date /\ from'[j] = wm
      BY <1>3, <1>4
    <3>2. b \in Listed(wm)
      BY <3>1 DEF Listed
    <3>3. Rank(b, from[j])' = Rank(b, wm)
      BY <3>1 DEF Rank, Listed
    <3>4. Rank(b, wm) \in Nat
      BY <1>1, <3>2, RankBelow, Numbers
    <3>5. QED
      BY <1>4, <3>3, <3>4
  <2>3. QED
    BY <2>1, <2>2
<1>9. HandedOver'
  <2> SUFFICES ASSUME ~shifted, NEW w \in Marks',
                      NEW b \in Bill, Known(date[b]), date[b] < w
               PROVE  Handed(b)'
    BY <1>3 DEF HandedOver
  <2>1. date[b] \in Nat
    BY <1>1, Numbers
  <2>2. w # Absent
    BY <2>1 DEF Known, Absent, Undated
  <2>3. Handed(b)
    BY <1>5, <2>2 DEF HandedOver
  <2>4. QED
    BY <1>3, <1>4, <2>3 DEF Handed
<1>10. QED
  BY <1>6, <1>7, <1>8, <1>9

\* A page adds what ranks from its offset on; the last one leaves no bill out.
LEMMA PageStep ==
  ASSUME WatermarkInv, TypeInv', NEW j \in Job, FetchPage(j)
  PROVE  WatermarkInv'
<1> USE DEF WatermarkInv
<1>1. TypeOK
  BY DEF TypeInv
<1> DEFINE all == Listed(from[j])
           page == {b \in all : Rank(b, from[j]) \in offset[j]..offset[j] + PageSize - 1}
<1>2. /\ phase[j] = "listing"
      /\ entries' = [entries EXCEPT ![j] =
                        [b \in Bill |-> IF b \in page THEN date[b] ELSE @[b]]]
      /\ IF Cardinality(all) > offset[j] + PageSize
         THEN /\ offset' = [offset EXCEPT ![j] = @ + PageSize]
              /\ UNCHANGED phase
         ELSE /\ offset' = [offset EXCEPT ![j] = 0]
              /\ phase' = [phase EXCEPT ![j] = "listed"]
      /\ UNCHANGED <<date, shifted, watermark, from, base, manifest, dropped, astray>>
  BY DEF FetchPage, apiVars
<1>3. /\ \A b \in all : Rank(b, from[j]) \in Nat /\ Rank(b, from[j]) < Cardinality(all)
      /\ Cardinality(all) \in Nat \/ all = {}
  BY <1>1, RankBelow, Numbers
<1> HIDE DEF all
<1>4. /\ \A b \in Bill : entries'[j][b] = IF b \in page THEN date[b] ELSE entries[j][b]
      /\ \A i \in Job : i # j => entries'[i] = entries[i]
  BY <1>1, <1>2 DEF TypeOK
<1>5. /\ phase'[j] \in {"listing", "listed"}
      /\ \A i \in Job : i # j => phase'[i] = phase[i] /\ offset'[i] = offset[i]
  BY <1>1, <1>2 DEF TypeOK
<1>6. Reached'
  BY <1>2 DEF Reached, Marks
<1>7. \A i \in Job, b \in Bill : entries'[i][b] = entries[i][b] \/ entries'[i][b] = date[b]
  BY <1>4
<1>8. NotAhead' /\ Informed'
  <2>1. NotAhead'
    <3> SUFFICES ASSUME NEW i \in Job, NEW b \in Bill PROVE entries'[i][b] <= date[b]
      BY <1>2 DEF NotAhead
    <3>1. entries[i][b] <= date[b] /\ date[b] \in Nat
      BY <1>1, Numbers DEF NotAhead
    <3>2. QED
      BY <1>7, <3>1
  <2>2. Informed'
    <3> SUFFICES ASSUME NEW i \in Job \ astray
                 PROVE  /\ \A b \in Bill : entries'[i][b] # Absent => manifest[b] <= entries'[i][b]
                        /\ phase'[i] = "loaded" => base[i] = manifest
      BY <1>2 DEF Informed
    <3>1. \A b \in Bill : manifest[b] <= date[b]
      BY DEF NotAhead
    <3>2. \A b \in Bill : entries[i][b] # Absent => manifest[b] <= entries[i][b]
      BY DEF Informed
    <3>3. \A b \in Bill : entries'[i][b] # Absent => manifest[b] <= entries'[i][b]
      BY <1>7, <3>1, <3>2
    <3>4. phase'[i] = "loaded" => phase[i] = "loaded"
      BY <1>5
    <3>5. QED
      BY <3>3, <3>4 DEF Informed
  <2>3. QED
    BY <2>1, <2>2
<1>9. Offsets'
  BY <1>1, <1>2 DEF Offsets, TypeOK
<1>10. Pages'
  <2>1. ASSUME ~shifted, NEW i \in Job, i # j
        PROVE  /\ phase'[i] = "listing" => Fetched(i)'
               /\ phase'[i] = "listed" => NoGap(i)'
    <3>1. Fetched(i)' = Fetched(i) /\ NoGap(i)' = NoGap(i)
      BY <1>2, <1>4, <1>5, <2>1, SameList
    <3>2. QED
      BY <1>5, <2>1, <3>1 DEF Pages
  <2>2. ASSUME ~shifted
        PROVE  /\ phase'[j] = "listing" => Fetched(j)'
               /\ phase'[j] = "listed" => NoGap(j)'
    <3>1. Fetched(j)
      BY <1>2, <2>2 DEF Pages
    <3>2. offset[j] \in Nat /\ PageSize \in Nat
      BY <1>1, Numbers
    <3>3. \A b \in all : Rank(b, from[j]) < offset[j] + PageSize =>
              Rank(b, from[j]) < offset[j] \/ b \in page
      BY <1>3, <3>2
    <3>4. \A b \in all : b \in Bill
      BY DEF all, Listed
    <3>5. \A b \in all : Rank(b, from[j]) < offset[j] + PageSize => entries'[j][b] = date[b]
      <4> HIDE DEF page
      <4>1. QED
        BY <1>4, <3>1, <3>3, <3>4 DEF Fetched, all
    <3>6. CASE Cardinality(all) > offset[j] + PageSize
      <4>1. /\ phase'[j] = "listing" /\ offset'[j] = offset[j] + PageSize
            /\ date' = date /\ from' = from
        BY <1>1, <1>2, <3>6 DEF TypeOK
      <4>2. \A b \in Bill : /\ b \in Listed(from[j])' <=> b \in all
                            /\ Rank(b, from[j])' = Rank(b, from[j])
        BY <4>1 DEF Listed, Rank, all
      <4>3. Fetched(j)'
        BY <3>4, <3>5, <4>1, <4>2 DEF Fetched, Listed
      <4>4. QED
        BY <4>1, <4>3
    <3>7. CASE ~(Cardinality(all) > offset[j] + PageSize)
      <4>1. phase'[j] = "listed" /\ date' = date /\ from' = from
        BY <1>1, <1>2, <3>7 DEF TypeOK
      <4>2. \A b \in all : Rank(b, from[j]) < offset[j] + PageSize
        BY <1>3, <3>2, <3>7
      <4>3. \A b \in Bill : Known(date[b]) /\ date[b] >= from[j] => b \in all
        BY <1>1, Numbers DEF all, Listed, Known, Absent, Undated
      <4>4. NoGap(j)'
        BY <3>5, <4>1, <4>2, <4>3 DEF NoGap
      <4>5. QED
        BY <4>1, <4>4
    <3>8. QED
      BY <3>6, <3>7
  <2>3. QED
    BY <1>2, <2>1, <2>2 DEF Pages
<1>11. HandedOver'
  <2>1. \A b \in Bill : Handed(b) => Handed(b)'
    BY <1>2, <1>4, <1>5 DEF Handed
  <2>2. QED
    BY <1>2, <2>1 DEF HandedOver, Marks
<1>12. QED
  BY <1>6, <1>8, <1>9, <1>10, <1>11

\* What the new watermark passes is before the mark that the job has listed from, or in
\* the list, which counts from this step on.
LEMMA SaveStep ==
  ASSUME WatermarkInv, TypeInv', NEW j \in Job, SaveWatermark(j)
  PROVE  WatermarkInv'
<1> USE DEF WatermarkInv
<1>1. TypeOK /\ TypeOK'
  BY DEF TypeInv
<1>2. /\ phase[j] = "listed" /\ phase' = [phase EXCEPT ![j] = "output"]
      /\ watermark' = watermark \/ watermark' = Latest(j)
      /\ from' = [from EXCEPT ![j] = Absent]
      /\ UNCHANGED <<date, shifted, offset, entries, base, manifest, dropped, astray>>
  BY DEF SaveWatermark, MoveWatermark, apiVars
<1>3. /\ phase'[j] = "output" /\ from'[j] = Absent
      /\ \A i \in Job : i # j => phase'[i] = phase[i] /\ from'[i] = from[i]
  BY <1>1, <1>2 DEF TypeOK
<1>4. Latest(j) = from[j] \/ \E c \in Bill : Latest(j) = entries[j][c]
  <2> DEFINE known == {d \in {entries[j][b] : b \in Bill} : Known(d)}
  <2>1. CASE known = {}
    BY <1>1, <2>1, LatestIs
  <2>2. CASE known # {}
    BY <1>1, <2>2, LatestIs
  <2>3. QED
    BY <2>1, <2>2
<1>5. \A w \in Marks' : \/ w \in Marks \/ w = Absent
                        \/ \E c \in Bill : w = entries[j][c]
  <2>1. from[j] \in Marks /\ watermark \in Marks
    BY DEF Marks
  <2>2. watermark' \in Marks \/ \E c \in Bill : watermark' = entries[j][c]
    BY <1>2, <1>4, <2>1
  <2>3. \A i \in Job : from'[i] = Absent \/ from'[i] \in Marks
    BY <1>3 DEF Marks
  <2>4. QED
    BY <2>2, <2>3 DEF Marks
<1>6. Reached'
  <2> SUFFICES ASSUME NEW w \in Marks', w # Absent PROVE \E c \in Bill : w <= date[c]
    BY <1>2 DEF Reached
  <2>1. CASE w \in Marks
    BY <2>1 DEF Reached
  <2>2. CASE \E c \in Bill : w = entries[j][c]
    BY <2>2 DEF NotAhead
  <2>3. QED
    BY <1>5, <2>1, <2>2
<1>7. NotAhead' /\ Informed' /\ Offsets'
  BY <1>2, <1>3 DEF NotAhead, Informed, Offsets
<1>8. Pages'
  <2>1. ASSUME NEW i \in Job, i # j
        PROVE  Fetched(i)' = Fetched(i) /\ NoGap(i)' = NoGap(i)
    BY <1>2, <1>3, <2>1, SameList
  <2>2. QED
    BY <1>2, <1>3, <2>1 DEF Pages
<1>9. HandedOver'
  <2> SUFFICES ASSUME ~shifted, NEW w \in Marks',
                      NEW b \in Bill, Known(date[b]), date[b] < w
               PROVE  Handed(b)'
    BY <1>2 DEF HandedOver
  <2>1. Handed(b) => Handed(b)'
    BY <1>2, <1>3 DEF Handed
  <2>2. /\ date[b] \in Nat /\ from[j] \in Nat
        /\ \A c \in Bill : entries[j][c] \in Nat
    BY <1>1, Numbers
  <2>3. CASE w \in Marks
    BY <2>1, <2>3 DEF HandedOver
  <2>4. CASE date[b] < from[j]
    <3>1. from[j] \in Marks
      BY DEF Marks
    <3>2. QED
      BY <2>1, <2>4, <3>1 DEF HandedOver
  <2>5. CASE date[b] >= from[j] /\ \E c \in Bill : w = entries[j][c]
    <3>1. PICK c \in Bill : date[b] < entries[j][c]
      BY <2>5
    <3>2. NoGap(j)
      BY <1>2 DEF Pages
    <3>3. entries[j][b] = date[b]
      BY <2>5, <3>1, <3>2 DEF NoGap
    <3>4. QED
      BY <1>2, <1>3, <3>1, <3>3 DEF Handed
  <2>6. w # Absent
    BY <2>2 DEF Known, Absent, Undated
  <2>7. QED
    BY <1>5, <2>2, <2>3, <2>4, <2>5, <2>6
<1>10. QED
  BY <1>6, <1>7, <1>8, <1>9

LEMMA LoadStep ==
  ASSUME WatermarkInv, TypeInv', NEW j \in Job, LoadManifest(j)
  PROVE  WatermarkInv'
<1> USE DEF WatermarkInv
<1>1. TypeOK /\ TypeOK'
  BY DEF TypeInv
<1>2. PICK held \in {manifest, Nothing} :
        /\ base' = [base EXCEPT ![j] = held]
        /\ astray' = IF held = manifest THEN astray ELSE astray \cup {j}
  BY DEF LoadManifest
<1>3. /\ phase[j] = "output" /\ phase' = [phase EXCEPT ![j] = "loaded"]
      /\ UNCHANGED <<date, shifted, watermark, from, offset, entries, manifest, dropped>>
  BY DEF LoadManifest, apiVars
<1>4. /\ phase'[j] = "loaded" /\ base'[j] = held
      /\ \A i \in Job : i # j => phase'[i] = phase[i] /\ base'[i] = base[i]
  BY <1>1, <1>2, <1>3 DEF TypeOK
<1>5. Reached' /\ Offsets'
  BY <1>3, <1>4 DEF Reached, Marks, Offsets
<1>6. NotAhead'
  <2>1. \A b \in Bill : held[b] <= date[b]
    <3>1. \A b \in Bill : Nothing[b] = 0 /\ date[b] \in Nat /\ manifest[b] <= date[b]
      BY <1>1, Numbers DEF NotAhead, Nothing, Absent
    <3>2. QED
      BY <3>1
  <2>2. QED
    BY <1>3, <1>4, <2>1 DEF NotAhead
<1>7. Informed'
  <2> SUFFICES ASSUME NEW i \in Job \ astray'
               PROVE  /\ \A b \in Bill : entries[i][b] # Absent => manifest[b] <= entries[i][b]
                      /\ phase'[i] = "loaded" => base'[i] = manifest
    BY <1>3 DEF Informed
  <2>1. i \in Job \ astray
    BY <1>2
  <2>2. \A b \in Bill : entries[i][b] # Absent => manifest[b] <= entries[i][b]
    BY <2>1 DEF Informed
  <2>3. CASE i = j
    <3>1. held = manifest
      BY <1>2, <2>3
    <3>2. QED
      BY <1>4, <2>2, <2>3, <3>1
  <2>4. CASE i # j
    BY <1>4, <2>1, <2>2, <2>4 DEF Informed
  <2>5. QED
    BY <2>3, <2>4
<1>8. Pages'
  <2>1. \A i \in Job : Fetched(i)' = Fetched(i) /\ NoGap(i)' = NoGap(i)
    BY <1>3, SameList
  <2>2. QED
    BY <1>3, <1>4, <2>1 DEF Pages
<1>9. HandedOver'
  <2>1. \A b \in Bill : Handed(b) => Handed(b)'
    BY <1>3, <1>4 DEF Handed
  <2>2. QED
    BY <1>3, <2>1 DEF HandedOver, Marks
<1>10. QED
  BY <1>5, <1>6, <1>7, <1>8, <1>9

LEMMA EndJobEnds ==
  ASSUME TypeOK, NEW j \in Job, EndJob(j)
  PROVE  /\ phase'[j] = "off" /\ from'[j] = Absent /\ offset'[j] = 0
         /\ \A b \in Bill : entries'[j][b] = Absent /\ base'[j][b] = Absent
         /\ \A i \in Job : i # j => /\ phase'[i] = phase[i] /\ from'[i] = from[i]
                                    /\ offset'[i] = offset[i] /\ entries'[i] = entries[i]
                                    /\ base'[i] = base[i]
BY DEF EndJob, TypeOK, Nothing

\* What the end of a job, with a put or without one, leaves as it was.
LEMMA EndStep ==
  ASSUME WatermarkInv, NEW j \in Job, EndJob(j), UNCHANGED <<date, shifted, watermark>>,
         \A b \in Bill : manifest'[b] <= date[b]
  PROVE  Reached' /\ NotAhead' /\ Offsets' /\ Pages'
<1> USE DEF WatermarkInv
<1>1. TypeOK
  BY DEF TypeInv
<1>2. /\ phase'[j] = "off" /\ from'[j] = Absent /\ offset'[j] = 0
      /\ \A b \in Bill : entries'[j][b] = Absent /\ base'[j][b] = Absent
      /\ \A i \in Job : i # j => /\ phase'[i] = phase[i] /\ from'[i] = from[i]
                                 /\ offset'[i] = offset[i] /\ entries'[i] = entries[i]
                                 /\ base'[i] = base[i]
  BY <1>1, EndJobEnds
<1>3. Reached'
  BY <1>2 DEF Reached, Marks
<1>4. NotAhead'
  <2>1. \A b \in Bill : Absent <= date[b]
    BY <1>1, Numbers DEF Absent
  <2>2. \A i \in Job, b \in Bill : entries'[i][b] <= date[b] /\ base'[i][b] <= date[b]
    BY <1>2, <2>1 DEF NotAhead
  <2>3. QED
    BY <2>2 DEF NotAhead
<1>5. Offsets'
  BY <1>2 DEF Offsets
<1>6. Pages'
  <2>1. ASSUME NEW i \in Job, i # j
        PROVE  Fetched(i)' = Fetched(i) /\ NoGap(i)' = NoGap(i)
    BY <1>2, <2>1, SameList
  <2>2. QED
    BY <1>2, <2>1 DEF Pages
<1>7. QED
  BY <1>3, <1>4, <1>5, <1>6

\* What a put takes back was dropped by it, and only a job that is astray does so.
LEMMA PutStep ==
  ASSUME WatermarkInv, TypeInv', NEW j \in Job, PutManifest(j)
  PROVE  /\ WatermarkInv'
         /\ j \notin astray => \A b \in Bill : manifest'[b] >= manifest[b]
<1> USE DEF WatermarkInv
<1>1. TypeOK /\ TypeOK'
  BY DEF TypeInv
<1>2. /\ phase[j] = "loaded" /\ manifest' = MergedWith(base[j], entries[j])
      /\ dropped' = dropped \cup Behind(j)
      /\ astray' = (astray \cup {i \in Job : entries[i] # Nothing \/ phase[i] = "loaded"})
                      \ {j}
      /\ EndJob(j)
      /\ UNCHANGED <<date, shifted, watermark>>
  BY DEF PutManifest, Merge, apiVars
<1>3. /\ phase'[j] = "off" /\ from'[j] = Absent
      /\ \A b \in Bill : entries'[j][b] = Absent
      /\ \A i \in Job : i # j => /\ phase'[i] = phase[i] /\ from'[i] = from[i]
                                 /\ entries'[i] = entries[i]
  BY <1>1, <1>2, EndJobEnds
<1>4. \A b \in Bill : manifest'[b] = IF entries[j][b] # Absent THEN entries[j][b]
                                                               ELSE base[j][b]
  BY <1>2 DEF MergedWith
<1>5. \A b \in Bill : /\ date[b] \in Nat /\ manifest[b] \in Nat
                      /\ entries[j][b] \in Nat /\ base[j][b] \in Nat
  BY <1>1, Numbers
<1>6. \A b \in Bill : entries[j][b] <= date[b] /\ base[j][b] <= date[b]
  BY DEF NotAhead
<1>7. Reached' /\ NotAhead' /\ Offsets' /\ Pages'
  BY <1>2, <1>4, <1>6, EndStep
<1>8. Informed'
  <2> SUFFICES ASSUME NEW i \in Job \ astray'
               PROVE  /\ \A b \in Bill : entries'[i][b] = Absent
                      /\ phase'[i] # "loaded"
    BY DEF Informed
  <2>1. CASE i = j
    BY <1>3, <2>1
  <2>2. CASE i # j
    <3>1. entries[i] = Nothing /\ phase[i] # "loaded"
      BY <1>2, <2>2
    <3>2. QED
      BY <1>3, <2>2, <3>1 DEF Nothing
  <2>3. QED
    BY <2>1, <2>2
<1>9. HandedOver'
  <2> SUFFICES ASSUME ~shifted, NEW w \in Marks',
                      NEW b \in Bill, Known(date[b]), date[b] < w
               PROVE  Handed(b)'
    BY <1>2 DEF HandedOver
  <2>1. date[b] \in Nat /\ date[b] # 0 /\ w # Absent
    BY <1>5 DEF Known, Absent, Undated
  <2>2. w \in Marks
    BY <1>2, <1>3, <2>1 DEF Marks
  <2>3. Handed(b)
    BY <2>2 DEF HandedOver
  <2>4. CASE entries[j][b] = date[b]
    BY <1>2, <1>4, <2>1, <2>4 DEF Handed, Absent
  <2>5. CASE manifest[b] = date[b] /\ entries[j][b] # date[b]
    <3>1. CASE manifest'[b] = date[b]
      BY <1>2, <3>1 DEF Handed
    <3>2. CASE manifest'[b] # date[b]
      <4>1. <<b, date[b]>> \in Updates(manifest)
        BY <1>1, <2>1, <2>5, UpdatesTyped DEF TypeOK, Absent
      <4>2. entries[j][b] < date[b]
        BY <1>5, <1>6, <2>5
      <4>3. entries[j][b] # Absent \/ base[j][b] < date[b]
        BY <1>4, <1>5, <1>6, <3>2
      <4>4. <<b, date[b]>> \in Behind(j)
        BY <4>1, <4>2, <4>3 DEF Behind
      <4>5. QED
        BY <1>2, <4>4 DEF Handed
    <3>3. QED
      BY <3>1, <3>2
  <2>6. CASE <<b, date[b]>> \in dropped
    BY <1>2, <2>6 DEF Handed
  <2>7. CASE \E i \in Job \ {j} : /\ phase[i] \in {"output", "loaded"}
                                  /\ entries[i][b] = date[b]
                                  /\ \E c \in Bill : date[b] < entries[i][c]
    BY <1>2, <1>3, <2>7 DEF Handed
  <2>8. QED
    BY <2>3, <2>4, <2>5, <2>6, <2>7 DEF Handed
<1>10. ASSUME j \notin astray, NEW b \in Bill PROVE manifest'[b] >= manifest[b]
  <2>1. /\ base[j] = manifest
        /\ entries[j][b] # Absent => manifest[b] <= entries[j][b]
    BY <1>2, <1>10 DEF Informed
  <2>2. QED
    BY <1>4, <1>5, <2>1
<1>11. QED
  BY <1>7, <1>8, <1>9, <1>10

\* The job that fails drops what only its list has and its watermark has passed.
LEMMA FailStep ==
  ASSUME WatermarkInv, TypeInv', NEW j \in Job, JobFails(j)
  PROVE  WatermarkInv'
<1> USE DEF WatermarkInv
<1>1. TypeOK /\ TypeOK'
  BY DEF TypeInv
<1>2. /\ dropped \subseteq dropped'
      /\ phase[j] \in {"output", "loaded"} =>
            \A u \in Updates(entries[j]) :
                /\ \E c \in Bill : u[2] < entries[j][c]
                /\ manifest[u[1]] # u[2]
                => u \in dropped'
      /\ astray' = astray \ {j} /\ EndJob(j)
      /\ UNCHANGED <<date, shifted, watermark, manifest>>
  BY DEF JobFails, apiVars
<1>3. /\ phase'[j] = "off" /\ from'[j] = Absent
      /\ \A b \in Bill : entries'[j][b] = Absent
      /\ \A i \in Job : i # j => /\ phase'[i] = phase[i] /\ from'[i] = from[i]
                                 /\ entries'[i] = entries[i] /\ base'[i] = base[i]
  BY <1>1, <1>2, EndJobEnds
<1>4. Reached' /\ NotAhead' /\ Offsets' /\ Pages'
  <2>1. \A b \in Bill : manifest'[b] <= date[b]
    BY <1>2 DEF NotAhead
  <2>2. QED
    BY <1>2, <2>1, EndStep
<1>5. Informed'
  <2> SUFFICES ASSUME NEW i \in Job \ astray'
               PROVE  /\ \A b \in Bill : entries'[i][b] # Absent => manifest[b] <= entries'[i][b]
                      /\ phase'[i] = "loaded" => base'[i] = manifest
    BY <1>2 DEF Informed
  <2>1. CASE i = j
    BY <1>3, <2>1
  <2>2. CASE i # j
    BY <1>2, <1>3, <2>2 DEF Informed
  <2>3. QED
    BY <2>1, <2>2
<1>6. HandedOver'
  <2> SUFFICES ASSUME ~shifted, NEW w \in Marks',
                      NEW b \in Bill, Known(date[b]), date[b] < w
               PROVE  Handed(b)'
    BY <1>2 DEF HandedOver
  <2>1. date[b] \in Nat
    BY <1>1, Numbers
  <2>2. date[b] # Absent /\ w # Absent
    BY <2>1 DEF Known, Absent, Undated
  <2>3. w \in Marks
    BY <1>2, <1>3, <2>2 DEF Marks
  <2>4. Handed(b)
    BY <2>3 DEF HandedOver
  <2>5. CASE manifest[b] = date[b]
    BY <1>2, <2>5 DEF Handed
  <2>6. CASE <<b, date[b]>> \in dropped
    BY <1>2, <2>6 DEF Handed
  <2>7. CASE /\ manifest[b] # date[b]
             /\ phase[j] \in {"output", "loaded"} /\ entries[j][b] = date[b]
             /\ \E c \in Bill : date[b] < entries[j][c]
    <3>1. <<b, date[b]>> \in Updates(entries[j])
      BY <1>1, <2>2, <2>7, UpdatesTyped DEF TypeOK
    <3>2. <<b, date[b]>> \in dropped'
      BY <1>2, <2>7, <3>1
    <3>3. QED
      BY <1>2, <3>2 DEF Handed
  <2>8. CASE \E i \in Job \ {j} : /\ phase[i] \in {"output", "loaded"}
                                  /\ entries[i][b] = date[b]
                                  /\ \E c \in Bill : date[b] < entries[i][c]
    BY <1>2, <1>3, <2>8 DEF Handed
  <2>9. QED
    BY <2>4, <2>5, <2>6, <2>7, <2>8 DEF Handed
<1>7. QED
  BY <1>4, <1>5, <1>6

LEMMA WatermarkNext == WatermarkInv /\ [Next]_vars => WatermarkInv'
<1> SUFFICES ASSUME WatermarkInv, [Next]_vars PROVE WatermarkInv'
  OBVIOUS
<1>1. TypeInv'
  BY TypeNext DEF WatermarkInv
<1>2. ASSUME NEW b \in Bill, Publish(b) PROVE WatermarkInv'
  BY <1>1, <1>2, PublishStep
<1>3. ASSUME NEW j \in Job, StartJob(j) \/ JobStep(j) \/ JobFails(j)
      PROVE  WatermarkInv'
  BY <1>1, <1>3, StartStep, PageStep, SaveStep, LoadStep, PutStep, FailStep DEF JobStep
<1>4. ASSUME TickBegin \/ SaveCursor \/ Submit \/ TickFails \/ RunTail \/ RunFails
      PROVE  WatermarkInv'
  <2>1. /\ UNCHANGED <<apiVars, watermark, jobVars, manifest, astray>>
        /\ dropped \subseteq dropped'
    BY <1>4 DEF TickBegin, SaveCursor, Submit, TickFails, RunTail, RunFails
  <2>2. QED
    BY <1>1, <2>1, OutsideStep
<1>5. CASE UNCHANGED vars
  BY <1>1, <1>5, OutsideStep DEF vars
<1>6. QED
  BY <1>2, <1>3, <1>4, <1>5 DEF Next

LEMMA WatermarkHolds == WatermarkInv => WatermarkCovers
<1> SUFFICES ASSUME WatermarkInv, ~shifted,
                    NEW b \in Bill, Known(date[b]), date[b] < watermark
             PROVE  \/ manifest[b] = date[b]
                    \/ <<b, date[b]>> \in dropped
                    \/ \E j \in Job : /\ phase[j] \in {"output", "loaded"}
                                      /\ entries[j][b] = date[b]
  BY DEF WatermarkCovers
<1>1. Handed(b)
  BY DEF WatermarkInv, HandedOver, Marks
<1>2. QED
  BY <1>1 DEF Handed

\* What lies before the watermark, and so will not be listed again, is in the manifest
\* or in the list of a job that is about to put it there, or a failure or an overtaken
\* put took it away: for any number of overlapping jobs, that move the watermark to and
\* fro, as long as the API does not shift the pages of a listing.
THEOREM WatermarksCover == Spec => []WatermarkCovers
BY WatermarkInit, WatermarkNext, WatermarkHolds, PTL DEF Spec

\* Whatever fails and however many jobs overlap, only a job that could not read the
\* manifest, or that another one has overtaken with its put, takes an update back.
THEOREM UpdatesStay == Spec => NoUpdateUndone
<1> DEFINE Kept == \A b \in Bill :
                      manifest'[b] < manifest[b] =>
                          \E j \in astray : phase[j] = "loaded" /\ phase'[j] = "off"
<1>1. WatermarkInv /\ [Next]_vars => [Kept]_vars
  <2> SUFFICES ASSUME WatermarkInv, Next PROVE Kept
    OBVIOUS
  <2>1. TypeInv' /\ \A b \in Bill : manifest[b] \in Nat /\ manifest'[b] \in Nat
    BY TypeNext, Numbers DEF WatermarkInv, TypeInv, TypeOK, Dates, Date
  <2>2. ASSUME NEW j \in Job, PutManifest(j) PROVE Kept
    <3>1. phase[j] = "loaded" /\ phase'[j] = "off"
      BY <2>2, EndJobEnds DEF PutManifest, WatermarkInv, TypeInv
    <3>2. CASE j \in astray
      BY <3>1, <3>2
    <3>3. CASE j \notin astray
      <4>1. \A b \in Bill : manifest'[b] >= manifest[b]
        BY <2>1, <2>2, <3>3, PutStep
      <4>2. QED
        BY <2>1, <4>1
    <3>4. QED
      BY <3>2, <3>3
  <2>3. ASSUME ~ \E j \in Job : PutManifest(j) PROVE Kept
    <3>1. UNCHANGED manifest
      BY <2>3 DEF Next, Publish, StartJob, JobStep, FetchPage, SaveWatermark,
                  LoadManifest, JobFails, TickBegin, SaveCursor, Submit, TickFails,
                  RunTail, RunFails
    <3>2. QED
      BY <2>1, <3>1
  <2>4. QED
    BY <2>2, <2>3
<1>2. QED
  BY <1>1, WatermarkInit, WatermarkNext, PTL DEF Spec, NoUpdateUndone
=============================================================================
