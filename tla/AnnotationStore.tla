-------------------------- MODULE AnnotationStore --------------------------
(***************************************************************************)
(* The reviewers' annotations and speaker names of the viewer, kept in     *)
(* PostgreSQL (services/annotation_store.py, routes/annotations.py).  The  *)
(* routes are coroutines that do not yield, so requests are served one at  *)
(* a time; the connection commits each statement by itself, so a request   *)
(* of several statements that fails leaves the first ones done, and the    *)
(* reviewer, who was told it failed, repeats it.                           *)
(***************************************************************************)
EXTENDS Naturals, FiniteSets

CONSTANTS
    Item,       \* the annotations reviewers have to make
    Label,      \* the speakers of a document
    Profile,    \* speaker profiles over all documents
    ProfileOf,  \* speaker_profile_members: the profile of each speaker
    Name,       \* names a reviewer may give
    Unnamed,    \* no name
    MaxAsked,   \* bound on the requests
    MaxErrors   \* bound on the statements that fail

ASSUME ProfileAssumption == /\ ProfileOf \in [Label -> Profile]
                            /\ Unnamed \notin Name
                            /\ IsFiniteSet(Item)
ASSUME AskedAssumption == MaxAsked \in Nat /\ MaxErrors \in Nat

VARIABLES
    stored,     \* how many rows of viewer_annotations each item has
    mapping,    \* viewer_speaker_mappings of the document
    display,    \* display_name of each profile
    request,    \* the kind of request being served
    left,       \* its items, or labels, still to do
    upserted,   \* the label whose mapping is in and whose profile is not yet
    newName,    \* the name it gives
    answer,     \* history: what the last answers said of each item
    unsure,     \* history: how often a request with the item has failed
    asked,
    errors

annotationVars == <<stored, mapping, display, request, left, upserted, newName,
                    answer, unsure, asked, errors>>

AnnotationInit ==
    /\ stored = [i \in Item |-> 0]
    /\ mapping = [l \in Label |-> Unnamed]
    /\ display = [p \in Profile |-> Unnamed]
    /\ request = "none"
    /\ left = {}
    /\ upserted = {}
    /\ newName = Unnamed
    /\ answer = [i \in Item |-> "none"]
    /\ unsure = [i \in Item |-> 0]
    /\ asked = 0 /\ errors = 0

Asks(kind, S) == /\ request = "none"
                 /\ asked < MaxAsked /\ asked' = asked + 1
                 /\ request' = kind
                 /\ left' = S
                 /\ UNCHANGED <<stored, mapping, display, upserted, errors>>

\* create_annotation and bulk_create_annotations: the reviewer submits items
\* that were not acknowledged before; each submission gets a fresh row id.
CreateAnnotations(S) ==
    /\ Asks("create", S)
    /\ \A i \in S : answer[i] # "created"
    /\ answer' = [i \in Item |-> IF i \in S THEN "sent" ELSE answer[i]]
    /\ UNCHANGED <<newName, unsure>>

\* One INSERT, committed at once.
InsertRow(i) ==
    /\ request = "create"
    /\ i \in left
    /\ stored' = [stored EXCEPT ![i] = @ + 1]
    /\ left' = left \ {i}
    /\ UNCHANGED <<mapping, display, request, upserted, newName, answer, unsure,
                   asked, errors>>

\* delete_annotation of one of the rows that was acknowledged.
DeleteAnnotation(i) ==
    /\ answer[i] = "created"
    /\ request = "none"
    /\ asked < MaxAsked /\ asked' = asked + 1
    /\ stored' = [stored EXCEPT ![i] = @ - 1]
    /\ answer' = [answer EXCEPT ![i] = "none"]
    /\ UNCHANGED <<mapping, display, request, left, upserted, newName, unsure, errors>>

\* save_speaker_mappings gives each label of the request its name.
SaveMappings(S, n) ==
    /\ Asks("names", S)
    /\ newName' = n
    /\ UNCHANGED <<answer, unsure>>

UpsertMapping(l) ==
    /\ request = "names"
    /\ upserted = {}
    /\ l \in left
    /\ mapping' = [mapping EXCEPT ![l] = newName]
    /\ upserted' = {l}
    /\ UNCHANGED <<stored, display, request, left, newName, answer, unsure, asked, errors>>

\* Variant: a name is given to profiles that have none.
OnlyUnnamed(P) == {p \in P : display[p] = Unnamed}

Renamed(P) == P

\* The name goes on to the profile of that speaker.
UpdateProfile ==
    /\ upserted # {}
    /\ display' = [p \in Profile |->
                     IF p \in Renamed({ProfileOf[l] : l \in upserted}) THEN newName
                     ELSE display[p]]
    /\ left' = left \ upserted
    /\ upserted' = {}
    /\ UNCHANGED <<stored, mapping, request, newName, answer, unsure, asked, errors>>

\* What a request that failed is answered with: the default of _safe.
OnError == "failed"

Answers(says) ==
    /\ request' = "none"
    /\ left' = {}
    /\ upserted' = {}
    /\ newName' = Unnamed
    /\ answer' = [i \in Item |-> IF answer[i] = "sent" THEN says ELSE answer[i]]
    /\ UNCHANGED <<stored, mapping, display, asked>>

RequestDone ==
    /\ request # "none" /\ left = {}
    /\ Answers("created")
    /\ UNCHANGED <<unsure, errors>>

\* A statement raises, or the connection is lost: _safe closes it and the
\* request is answered with its default; the next request opens a new one.
StatementFails ==
    /\ request # "none"
    /\ errors < MaxErrors /\ errors' = errors + 1
    /\ unsure' = [i \in Item |-> IF answer[i] = "sent" THEN unsure[i] + 1 ELSE unsure[i]]
    /\ Answers(OnError)

AnnotationNext ==
    \/ \E S \in SUBSET Item \ {{}} : CreateAnnotations(S)
    \/ \E i \in Item : InsertRow(i) \/ DeleteAnnotation(i)
    \/ \E S \in SUBSET Label \ {{}}, n \in Name : SaveMappings(S, n)
    \/ \E l \in Label : UpsertMapping(l)
    \/ UpdateProfile \/ RequestDone \/ StatementFails

AnnotationSpec == AnnotationInit /\ [][AnnotationNext]_annotationVars

-----------------------------------------------------------------------------
(* Properties                                                              *)

AnnotationTypeOK ==
    /\ stored \in [Item -> Nat]
    /\ mapping \in [Label -> Name \cup {Unnamed}]
    /\ display \in [Profile -> Name \cup {Unnamed}]
    /\ request \in {"none", "create", "names"}
    /\ left \subseteq Item \cup Label
    /\ upserted \subseteq Label
    /\ newName \in Name \cup {Unnamed}
    /\ answer \in [Item -> {"none", "sent", "failed", "created"}]
    /\ unsure \in [Item -> Nat]
    /\ asked \in 0..MaxAsked /\ errors \in 0..MaxErrors

\* A reviewer who repeats what has failed has each annotation stored, and once
\* more at most for each request with it that failed.
AnnotatedOnce ==
    \A i \in Item : /\ answer[i] = "created" => stored[i] >= 1
                    /\ stored[i] <= 1 + unsure[i]

\* A profile shows the name one of its speakers was last given, as long as no
\* statement has failed in between.
NamesAgree ==
    errors = 0 /\ request = "none" =>
        \A p \in Profile :
            LET spoken == {l \in Label : ProfileOf[l] = p /\ mapping[l] # Unnamed} IN
            spoken # {} => \E l \in spoken : mapping[l] = display[p]
=============================================================================
