------------------------- MODULE ProcessingTracker -------------------------
(***************************************************************************)
(* ProcessingTracker of dagster_io/processing_tracker.py: the content      *)
(* hashes of the chunks that need not be processed again, one JSON object  *)
(* that each session loads at its start and puts back as a whole.          *)
(***************************************************************************)
EXTENDS Callers

CONSTANT Hash   \* content hashes of chunks

VARIABLES
    saved,      \* the hashes in the object
    tracking,   \* the callers that have a tracker
    hashes,     \* its hashes, and whether there are new ones
    dirty,
    recorded,   \* history: hashes a save has put
    sideBySide, \* history: two trackers were open at once
    unread      \* history: a tracker started without hashes that are there

trackerVars == <<saved, tracking, hashes, dirty, recorded, sideBySide, unread>>

\* There may be an object of earlier sessions.
TrackerInit ==
    /\ saved \in SUBSET Hash
    /\ tracking = {}
    /\ hashes = [c \in Caller |-> {}]
    /\ dirty = [c \in Caller |-> FALSE]
    /\ recorded = saved
    /\ sideBySide = FALSE
    /\ unread = FALSE

\* A load that fails, for whatever reason, starts fresh.
Load(c) ==
    \/ /\ hashes' = [hashes EXCEPT ![c] = saved]
       /\ OneCall
       /\ UNCHANGED unread
    \/ /\ saved # {}
       /\ hashes' = [hashes EXCEPT ![c] = {}]
       /\ calls < MaxCalls /\ calls' = calls + 1
       /\ faults < MaxFaults /\ faults' = faults + 1
       /\ unread' = TRUE

OpenTracker(c) ==
    /\ c \notin tracking
    /\ Load(c)
    /\ tracking' = tracking \cup {c}
    /\ dirty' = [dirty EXCEPT ![c] = FALSE]
    /\ sideBySide' = (sideBySide \/ tracking # {})
    /\ UNCHANGED <<saved, recorded>>

\* A chunk that filter_unprocessed has let through is processed and marked.
MarkProcessed(c, h) ==
    /\ c \in tracking
    /\ h \notin hashes[c]
    /\ hashes' = [hashes EXCEPT ![c] = @ \cup {h}]
    /\ dirty' = [dirty EXCEPT ![c] = TRUE]
    /\ UNCHANGED <<saved, tracking, recorded, sideBySide, unread, counters>>

\* Variant: only what was marked in this session is put.
NewOnly(c) == hashes[c] \ saved

\* The whole set is put.
ToSave(c) == hashes[c]

SaveTracker(c) ==
    /\ c \in tracking
    /\ dirty[c]
    /\ saved' = ToSave(c)
    /\ recorded' = recorded \cup hashes[c]
    /\ dirty' = [dirty EXCEPT ![c] = FALSE]
    /\ UNCHANGED <<tracking, hashes, sideBySide, unread, counters>>

\* The session is over: saved, with nothing to save, or with an exception on
\* the way.
CloseTracker(c) ==
    /\ c \in tracking
    /\ IF dirty[c] THEN Fault ELSE UNCHANGED counters
    /\ tracking' = tracking \ {c}
    /\ hashes' = [hashes EXCEPT ![c] = {}]
    /\ dirty' = [dirty EXCEPT ![c] = FALSE]
    /\ UNCHANGED <<saved, recorded, sideBySide, unread>>

TrackerNext ==
    \E c \in Caller :
       \/ OpenTracker(c) \/ SaveTracker(c) \/ CloseTracker(c)
       \/ \E h \in Hash : MarkProcessed(c, h)

TrackerSpec == CallersInit /\ TrackerInit
               /\ [][TrackerNext]_<<trackerVars, counters>>

-----------------------------------------------------------------------------
(* Properties                                                              *)

TrackerTypeOK ==
    /\ CountersOK
    /\ saved \subseteq Hash /\ recorded \subseteq Hash
    /\ tracking \subseteq Caller
    /\ hashes \in [Caller -> SUBSET Hash]
    /\ dirty \in [Caller -> BOOLEAN]
    /\ sideBySide \in BOOLEAN /\ unread \in BOOLEAN

\* What a save has recorded stays recorded over all later sessions, so that no
\* chunk is processed again, unless two sessions were open at once or one has
\* started without the hashes that are there.
RecordedKept == ~sideBySide /\ ~unread => saved = recorded
=============================================================================
