------------------------------ MODULE LeakPages ------------------------------
(***************************************************************************)
(* How open-leaks reads the court documents from their API, page by page   *)
(* (_fetch_epstein_api of assets/extraction.py).  Whatever happens, the    *)
(* asset succeeds with the documents it has.                               *)
(***************************************************************************)
EXTENDS Naturals, Sequences, SequencesExt

CONSTANTS
    Docs,       \* the documents behind the API: a sequence
    PAGE_SIZE,
    MAX_CONSECUTIVE_FAILURES,
    MaxDocs,    \* config.max_epstein_docs; 0 is no limit
    MaxFailed   \* bound on failed requests

ASSUME LeakPagesAssumption ==
    /\ PAGE_SIZE \in Nat \ {0} /\ MAX_CONSECUTIVE_FAILURES \in Nat \ {0}
    /\ Docs \in Seq(ToSet(Docs)) /\ MaxDocs \in Nat /\ MaxFailed \in Nat

VARIABLES
    reader,     \* "idle", "reading", "done", or "cut" short by an error
    page, docs, consecutive_failures,
    skipped,    \* history: pages passed over
    failed      \* failed requests so far

pageVars == <<reader, page, docs, consecutive_failures, skipped, failed>>

PagesInit ==
    /\ reader = "idle" /\ page = 1 /\ docs = <<>> /\ consecutive_failures = 0
    /\ skipped = {} /\ failed = 0

Fails == failed < MaxFailed /\ failed' = failed + 1

AtMost(a, b) == IF a < b THEN a ELSE b

Items(n) == SubSeq(Docs, (n - 1) * PAGE_SIZE + 1, AtMost(n * PAGE_SIZE, Len(Docs)))

\* _check_api_reachable; without an answer the asset has no documents.
CheckApiReachable ==
    /\ reader = "idle"
    /\ \/ reader' = "reading" /\ UNCHANGED failed
       \/ reader' = "cut" /\ Fails
    /\ UNCHANGED <<page, docs, consecutive_failures, skipped>>

Taken(items) ==
    docs \o (IF MaxDocs = 0 THEN items ELSE SubSeq(items, 1, AtMost(MaxDocs - Len(docs), Len(items))))

\* Variant: a page that is full ends the reading.
LastIfFull(items) == Len(items) = PAGE_SIZE

LastPage(items) ==
    \/ items = <<>>
    \/ MaxDocs > 0 /\ Len(Taken(items)) >= MaxDocs
    \/ Len(Taken(items)) >= Len(Docs)       \* total
    \/ Len(items) < PAGE_SIZE

FetchPage ==
    /\ reader = "reading"
    /\ docs' = Taken(Items(page))
    /\ consecutive_failures' = 0
    /\ IF LastPage(Items(page)) THEN reader' = "done" /\ UNCHANGED page
       ELSE page' = page + 1 /\ UNCHANGED reader
    /\ UNCHANGED <<skipped, failed>>

\* The retries of a page are used up: it is skipped, or the reading ends.
SkipPage ==
    /\ reader = "reading"
    /\ Fails
    /\ consecutive_failures' = consecutive_failures + 1
    /\ IF consecutive_failures' >= MAX_CONSECUTIVE_FAILURES
       THEN reader' = "cut" /\ UNCHANGED <<page, skipped>>
       ELSE page' = page + 1 /\ skipped' = skipped \cup {page} /\ UNCHANGED reader
    /\ UNCHANGED docs

\* An HTTP status that is an error, or an answer that is not JSON.
StopReading ==
    /\ reader = "reading"
    /\ Fails
    /\ reader' = "cut"
    /\ UNCHANGED <<page, docs, consecutive_failures, skipped>>

PagesNext == CheckApiReachable \/ FetchPage \/ SkipPage \/ StopReading

PagesSpec == PagesInit /\ [][PagesNext]_pageVars

-----------------------------------------------------------------------------
PagesTypeOK ==
    /\ reader \in {"idle", "reading", "done", "cut"}
    /\ page \in 1 .. Len(Docs) + MaxFailed + 1
    /\ docs \in Seq(ToSet(Docs))
    /\ consecutive_failures \in 0 .. MAX_CONSECUTIVE_FAILURES
    /\ failed \in 0 .. MaxFailed

\* A reading that was not cut short has, up to the limit, every document in order and
\* once, but for those of the pages whose requests failed: a page skipped costs its own
\* documents and no others, also when it is the last (_fetch_epstein_api).
PagesComplete ==
    reader = "done" =>
        LET had == FlattenSeq([n \in 1 .. Len(Docs) |-> IF n \in skipped THEN <<>> ELSE Items(n)])
        IN  docs = IF MaxDocs = 0 THEN had ELSE SubSeq(had, 1, AtMost(MaxDocs, Len(had)))
=============================================================================
