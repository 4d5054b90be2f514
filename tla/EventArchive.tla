---------------------------- MODULE EventArchive ----------------------------
(***************************************************************************)
(* The bench event log across processes: benchmark runs write Parquet      *)
(* shards under one cache directory (every run has the same one), each run *)
(* ends by merging the shards it finds into data.parquet and uploading     *)
(* every data.parquet to its own prefix in S3, and the viewer reads a run  *)
(* from the local files or from S3.  Runs crash, fail and overlap.         *)
(*                                                                         *)
(* The flushes of one process are taken to be serial here; EventStore is   *)
(* about the ones that are not.                                            *)
(***************************************************************************)
EXTENDS Naturals, FiniteSets, FiniteSetsExt, Bags

CONSTANTS
    Run,         \* the runs, each with one writer: its pid is the run's number
    Doc,         \* the doc_id partitions, numbered in the order they sort
    MaxEvents,   \* bound on the events of all runs together
    MaxFaults    \* bound on reads, writes and uploads that fail by themselves

ASSUME RunAssumption == Run \subseteq Nat /\ IsFiniteSet(Run)
ASSUME DocAssumption == Doc \subseteq Nat /\ IsFiniteSet(Doc)
ASSUME BoundAssumption == MaxEvents \in Nat /\ MaxFaults \in Nat

VARIABLES
    phase,     \* where each run is in its life
    rows,      \* the rows each run has appended, numbered by _seq
    pending,   \* those of them that are only in its memory
    cur,       \* the partition a run is flushing
    stmp,      \* the content of the tmp file of that flush
    shard,     \* the content of each run's shard in each partition
    torn,      \* the shards that have no footer yet and cannot be read
    data,      \* the content of each partition's data.parquet
    dtmp,      \* the content of each partition's data.parquet.tmp
    work,      \* the shards each consolidation has listed and not yet removed
    todo,      \* the partitions each run has still to upload
    archive,   \* what each run has uploaded, by partition
    faults,    \* such failures so far
    lost,      \* history: rows dropped by a failed flush or a crash
    overlap,   \* history: two runs have been active at the same time
    cut        \* history: a run ended between a merge and its last unlink

fileVars == <<shard, torn, data, dtmp>>
memVars  == <<pending, cur, stmp, work, todo>>
history  == <<lost, overlap, cut>>

vars == <<phase, rows, memVars, fileVars, archive, faults, history>>

Row   == [run : Run, doc : Doc, seq : 1..MaxEvents]
Shard == Run \X Doc

\* The content of a file is a bag of rows; a file that is not there, and one
\* that has no footer, is the empty bag.
NoRows == EmptyBag
RowsOf(S) == SetToBag(S)
UnionAll(a, b) == a (+) b
Copies(r, content) == IF BagIn(r, content) THEN content[r] ELSE 0

OnDisk == torn \cup {f \in Shard : shard[f] # NoRows}

Flush == {"merging", "creating", "replacing"}
Consolidate == {"closed", "copy", "rename", "unlink"}
Active == {"live", "upload"} \cup Flush \cup Consolidate
Phase == Active \cup {"idle", "done", "failed", "dead"}

Init ==
    /\ phase = [w \in Run |-> "idle"]
    /\ rows = [w \in Run |-> {}]
    /\ pending = [w \in Run |-> {}]
    /\ cur = [w \in Run |-> 0]
    /\ stmp = [w \in Run |-> NoRows]
    /\ shard = [f \in Shard |-> NoRows]
    /\ torn = {}
    /\ data = [d \in Doc |-> NoRows]
    /\ dtmp = [d \in Doc |-> NoRows]
    /\ work = [w \in Run |-> {}]
    /\ todo = [w \in Run |-> {}]
    /\ archive = [f \in Shard |-> NoRows]
    /\ faults = 0
    /\ lost = {}
    /\ overlap = FALSE
    /\ cut = FALSE

Goto(w, place) == phase' = [phase EXCEPT ![w] = place]

-----------------------------------------------------------------------------
(* Writing shards                                                          *)

\* configure: nothing is cleaned, and nothing stops a second run.
Start(w) ==
    /\ phase[w] = "idle"
    /\ Goto(w, "live")
    /\ overlap' = (overlap \/ \E v \in Run : phase[v] \in Active)
    /\ UNCHANGED <<rows, memVars, fileVars, archive, faults, lost, cut>>

Append(w, d) ==
    /\ phase[w] = "live"
    /\ Cardinality(UNION {rows[v] : v \in Run}) < MaxEvents
    /\ LET r == [run |-> w, doc |-> d, seq |-> Cardinality(rows[w]) + 1] IN
          /\ rows' = [rows EXCEPT ![w] = @ \cup {r}]
          /\ pending' = [pending EXCEPT ![w] = @ \cup {r}]
    /\ UNCHANGED <<phase, cur, stmp, work, todo, fileVars, archive, faults,
                   history>>

RowsFor(w, d) == {r \in pending[w] : r.doc = d}

\* The rows of one partition are flushed: shard_path.exists() decides between a
\* file that is filled in place and a merge into a tmp file.
FlushBegin(w, d) ==
    /\ phase[w] = "live"
    /\ RowsFor(w, d) # {}
    /\ cur' = [cur EXCEPT ![w] = d]
    /\ IF <<w, d>> \in OnDisk
       THEN Goto(w, "merging") /\ UNCHANGED torn
       ELSE Goto(w, "creating") /\ torn' = torn \cup {<<w, d>>}
    /\ UNCHANGED <<rows, pending, stmp, work, todo, shard, data, dtmp, archive,
                   faults, history>>

MergeShard(w) ==
    /\ phase[w] = "merging"
    /\ <<w, cur[w]>> \in OnDisk \ torn
    /\ stmp' = [stmp EXCEPT ![w] = UnionAll(shard[<<w, cur[w]>>],
                                            RowsOf(RowsFor(w, cur[w])))]
    /\ Goto(w, "replacing")
    /\ UNCHANGED <<rows, pending, cur, work, todo, fileVars, archive, faults,
                   history>>

\* The rows of the partition are out of memory.
FlushDone(w) ==
    /\ torn' = torn \ {<<w, cur[w]>>}
    /\ pending' = [pending EXCEPT ![w] = @ \ RowsFor(w, cur[w])]
    /\ Goto(w, "live")
    /\ UNCHANGED <<rows, cur, stmp, work, todo, data, dtmp, archive,
                   faults, overlap, cut>>

\* os.replace(tmp, shard).
ReplaceShard(w) ==
    /\ phase[w] = "replacing"
    /\ shard' = [shard EXCEPT ![<<w, cur[w]>>] = stmp[w]]
    /\ FlushDone(w)
    /\ UNCHANGED lost

\* A file that was unlinked while it was written is gone with its rows.
FinishShard(w) ==
    /\ phase[w] = "creating"
    /\ IF <<w, cur[w]>> \in torn
       THEN /\ shard' = [shard EXCEPT ![<<w, cur[w]>>] = RowsOf(RowsFor(w, cur[w]))]
            /\ UNCHANGED lost
       ELSE /\ lost' = lost \cup RowsFor(w, cur[w])
            /\ UNCHANGED shard
    /\ FlushDone(w)

\* Variant: the rows stay with the run that has given them up.
KeepRows(w) == lost' = lost \cup pending[w] /\ pending' = pending

\* What is in the memory of the run is gone.
DropRows(w) == /\ lost' = lost \cup pending[w]
               /\ pending' = [pending EXCEPT ![w] = {}]

Fault == faults < MaxFaults /\ faults' = faults + 1

\* A flush raises, by itself or because its shard is gone or has no footer: the
\* rows it had drained, of the other partitions too, are dropped.  The harness's
\* own last flush ends the teardown before it has begun.
FlushRaises(w) ==
    /\ phase[w] \in Flush
    /\ \/ Fault
       \/ /\ phase[w] = "merging" /\ <<w, cur[w]>> \notin OnDisk \ torn
          /\ UNCHANGED faults
    /\ \E place \in {"live", "failed"} : Goto(w, place)
    /\ DropRows(w)
    /\ UNCHANGED <<rows, cur, stmp, work, todo, fileVars, archive, overlap, cut>>

\* Variant: the store is closed without the flush before it.
CloseNow(w) == phase[w] = "live"

\* consolidate_and_archive begins with a flush of what is still buffered.
Flushed(w) == phase[w] = "live" /\ pending[w] = {}

Close(w) ==
    /\ Flushed(w)
    /\ Goto(w, "closed")
    /\ UNCHANGED <<rows, memVars, fileVars, archive, faults, history>>

-----------------------------------------------------------------------------
(* consolidate                                                             *)

\* Variant: the loop ends with the last partition but the caller never goes on.
NoUpload(rest) == IF rest = {} THEN "closed" ELSE "copy"

\* After a partition comes the next one, and after the last one the upload.
NextPartition(rest) == IF rest = {} THEN "upload" ELSE "copy"

\* Every partition directory with a shard in it, and all the shards of it.
List(w) ==
    /\ phase[w] = "closed"
    /\ work' = [work EXCEPT ![w] = OnDisk]
    /\ Goto(w, NextPartition(OnDisk))
    /\ todo' = [todo EXCEPT ![w] = {d \in Doc : data[d] # NoRows}
                                   \cup {f[2] : f \in OnDisk}]
    /\ UNCHANGED <<rows, pending, cur, stmp, fileVars, archive, faults, history>>

\* The partition a consolidation is at, and the shards it has listed there.
At(w)     == Min({f[2] : f \in work[w]})
Shards(w) == {f \in work[w] : f[2] = At(w)}

\* A shard has rows of its own run and partition only, so a row is in one of the
\* shards of a merge at most.
InShard(r) == Copies(r, shard[<<r.run, r.doc>>])

RowsOfShards(w) == UNION {BagToSet(shard[f]) : f \in Shards(w)}

\* Variant: an earlier data.parquet is not read again.
ShardsOnly(w) == [r \in RowsOfShards(w) |-> InShard(r)]

\* The rows of the shards, and of the data.parquet of an earlier consolidation.
Merged(w) ==
    [r \in BagToSet(data[At(w)]) \cup RowsOfShards(w) |->
        Copies(r, data[At(w)]) + IF r \in RowsOfShards(w) THEN InShard(r) ELSE 0]

Readable(S) == S \subseteq OnDisk \ torn

CopyMerged(w) ==
    /\ phase[w] = "copy"
    /\ Readable(Shards(w))
    /\ dtmp' = [dtmp EXCEPT ![At(w)] = Merged(w)]
    /\ Goto(w, "rename")
    /\ UNCHANGED <<rows, memVars, shard, torn, data, archive, faults, history>>

\* os.replace(tmp, out).
ReplaceData(w) ==
    /\ phase[w] = "rename"
    /\ dtmp[At(w)] # NoRows
    /\ data' = [data EXCEPT ![At(w)] = dtmp[At(w)]]
    /\ dtmp' = [dtmp EXCEPT ![At(w)] = NoRows]
    /\ Goto(w, "unlink")
    /\ UNCHANGED <<rows, memVars, shard, torn, archive, faults, history>>

\* Variant: the shards stay beside the data.parquet that holds their rows.
LeaveShard(f) == UNCHANGED <<shard, torn>>

\* A shard is removed, whatever it holds by now; one that is gone already is
\* no error.
RemoveShard(f) == /\ shard' = [shard EXCEPT ![f] = NoRows]
                  /\ torn' = torn \ {f}

Unlink(w) ==
    /\ phase[w] = "unlink"
    /\ \E f \in Shards(w) :
          /\ RemoveShard(f)
          /\ work' = [work EXCEPT ![w] = @ \ {f}]
          /\ Goto(w, IF Shards(w) = {f} THEN NextPartition(work[w] \ {f})
                                        ELSE "unlink")
    /\ UNCHANGED <<rows, pending, cur, stmp, todo, data, dtmp,
                   archive, faults, history>>

-----------------------------------------------------------------------------
(* archive_to_s3                                                           *)

Upload(w) ==
    /\ phase[w] = "upload"
    /\ todo[w] # {}
    /\ LET d == Min(todo[w]) IN
          /\ todo' = [todo EXCEPT ![w] = @ \ {d}]
          /\ archive' = IF data[d] = NoRows THEN archive
                        ELSE [archive EXCEPT ![<<w, d>>] = data[d]]
    /\ UNCHANGED <<phase, rows, pending, cur, stmp, work, fileVars, faults,
                   history>>

Finish(w) ==
    /\ phase[w] = "upload"
    /\ todo[w] = {}
    /\ Goto(w, "done")
    /\ UNCHANGED <<rows, memVars, fileVars, archive, faults, history>>

\* An exception ends consolidate_and_archive; the harness prints it.  A shard
\* that cannot be read raises every time, and so does a tmp file that another
\* consolidation has renamed.
EndRaises(w) ==
    /\ phase[w] \in Consolidate \cup {"upload"}
    /\ \/ Fault
       \/ /\ \/ phase[w] = "copy" /\ ~Readable(Shards(w))
             \/ phase[w] = "rename" /\ dtmp[At(w)] = NoRows
          /\ UNCHANGED faults
    /\ Goto(w, "failed")
    /\ cut' = (cut \/ phase[w] = "unlink")
    /\ UNCHANGED <<rows, memVars, fileVars, archive, lost, overlap>>

\* The process is killed: the files stay as they are.
Crash(w) ==
    /\ phase[w] \in Active
    /\ Goto(w, "dead")
    /\ DropRows(w)
    /\ cut' = (cut \/ phase[w] = "unlink")
    /\ UNCHANGED <<rows, cur, stmp, work, todo, fileVars, archive, faults, overlap>>

EndStep(w) == \/ List(w) \/ CopyMerged(w) \/ ReplaceData(w) \/ Unlink(w)
              \/ Upload(w) \/ Finish(w) \/ EndRaises(w)

Next ==
    \E w \in Run :
        \/ Start(w) \/ MergeShard(w) \/ ReplaceShard(w) \/ FinishShard(w)
        \/ FlushRaises(w) \/ Close(w) \/ EndStep(w) \/ Crash(w)
        \/ \E d \in Doc : Append(w, d) \/ FlushBegin(w, d)

\* A run that has begun its teardown carries it on.
Spec == Init /\ [][Next]_vars

FairSpec == Spec /\ \A w \in Run : WF_vars(EndStep(w))

-----------------------------------------------------------------------------
(* What the viewer answers                                                 *)

\* The run of the file's first row, in the order data.parquet is sorted by.
FirstRun(content) ==
    LET first == CHOOSE r \in BagToSet(content) :
                    \A s \in BagToSet(content) :
                        r.seq < s.seq \/ (r.seq = s.seq /\ r.run <= s.run)
    IN first.run

FirstRuns == {FirstRun(shard[f]) : f \in OnDisk \ torn}
             \cup {FirstRun(data[d]) : d \in {e \in Doc : data[e] # NoRows}}

\* _is_live_run, in a viewer process of its own: the first row of each local
\* file is probed, and one unreadable file empties the answer.
IsLive(w) == torn = {} /\ w \in FirstRuns

\* How often a row is in the local files.
LocalCopies(r) == InShard(r) + Copies(r, data[r.doc])

\* run_events_duckdb: the local rows of the run, or everything in its archive.
Response(w) ==
    [r \in Row |->
        IF IsLive(w) THEN IF r.run = w THEN LocalCopies(r) ELSE 0
        ELSE Copies(r, archive[<<w, r.doc>>])]

-----------------------------------------------------------------------------
(* Properties                                                              *)

TypeOK ==
    /\ phase \in [Run -> Phase]
    /\ rows \in [Run -> SUBSET Row]
    /\ \A w \in Run : pending[w] \subseteq rows[w] \ lost
    /\ cur \in [Run -> Doc \cup {0}]
    /\ \A f \in Shard :
          /\ BagToSet(shard[f]) \subseteq {r \in rows[f[1]] : r.doc = f[2]}
          /\ BagToSet(archive[f]) \subseteq {r \in Row : r.doc = f[2]}
    /\ torn \subseteq {f \in Shard : shard[f] = NoRows}
    /\ \A d \in Doc : BagToSet(data[d]) \subseteq {r \in Row : r.doc = d}
    /\ work \in [Run -> SUBSET Shard] /\ todo \in [Run -> SUBSET Doc]
    /\ faults \in 0..MaxFaults
    /\ lost \subseteq UNION {rows[w] : w \in Run}
    /\ overlap \in BOOLEAN /\ cut \in BOOLEAN

\* As long as runs do not overlap and none ended while it was removing shards, a
\* row is in one file of the cache at most, except for the shards that a
\* consolidation has merged and is about to remove.
OneCopy ==
    ~overlap /\ ~cut =>
        \A r \in Row : LocalCopies(r) > 1 =>
            /\ LocalCopies(r) = 2
            /\ \E w \in Run : phase[w] = "unlink" /\ <<r.run, r.doc>> \in work[w]

\* What is counted holds every row of a run once, but for the lost ones.
HoldsRun(w, copies(_)) ==
    \A r \in rows[w] : copies(r) = IF r \in lost THEN 0 ELSE 1

\* The archive of a run that ended well holds each row of the run exactly once,
\* but for the rows its flushes lost, whatever earlier runs left behind.
ArchiveComplete ==
    ~overlap /\ ~cut =>
        \A w \in Run : phase[w] = "done" =>
            HoldsRun(w, LAMBDA r : Copies(r, archive[<<w, r.doc>>]))

\* And so does what the viewer answers of it from then on, wherever it reads.
StillAnswered ==
    ~overlap /\ ~cut =>
        \A w \in Run : phase[w] = "done" => HoldsRun(w, LAMBDA r : Response(w)[r])

\* The rows a reader of the local files finds.
Durable == (UNION {BagToSet(shard[f]) : f \in Shard})
           \cup (UNION {BagToSet(data[d]) : d \in Doc})

Log == INSTANCE AuditLog WITH Event <- Row, emitted <- UNION {rows[w] : w \in Run},
                              durable <- Durable, gone <- lost,
                              orderly <- ~overlap

\* The cache implements the log across runs and crashes: as long as runs do not
\* overlap, no merge, no removal and no crash takes back a row that was durable.
ImplementsLog == Log!Spec

\* A consolidation that has begun ends, and with all its uploads done unless it
\* met an unreadable shard, another run or a fault.
TeardownEnds ==
    \A w \in Run :
        phase[w] = "closed" ~>
            \/ phase[w] \in {"done", "dead"}
            \/ phase[w] = "failed" /\ (torn # {} \/ overlap \/ faults > 0)

\* What a comment of the live read path says it is there for: a response does
\* not "mix events across runs".  Runs that follow one another, none of them cut
\* off, are enough to refute it of the archived path.
ResponseScoped ==
    ~overlap /\ ~cut =>
    \A w \in Run, r \in Row : Response(w)[r] > 0 => r.run = w
=============================================================================
