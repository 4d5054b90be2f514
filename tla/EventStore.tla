----------------------------- MODULE EventStore -----------------------------
(***************************************************************************)
(* One BenchEventStore instance (dagster_io/bench/event_store.py) and the  *)
(* threads of its process: application threads that append, the daemon     *)
(* timer that flushes once a second, and the harness thread that appends,  *)
(* flushes and closes at the end of the run.                               *)
(*                                                                         *)
(* An event is its sequence number.  Only the swap of the buffers and the  *)
(* bookkeeping of append happen under the lock; a flush then runs as a     *)
(* series of statements on a connection and a staging table that all the   *)
(* threads share, so the steps of two flushes may interleave.              *)
(***************************************************************************)
EXTENDS Naturals, FiniteSets

CONSTANTS
    Emitter,     \* the threads that call append
    Main,        \* the one of them that ends the run
    Timer,       \* the flush thread
    Partition,   \* the doc_id partitions, __run__ among them
    NoPart,
    MaxEvents,   \* bound on the events a behaviour emits
    BufferMax,   \* _BUFFER_MAX_EVENTS
    MaxFaults    \* bound on statements that fail for a reason of their own

ASSUME ThreadAssumption == Main \in Emitter /\ Timer \notin Emitter
ASSUME PartitionAssumption == NoPart \notin Partition
ASSUME BoundAssumption == /\ MaxEvents \in Nat
                          /\ MaxFaults \in Nat
                          /\ BufferMax \in Nat \ {0}

VARIABLES
    seq,         \* _seq, the last sequence number handed out
    doc,         \* the partition each event was appended to
    buffered,    \* the events in _buffers
    pc,          \* where each thread is in flush
    snap,        \* the drained rows each thread still has to write
    part,        \* the partition each thread is writing
    toInsert,    \* the rows of it not yet in the staging table
    staging,     \* how often each row is in _events_buf
    shard,       \* how often each row is in each partition's shard file
    onDisk,      \* the partitions whose shard file exists
    torn,        \* those whose shard file has no footer yet: it cannot be read
    tmp,         \* the content of each partition's shard.parquet.tmp
    tmpOnDisk,   \* the partitions whose tmp file exists
    timer,       \* "off", "on", "exited"
    closed,      \* _closed, and with it _timer_stop
    main,        \* where the harness thread is in consolidate_and_archive
    stale,       \* threads in a flush whose connection has been closed
    alive,       \* the process has not been killed
    faults,      \* such failures so far
    lost,        \* history: events dropped by a failed flush or by the kill
    raced        \* history: a flush has begun while another was under way

vars == <<seq, doc, buffered, pc, snap, part, toInsert, staging, shard, onDisk,
          torn, tmp, tmpOnDisk, timer, closed, main, stale, alive, faults,
          lost, raced>>

flushVars == <<snap, part, toInsert>>
diskVars  == <<shard, onDisk, torn, tmp, tmpOnDisk>>
runVars   == <<timer, closed, main, alive>>

Thread == Emitter \cup {Timer}
Event  == 1..MaxEvents
Count  == [Event -> Nat]

NoRows == [e \in Event |-> 0]

\* Variant: the rows already in the shard are left out of the union.
LatterOnly(a, b) == [e \in Event |-> b[e]]

\* UNION ALL.
UnionAll(a, b) == [e \in Event |-> a[e] + b[e]]

\* The buffered rows of one partition.
BufferOf(p) == {e \in buffered : doc[e] = p}

\* A thread at "enter" is about to take the lock of flush; in one of these it
\* has drained the buffers and works through its snapshot.
Writing == {"insert", "merge", "new", "writing", "replace"}
MidFlush == Writing \cup {"create", "next"}
PC == MidFlush \cup {"idle", "enter"}

Flushing(t) == pc[t] \in MidFlush

Init ==
    /\ seq = 0
    /\ doc = [e \in Event |-> NoPart]
    /\ buffered = {}
    /\ pc = [t \in Thread |-> "idle"]
    /\ snap = [t \in Thread |-> {}]
    /\ part = [t \in Thread |-> NoPart]
    /\ toInsert = [t \in Thread |-> {}]
    /\ staging = NoRows
    /\ shard = [p \in Partition |-> NoRows]
    /\ onDisk = {}
    /\ torn = {}
    /\ tmp = [p \in Partition |-> NoRows]
    /\ tmpOnDisk = {}
    /\ timer = "off"
    /\ closed = FALSE
    /\ main = "run"
    /\ stale = {}
    /\ alive = TRUE
    /\ faults = 0
    /\ lost = {}
    /\ raced = FALSE

-----------------------------------------------------------------------------
(* append                                                                  *)

\* Variant: no timer thread.
NoTimer == timer' = timer

\* The timer is started by the first append; one started after close finds
\* the stop event set and ends at once.
EnsureTimer == timer' = IF timer = "off" /\ ~closed THEN "on" ELSE timer

\* append: number the row, buffer it, and flush when its partition is full.
\* The module-level append drops the event once close has unset the store.
Append(t, p) ==
    /\ pc[t] = "idle"
    /\ t = Main => main = "run"
    /\ main # "done"
    /\ seq < MaxEvents
    /\ EnsureTimer
    /\ seq' = seq + 1
    /\ doc' = [doc EXCEPT ![seq + 1] = p]
    /\ buffered' = buffered \cup {seq + 1}
    /\ pc' = IF Cardinality(BufferOf(p)) + 1 >= BufferMax
             THEN [pc EXCEPT ![t] = "enter"] ELSE pc
    /\ UNCHANGED <<flushVars, staging, diskVars, closed, main, alive, stale,
                   faults, lost, raced>>

-----------------------------------------------------------------------------
(* flush                                                                   *)

\* The harness thread goes on with consolidate_and_archive: its flush is
\* followed by close, the final flush of close by closing the connection.
AfterFlush(t) == IF t # Main THEN main
                 ELSE IF main = "flush" THEN "close"
                 ELSE IF main = "final" THEN "disconnect" ELSE main

\* Variant: close lets the exception of its final flush out.
RaisePassedOn(t) == IF t = Main THEN "aborted" ELSE AfterFlush(t)

\* A flush that raises ends consolidate_and_archive in its first flush; close
\* prints the exception and goes on.
AfterRaise(t) == IF t = Main /\ main = "flush" THEN "aborted" ELSE AfterFlush(t)

\* Variant: the snapshot is taken and the buffers are left as they are.
CopyBuffers(t) == /\ snap' = [snap EXCEPT ![t] = buffered]
                  /\ buffered' = buffered

\* Snapshot and clear.
TakeBuffers(t) == /\ snap' = [snap EXCEPT ![t] = buffered]
                  /\ buffered' = {}

\* Under the lock: nothing buffered, or take everything.
Drain(t) ==
    /\ pc[t] = "enter"
    /\ IF buffered = {}
       THEN /\ pc' = [pc EXCEPT ![t] = "idle"]
            /\ main' = AfterFlush(t)
            /\ UNCHANGED <<buffered, snap, raced>>
       ELSE /\ pc' = [pc EXCEPT ![t] = "create"]
            /\ TakeBuffers(t)
            /\ raced' = (raced \/ \E u \in Thread : Flushing(u))
            /\ main' = main
    /\ UNCHANGED <<seq, doc, part, toInsert, staging, diskVars, timer, closed,
                   alive, stale, faults, lost>>

\* A statement runs on the thread's connection when it is still open and no
\* other thread is in the middle of one.
ConnReady(t) == /\ t \notin stale
                /\ \A u \in Thread \ stale : pc[u] # "writing"

\* _ensure_conn and CREATE OR REPLACE TEMP TABLE _events_buf.
CreateStaging(t) ==
    /\ pc[t] = "create"
    /\ ConnReady(t)
    /\ pc' = [pc EXCEPT ![t] = "next"]
    /\ staging' = NoRows
    /\ UNCHANGED <<seq, doc, buffered, flushVars, diskVars, runVars, stale,
                   faults, lost, raced>>

\* Variant: the staging table keeps the rows of the partition before.
KeepStaging == staging' = staging

\* DELETE FROM _events_buf.
ClearStaging == staging' = NoRows

\* The next partition of the snapshot starts from an empty staging table.
NextPartition(t) ==
    /\ pc[t] = "next"
    /\ ConnReady(t)
    /\ \E p \in {doc[e] : e \in snap[t]} :
          /\ part' = [part EXCEPT ![t] = p]
          /\ toInsert' = [toInsert EXCEPT ![t] = {e \in snap[t] : doc[e] = p}]
    /\ pc' = [pc EXCEPT ![t] = "insert"]
    /\ ClearStaging
    /\ UNCHANGED <<seq, doc, buffered, snap, diskVars, runVars, stale, faults,
                   lost, raced>>

\* One row of the executemany, in the order they were appended.
InsertRow(t) ==
    /\ pc[t] = "insert"
    /\ ConnReady(t)
    /\ \E e \in toInsert[t] :
          /\ \A f \in toInsert[t] : e <= f
          /\ staging' = [staging EXCEPT ![e] = @ + 1]
          /\ toInsert' = [toInsert EXCEPT ![t] = @ \ {e}]
    /\ UNCHANGED <<seq, doc, buffered, pc, snap, part, diskVars, runVars,
                   stale, faults, lost, raced>>

\* Variant: the shard is written afresh by every flush.
AlwaysNew(p) == "new"

\* shard_path.exists() picks the branch.
CopyBranch(p) == IF p \in onDisk THEN "merge" ELSE "new"

ChooseCopy(t) ==
    /\ pc[t] = "insert"
    /\ toInsert[t] = {}
    /\ pc' = [pc EXCEPT ![t] = CopyBranch(part[t])]
    /\ UNCHANGED <<seq, doc, buffered, flushVars, staging, diskVars, runVars,
                   stale, faults, lost, raced>>

\* COPY (shard UNION ALL _events_buf) TO tmp.
CopyMerged(t) ==
    /\ pc[t] = "merge"
    /\ ConnReady(t)
    /\ part[t] \notin torn
    /\ tmp' = [tmp EXCEPT ![part[t]] = UnionAll(shard[part[t]], staging)]
    /\ tmpOnDisk' = tmpOnDisk \cup {part[t]}
    /\ pc' = [pc EXCEPT ![t] = "replace"]
    /\ UNCHANGED <<seq, doc, buffered, flushVars, staging, shard, onDisk, torn,
                   runVars, stale, faults, lost, raced>>

\* The rows of the current partition are written: on to the next one, or back
\* to the caller.
PartitionDone(t) ==
    /\ snap' = [snap EXCEPT ![t] = {e \in @ : doc[e] # part[t]}]
    /\ part' = [part EXCEPT ![t] = NoPart]
    /\ toInsert' = [toInsert EXCEPT ![t] = {}]
    /\ IF \A e \in snap[t] : doc[e] = part[t]
       THEN /\ pc' = [pc EXCEPT ![t] = "idle"]
            /\ main' = AfterFlush(t)
            /\ stale' = stale \ {t}
       ELSE /\ pc' = [pc EXCEPT ![t] = "next"]
            /\ UNCHANGED <<main, stale>>

\* os.replace(tmp, shard).
ReplaceShard(t) ==
    /\ pc[t] = "replace"
    /\ part[t] \in tmpOnDisk
    /\ shard' = [shard EXCEPT ![part[t]] = tmp[part[t]]]
    /\ onDisk' = onDisk \cup {part[t]}
    /\ torn' = torn \ {part[t]}
    /\ tmpOnDisk' = tmpOnDisk \ {part[t]}
    /\ PartitionDone(t)
    /\ UNCHANGED <<seq, doc, buffered, staging, tmp, timer, closed, alive,
                   faults, lost, raced>>

\* COPY _events_buf TO shard: the file is created and filled in place, and can
\* be read only when its footer has been written.
BeginNewShard(t) ==
    /\ pc[t] = "new"
    /\ ConnReady(t)
    /\ part[t] \notin onDisk
    /\ onDisk' = onDisk \cup {part[t]}
    /\ torn' = torn \cup {part[t]}
    /\ pc' = [pc EXCEPT ![t] = "writing"]
    /\ UNCHANGED <<seq, doc, buffered, flushVars, staging, shard, tmp,
                   tmpOnDisk, runVars, stale, faults, lost, raced>>

FinishNewShard(t) ==
    /\ pc[t] = "writing"
    /\ shard' = [shard EXCEPT ![part[t]] = staging]
    /\ torn' = torn \ {part[t]}
    /\ PartitionDone(t)
    /\ UNCHANGED <<seq, doc, buffered, staging, onDisk, tmp, tmpOnDisk, timer,
                   closed, alive, faults, lost, raced>>

\* The shard has come into being since exists() was asked: COPY replaces it.
OverwriteShard(t) ==
    /\ pc[t] = "new"
    /\ ConnReady(t)
    /\ part[t] \in onDisk
    /\ shard' = [shard EXCEPT ![part[t]] = staging]
    /\ torn' = torn \ {part[t]}
    /\ PartitionDone(t)
    /\ UNCHANGED <<seq, doc, buffered, staging, onDisk, tmp, tmpOnDisk, timer,
                   closed, alive, faults, lost, raced>>

\* What makes the thread's next statement raise whatever the disk does.
Broken(t) == \/ t \in stale
             \/ pc[t] = "merge" /\ part[t] \in torn
             \/ pc[t] = "replace" /\ part[t] \notin tmpOnDisk

\* Variant: the rows of a failed flush stay with the thread.
KeepSnapshot(t) == UNCHANGED <<snap, part, toInsert>>

\* The local variables of a flush that raises are gone.
DropSnapshot(t) == /\ snap' = [snap EXCEPT ![t] = {}]
                   /\ part' = [part EXCEPT ![t] = NoPart]
                   /\ toInsert' = [toInsert EXCEPT ![t] = {}]

\* An exception leaves flush: the rows it had drained and not yet written are
\* in no buffer any more.  The timer loop and close swallow it, append and the
\* harness pass it on.
FlushRaises(t) ==
    /\ Flushing(t)
    /\ \/ Broken(t) /\ faults' = faults
       \/ faults < MaxFaults /\ faults' = faults + 1
    /\ lost' = lost \cup snap[t]
    /\ pc' = [pc EXCEPT ![t] = "idle"]
    /\ DropSnapshot(t)
    /\ main' = AfterRaise(t)
    /\ stale' = stale \ {t}
    /\ UNCHANGED <<seq, doc, buffered, staging, diskVars, timer, closed, alive,
                   raced>>

FlushStep(t) == \/ Drain(t) \/ CreateStaging(t) \/ NextPartition(t)
                \/ InsertRow(t) \/ ChooseCopy(t) \/ CopyMerged(t)
                \/ ReplaceShard(t) \/ BeginNewShard(t) \/ FinishNewShard(t)
                \/ OverwriteShard(t) \/ FlushRaises(t)

-----------------------------------------------------------------------------
(* The timer thread                                                        *)

\* _timer_stop.wait timed out: flush.
TimerTick ==
    /\ timer = "on" /\ pc[Timer] = "idle" /\ ~closed
    /\ pc' = [pc EXCEPT ![Timer] = "enter"]
    /\ UNCHANGED <<seq, doc, buffered, flushVars, staging, diskVars, runVars,
                   stale, faults, lost, raced>>

\* _timer_stop is set: the loop ends.
TimerExit ==
    /\ timer = "on" /\ pc[Timer] = "idle" /\ closed
    /\ timer' = "exited"
    /\ UNCHANGED <<seq, doc, buffered, pc, flushVars, staging, diskVars, closed,
                   main, alive, stale, faults, lost, raced>>

-----------------------------------------------------------------------------
(* The end of the run: consolidate_and_archive calls flush, then close     *)

\* Move the harness thread from one place of the teardown to the next one.
MainStep(from, to) == /\ main = from /\ pc[Main] = "idle"
                      /\ main' = to

EndFlush ==
    /\ MainStep("run", "flush")
    /\ pc' = [pc EXCEPT ![Main] = "enter"]
    /\ UNCHANGED <<seq, doc, buffered, flushVars, staging, diskVars, timer,
                   closed, alive, stale, faults, lost, raced>>

\* close: _closed and the stop event are set.
CloseBegin ==
    /\ MainStep("close", "join")
    /\ closed' = TRUE
    /\ UNCHANGED <<seq, doc, buffered, pc, flushVars, staging, diskVars, timer,
                   alive, stale, faults, lost, raced>>

\* join(timeout=2.0) returns when the timer thread has ended, and also when it
\* is still in a flush after two seconds.  The final flush follows.
JoinTimer ==
    /\ MainStep("join", "final")
    /\ timer # "on" \/ pc[Timer] # "idle"
    /\ pc' = [pc EXCEPT ![Main] = "enter"]
    /\ UNCHANGED <<seq, doc, buffered, flushVars, staging, diskVars, timer,
                   closed, alive, stale, faults, lost, raced>>

\* The connection is closed under whoever is still flushing (a thread about to
\* ask for one may still get the old one), and the module forgets the store.
Disconnect ==
    /\ MainStep("disconnect", "done")
    /\ \E S \in SUBSET {t \in Thread : pc[t] = "create"} :
          stale' = S \cup {t \in Thread : Flushing(t) /\ pc[t] # "create"}
    /\ UNCHANGED <<seq, doc, buffered, pc, flushVars, staging, diskVars, timer,
                   closed, alive, faults, lost, raced>>

\* SIGKILL: everything in memory is gone, the files stay as they are.
Kill ==
    /\ alive' = FALSE
    /\ lost' = lost \cup buffered \cup UNION {snap[t] : t \in Thread}
    /\ buffered' = {}
    /\ pc' = [t \in Thread |-> "idle"]
    /\ snap' = [t \in Thread |-> {}]
    /\ part' = [t \in Thread |-> NoPart]
    /\ toInsert' = [t \in Thread |-> {}]
    /\ staging' = NoRows
    /\ stale' = {}
    /\ UNCHANGED <<seq, doc, diskVars, timer, closed, main, faults, raced>>

Next ==
    /\ alive
    /\ \/ \E t \in Emitter, p \in Partition : Append(t, p)
       \/ \E t \in Thread : FlushStep(t)
       \/ TimerTick \/ TimerExit
       \/ EndFlush \/ CloseBegin \/ JoinTimer \/ Disconnect
       \/ Kill

\* The timer thread is scheduled, a flush under way is carried on, and so is
\* the teardown once it has begun.
Fairness ==
    /\ WF_vars(alive /\ TimerTick)
    /\ \A t \in Thread : WF_vars(alive /\ FlushStep(t))
    /\ WF_vars(alive /\ (CloseBegin \/ JoinTimer \/ Disconnect \/ TimerExit))

Spec == Init /\ [][Next]_vars

FairSpec == Spec /\ Fairness

-----------------------------------------------------------------------------
(* Properties                                                              *)

InFlight == UNION {snap[t] : t \in Thread}

EventTypes == /\ seq \in 0..MaxEvents
              /\ doc \in [Event -> Partition \cup {NoPart}]
              /\ \A e \in Event : doc[e] \in Partition <=> e <= seq
              /\ buffered \subseteq 1..seq
              /\ lost \subseteq 1..seq

ThreadTypes == /\ pc \in [Thread -> PC]
               /\ snap \in [Thread -> SUBSET (1..seq)]
               /\ part \in [Thread -> Partition \cup {NoPart}]
               /\ toInsert \in [Thread -> SUBSET Event]
               /\ stale \subseteq Thread

FileTypes == /\ staging \in Count
             /\ shard \in [Partition -> Count]
             /\ tmp \in [Partition -> Count]
             /\ onDisk \subseteq Partition
             /\ torn \subseteq onDisk
             /\ tmpOnDisk \subseteq Partition

RunTypes == /\ timer \in {"off", "on", "exited"}
            /\ closed \in BOOLEAN /\ alive \in BOOLEAN /\ raced \in BOOLEAN
            /\ main \in {"run", "flush", "close", "join", "final",
                         "disconnect", "done", "aborted"}
            /\ faults \in 0..MaxFaults

\* The locals of flush are what the place of the thread in it says: a snapshot
\* exists exactly during a flush, a partition from its DELETE on.
LocalsInScope ==
    \A t \in Thread : /\ snap[t] # {} <=> Flushing(t)
                      /\ part[t] # NoPart <=> pc[t] \in Writing
                      /\ toInsert[t] \subseteq snap[t]
                      /\ t \in stale => Flushing(t)

\* Every variable has its type, and a flush that is over leaves nothing behind.
TypeOK == EventTypes /\ ThreadTypes /\ FileTypes /\ RunTypes /\ LocalsInScope

\* Whatever the interleaving, the swap under the lock hands every event to one
\* flush: no event is in two snapshots, or in a snapshot and still buffered.
DrainedOnce ==
    \A t \in Thread :
        /\ snap[t] \cap buffered = {}
        /\ \A u \in Thread \ {t} : snap[t] \cap snap[u] = {}

\* As long as no two flushes have overlapped, an event is in the shard of its
\* own partition exactly once from the flush that carried it on, and in no
\* shard before, after a failure or anywhere else.
SerialExactlyOnce ==
    ~raced =>
        \A p \in Partition, e \in Event :
            shard[p][e] = IF /\ e <= seq /\ doc[e] = p
                             /\ e \notin buffered \cup InFlight \cup lost
                          THEN 1 ELSE 0

\* What has landed in a shard is never lost nor made unreadable again, not by
\* a failed flush and not by the kill, as long as no two flushes overlap.
LandedStays ==
    [][~raced' => \A p \in onDisk \ torn :
                     /\ p \in onDisk' \ torn'
                     /\ \A e \in Event : shard[p][e] <= shard'[p][e]]_vars

\* The rows a reader of the shard files finds.
Durable == {e \in 1..seq : doc[e] \notin torn /\ shard[doc[e]][e] > 0}

Log == INSTANCE AuditLog WITH emitted <- 1..seq, durable <- Durable,
                              gone <- lost, orderly <- ~raced

\* The store implements the log: until flushes overlap, an event becomes
\* durable once, only after it was emitted, and for good.
ImplementsLog == Log!Spec

\* The timer bounds how long an event is only in memory: before close it is
\* written, or dropped by a flush that raised.
EventsSettle ==
    \A e \in Event :
        e \in buffered \cup InFlight ~> e \notin buffered \cup InFlight \/ closed

\* Once close has begun it ends, whatever its flush and the timer's do.
CloseEnds == main = "close" ~> main = "done" \/ ~alive

\* What the class docstring says of threads: they "can safely emit".  When no
\* statement has failed by itself, the store is open, and nothing is buffered or
\* under way, every event is in the shard of its partition exactly once.
SafelyEmitted ==
    /\ alive /\ ~closed /\ faults = 0
    /\ buffered = {} /\ InFlight = {}
    => \A e \in 1..seq : shard[doc[e]][e] = 1
=============================================================================
