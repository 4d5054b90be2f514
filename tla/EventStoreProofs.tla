-------------------------- MODULE EventStoreProofs --------------------------
(***************************************************************************)
(* Proofs about EventStore, for every set of threads and partitions and    *)
(* every number of events and faults.                                      *)
(***************************************************************************)
EXTENDS EventStore, TLAPS

USE ThreadAssumption, PartitionAssumption, BoundAssumption

(***************************************************************************)
(* Each part of the type invariant is preserved on its own, from the parts *)
(* it depends on.                                                          *)
(***************************************************************************)
LEMMA EventTypesNext ==
  ASSUME EventTypes, ThreadTypes, [Next]_vars PROVE EventTypes'
<1> USE DEF EventTypes, ThreadTypes, Event
<1>1. ASSUME NEW t \in Emitter, NEW p \in Partition, Append(t, p)
      PROVE EventTypes'
  BY <1>1 DEF Append
<1>2. ASSUME NEW t \in Thread, Drain(t) PROVE EventTypes'
  BY <1>2 DEF Drain, TakeBuffers
<1>3. ASSUME NEW t \in Thread, FlushRaises(t) PROVE EventTypes'
  BY <1>3 DEF FlushRaises
<1>4. CASE Kill
  <2>1. UNION {snap[t] : t \in Thread} \subseteq 1..seq
    OBVIOUS
  <2>2. QED
    BY <1>4, <2>1 DEF Kill
<1>5. CASE UNCHANGED <<seq, doc, buffered, lost>>
  BY <1>5
<1>6. QED
  BY <1>1, <1>2, <1>3, <1>4, <1>5
  DEF Next, FlushStep, CreateStaging, NextPartition, InsertRow, ChooseCopy,
      CopyMerged, ReplaceShard, BeginNewShard, FinishNewShard, OverwriteShard,
      TimerTick, TimerExit, EndFlush, CloseBegin, JoinTimer, Disconnect, vars

LEMMA RunTypesNext ==
  ASSUME RunTypes, [Next]_vars PROVE RunTypes'
<1> USE DEF RunTypes
<1>1. ASSUME NEW t \in Thread, Drain(t) PROVE RunTypes'
  <2>1. raced' \in BOOLEAN
    BY <1>1 DEF Drain
  <2>2. QED
    BY <1>1, <2>1 DEF Drain, AfterFlush
<1>2. ASSUME NEW t \in Thread, PartitionDone(t),
             UNCHANGED <<timer, closed, alive, faults, raced>>
      PROVE RunTypes'
  BY <1>2 DEF PartitionDone, AfterFlush
<1>3. ASSUME NEW t \in Thread, FlushRaises(t) PROVE RunTypes'
  <2>1. faults' \in 0..MaxFaults
    BY <1>3 DEF FlushRaises
  <2>2. main' \in {"run", "flush", "close", "join", "final", "disconnect",
                   "done", "aborted"}
    BY <1>3 DEF FlushRaises, AfterRaise, AfterFlush
  <2>3. QED
    BY <1>3, <2>1, <2>2 DEF FlushRaises
<1>4. ASSUME NEW t \in Emitter, NEW p \in Partition, Append(t, p)
      PROVE RunTypes'
  BY <1>4 DEF Append, EnsureTimer
<1>5. CASE TimerExit \/ EndFlush \/ CloseBegin \/ JoinTimer \/ Disconnect \/ Kill
  BY <1>5 DEF TimerExit, EndFlush, CloseBegin, JoinTimer, Disconnect, Kill,
     MainStep
<1>6. CASE UNCHANGED <<timer, closed, alive, main, faults, raced>>
  BY <1>6
<1>7. QED
  BY <1>1, <1>2, <1>3, <1>4, <1>5, <1>6
  DEF Next, FlushStep, CreateStaging, NextPartition, InsertRow, ChooseCopy,
      CopyMerged, ReplaceShard, BeginNewShard, FinishNewShard, OverwriteShard,
      TimerTick, runVars, vars

LEMMA FileTypesNext ==
  ASSUME FileTypes, ThreadTypes, LocalsInScope, [Next]_vars PROVE FileTypes'
<1> USE DEF FileTypes, Count
<1>1. ASSUME NEW t \in Thread, NEW c \in Count, part[t] \in Partition
      PROVE [shard EXCEPT ![part[t]] = c] \in [Partition -> Count]
  BY <1>1
<1>2. NoRows \in Count
  BY DEF NoRows
<1>3. ASSUME NEW t \in Thread, pc[t] \in Writing
      PROVE part[t] \in Partition
  BY <1>3 DEF LocalsInScope, ThreadTypes
<1>4. ASSUME NEW t \in Thread, CreateStaging(t) PROVE FileTypes'
  BY <1>2, <1>4 DEF CreateStaging, diskVars
<1>5. ASSUME NEW t \in Thread, NextPartition(t) PROVE FileTypes'
  BY <1>2, <1>5 DEF NextPartition, ClearStaging, diskVars
<1>6. ASSUME NEW t \in Thread, InsertRow(t) PROVE FileTypes'
  BY <1>6 DEF InsertRow, ThreadTypes, diskVars
<1>7. ASSUME NEW t \in Thread, CopyMerged(t) PROVE FileTypes'
  <2>1. part[t] \in Partition
    BY <1>3, <1>7 DEF CopyMerged, Writing
  <2>2. UnionAll(shard[part[t]], staging) \in Count
    BY <2>1 DEF UnionAll
  <2>3. QED
    BY <1>7, <2>1, <2>2 DEF CopyMerged
<1>8. ASSUME NEW t \in Thread, ReplaceShard(t) PROVE FileTypes'
  <2>1. part[t] \in Partition
    BY <1>3, <1>8 DEF ReplaceShard, Writing
  <2>2. QED
    BY <1>1, <1>8, <2>1 DEF ReplaceShard
<1>9. ASSUME NEW t \in Thread, BeginNewShard(t) PROVE FileTypes'
  BY <1>3, <1>9 DEF BeginNewShard, Writing
<1>10. ASSUME NEW t \in Thread, FinishNewShard(t) PROVE FileTypes'
  <2>1. part[t] \in Partition
    BY <1>3, <1>10 DEF FinishNewShard, Writing
  <2>2. QED
    BY <1>1, <1>10, <2>1 DEF FinishNewShard
<1>11. ASSUME NEW t \in Thread, OverwriteShard(t) PROVE FileTypes'
  <2>1. part[t] \in Partition
    BY <1>3, <1>11 DEF OverwriteShard, Writing
  <2>2. QED
    BY <1>1, <1>11, <2>1 DEF OverwriteShard
<1>12. CASE Kill
  BY <1>2, <1>12 DEF Kill, diskVars
<1>13. CASE UNCHANGED <<staging, shard, onDisk, torn, tmp, tmpOnDisk>>
  BY <1>13
<1>14. QED
  BY <1>4, <1>5, <1>6, <1>7, <1>8, <1>9, <1>10, <1>11, <1>12, <1>13
  DEF Next, FlushStep, Append, Drain, ChooseCopy, FlushRaises, TimerTick,
      TimerExit, EndFlush, CloseBegin, JoinTimer, Disconnect, diskVars, vars

LEMMA ThreadTypesNext ==
  ASSUME EventTypes, ThreadTypes, LocalsInScope, [Next]_vars PROVE ThreadTypes'
<1> USE DEF EventTypes, ThreadTypes, Event, PC, MidFlush, Writing
<1>1. ASSUME NEW t \in Emitter, NEW p \in Partition, Append(t, p)
      PROVE ThreadTypes'
  <2>1. snap \in [Thread -> SUBSET (1..(seq + 1))]
    OBVIOUS
  <2>2. t \in Thread
    BY DEF Thread
  <2>3. QED
    BY <1>1, <2>1, <2>2 DEF Append, flushVars
<1>2. ASSUME NEW t \in Thread, Drain(t) PROVE ThreadTypes'
  <2>1. CASE buffered = {}
    BY <1>2, <2>1 DEF Drain
  <2>2. CASE buffered # {}
    BY <1>2, <2>2, ZenonT(40) DEF Drain, TakeBuffers
  <2>3. QED
    BY <2>1, <2>2
<1>3. ASSUME NEW t \in Thread, CreateStaging(t) \/ ChooseCopy(t) \/ CopyMerged(t)
                               \/ BeginNewShard(t) PROVE ThreadTypes'
  BY <1>3 DEF CreateStaging, ChooseCopy, CopyBranch, CopyMerged, BeginNewShard,
     flushVars
<1>4. ASSUME NEW t \in Thread, NextPartition(t) PROVE ThreadTypes'
  BY <1>4 DEF NextPartition
<1>5. ASSUME NEW t \in Thread, InsertRow(t) PROVE ThreadTypes'
  BY <1>5 DEF InsertRow
<1>6. ASSUME NEW t \in Thread, PartitionDone(t), seq' = seq PROVE ThreadTypes'
  BY <1>6 DEF PartitionDone
<1>7. ASSUME NEW t \in Thread, FlushRaises(t) PROVE ThreadTypes'
  BY <1>7 DEF FlushRaises, DropSnapshot
<1>8. CASE TimerTick \/ EndFlush \/ JoinTimer
  BY <1>8 DEF TimerTick, EndFlush, JoinTimer, flushVars, Thread
<1>9. CASE Disconnect \/ Kill
  BY <1>9 DEF Disconnect, Kill, flushVars
<1>10. CASE UNCHANGED <<seq, pc, snap, part, toInsert, stale>>
  BY <1>10
<1>11. QED
  BY <1>1, <1>2, <1>3, <1>4, <1>5, <1>6, <1>7, <1>8, <1>9, <1>10
  DEF Next, FlushStep, ReplaceShard, FinishNewShard, OverwriteShard, TimerExit,
      CloseBegin, flushVars, vars

(***************************************************************************)
(* The scope of the locals of flush and the disjointness of the snapshots  *)
(* depend on each other only through the types.                            *)
(***************************************************************************)
LEMMA LocalsNext ==
  ASSUME EventTypes, ThreadTypes, LocalsInScope, [Next]_vars
  PROVE  LocalsInScope'
<1> USE DEF EventTypes, ThreadTypes, LocalsInScope, Event, PC, MidFlush, Writing,
            Flushing
<1>1. ASSUME NEW t \in Emitter, NEW p \in Partition, Append(t, p)
      PROVE LocalsInScope'
  BY <1>1 DEF Append, flushVars, Thread
<1>2. ASSUME NEW t \in Thread, Drain(t) PROVE LocalsInScope'
  BY <1>2 DEF Drain, TakeBuffers
<1>3. ASSUME NEW t \in Thread, CreateStaging(t) \/ ChooseCopy(t) \/ CopyMerged(t)
                               \/ BeginNewShard(t) PROVE LocalsInScope'
  BY <1>3 DEF CreateStaging, ChooseCopy, CopyBranch, CopyMerged, BeginNewShard,
     flushVars
<1>4. ASSUME NEW t \in Thread, NextPartition(t) PROVE LocalsInScope'
  BY <1>4 DEF NextPartition
<1>5. ASSUME NEW t \in Thread, InsertRow(t) PROVE LocalsInScope'
  BY <1>5 DEF InsertRow
<1>6. ASSUME NEW t \in Thread, PartitionDone(t) PROVE LocalsInScope'
  BY <1>6 DEF PartitionDone
<1>7. ASSUME NEW t \in Thread, FlushRaises(t) PROVE LocalsInScope'
  BY <1>7 DEF FlushRaises, DropSnapshot
<1>8. CASE TimerTick \/ EndFlush \/ JoinTimer
  BY <1>8 DEF TimerTick, EndFlush, JoinTimer, MainStep, flushVars, Thread
<1>9. CASE Disconnect
  BY <1>9 DEF Disconnect, flushVars
<1>10. CASE Kill
  BY <1>10 DEF Kill
<1>11. CASE UNCHANGED <<pc, snap, part, toInsert, stale>>
  BY <1>11
<1>12. QED
  BY <1>1, <1>2, <1>3, <1>4, <1>5, <1>6, <1>7, <1>8, <1>9, <1>10, <1>11
  DEF Next, FlushStep, ReplaceShard, FinishNewShard, OverwriteShard, TimerExit,
      CloseBegin, flushVars, vars

LEMMA TypeInit == Init => TypeOK
<1> SUFFICES ASSUME Init PROVE TypeOK
  OBVIOUS
<1> USE DEF Init
<1>1. EventTypes
  BY DEF EventTypes, Event
<1>2. ThreadTypes
  BY DEF ThreadTypes, PC
<1>3. LocalsInScope
  BY DEF LocalsInScope, MidFlush, Writing, Flushing
<1>4. NoRows \in Count
  BY DEF NoRows, Count
<1>5. FileTypes
  BY <1>4 DEF FileTypes
<1>6. RunTypes
  <2>1. faults \in 0..MaxFaults
    OBVIOUS
  <2>2. QED
    BY <2>1, Zenon DEF RunTypes
<1>7. QED
  BY <1>1, <1>2, <1>3, <1>5, <1>6 DEF TypeOK

(***************************************************************************)
(* Every variable keeps its type, and no flush leaves a snapshot behind.   *)
(***************************************************************************)
THEOREM TypeCorrect == Spec => []TypeOK
<1>1. TypeOK /\ [Next]_vars => TypeOK'
  BY EventTypesNext, RunTypesNext, FileTypesNext, ThreadTypesNext, LocalsNext
  DEF TypeOK
<1>2. QED
  BY TypeInit, <1>1, PTL DEF Spec

(***************************************************************************)
(* The swap of the buffers under the lock hands an event to one flush,     *)
(* whatever the interleaving of the flushes.                               *)
(***************************************************************************)
LEMMA DrainedOnceNext ==
  ASSUME TypeOK, DrainedOnce, [Next]_vars PROVE DrainedOnce'
<1> USE DEF TypeOK, EventTypes, ThreadTypes, LocalsInScope, DrainedOnce
<1>1. ASSUME NEW t \in Emitter, NEW p \in Partition, Append(t, p)
      PROVE DrainedOnce'
  <2>1. \A u \in Thread : seq + 1 \notin snap[u]
    OBVIOUS
  <2>2. QED
    BY <1>1, <2>1 DEF Append, flushVars
<1>2. ASSUME NEW t \in Thread, Drain(t) PROVE DrainedOnce'
  BY <1>2 DEF Drain, TakeBuffers
<1>3. ASSUME NEW t \in Thread, PartitionDone(t), buffered' = buffered
      PROVE DrainedOnce'
  BY <1>3 DEF PartitionDone
<1>4. ASSUME NEW t \in Thread, FlushRaises(t) PROVE DrainedOnce'
  BY <1>4 DEF FlushRaises, DropSnapshot
<1>5. CASE Kill
  BY <1>5 DEF Kill
<1>6. CASE UNCHANGED <<snap, buffered>>
  BY <1>6
<1>7. QED
  BY <1>1, <1>2, <1>3, <1>4, <1>5, <1>6
  DEF Next, FlushStep, CreateStaging, NextPartition, InsertRow, ChooseCopy,
      CopyMerged, ReplaceShard, BeginNewShard, FinishNewShard, OverwriteShard,
      TimerTick, TimerExit, EndFlush, CloseBegin, JoinTimer, Disconnect,
      flushVars, vars

THEOREM SnapshotsDisjoint == Spec => []DrainedOnce
<1>1. Init => DrainedOnce
  BY DEF Init, DrainedOnce
<1>2. TypeOK /\ DrainedOnce /\ [Next]_vars => DrainedOnce'
  BY DrainedOnceNext
<1>3. QED
  BY TypeCorrect, <1>1, <1>2, PTL DEF Spec

(***************************************************************************)
(* What a failed flush or the kill drops was buffered or in a snapshot.    *)
(***************************************************************************)
LostApart == /\ lost \cap buffered = {}
             /\ \A t \in Thread : lost \cap snap[t] = {}

LEMMA LostApartNext ==
  ASSUME TypeOK, DrainedOnce, LostApart, [Next]_vars PROVE LostApart'
<1> USE DEF TypeOK, EventTypes, ThreadTypes, DrainedOnce, LostApart
<1>1. ASSUME NEW t \in Emitter, NEW p \in Partition, Append(t, p)
      PROVE LostApart'
  BY <1>1 DEF Append, flushVars
<1>2. ASSUME NEW t \in Thread, Drain(t) PROVE LostApart'
  BY <1>2 DEF Drain, TakeBuffers
<1>3. ASSUME NEW t \in Thread, PartitionDone(t), UNCHANGED <<buffered, lost>>
      PROVE LostApart'
  BY <1>3 DEF PartitionDone
<1>4. ASSUME NEW t \in Thread, FlushRaises(t) PROVE LostApart'
  BY <1>4 DEF FlushRaises, DropSnapshot
<1>5. CASE Kill
  BY <1>5 DEF Kill
<1>6. CASE UNCHANGED <<snap, buffered, lost>>
  BY <1>6
<1>7. QED
  BY <1>1, <1>2, <1>3, <1>4, <1>5, <1>6
  DEF Next, FlushStep, CreateStaging, NextPartition, InsertRow, ChooseCopy,
      CopyMerged, ReplaceShard, BeginNewShard, FinishNewShard, OverwriteShard,
      TimerTick, TimerExit, EndFlush, CloseBegin, JoinTimer, Disconnect,
      flushVars, vars

-----------------------------------------------------------------------------
(***************************************************************************)
(* SerialExactlyOnce is not inductive: what a flush adds to a shard depends *)
(* on what it has put into the staging table, and that on no other flush   *)
(* having touched the table.  SerialInv says so, place by place.           *)
(***************************************************************************)
RowsOf(S) == [e \in Event |-> IF e \in S THEN 1 ELSE 0]

\* The rows of the partition thread t is writing.
Mine(t) == {e \in snap[t] : doc[e] = part[t]}

\* Event e has left the process.
Written(e) == /\ e \in 1..seq
              /\ e \notin buffered /\ e \notin lost
              /\ \A t \in Thread : e \notin snap[t]

OneFlush == \A t, u \in Thread : Flushing(t) /\ Flushing(u) => t = u

ShardsExact == \A p \in Partition, e \in Event :
                  shard[p][e] = IF Written(e) /\ doc[e] = p THEN 1 ELSE 0

NoFileNoRows == \A p \in Partition \ onDisk : shard[p] = NoRows

StagingExact ==
    \A t \in Thread :
        /\ pc[t] \in {"insert", "merge", "new", "writing"}
              => staging = RowsOf(Mine(t) \ toInsert[t])
        /\ pc[t] \in {"insert", "merge", "new", "writing", "replace"}
              => toInsert[t] \subseteq Mine(t)
        /\ pc[t] \in {"merge", "new", "writing", "replace"} => toInsert[t] = {}
        /\ pc[t] = "new" => part[t] \notin onDisk
        /\ pc[t] = "writing" => part[t] \in torn /\ shard[part[t]] = NoRows
        /\ pc[t] = "replace"
              => tmp[part[t]] = UnionAll(shard[part[t]], RowsOf(Mine(t)))

SerialInv == ~raced => OneFlush /\ ShardsExact /\ NoFileNoRows /\ StagingExact

IInv == TypeOK /\ DrainedOnce /\ LostApart /\ SerialInv

(***************************************************************************)
(* A partition that is done makes the rows of it written, and no others.   *)
(***************************************************************************)
LEMMA PartitionWrites ==
  ASSUME TypeOK, DrainedOnce, LostApart,
         NEW t \in Thread, PartitionDone(t),
         UNCHANGED <<seq, doc, buffered, lost>>,
         NEW e \in Event
  PROVE  Written(e)' <=> Written(e) \/ e \in Mine(t)
BY DEF TypeOK, EventTypes, ThreadTypes, DrainedOnce, LostApart, PartitionDone,
   Written, Mine

(***************************************************************************)
(* A step that only moves events between the buffers, the snapshots and    *)
(* the lost makes none of them written.                                    *)
(***************************************************************************)
LEMMA MoveWritesNothing ==
  ASSUME TypeOK, DrainedOnce, LostApart,
         \/ \E t \in Emitter, p \in Partition : Append(t, p)
         \/ \E t \in Thread : Drain(t) \/ FlushRaises(t)
         \/ Kill
         \/ UNCHANGED <<seq, buffered, lost, snap>>,
         NEW e \in Event
  PROVE  Written(e)' <=> Written(e)
<1> USE DEF TypeOK, EventTypes, ThreadTypes, Written
<1>1. ASSUME NEW t \in Emitter, NEW p \in Partition, Append(t, p)
      PROVE Written(e)' <=> Written(e)
  BY <1>1 DEF Append, flushVars
<1>2. ASSUME NEW t \in Thread, Drain(t) PROVE Written(e)' <=> Written(e)
  BY <1>2 DEF Drain, TakeBuffers, DrainedOnce, LocalsInScope, Flushing, MidFlush,
     Writing
<1>3. ASSUME NEW t \in Thread, FlushRaises(t) PROVE Written(e)' <=> Written(e)
  BY <1>3 DEF FlushRaises, DropSnapshot
<1>4. CASE Kill
  BY <1>4 DEF Kill
<1>5. CASE UNCHANGED <<seq, buffered, lost, snap>>
  BY <1>5
<1>6. QED
  BY <1>1, <1>2, <1>3, <1>4, <1>5

(***************************************************************************)
(* SerialInv is preserved.  Only the thread that flushes can disturb it.   *)
(***************************************************************************)
LEMMA SerialInvNext ==
  ASSUME IInv, [Next]_vars PROVE SerialInv'
<1> SUFFICES ASSUME ~raced'
             PROVE  (OneFlush /\ ShardsExact /\ NoFileNoRows /\ StagingExact)'
  BY DEF SerialInv
<1>0. ~raced
  BY DEF Next, FlushStep, Append, Drain, CreateStaging, NextPartition, InsertRow,
     ChooseCopy, CopyMerged, ReplaceShard, BeginNewShard, FinishNewShard,
     OverwriteShard, FlushRaises, TimerTick, TimerExit, EndFlush, CloseBegin,
     JoinTimer, Disconnect, Kill, vars, IInv, TypeOK, RunTypes
<1>inv. TypeOK /\ DrainedOnce /\ LostApart
        /\ OneFlush /\ ShardsExact /\ NoFileNoRows /\ StagingExact
  BY <1>0 DEF IInv, SerialInv
<1> USE <1>inv
\* Nothing happens to a thread in a flush nor to what it has done.
<1>quiet. ASSUME UNCHANGED <<snap, part, toInsert, staging, shard, onDisk, torn, tmp>>,
                 \A t \in Thread : \/ pc'[t] = pc[t]
                                   \/ pc'[t] \in {"idle", "enter"},
                 \A e \in Event : Written(e)' <=> Written(e),
                 \A e \in 1..seq : doc'[e] = doc[e]
          PROVE  (OneFlush /\ ShardsExact /\ NoFileNoRows /\ StagingExact)'
  <2>1. OneFlush'
    BY <1>quiet DEF OneFlush, Flushing, MidFlush, Writing
  <2>2. ShardsExact'
    BY <1>quiet DEF ShardsExact, Written
  <2>3. NoFileNoRows'
    BY <1>quiet DEF NoFileNoRows, NoRows
  <2>4. \A t \in Thread : Mine(t)' = Mine(t)
    BY <1>quiet DEF Mine, TypeOK, ThreadTypes, EventTypes
  <2>5. StagingExact'
    BY <1>quiet, <2>4 DEF StagingExact, RowsOf, UnionAll
  <2>6. QED
    BY <2>1, <2>2, <2>3, <2>5
<1>alone. \A t \in Thread : Flushing(t) => \A u \in Thread \ {t} : pc[u] \notin MidFlush
  BY DEF OneFlush, Flushing
\* Thread t, the only one in a flush, moves on, and nobody's rows are written.
<1>own. ASSUME NEW t \in Thread, Flushing(t), NEW place \in MidFlush,
               pc' = [pc EXCEPT ![t] = place],
               UNCHANGED <<seq, doc, buffered, snap, lost, shard>>,
               onDisk \subseteq onDisk', \A p \in onDisk' \ onDisk : p = part[t],
               \/ UNCHANGED tmp \/ place = "replace"
        PROVE  /\ OneFlush' /\ ShardsExact' /\ NoFileNoRows'
               /\ \A u \in Thread \ {t} : pc'[u] \notin MidFlush
               /\ pc'[t] = place
  <2>1. pc \in [Thread -> PC]
    BY DEF TypeOK, ThreadTypes
  <2>2. pc'[t] = place /\ \A u \in Thread \ {t} : pc'[u] = pc[u]
    BY <1>own, <2>1
  <2>3. OneFlush'
    BY <2>2, <1>own, <1>alone DEF OneFlush, Flushing
  <2>4. ShardsExact'
    BY <1>own DEF ShardsExact, Written
  <2>5. NoFileNoRows'
    BY <1>own DEF NoFileNoRows, NoRows
  <2>6. QED
    BY <2>2, <2>3, <2>4, <2>5, <1>own, <1>alone
<1>1. ASSUME NEW t \in Emitter, NEW p \in Partition, Append(t, p)
      PROVE  (OneFlush /\ ShardsExact /\ NoFileNoRows /\ StagingExact)'
  <2>1. \A e \in Event : Written(e)' <=> Written(e)
    BY <1>1, MoveWritesNothing
  <2>2. \A u \in Thread : pc'[u] = pc[u] \/ pc'[u] \in {"idle", "enter"}
    BY <1>1 DEF Append, TypeOK, ThreadTypes, Thread
  <2>3. \A e \in 1..seq : doc'[e] = doc[e]
    BY <1>1 DEF Append, TypeOK, EventTypes, Event
  <2>4. UNCHANGED <<snap, part, toInsert, staging, shard, onDisk, torn, tmp>>
    BY <1>1 DEF Append, flushVars, diskVars
  <2>5. QED
    BY <1>quiet, <2>1, <2>2, <2>3, <2>4
<1>2. ASSUME NEW t \in Thread, Drain(t)
      PROVE  (OneFlush /\ ShardsExact /\ NoFileNoRows /\ StagingExact)'
  <2>1. \A e \in Event : Written(e)' <=> Written(e)
    BY <1>2, MoveWritesNothing
  <2>2. pc \in [Thread -> PC]
    BY DEF TypeOK, ThreadTypes
  <2>3. UNCHANGED <<seq, doc, part, toInsert, staging, shard, onDisk, torn, tmp>>
    BY <1>2 DEF Drain, diskVars
  <2>4. CASE buffered = {}
    BY <1>2, <1>quiet, <2>1, <2>2, <2>3, <2>4 DEF Drain
  <2>5. CASE buffered # {}
    <3>1. \A u \in Thread : pc'[u] \in MidFlush => u = t /\ pc'[u] = "create"
      BY <1>2, <2>2, <2>5 DEF Drain, Flushing
    <3>2. OneFlush' /\ StagingExact'
      BY <3>1 DEF OneFlush, StagingExact, Flushing, MidFlush, Writing
    <3>3. ShardsExact'
      BY <2>1, <2>3 DEF ShardsExact
    <3>4. NoFileNoRows'
      BY <2>3 DEF NoFileNoRows, NoRows
    <3>5. QED
      BY <3>2, <3>3, <3>4
  <2>6. QED
    BY <2>4, <2>5
<1>3. ASSUME NEW t \in Thread, CreateStaging(t)
      PROVE  (OneFlush /\ ShardsExact /\ NoFileNoRows /\ StagingExact)'
  <2>1. OneFlush' /\ ShardsExact' /\ NoFileNoRows'
        /\ \A u \in Thread : pc'[u] \in MidFlush => u = t /\ pc'[u] = "next"
    BY <1>3, <1>own DEF CreateStaging, Flushing, MidFlush, diskVars, flushVars
  <2>2. StagingExact'
    BY <2>1 DEF StagingExact, MidFlush, Writing
  <2>3. QED
    BY <2>1, <2>2
<1>4. ASSUME NEW t \in Thread, NextPartition(t)
      PROVE  (OneFlush /\ ShardsExact /\ NoFileNoRows /\ StagingExact)'
  <2>1. OneFlush' /\ ShardsExact' /\ NoFileNoRows'
        /\ \A u \in Thread : pc'[u] \in MidFlush => u = t /\ pc'[u] = "insert"
    BY <1>4, <1>own DEF NextPartition, Flushing, MidFlush, Writing, diskVars
  <2>2. toInsert'[t] = Mine(t)' /\ staging' = NoRows
    BY <1>4 DEF NextPartition, ClearStaging, Mine, TypeOK, ThreadTypes
  <2>3. staging' = RowsOf(Mine(t)' \ toInsert'[t])
    BY <2>2 DEF RowsOf, NoRows
  <2>4. StagingExact'
    BY <2>1, <2>2, <2>3 DEF StagingExact, MidFlush, Writing
  <2>5. QED
    BY <2>1, <2>4
<1>5. ASSUME NEW t \in Thread, InsertRow(t)
      PROVE  (OneFlush /\ ShardsExact /\ NoFileNoRows /\ StagingExact)'
  <2>0. pc' = [pc EXCEPT ![t] = "insert"]
    BY <1>5 DEF InsertRow, TypeOK, ThreadTypes
  <2>1. OneFlush' /\ ShardsExact' /\ NoFileNoRows'
        /\ \A u \in Thread : pc'[u] \in MidFlush => u = t /\ pc'[u] = "insert"
    BY <1>5, <2>0, <1>own DEF InsertRow, Flushing, MidFlush, Writing, diskVars
  <2>2. PICK e \in toInsert[t] : /\ staging' = [staging EXCEPT ![e] = @ + 1]
                                 /\ toInsert'[t] = toInsert[t] \ {e}
    BY <1>5 DEF InsertRow, TypeOK, ThreadTypes
  <2>3. /\ staging = RowsOf(Mine(t) \ toInsert[t])
        /\ toInsert[t] \subseteq Mine(t) /\ Mine(t)' = Mine(t) /\ e \in Event
    BY <1>5 DEF InsertRow, StagingExact, Mine, TypeOK, ThreadTypes, LocalsInScope
  <2>4. staging' = RowsOf(Mine(t)' \ toInsert'[t])
    BY <2>2, <2>3 DEF RowsOf
  <2>5. toInsert'[t] \subseteq Mine(t)'
    BY <2>2, <2>3
  <2>6. StagingExact'
    BY <2>1, <2>4, <2>5 DEF StagingExact, MidFlush, Writing
  <2>7. QED
    BY <2>1, <2>6
<1>6. ASSUME NEW t \in Thread, ChooseCopy(t)
      PROVE  (OneFlush /\ ShardsExact /\ NoFileNoRows /\ StagingExact)'
  <2>1. OneFlush' /\ ShardsExact' /\ NoFileNoRows'
        /\ (\A u \in Thread : pc'[u] \in MidFlush => u = t)
        /\ pc'[t] = CopyBranch(part[t])
    BY <1>6, <1>own DEF ChooseCopy, CopyBranch, Flushing, MidFlush, Writing, diskVars,
       flushVars
  <2>2. /\ staging' = RowsOf(Mine(t)' \ toInsert'[t])
        /\ toInsert'[t] = {}
    BY <1>6 DEF ChooseCopy, StagingExact, Mine, RowsOf, flushVars
  <2>3. UNCHANGED <<part, onDisk>>
    BY <1>6 DEF ChooseCopy, flushVars, diskVars
  <2>4. StagingExact'
    BY <2>1, <2>2, <2>3 DEF StagingExact, MidFlush, Writing, CopyBranch
  <2>5. QED
    BY <2>1, <2>4
<1>7. ASSUME NEW t \in Thread, CopyMerged(t)
      PROVE  (OneFlush /\ ShardsExact /\ NoFileNoRows /\ StagingExact)'
  <2>1. OneFlush' /\ ShardsExact' /\ NoFileNoRows'
        /\ \A u \in Thread : pc'[u] \in MidFlush => u = t /\ pc'[u] = "replace"
    BY <1>7, <1>own DEF CopyMerged, Flushing, MidFlush, Writing, flushVars
  <2>2. staging = RowsOf(Mine(t)) /\ toInsert[t] = {}
    BY <1>7 DEF CopyMerged, StagingExact
  <2>3. UNCHANGED <<snap, doc, part, toInsert, shard>> /\ part[t] \in Partition
        /\ tmp \in [Partition -> Count]
    BY <1>7 DEF CopyMerged, flushVars, TypeOK, LocalsInScope, ThreadTypes, Writing,
       FileTypes
  <2>4. tmp'[part[t]] = UnionAll(shard[part[t]], RowsOf(Mine(t)))
    BY <1>7, <2>2, <2>3 DEF CopyMerged
  <2>5. tmp'[part'[t]] = UnionAll(shard'[part'[t]], RowsOf(Mine(t)'))
    BY <2>3, <2>4 DEF Mine
  <2>6. StagingExact'
    BY <2>1, <2>2, <2>3, <2>5 DEF StagingExact, MidFlush, Writing
  <2>7. QED
    BY <2>1, <2>6
\* Thread t adds its rows of a partition to the shard of it, once.
<1>done. ASSUME NEW t \in Thread, pc[t] \in Writing, PartitionDone(t),
                UNCHANGED <<seq, doc, buffered, lost>>,
                shard' = [shard EXCEPT ![part[t]] =
                             UnionAll(shard[part[t]], RowsOf(Mine(t)))],
                onDisk \subseteq onDisk', part[t] \in onDisk'
         PROVE  (OneFlush /\ ShardsExact /\ NoFileNoRows /\ StagingExact)'
  <2>1. \A u \in Thread : pc'[u] \in MidFlush => u = t /\ pc'[u] = "next"
    BY <1>done, <1>alone
    DEF PartitionDone, TypeOK, ThreadTypes, Flushing, MidFlush, Writing
  <2>2. OneFlush' /\ StagingExact'
    BY <2>1 DEF OneFlush, StagingExact, Flushing, MidFlush, Writing
  <2>3. part[t] \in Partition /\ shard \in [Partition -> Count]
    BY <1>done DEF TypeOK, ThreadTypes, FileTypes, LocalsInScope
  <2>4. \A p \in Partition \ {part[t]} : shard'[p] = shard[p]
    BY <1>done, <2>3
  <2>5. \A e \in Event : Written(e)' <=> Written(e) \/ e \in Mine(t)
    BY <1>done, PartitionWrites
  <2>6. \A e \in Mine(t) : ~Written(e) /\ doc[e] = part[t]
    BY DEF Mine, Written
  <2>7. \A e \in Event : shard'[part[t]][e]
                            = shard[part[t]][e] + (IF e \in Mine(t) THEN 1 ELSE 0)
    BY <1>done, <2>3 DEF UnionAll, RowsOf
  <2>8. \A e \in Event :
           shard'[part[t]][e] = IF Written(e)' /\ doc[e] = part[t] THEN 1 ELSE 0
    BY <2>3, <2>5, <2>6, <2>7 DEF ShardsExact
  <2>9. \A p \in Partition \ {part[t]}, e \in Event :
           shard'[p][e] = IF Written(e)' /\ doc[e] = p THEN 1 ELSE 0
    BY <2>4, <2>5, <2>6 DEF ShardsExact
  <2>10. ShardsExact'
    BY <2>8, <2>9, <1>done DEF ShardsExact
  <2>11. NoFileNoRows'
    BY <1>done, <2>4 DEF NoFileNoRows, NoRows
  <2>12. QED
    BY <2>2, <2>10, <2>11
<1>8. ASSUME NEW t \in Thread, ReplaceShard(t)
      PROVE  (OneFlush /\ ShardsExact /\ NoFileNoRows /\ StagingExact)'
  BY <1>8, <1>done DEF ReplaceShard, StagingExact, Writing
<1>9. ASSUME NEW t \in Thread, BeginNewShard(t)
      PROVE  (OneFlush /\ ShardsExact /\ NoFileNoRows /\ StagingExact)'
  <2>1. OneFlush' /\ ShardsExact' /\ NoFileNoRows'
        /\ \A u \in Thread : pc'[u] \in MidFlush => u = t /\ pc'[u] = "writing"
    BY <1>9, <1>own DEF BeginNewShard, Flushing, MidFlush, Writing, flushVars
  <2>2. part[t] \in Partition
    BY <1>9 DEF BeginNewShard, TypeOK, LocalsInScope, ThreadTypes, Writing
  <2>3. part'[t] \in torn' /\ shard'[part'[t]] = NoRows
    BY <1>9, <2>2 DEF BeginNewShard, NoFileNoRows, flushVars
  <2>mine. Mine(t)' = Mine(t) /\ UNCHANGED <<staging, toInsert>>
    BY <1>9 DEF BeginNewShard, Mine, flushVars
  <2>4. /\ staging' = RowsOf(Mine(t)' \ toInsert'[t])
        /\ toInsert'[t] = {}
    BY <1>9, <2>mine DEF BeginNewShard, StagingExact
  <2>5. NoRows' = NoRows
    BY DEF NoRows
  <2>6. StagingExact'
    BY <2>1, <2>3, <2>4, <2>5 DEF StagingExact, MidFlush, Writing
  <2>7. QED
    BY <2>1, <2>6
<1>10. ASSUME NEW t \in Thread, FinishNewShard(t)
       PROVE  (OneFlush /\ ShardsExact /\ NoFileNoRows /\ StagingExact)'
  <2>1. staging = RowsOf(Mine(t)) /\ shard[part[t]] = NoRows /\ part[t] \in onDisk
    BY <1>10 DEF FinishNewShard, StagingExact, TypeOK, FileTypes
  <2>2. UnionAll(NoRows, RowsOf(Mine(t))) = RowsOf(Mine(t))
    BY DEF UnionAll, NoRows, RowsOf
  <2>3. QED
    BY <1>10, <1>done, <2>1, <2>2 DEF FinishNewShard, Writing
<1>11. ASSUME NEW t \in Thread, OverwriteShard(t)
       PROVE  (OneFlush /\ ShardsExact /\ NoFileNoRows /\ StagingExact)'
  BY <1>11 DEF OverwriteShard, StagingExact
<1>12. ASSUME NEW t \in Thread, FlushRaises(t)
       PROVE  (OneFlush /\ ShardsExact /\ NoFileNoRows /\ StagingExact)'
  <2>1. \A e \in Event : Written(e)' <=> Written(e)
    BY <1>12, MoveWritesNothing
  <2>2. \A u \in Thread : pc'[u] \notin MidFlush
    BY <1>12, <1>alone DEF FlushRaises, TypeOK, ThreadTypes, MidFlush, Writing
  <2>3. OneFlush' /\ StagingExact'
    BY <2>2 DEF OneFlush, StagingExact, Flushing, MidFlush, Writing
  <2>4. ShardsExact'
    BY <1>12, <2>1 DEF FlushRaises, ShardsExact, diskVars
  <2>5. NoFileNoRows'
    BY <1>12 DEF FlushRaises, NoFileNoRows, NoRows, diskVars
  <2>6. QED
    BY <2>3, <2>4, <2>5
<1>13. CASE Kill
  <2>1. \A e \in Event : Written(e)' <=> Written(e)
    BY <1>13, MoveWritesNothing
  <2>2. OneFlush' /\ StagingExact'
    BY <1>13 DEF Kill, OneFlush, StagingExact, Flushing, MidFlush, Writing
  <2>3. ShardsExact'
    BY <1>13, <2>1 DEF Kill, ShardsExact, diskVars
  <2>4. NoFileNoRows'
    BY <1>13 DEF Kill, NoFileNoRows, NoRows, diskVars
  <2>5. QED
    BY <2>2, <2>3, <2>4
<1>14. CASE \/ TimerTick \/ TimerExit \/ EndFlush \/ CloseBegin \/ JoinTimer
            \/ Disconnect \/ UNCHANGED vars
  <2>1. UNCHANGED <<seq, doc, buffered, lost, snap, part, toInsert, staging, shard,
                    onDisk, torn, tmp>>
    BY <1>14 DEF TimerTick, TimerExit, EndFlush, CloseBegin, JoinTimer, Disconnect,
       vars, flushVars, diskVars
  <2>2. \A e \in Event : Written(e)' <=> Written(e)
    BY <2>1 DEF Written
  <2>3. \A u \in Thread : pc'[u] = pc[u] \/ pc'[u] \in {"idle", "enter"}
    BY <1>14 DEF TimerTick, TimerExit, EndFlush, CloseBegin, JoinTimer, Disconnect,
       vars, TypeOK, ThreadTypes
  <2>4. QED
    BY <2>1, <2>2, <2>3, <1>quiet
<1>15. QED
  BY <1>1, <1>2, <1>3, <1>4, <1>5, <1>6, <1>7, <1>8, <1>9, <1>10, <1>11, <1>12,
     <1>13, <1>14
  DEF Next, FlushStep

LEMMA SerialInvInit == Init => LostApart /\ SerialInv
<1> SUFFICES ASSUME Init PROVE LostApart /\ SerialInv
  OBVIOUS
<1>1. LostApart
  BY DEF Init, LostApart
<1>2. \A t \in Thread : pc[t] = "idle"
  BY DEF Init
<1>3. OneFlush /\ StagingExact
  BY <1>2 DEF OneFlush, StagingExact, Flushing, MidFlush, Writing
<1>4. ShardsExact /\ NoFileNoRows
  BY DEF Init, ShardsExact, NoFileNoRows, NoRows, Written
<1>5. QED
  BY <1>1, <1>3, <1>4 DEF SerialInv

THEOREM Inductive == Spec => []IInv
<1>1. Init => IInv
  <2>1. Init => DrainedOnce
    BY DEF Init, DrainedOnce
  <2>2. QED
    BY TypeInit, SerialInvInit, <2>1 DEF IInv
<1>2. IInv /\ [Next]_vars => IInv'
  <2> SUFFICES ASSUME IInv, [Next]_vars PROVE IInv'
    OBVIOUS
  <2>1. TypeOK'
    BY EventTypesNext, RunTypesNext, FileTypesNext, ThreadTypesNext, LocalsNext
    DEF TypeOK, IInv
  <2>2. DrainedOnce'
    BY DrainedOnceNext DEF IInv
  <2>3. LostApart'
    BY LostApartNext DEF IInv
  <2>4. SerialInv'
    BY SerialInvNext
  <2>5. QED
    BY <2>1, <2>2, <2>3, <2>4 DEF IInv
<1>3. QED
  BY <1>1, <1>2, PTL DEF Spec

(***************************************************************************)
(* However many threads append and flush, and wherever a statement fails   *)
(* or the process is killed: unless two flushes have overlapped, every     *)
(* event is in the shard of its partition exactly once from the flush that *)
(* carried it on, and in no other shard.                                   *)
(***************************************************************************)
THEOREM ExactlyOnceWhenSerial == Spec => []SerialExactlyOnce
<1>1. IInv => SerialExactlyOnce
  <2> SUFFICES ASSUME IInv, ~raced PROVE SerialExactlyOnce
    BY DEF SerialExactlyOnce
  <2>1. \A e \in Event :
           Written(e) <=> e <= seq /\ e \notin buffered \cup InFlight \cup lost
    BY DEF Written, InFlight, Event, IInv, TypeOK, EventTypes
  <2>2. ShardsExact
    BY DEF IInv, SerialInv
  <2>3. QED
    BY <2>1, <2>2 DEF SerialExactlyOnce, ShardsExact
<1>2. QED
  BY Inductive, <1>1, PTL

-----------------------------------------------------------------------------
(***************************************************************************)
(* The step of the write path that a reader of the shards can see.  Until  *)
(* flushes overlap, no event leaves its shard and no shard turns unreadable.*)
(***************************************************************************)
LEMMA WrittenStays ==
  ASSUME IInv, [Next]_vars, NEW e \in Event, Written(e) PROVE Written(e)'
<1> USE DEF IInv, TypeOK, EventTypes, ThreadTypes, Written
<1>1. ASSUME NEW t \in Emitter, NEW p \in Partition, Append(t, p)
      PROVE Written(e)'
  BY <1>1 DEF Append, flushVars
<1>2. ASSUME NEW t \in Thread, Drain(t) PROVE Written(e)'
  BY <1>2 DEF Drain, TakeBuffers
<1>3. ASSUME NEW t \in Thread, PartitionDone(t), UNCHANGED <<seq, buffered, lost>>
      PROVE Written(e)'
  BY <1>3 DEF PartitionDone
<1>4. ASSUME NEW t \in Thread, FlushRaises(t) PROVE Written(e)'
  BY <1>4 DEF FlushRaises, DropSnapshot
<1>5. CASE Kill
  BY <1>5 DEF Kill
<1>6. CASE UNCHANGED <<seq, buffered, lost, snap>>
  BY <1>6
<1>7. QED
  BY <1>1, <1>2, <1>3, <1>4, <1>5, <1>6
  DEF Next, FlushStep, CreateStaging, NextPartition, InsertRow, ChooseCopy,
      CopyMerged, ReplaceShard, BeginNewShard, FinishNewShard, OverwriteShard,
      TimerTick, TimerExit, EndFlush, CloseBegin, JoinTimer, Disconnect,
      flushVars, vars

\* Only a shard that was not there can be torn by a step.
LEMMA OnlyNewTorn ==
  ASSUME TypeOK, [Next]_vars
  PROVE  onDisk \subseteq onDisk' /\ torn' \cap onDisk \subseteq torn
BY DEF TypeOK, FileTypes, Next, FlushStep, Append, Drain, CreateStaging,
   NextPartition, InsertRow, ChooseCopy, CopyMerged, ReplaceShard, BeginNewShard,
   FinishNewShard, OverwriteShard, FlushRaises, TimerTick, TimerExit, EndFlush,
   CloseBegin, JoinTimer, Disconnect, Kill, diskVars, vars

LEMMA DocKept ==
  ASSUME TypeOK, [Next]_vars
  PROVE  \A e \in 1..seq : e \in Event /\ doc'[e] = doc[e]
BY DEF TypeOK, EventTypes, Event, Next, FlushStep, Append, Drain, CreateStaging,
   NextPartition, InsertRow, ChooseCopy, CopyMerged, ReplaceShard, BeginNewShard,
   FinishNewShard, OverwriteShard, FlushRaises, TimerTick, TimerExit, EndFlush,
   CloseBegin, JoinTimer, Disconnect, Kill, vars

(***************************************************************************)
(* What has landed in a shard stays there and stays readable, whatever     *)
(* fails, as long as no two flushes overlap.                               *)
(***************************************************************************)
THEOREM LandedStaysAlways == Spec => LandedStays
<1>1. IInv /\ IInv' /\ [Next]_vars
        => (~raced' => \A p \in onDisk \ torn :
                          /\ p \in onDisk' \ torn'
                          /\ \A e \in Event : shard[p][e] <= shard'[p][e])
  <2> SUFFICES ASSUME IInv, IInv', [Next]_vars, ~raced',
                      NEW p \in onDisk \ torn
               PROVE  /\ p \in onDisk' \ torn'
                      /\ \A e \in Event : shard[p][e] <= shard'[p][e]
    OBVIOUS
  <2>0. ~raced
    BY DEF Next, FlushStep, Append, Drain, CreateStaging, NextPartition,
       InsertRow, ChooseCopy, CopyMerged, ReplaceShard, BeginNewShard,
       FinishNewShard, OverwriteShard, FlushRaises, TimerTick, TimerExit,
       EndFlush, CloseBegin, JoinTimer, Disconnect, Kill, vars, IInv, TypeOK,
       RunTypes
  <2>1. p \in onDisk' \ torn'
    BY OnlyNewTorn DEF IInv
  <2>2. ShardsExact /\ ShardsExact' /\ p \in Partition
    BY <2>0 DEF IInv, SerialInv, TypeOK, FileTypes
  <2>3. \A e \in Event : Written(e) => Written(e)' /\ doc'[e] = doc[e]
    BY WrittenStays, DocKept DEF IInv, Written
  <2>4. \A e \in Event : shard[p][e] = (IF Written(e) /\ doc[e] = p THEN 1 ELSE 0)
    BY <2>2 DEF ShardsExact
  <2>5. \A e \in Event :
           shard'[p][e] = (IF Written(e)' /\ doc'[e] = p THEN 1 ELSE 0)
    BY <2>2 DEF ShardsExact
  <2>6. \A e \in Event : shard[p][e] <= shard'[p][e]
    BY <2>3, <2>4, <2>5
  <2>7. QED
    BY <2>1, <2>6
<1>2. QED
  BY Inductive, <1>1, PTL DEF Spec, LandedStays

-----------------------------------------------------------------------------
(***************************************************************************)
(* The refinement of AuditLog needs two facts more: no row exists of an    *)
(* event that has not been emitted, overlapping flushes or not, and a file *)
(* without its footer holds no row of a flush that is over.                *)
(***************************************************************************)
NothingInvented ==
    \A e \in Event : e > seq =>
        staging[e] = 0 /\ \A p \in Partition : shard[p][e] = 0 /\ tmp[p][e] = 0

TornEmpty == ~raced => \A p \in torn : shard[p] = NoRows

LogInv == IInv /\ NothingInvented /\ TornEmpty

LEMMA NothingInventedNext ==
  ASSUME TypeOK, NothingInvented, [Next]_vars PROVE NothingInvented'
<1> USE DEF TypeOK, EventTypes, ThreadTypes, FileTypes, LocalsInScope,
            NothingInvented, Event
<1>1. seq \in Nat /\ seq' \in Nat /\ seq <= seq'
  BY DEF Next, FlushStep, Append, Drain, CreateStaging, NextPartition,
     InsertRow, ChooseCopy, CopyMerged, ReplaceShard, BeginNewShard,
     FinishNewShard, OverwriteShard, FlushRaises, TimerTick, TimerExit,
     EndFlush, CloseBegin, JoinTimer, Disconnect, Kill, vars
<1>2. ASSUME UNCHANGED <<staging, shard, tmp>> PROVE NothingInvented'
  BY <1>1, <1>2
<1>3. ASSUME staging' = NoRows, UNCHANGED <<shard, tmp>> PROVE NothingInvented'
  BY <1>1, <1>3 DEF NoRows
<1>4. ASSUME NEW t \in Thread, InsertRow(t) PROVE NothingInvented'
  <2>1. PICK e \in toInsert[t] : staging' = [staging EXCEPT ![e] = @ + 1]
    BY <1>4 DEF InsertRow
  <2>2. e \in 1..seq
    OBVIOUS
  <2>3. \A f \in Event : f > seq => staging'[f] = staging[f]
    BY <2>1, <2>2 DEF Count
  <2>4. UNCHANGED <<seq, shard, tmp>>
    BY <1>4 DEF InsertRow, diskVars
  <2>5. QED
    BY <2>3, <2>4
<1>5. ASSUME NEW t \in Thread, CopyMerged(t) PROVE NothingInvented'
  <2>1. UNCHANGED <<seq, staging, shard>>
        /\ tmp' = [tmp EXCEPT ![part[t]] = UnionAll(shard[part[t]], staging)]
        /\ part[t] \in Partition
    BY <1>5 DEF CopyMerged, Writing
  <2>2. \A e \in Event : e > seq => UnionAll(shard[part[t]], staging)[e] = 0
    BY <2>1 DEF UnionAll
  <2>3. QED
    BY <2>1, <2>2
<1>6. ASSUME NEW t \in Thread,
             \/ shard' = [shard EXCEPT ![part[t]] = tmp[part[t]]]
             \/ shard' = [shard EXCEPT ![part[t]] = staging],
             part[t] \in Partition, UNCHANGED <<seq, staging, tmp>>
      PROVE  NothingInvented'
  BY <1>6
<1>7. QED
  BY <1>2, <1>3, <1>4, <1>5, <1>6
  DEF Next, FlushStep, Append, Drain, CreateStaging, NextPartition, ClearStaging,
      ChooseCopy, ReplaceShard, BeginNewShard, FinishNewShard, OverwriteShard,
      FlushRaises, TimerTick, TimerExit, EndFlush, CloseBegin, JoinTimer,
      Disconnect, Kill, vars, diskVars, Writing

LEMMA TornEmptyNext ==
  ASSUME IInv, TornEmpty, [Next]_vars PROVE TornEmpty'
<1> SUFFICES ASSUME ~raced' PROVE \A p \in torn' : shard'[p] = NoRows
  BY DEF TornEmpty, NoRows
<1>0. ~raced
  BY DEF Next, FlushStep, Append, Drain, CreateStaging, NextPartition,
     InsertRow, ChooseCopy, CopyMerged, ReplaceShard, BeginNewShard,
     FinishNewShard, OverwriteShard, FlushRaises, TimerTick, TimerExit,
     EndFlush, CloseBegin, JoinTimer, Disconnect, Kill, vars, IInv, TypeOK,
     RunTypes
<1>1. ASSUME NEW t \in Thread, torn' = torn \ {part[t]},
             \A p \in Partition \ {part[t]} : shard'[p] = shard[p]
      PROVE  \A p \in torn' : shard'[p] = NoRows
  BY <1>0, <1>1 DEF TornEmpty, IInv, TypeOK, FileTypes
<1>2. ASSUME NEW t \in Thread, BeginNewShard(t)
      PROVE  \A p \in torn' : shard'[p] = NoRows
  <2>1. part[t] \in Partition \ onDisk
    BY <1>2 DEF BeginNewShard, IInv, TypeOK, LocalsInScope, ThreadTypes, Writing
  <2>2. QED
    BY <1>0, <1>2, <2>1 DEF BeginNewShard, TornEmpty, IInv, SerialInv, NoFileNoRows
<1>3. CASE UNCHANGED <<shard, torn>>
  BY <1>0, <1>3 DEF TornEmpty
<1>4. QED
  BY <1>1, <1>2, <1>3
  DEF Next, FlushStep, Append, Drain, CreateStaging, NextPartition, InsertRow,
      ChooseCopy, CopyMerged, ReplaceShard, FinishNewShard, OverwriteShard,
      FlushRaises, TimerTick, TimerExit, EndFlush, CloseBegin, JoinTimer,
      Disconnect, Kill, vars, diskVars, IInv, TypeOK, FileTypes

\* Until flushes overlap, what a reader finds is what has left the process.
DurableExact == ~raced => Durable = {e \in Event : Written(e)}

LEMMA DurableIsWritten == LogInv => DurableExact
<1> SUFFICES ASSUME LogInv, ~raced PROVE Durable = {e \in Event : Written(e)}
  BY DEF DurableExact
<1>1. \A e : e \in Durable <=> e \in Event /\ Written(e)
  BY DEF LogInv, IInv, SerialInv, ShardsExact, TornEmpty, NoRows, Durable, Written,
     TypeOK, EventTypes, FileTypes, Event
<1>2. QED
  BY <1>1

\* What the log sees of a step, case by case.
LEMMA StepImplementsLog ==
  ASSUME LogInv, LogInv', DurableExact, DurableExact', [Next]_vars
  PROVE  [Log!Next]_(Log!vars)
<1> USE DEF Log!Next, Log!vars
<1>emitted. seq \in Nat /\ 1..seq \subseteq Event
  BY DEF LogInv, IInv, TypeOK, EventTypes, Event
<1>bounded. Durable' \subseteq (1..seq)' /\ lost' \subseteq (1..seq)'
  BY DEF LogInv, IInv, TypeOK, EventTypes, Durable
<1>pending. ASSUME ~raced
            PROVE Log!Pending = {e \in 1..seq : ~Written(e) /\ e \notin lost}
  BY <1>pending, <1>emitted DEF Log!Pending, DurableExact, Written
\* append
<1>1. ASSUME NEW t \in Emitter, NEW p \in Partition, Append(t, p)
      PROVE  Log!Emit
  <2>1. /\ (1..seq)' = 1..seq \cup {seq + 1} /\ seq + 1 \in Event \ (1..seq)
        /\ UNCHANGED <<lost, raced, torn, shard>>
    BY <1>1, <1>emitted DEF Append, Event, diskVars
  <2>2. \A e \in 1..seq : doc'[e] = doc[e]
    BY DocKept DEF LogInv, IInv
  <2>3. doc'[seq + 1] \in Partition
    BY <1>1 DEF Append, LogInv, IInv, TypeOK, EventTypes, Event
  <2>4. shard[doc'[seq + 1]][seq + 1] = 0
    BY <2>1, <2>3, <1>emitted DEF LogInv, NothingInvented
  <2>5. UNCHANGED Durable
    BY <2>1, <2>2, <2>4 DEF Durable
  <2>6. QED
    BY <2>1, <2>5 DEF Log!Emit
<1>2. ASSUME UNCHANGED seq, raced' PROVE Log!Disorder
  BY <1>2, <1>bounded DEF Log!Disorder
\* The end of a COPY or of a replace makes the rows of a partition durable.
<1>3. ASSUME NEW t \in Thread, PartitionDone(t), pc[t] \in Writing, ~raced,
             UNCHANGED <<seq, doc, buffered, lost, raced>>
      PROVE  Log!Persist
  <2>1. TypeOK /\ DrainedOnce /\ LostApart
    BY DEF LogInv, IInv
  <2>2. \A e \in Event : Written(e)' <=> Written(e) \/ e \in Mine(t)
    BY <1>3, <2>1, PartitionWrites
  <2>3. Mine(t) \subseteq Log!Pending
    BY <2>1, <1>3, <1>pending
    DEF Mine, Written, LostApart, TypeOK, ThreadTypes
  <2>4. Durable = {e \in Event : Written(e)}
        /\ Durable' = {e \in Event : Written(e)'}
    BY <1>3 DEF DurableExact
  <2>5. Mine(t) \subseteq Event
    BY <1>emitted DEF Mine, LogInv, IInv, TypeOK, ThreadTypes
  <2>6. Durable' = Durable \cup Mine(t)
    BY <2>2, <2>4, <2>5
  <2>7. QED
    BY <1>3, <2>3, <2>6 DEF Log!Persist
\* No row is written: the durable events are the same, and what is newly lost
\* was pending.
<1>4. ASSUME UNCHANGED <<seq, raced>>, ~raced,
             \A e \in Event : Written(e)' <=> Written(e),
             NEW S \in SUBSET Log!Pending, lost' = lost \cup S
      PROVE  Log!GiveUp
  <2>3. UNCHANGED Durable
    BY <1>4 DEF DurableExact
  <2>4. QED
    BY <1>4, <2>3 DEF Log!GiveUp
<1>5. ASSUME NEW t \in Thread, FlushRaises(t), ~raced PROVE Log!GiveUp
  <2>1. \A e \in Event : Written(e)' <=> Written(e)
    BY <1>5, MoveWritesNothing DEF LogInv, IInv
  <2>2. snap[t] \subseteq Log!Pending
    BY <1>5, <1>pending DEF LogInv, IInv, TypeOK, ThreadTypes, LostApart, Written
  <2>3. QED
    BY <1>4, <1>5, <2>1, <2>2 DEF FlushRaises
<1>6. ASSUME Kill, ~raced PROVE Log!GiveUp
  <2>1. \A e \in Event : Written(e)' <=> Written(e)
    BY <1>6, MoveWritesNothing DEF LogInv, IInv
  <2>2. buffered \subseteq Log!Pending
    BY <1>6, <1>pending DEF LogInv, IInv, TypeOK, EventTypes, LostApart, Written
  <2>3. \A t \in Thread : snap[t] \subseteq Log!Pending
    BY <1>6, <1>pending DEF LogInv, IInv, TypeOK, ThreadTypes, LostApart, Written
  <2>4. buffered \cup UNION {snap[t] : t \in Thread} \subseteq Log!Pending
    BY <2>2, <2>3
  <2>5. lost' = lost \cup (buffered \cup UNION {snap[t] : t \in Thread})
        /\ UNCHANGED <<seq, raced>>
    BY <1>6 DEF Kill
  <2>6. QED
    BY <1>4, <1>6, <2>1, <2>4, <2>5
<1>7. ASSUME UNCHANGED <<seq, lost, raced>>, ~raced,
             \A e \in Event : Written(e)' <=> Written(e)
      PROVE  Log!GiveUp
  <2>1. {} \in SUBSET Log!Pending /\ lost' = lost \cup {}
    BY <1>7
  <2>2. QED
    BY <1>4, <1>7, <2>1
<1>8. ASSUME NEW t \in Thread, Drain(t), ~raced' PROVE Log!GiveUp
  <2>1. \A e \in Event : Written(e)' <=> Written(e)
    BY <1>8, MoveWritesNothing DEF LogInv, IInv
  <2>2. UNCHANGED <<seq, lost, raced>> /\ ~raced
    BY <1>8 DEF Drain, LogInv, IInv, TypeOK, RunTypes
  <2>3. QED
    BY <1>7, <2>1, <2>2
<1>9. ASSUME UNCHANGED <<seq, buffered, lost, snap, raced>>, ~raced
      PROVE  Log!GiveUp
  <2>1. \A e \in Event : Written(e)' <=> Written(e)
    BY <1>9 DEF Written
  <2>2. QED
    BY <1>7, <1>9, <2>1
<1>10. CASE raced'
  <2>1. UNCHANGED seq \/ \E t \in Emitter, p \in Partition : Append(t, p)
    BY DEF Next, FlushStep, Drain, CreateStaging, NextPartition, InsertRow,
       ChooseCopy, CopyMerged, ReplaceShard, BeginNewShard, FinishNewShard,
       OverwriteShard, FlushRaises, TimerTick, TimerExit, EndFlush, CloseBegin,
       JoinTimer, Disconnect, Kill, vars
  <2>2. QED
    BY <2>1, <1>1, <1>2, <1>10
<1>11. CASE ~raced'
  <2>0. ~raced
    BY <1>11 DEF Next, FlushStep, Append, Drain, CreateStaging, NextPartition,
       InsertRow, ChooseCopy, CopyMerged, ReplaceShard, BeginNewShard,
       FinishNewShard, OverwriteShard, FlushRaises, TimerTick, TimerExit,
       EndFlush, CloseBegin, JoinTimer, Disconnect, Kill, vars, LogInv, IInv,
       TypeOK, RunTypes
  <2>1. ASSUME NEW t \in Thread, ReplaceShard(t) \/ FinishNewShard(t)
                                 \/ OverwriteShard(t)
        PROVE  Log!Persist
    BY <1>3, <2>0, <2>1 DEF ReplaceShard, FinishNewShard, OverwriteShard, Writing
  <2>2. ASSUME NEW t \in Thread, CreateStaging(t) \/ NextPartition(t)
                     \/ InsertRow(t) \/ ChooseCopy(t) \/ CopyMerged(t)
                     \/ BeginNewShard(t)
        PROVE  Log!GiveUp
    BY <1>9, <2>0, <2>2 DEF CreateStaging, NextPartition, InsertRow, ChooseCopy,
       CopyMerged, BeginNewShard, flushVars
  <2>3. ASSUME \/ TimerTick \/ TimerExit \/ EndFlush \/ CloseBegin \/ JoinTimer
               \/ Disconnect \/ UNCHANGED vars
        PROVE  Log!GiveUp
    BY <1>9, <2>0, <2>3 DEF TimerTick, TimerExit, EndFlush, CloseBegin, JoinTimer,
       Disconnect, flushVars, vars
  <2>4. QED
    BY <1>1, <1>5, <1>6, <1>8, <1>11, <2>0, <2>1, <2>2, <2>3 DEF Next, FlushStep
<1>12. QED
  BY <1>10, <1>11

(***************************************************************************)
(* The store implements AuditLog: until flushes overlap an event turns     *)
(* durable once, after it was emitted, and is never both given up and      *)
(* written; and no event that was not emitted ever shows up.               *)
(***************************************************************************)
THEOREM StoreImplementsLog == Spec => ImplementsLog
<1>1. Init => Log!Init
  BY DEF Init, Log!Init, Durable
<1>2. Init => LogInv
  <2>1. Init => IInv
    <3>1. Init => DrainedOnce
      BY DEF Init, DrainedOnce
    <3>2. QED
      BY TypeInit, SerialInvInit, <3>1 DEF IInv
  <2>2. Init => NothingInvented /\ TornEmpty
    BY DEF Init, NothingInvented, TornEmpty, NoRows
  <2>3. QED
    BY <2>1, <2>2 DEF LogInv
<1>3. LogInv /\ IInv' /\ [Next]_vars => LogInv'
  BY NothingInventedNext, TornEmptyNext DEF LogInv, IInv
<1>4. LogInv /\ LogInv' /\ DurableExact /\ DurableExact' /\ [Next]_vars
        => [Log!Next]_(Log!vars)
  BY StepImplementsLog
<1>5. QED
  BY Inductive, DurableIsWritten, <1>1, <1>2, <1>3, <1>4, PTL DEF Spec, ImplementsLog, Log!Spec
=============================================================================
