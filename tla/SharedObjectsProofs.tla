------------------------- MODULE SharedObjectsProofs -------------------------
(***************************************************************************)
(* Proofs about what the steps of dagster_io share: EmbeddingCache,        *)
(* ClusterCache, ModelCache, ProcessingTracker, AppendStore, LocalStore,   *)
(* LlmCalls and RunStatus, for every value of their constants; and about   *)
(* MCSharedObjects, which explores them one by one.                        *)
(***************************************************************************)
EXTENDS MCSharedObjects, SequenceTheorems, FiniteSetTheorems, TLAPS

USE CallerAssumption, CallBoundAssumption

\* A bound is not passed by the guards that count.
LEMMA CountersNext ==
  ASSUME CountersOK, OneCall \/ Fault \/ UNCHANGED counters
  PROVE  CountersOK'
BY DEF CountersOK, OneCall, Fault, counters

-----------------------------------------------------------------------------
(* EmbeddingCache: type correctness                                        *)

embeddingAll == <<embeddingVars, counters>>

LEMMA VectorsTyped ==
  /\ NoVectors \in Rows
  /\ None \in Vector
  /\ \A c \in Caller : /\ ProcessOf[c] \in Process
                       /\ InstructionOf[ProcessOf[c]] \in Vector
                       /\ InstructionOf[ProcessOf[c]] # None
BY KeyAssumption DEF NoVectors, Rows, Vector

LEMMA ReadTyped ==
  ASSUME EmbeddingTypeOK, NEW s \in Shard, NEW read, ReadShard(s, read)
  PROVE  read \in Rows /\ CountersOK' /\ (read = Stored(s) \/ read = NoVectors)
<1>1. Stored(s) \in Rows
  BY VectorsTyped DEF EmbeddingTypeOK, Stored, Rows
<1>2. QED
  BY <1>1, VectorsTyped, CountersNext DEF EmbeddingTypeOK, ReadShard

\* Callers leave: what they have is gone, and of the locks only theirs.
LEMMA LeaveTyped ==
  ASSUME EmbeddingTypeOK, NEW C \in SUBSET Caller, Leave(C), shardLock' = Released(C)
  PROVE  /\ embedAt' \in [Caller -> {"idle", "get", "put", "extend"}]
         /\ texts' \in [Caller -> SUBSET Key]
         /\ shards' \in [Caller -> SUBSET Shard]
         /\ found' \in [Caller -> Rows]
         /\ extending' \in [Caller -> Shard \cup {None}]
         /\ base' \in [Caller -> Rows]
         /\ shardLock' \in [Process -> [Shard -> Caller \cup {None}]]
         /\ \A c \in Caller : embedAt'[c] = "extend" =>
               extending'[c] \in Shard /\ shardLock'[ProcessOf[c]][extending'[c]] = c
<1>1. /\ embedAt' \in [Caller -> {"idle", "get", "put", "extend"}]
      /\ texts' \in [Caller -> SUBSET Key]
      /\ shards' \in [Caller -> SUBSET Shard]
      /\ found' \in [Caller -> Rows]
      /\ extending' \in [Caller -> Shard \cup {None}]
      /\ base' \in [Caller -> Rows]
  BY VectorsTyped DEF EmbeddingTypeOK, Leave
<1>2. shardLock' \in [Process -> [Shard -> Caller \cup {None}]]
  BY DEF EmbeddingTypeOK, Released
<1>3. ASSUME NEW c \in Caller, embedAt'[c] = "extend"
      PROVE  extending'[c] \in Shard /\ shardLock'[ProcessOf[c]][extending'[c]] = c
  <2>1. c \notin C /\ embedAt[c] = "extend" /\ extending'[c] = extending[c]
    BY <1>3 DEF Leave
  <2>2. /\ extending[c] \in Shard /\ shardLock[ProcessOf[c]][extending[c]] = c
        /\ ProcessOf[c] \in Process
    BY <2>1 DEF EmbeddingTypeOK
  <2>3. QED
    BY <2>1, <2>2 DEF Released
<1>4. QED
  BY <1>1, <1>2, <1>3

LEMMA EmbeddingTypeInit == CallersInit /\ EmbeddingInit => EmbeddingTypeOK
<1> SUFFICES ASSUME CallersInit, EmbeddingInit PROVE EmbeddingTypeOK
  OBVIOUS
<1>1. CountersOK
  BY DEF CallersInit, CountersOK
<1>2. /\ rows \in Rows
      /\ found \in [Caller -> Rows] /\ base \in [Caller -> Rows]
  BY VectorsTyped DEF EmbeddingInit
<1>3. QED
  BY <1>1, <1>2 DEF EmbeddingInit, EmbeddingTypeOK

LEMMA EmbeddingTypeNext ==
  ASSUME EmbeddingTypeOK, [EmbeddingNext]_embeddingAll
  PROVE  EmbeddingTypeOK'
<1> USE DEF EmbeddingTypeOK
<1> USE VectorsTyped
<1>1. ASSUME NEW c \in Caller, NEW K \in Batch, EmbedCall(c, K) PROVE EmbeddingTypeOK'
  <2>1. CountersOK' /\ K \subseteq Key /\ ShardsOf(K) \subseteq Shard
    BY <1>1, CountersNext, KeyAssumption DEF EmbedCall, ShardsOf
  <2>2. QED
    BY <1>1, <2>1 DEF EmbedCall
<1>2. ASSUME NEW c \in Caller, NEW s \in Shard, GetShard(c, s) PROVE EmbeddingTypeOK'
  <2>1. PICK read : /\ ReadShard(s, read)
                    /\ found' = [found EXCEPT ![c] =
                          [k \in Key |-> IF k \in texts[c] \cap In(s) THEN read[k] ELSE @[k]]]
    BY <1>2 DEF GetShard
  <2>2. read \in Rows /\ CountersOK'
    BY <2>1, ReadTyped
  <2>3. found' \in [Caller -> Rows]
    BY <2>1, <2>2 DEF Rows
  <2>4. QED
    BY <1>2, <2>2, <2>3 DEF GetShard
<1>3. ASSUME NEW c \in Caller, Compute(c) PROVE EmbeddingTypeOK'
  <2>1. Misses(c) \subseteq Key /\ ShardsOf(Misses(c)) \subseteq Shard
    BY KeyAssumption DEF Misses, ShardsOf
  <2>2. found' \in [Caller -> Rows]
    BY <1>3 DEF Compute, Rows
  <2>3. CountersOK'
    BY <1>3, CountersNext DEF Compute
  <2>4. QED
    BY <1>3, <2>1, <2>2, <2>3 DEF Compute
<1>4. ASSUME NEW c \in Caller, NEW s \in Shard, LockShard(c, s) PROVE EmbeddingTypeOK'
  <2>1. PICK read : ReadShard(s, read) /\ base' = [base EXCEPT ![c] = read]
    BY <1>4 DEF LockShard
  <2>2. CountersOK' /\ base' \in [Caller -> Rows]
    BY <2>1, ReadTyped
  <2>3. shardLock' \in [Process -> [Shard -> Caller \cup {None}]]
    BY <1>4 DEF LockShard
  <2>4. /\ embedAt' \in [Caller -> {"idle", "get", "put", "extend"}]
        /\ extending' \in [Caller -> Shard \cup {None}]
        /\ blind' \subseteq Shard /\ crossed' \subseteq Shard
        /\ UNCHANGED <<rows, texts, shards, found, landed>>
    BY <1>4 DEF LockShard
  <2>5. ASSUME NEW o \in Caller, embedAt'[o] = "extend"
        PROVE  extending'[o] \in Shard /\ shardLock'[ProcessOf[o]][extending'[o]] = o
    <3>1. CASE o = c
      BY <1>4, <3>1 DEF LockShard
    <3>2. CASE o # c
      <4>1. /\ extending'[o] = extending[o] /\ extending[o] \in Shard
            /\ shardLock[ProcessOf[o]][extending[o]] = o
        BY <1>4, <2>5, <3>2 DEF LockShard
      <4>2. ~(ProcessOf[o] = ProcessOf[c] /\ extending[o] = s)
        BY <1>4, <4>1 DEF LockShard, LockFree
      <4>3. QED
        BY <1>4, <4>1, <4>2 DEF LockShard
    <3>3. QED
      BY <3>1, <3>2
  <2>6. QED
    BY <2>2, <2>3, <2>4, <2>5
<1>5. ASSUME NEW c \in Caller, NEW s \in Shard, PutShard(c, s) PROVE EmbeddingTypeOK'
  <2>1. rows' \in Rows
    BY <1>5 DEF PutShard, Extended, Rows
  <2>2. CountersOK' /\ landed' \subseteq Key
    BY <1>5, CountersNext DEF PutShard
  <2>3. shardLock' \in [Process -> [Shard -> Caller \cup {None}]]
    BY <1>5 DEF PutShard, Released
  <2>4. ASSUME NEW o \in Caller, embedAt'[o] = "extend"
        PROVE  extending'[o] \in Shard /\ shardLock'[ProcessOf[o]][extending'[o]] = o
    <3>1. o # c /\ embedAt[o] = "extend" /\ extending'[o] = extending[o]
      BY <1>5, <2>4 DEF PutShard
    <3>2. extending[o] \in Shard /\ shardLock[ProcessOf[o]][extending[o]] = o
      BY <3>1
    <3>3. QED
      BY <1>5, <3>1, <3>2 DEF PutShard, Released
  <2>5. /\ embedAt' \in [Caller -> {"idle", "get", "put", "extend"}]
        /\ shards' \in [Caller -> SUBSET Shard]
        /\ extending' \in [Caller -> Shard \cup {None}]
        /\ base' \in [Caller -> Rows]
        /\ UNCHANGED <<texts, found, crossed, blind>>
    BY <1>5 DEF PutShard
  <2>6. QED
    BY <2>1, <2>2, <2>3, <2>4, <2>5
<1>6. ASSUME NEW c \in Caller, EmbedReturn(c) PROVE EmbeddingTypeOK'
  <2>1. CountersOK'
    BY <1>6, CountersNext DEF EmbedReturn
  <2>2. embedAt[c] # "extend"
    BY <1>6 DEF EmbedReturn
  <2>3. QED
    BY <1>6, <2>1, <2>2 DEF EmbedReturn, Leave
<1>7. ASSUME NEW c \in Caller, EmbedRaises(c) PROVE EmbeddingTypeOK'
  <2>1. CountersOK'
    BY <1>7, CountersNext DEF EmbedRaises
  <2>2. QED
    BY <1>7, <2>1, LeaveTyped DEF EmbedRaises
<1>8. ASSUME NEW p \in Process, KillEmbedding(p) PROVE EmbeddingTypeOK'
  <2>1. CountersOK'
    BY <1>8, CountersNext DEF KillEmbedding
  <2>2. QED
    BY <1>8, <2>1, LeaveTyped DEF KillEmbedding
<1>9. ASSUME UNCHANGED embeddingAll PROVE EmbeddingTypeOK'
  BY <1>9 DEF embeddingAll, embeddingVars, counters, CountersOK
<1>10. QED
  BY <1>1, <1>2, <1>3, <1>4, <1>5, <1>6, <1>7, <1>8, <1>9 DEF EmbeddingNext, EmbedStep

\* The vectors, locks and counts of the embedding cache are what they are meant to be,
\* and who is extending a shard has its lock.
THEOREM EmbeddingTypeCorrect == EmbeddingSpec => []EmbeddingTypeOK
<1>1. CallersInit /\ EmbeddingInit => EmbeddingTypeOK
  BY EmbeddingTypeInit
<1>2. EmbeddingTypeOK /\ [EmbeddingNext]_embeddingAll => EmbeddingTypeOK'
  BY EmbeddingTypeNext
<1>3. QED
  BY <1>1, <1>2, PTL DEF EmbeddingSpec, embeddingAll

-----------------------------------------------------------------------------
(* A vector that was put stays                                             *)

Spoilt == crossed \cup blind

\* Who is about to put has a vector for each text.
HasVectors ==
    \A c \in Caller : embedAt[c] \in {"put", "extend"} =>
        \A k \in texts[c] : found[c][k] # None

\* Two who extend one shard at once have crossed.
Apart ==
    \A c, o \in Caller :
        /\ embedAt[c] = "extend" /\ embedAt[o] = "extend"
        /\ extending[c] = extending[o] /\ c # o
        => extending[c] \in crossed

\* What is being extended is what is stored.
BaseIsStored ==
    \A c \in Caller : embedAt[c] = "extend" /\ extending[c] \notin Spoilt =>
        \A k \in In(extending[c]) : base[c][k] = rows[k]

KeptInv == EmbeddingTypeOK /\ HasVectors /\ Apart /\ BaseIsStored /\ VectorsKept

\* Steps that store nothing and in which nobody begins to put.
LEMMA IdleStep ==
  ASSUME KeptInv, EmbeddingTypeOK', UNCHANGED <<rows, landed, crossed, blind>>,
         \A c \in Caller : embedAt'[c] \in {"put", "extend"} =>
             /\ embedAt'[c] = embedAt[c] /\ extending'[c] = extending[c]
             /\ texts'[c] = texts[c] /\ found'[c] = found[c] /\ base'[c] = base[c]
  PROVE  KeptInv'
<1> USE DEF KeptInv
<1>1. HasVectors'
  BY DEF HasVectors
<1>2. Apart'
  BY DEF Apart
<1>3. BaseIsStored'
  BY DEF BaseIsStored, Spoilt, In
<1>4. VectorsKept'
  BY DEF VectorsKept
<1>5. QED
  BY <1>1, <1>2, <1>3, <1>4

LEMMA ComputeStep ==
  ASSUME KeptInv, EmbeddingTypeOK', NEW c \in Caller, Compute(c)
  PROVE  KeptInv'
<1> USE DEF KeptInv
<1>1. /\ embedAt' = [embedAt EXCEPT ![c] = "put"]
      /\ texts' = [texts EXCEPT ![c] = Misses(c)]
      /\ found' = [found EXCEPT ![c] =
             [k \in Key |-> IF k \in Misses(c) THEN InstructionOf[ProcessOf[c]] ELSE @[k]]]
      /\ UNCHANGED <<rows, extending, base, landed, crossed, blind>>
  BY DEF Compute
<1>2. HasVectors'
  <2>1. \A k \in texts'[c] : found'[c][k] # None
    BY <1>1, VectorsTyped DEF EmbeddingTypeOK, Misses
  <2>2. \A o \in Caller \ {c} : /\ embedAt'[o] = embedAt[o]
                                /\ texts'[o] = texts[o] /\ found'[o] = found[o]
    BY <1>1 DEF EmbeddingTypeOK
  <2>3. QED
    BY <2>1, <2>2 DEF HasVectors
<1>3. \A o \in Caller : embedAt'[o] = "extend" => embedAt[o] = "extend"
  BY <1>1 DEF EmbeddingTypeOK
<1>4. Apart'
  BY <1>1, <1>3 DEF Apart
<1>5. BaseIsStored'
  BY <1>1, <1>3 DEF BaseIsStored, Spoilt, In
<1>6. VectorsKept'
  BY <1>1 DEF VectorsKept
<1>7. QED
  BY <1>2, <1>4, <1>5, <1>6

\* Only a thread of another process can be extending the shard that is locked.
LEMMA LockStep ==
  ASSUME KeptInv, EmbeddingTypeOK', NEW c \in Caller, NEW s \in Shard, LockShard(c, s)
  PROVE  KeptInv'
<1> USE DEF KeptInv
<1>1. PICK read : /\ ReadShard(s, read)
                  /\ base' = [base EXCEPT ![c] = read]
                  /\ blind' = IF read # Stored(s) THEN blind \cup {s} ELSE blind
  BY DEF LockShard
<1>2. /\ embedAt[c] = "put" /\ shardLock[ProcessOf[c]][s] = None
      /\ extending' = [extending EXCEPT ![c] = s]
      /\ embedAt' = [embedAt EXCEPT ![c] = "extend"]
      /\ crossed' = IF \E p \in Process \ {ProcessOf[c]} : shardLock[p][s] # None
                    THEN crossed \cup {s} ELSE crossed
      /\ UNCHANGED <<rows, texts, found, landed>>
  BY DEF LockShard, LockFree
<1>3. /\ embedAt'[c] = "extend" /\ extending'[c] = s /\ base'[c] = read
      /\ \A o \in Caller \ {c} : /\ embedAt'[o] = embedAt[o] /\ base'[o] = base[o]
                                 /\ extending'[o] = extending[o]
      /\ crossed \subseteq crossed' /\ blind \subseteq blind'
  BY <1>1, <1>2 DEF EmbeddingTypeOK
<1>4. HasVectors'
  BY <1>2, <1>3 DEF HasVectors
<1>5. ASSUME NEW o \in Caller \ {c}, embedAt[o] = "extend", extending[o] = s
      PROVE  s \in crossed'
  <2>1. shardLock[ProcessOf[o]][s] = o /\ ProcessOf[o] \in Process
    BY <1>5, VectorsTyped DEF EmbeddingTypeOK
  <2>2. ProcessOf[o] # ProcessOf[c] /\ o # None
    BY <1>2, <2>1
  <2>3. QED
    BY <1>2, <2>1, <2>2
<1>6. Apart'
  BY <1>3, <1>5 DEF Apart
<1>7. BaseIsStored'
  <2>1. ASSUME s \notin blind', NEW k \in In(s) PROVE read[k] = rows[k]
    BY <1>1, <2>1 DEF Stored, In
  <2>2. ASSUME NEW o \in Caller \ {c}, embedAt'[o] = "extend", extending'[o] \notin Spoilt',
               NEW k \in In(extending'[o])
        PROVE  base'[o][k] = rows[k]
    BY <1>3, <2>2 DEF BaseIsStored, Spoilt
  <2>3. QED
    BY <1>2, <1>3, <2>1, <2>2 DEF BaseIsStored, Spoilt, In
<1>8. VectorsKept'
  BY <1>2, <1>3 DEF VectorsKept
<1>9. QED
  BY <1>4, <1>6, <1>7, <1>8

\* The shard is put back with what was in it and what was computed, and nobody else
\* who has read it is extending it, unless two have crossed.
LEMMA PutStep ==
  ASSUME KeptInv, EmbeddingTypeOK', NEW c \in Caller, NEW s \in Shard, PutShard(c, s)
  PROVE  KeptInv'
<1> USE DEF KeptInv
<1>1. /\ embedAt[c] = "extend" /\ extending[c] = s
      /\ rows' = [k \in Key |-> IF ShardOf[k] = s THEN Extended(c, k) ELSE rows[k]]
      /\ landed' = landed \cup (texts[c] \cap In(s))
      /\ extending' = [extending EXCEPT ![c] = None]
      /\ base' = [base EXCEPT ![c] = NoVectors]
      /\ embedAt' = [embedAt EXCEPT ![c] = "put"]
      /\ UNCHANGED <<texts, found, crossed, blind>>
  BY DEF PutShard
<1>2. /\ embedAt'[c] = "put"
      /\ \A o \in Caller \ {c} : /\ embedAt'[o] = embedAt[o] /\ base'[o] = base[o]
                                 /\ extending'[o] = extending[o]
  BY <1>1 DEF EmbeddingTypeOK
<1>3. HasVectors'
  BY <1>1, <1>2 DEF HasVectors
<1>4. Apart'
  BY <1>1, <1>2 DEF Apart
<1>5. BaseIsStored'
  <2> SUFFICES ASSUME NEW o \in Caller \ {c}, embedAt[o] = "extend",
                      extending[o] \notin Spoilt, NEW k \in In(extending[o])
               PROVE  base[o][k] = rows'[k]
    BY <1>1, <1>2 DEF BaseIsStored, Spoilt, In
  <2>1. extending[o] # s
    BY <1>1 DEF Apart, Spoilt
  <2>2. rows'[k] = rows[k]
    BY <1>1, <2>1 DEF In
  <2>3. QED
    BY <2>2 DEF BaseIsStored
<1>6. VectorsKept'
  <2> SUFFICES ASSUME NEW k \in landed', ShardOf[k] \notin Spoilt PROVE rows'[k] # None
    BY <1>1 DEF VectorsKept, Spoilt
  <2>1. k \in Key
    BY DEF EmbeddingTypeOK
  <2>2. CASE ShardOf[k] # s
    BY <1>1, <2>1, <2>2 DEF VectorsKept, Spoilt, In
  <2>3. CASE ShardOf[k] = s /\ k \in texts[c]
    BY <1>1, <2>1, <2>3 DEF Extended, HasVectors
  <2>4. CASE ShardOf[k] = s /\ k \notin texts[c]
    <3>1. k \in landed /\ rows'[k] = base[c][k]
      BY <1>1, <2>1, <2>4 DEF Extended
    <3>2. base[c][k] = rows[k]
      BY <1>1, <2>1, <2>4 DEF BaseIsStored, In
    <3>3. QED
      BY <3>1, <3>2 DEF VectorsKept, Spoilt
  <2>5. QED
    BY <2>2, <2>3, <2>4
<1>7. QED
  BY <1>3, <1>4, <1>5, <1>6

LEMMA KeptInit == CallersInit /\ EmbeddingInit => KeptInv
<1> SUFFICES ASSUME CallersInit, EmbeddingInit PROVE KeptInv
  OBVIOUS
<1>1. EmbeddingTypeOK
  BY EmbeddingTypeInit
<1>2. HasVectors /\ Apart /\ BaseIsStored /\ VectorsKept
  BY DEF EmbeddingInit, HasVectors, Apart, BaseIsStored, VectorsKept
<1>3. QED
  BY <1>1, <1>2 DEF KeptInv

LEMMA KeptNext ==
  ASSUME KeptInv, [EmbeddingNext]_embeddingAll
  PROVE  KeptInv'
<1>1. EmbeddingTypeOK /\ EmbeddingTypeOK'
  BY EmbeddingTypeNext DEF KeptInv
<1>2. ASSUME NEW c \in Caller, NEW K \in Batch, EmbedCall(c, K) PROVE KeptInv'
  <2>1. \A o \in Caller : embedAt'[o] \in {"put", "extend"} =>
            o # c /\ embedAt'[o] = embedAt[o] /\ texts'[o] = texts[o]
    BY <1>1, <1>2 DEF EmbedCall, EmbeddingTypeOK
  <2>2. UNCHANGED <<rows, landed, crossed, blind, found, extending, base>>
    BY <1>2 DEF EmbedCall
  <2>3. QED
    BY <1>1, <2>1, <2>2, IdleStep
<1>3. ASSUME NEW c \in Caller, NEW s \in Shard, GetShard(c, s) PROVE KeptInv'
  <2>1. \A o \in Caller : embedAt'[o] \in {"put", "extend"} =>
            o # c /\ embedAt'[o] = embedAt[o] /\ found'[o] = found[o]
    BY <1>1, <1>3 DEF GetShard, EmbeddingTypeOK
  <2>2. UNCHANGED <<rows, landed, crossed, blind, texts, extending, base>>
    BY <1>3 DEF GetShard
  <2>3. QED
    BY <1>1, <2>1, <2>2, IdleStep
<1>4. ASSUME NEW C \in SUBSET Caller, Leave(C), UNCHANGED <<rows, landed, crossed, blind>>
      PROVE  KeptInv'
  <2>1. \A o \in Caller : embedAt'[o] \in {"put", "extend"} =>
            /\ embedAt'[o] = embedAt[o] /\ extending'[o] = extending[o]
            /\ texts'[o] = texts[o] /\ found'[o] = found[o] /\ base'[o] = base[o]
    BY <1>4 DEF Leave
  <2>2. QED
    BY <1>1, <1>4, <2>1, IdleStep
<1>5. ASSUME NEW c \in Caller, EmbedReturn(c) \/ EmbedRaises(c) PROVE KeptInv'
  BY <1>4, <1>5 DEF EmbedReturn, EmbedRaises
<1>6. ASSUME NEW p \in Process, KillEmbedding(p) PROVE KeptInv'
  BY <1>4, <1>6 DEF KillEmbedding
<1>7. CASE UNCHANGED embeddingAll
  BY <1>1, <1>7, IdleStep DEF embeddingAll, embeddingVars
<1>8. QED
  BY <1>1, <1>2, <1>3, <1>5, <1>6, <1>7, ComputeStep, LockStep, PutStep
  DEF EmbeddingNext, EmbedStep

\* For any number of processes and threads, a vector that was put stays in the cache,
\* unless two processes have extended its shard at once or a put followed a failed read.
THEOREM VectorsAreKept == EmbeddingSpec => []VectorsKept
<1>1. KeptInv /\ [EmbeddingNext]_embeddingAll => KeptInv'
  BY KeptNext
<1>2. KeptInv => VectorsKept
  BY DEF KeptInv
<1>3. QED
  BY <1>1, <1>2, KeptInit, PTL DEF EmbeddingSpec, embeddingAll

-----------------------------------------------------------------------------
(* ClusterCache: type correctness                                          *)

clusterAll == <<clusterVars, counters>>

LEMMA ClusterTypeInit == CallersInit /\ ClusterInit => ClusterTypeOK
<1> SUFFICES ASSUME CallersInit, ClusterInit PROVE ClusterTypeOK
  OBVIOUS
<1>1. CountersOK
  BY DEF CallersInit, CountersOK
<1>2. entries \in [Document -> Shape \cup {None}]
  BY DEF ClusterInit, Shape
<1>3. QED
  BY <1>1, <1>2 DEF ClusterInit, ClusterTypeOK

LEMMA FaultCounts ==
  ASSUME CountersOK, Fault
  PROVE  faults \in Nat /\ faults' = faults + 1
BY DEF CountersOK, Fault

LEMMA Unfailing ==
  ASSUME CountersOK, OneCall \/ UNCHANGED counters
  PROVE  faults \in Nat /\ faults' = faults
BY DEF CountersOK, OneCall, counters

\* A caller that is in get_or_compute was called for a document.
LEMMA Called ==
  ASSUME ClusterTypeOK, NEW c \in Caller, clusterAt[c] \in {"called", "compute"}
  PROVE  document[c] \in Document /\ ProcessOf[c] \in Process
BY DEF ClusterTypeOK

\* What becomes of an entry that is put.
LEMMA PutTyped ==
  ASSUME ClusterTypeOK, NEW d \in Document, Put(d)
  PROVE  /\ entries' \in [Document -> Shape \cup {None}]
         /\ CountersOK'
         /\ \/ UNCHANGED counters /\ entries'[d] # None
            \/ Fault
         /\ \A e \in Document : entries[e] # None => entries'[e] # None
<1>1. entries \in [Document -> Shape \cup {None}] /\ CountersOK
  BY DEF ClusterTypeOK
<1>2. CountersOK'
  BY <1>1, CountersNext DEF Put
<1>3. "dict" \in Shape /\ "dict" # None
  BY ClusterAssumption DEF Shape
<1>4. CASE entries' = [entries EXCEPT ![d] = "dict"] /\ UNCHANGED counters
  BY <1>1, <1>2, <1>3, <1>4
<1>5. CASE UNCHANGED entries /\ Fault
  BY <1>1, <1>2, <1>5
<1>6. QED
  BY <1>4, <1>5 DEF Put

LEMMA ClusterTypeNext ==
  ASSUME ClusterTypeOK, [ClusterNext]_clusterAll
  PROVE  ClusterTypeOK'
<1> USE DEF ClusterTypeOK
<1>1. ASSUME NEW c \in Caller, NEW d \in Document, ClusterCall(c, d)
      PROVE  ClusterTypeOK'
  <2>1. CountersOK'
    BY <1>1, CountersNext DEF ClusterCall
  <2>2. QED
    BY <1>1, <2>1, ClusterAssumption DEF ClusterCall
<1>2. ASSUME NEW c \in Caller, ClusterHit(c) PROVE ClusterTypeOK'
  <2>1. CountersOK'
    BY <1>2, CountersNext DEF ClusterHit
  <2>2. QED
    BY <1>2, <2>1 DEF ClusterHit, Finish
<1>3. ASSUME NEW c \in Caller, ClusterMiss(c) PROVE ClusterTypeOK'
  <2>1. CountersOK'
    BY <1>3, CountersNext DEF ClusterMiss
  <2>2. document[c] \in Document /\ ProcessOf[c] \in Process
    BY <1>3, Called DEF ClusterMiss
  <2>3. QED
    BY <1>3, <2>1, <2>2 DEF ClusterMiss, Locked
<1>4. ASSUME NEW c \in Caller, ClusterWrite(c) PROVE ClusterTypeOK'
  <2>1. document[c] \in Document /\ ProcessOf[c] \in Process
    BY <1>4, Called DEF ClusterWrite
  <2>2. entries' \in [Document -> Shape \cup {None}] /\ CountersOK'
    BY <1>4, <2>1, PutTyped DEF ClusterWrite
  <2>3. QED
    BY <1>4, <2>1, <2>2 DEF ClusterWrite, Locked, Finish
<1>5. ASSUME NEW c \in Caller, ClusterRaises(c) PROVE ClusterTypeOK'
  <2>1. document[c] \in Document /\ ProcessOf[c] \in Process
    BY <1>5, Called DEF ClusterRaises
  <2>2. CountersOK'
    BY <1>5, CountersNext DEF ClusterRaises
  <2>3. QED
    BY <1>5, <2>1, <2>2 DEF ClusterRaises, Locked, Finish
<1>6. ASSUME NEW d \in Document, ClusterPut(d) PROVE ClusterTypeOK'
  <2>1. entries' \in [Document -> Shape \cup {None}] /\ CountersOK'
    BY <1>6, PutTyped DEF ClusterPut
  <2>2. QED
    BY <1>6, <2>1 DEF ClusterPut
<1>7. ASSUME NEW p \in Process, KillCluster(p) PROVE ClusterTypeOK'
  <2>1. CountersOK'
    BY <1>7, CountersNext DEF KillCluster
  <2>2. QED
    BY <1>7, <2>1 DEF KillCluster
<1>8. ASSUME UNCHANGED clusterAll PROVE ClusterTypeOK'
  BY <1>8 DEF clusterAll, clusterVars, counters, CountersOK
<1>9. QED
  BY <1>1, <1>2, <1>3, <1>4, <1>5, <1>6, <1>7, <1>8 DEF ClusterNext, ClusterStep

\* The entries, locks and counts of the cluster cache are what they are meant to be.
THEOREM ClusterTypeCorrect == ClusterSpec => []ClusterTypeOK
<1>1. CallersInit /\ ClusterInit => ClusterTypeOK
  BY ClusterTypeInit
<1>2. ClusterTypeOK /\ [ClusterNext]_clusterAll => ClusterTypeOK'
  BY ClusterTypeNext
<1>3. QED
  BY <1>1, <1>2, PTL DEF ClusterSpec, clusterAll

-----------------------------------------------------------------------------
(* A document is computed once                                             *)

\* The entry is being computed by a thread of the process, or is stored.
Settled(p, d) == keyLock[p][d] # None \/ entries[d] # None

\* Why SingleFlight is kept: a process that has computed a document once more
\* than there were failures has the lock still, or the entry is stored; so the
\* next caller waits, or hits.
FlightInv == \A p \in Process, d \in Document :
    computed[p][d] <= IF Settled(p, d) THEN faults + 1 ELSE faults

LEMMA FlightInit == CallersInit /\ ClusterInit => FlightInv
BY DEF CallersInit, ClusterInit, FlightInv, Settled

LEMMA FlightNext ==
  ASSUME ClusterTypeOK, FlightInv, [ClusterNext]_clusterAll
  PROVE  FlightInv'
<1>typed. /\ CountersOK /\ faults \in Nat
          /\ entries \in [Document -> Shape \cup {None}]
          /\ keyLock \in [Process -> [Document -> Caller \cup {None}]]
          /\ computed \in [Process -> [Document -> Nat]]
  BY DEF ClusterTypeOK, CountersOK
\* A failure makes up for any lock that is lost.
<1>1. ASSUME Fault, UNCHANGED computed PROVE FlightInv'
  <2>1. faults' = faults + 1
    BY <1>1, <1>typed, FaultCounts
  <2>2. \A p \in Process, d \in Document : computed[p][d] \in Nat /\ computed[p][d] <= faults + 1
    BY <1>typed DEF FlightInv
  <2>3. QED
    BY <1>1, <1>typed, <2>1, <2>2 DEF FlightInv
\* Nothing fails and what was settled stays settled.
<1>2. ASSUME UNCHANGED computed, faults' = faults,
             \A p \in Process, d \in Document : Settled(p, d) => Settled(p, d)'
      PROVE  FlightInv'
  BY <1>2, <1>typed DEF FlightInv
<1>3. ASSUME NEW c \in Caller, ClusterMiss(c) PROVE FlightInv'
  <2> DEFINE p == ProcessOf[c]
             d == document[c]
  <2>1. p \in Process /\ d \in Document
    BY <1>3, Called DEF ClusterMiss
  <2>2. keyLock'[p][d] # None
    BY <1>3, <1>typed, <2>1 DEF ClusterMiss, Locked
  <2>3. computed'[p][d] = computed[p][d] + 1 /\ computed[p][d] \in Nat
    BY <1>3, <1>typed, <2>1 DEF ClusterMiss
  <2>4. faults' \in Nat /\ computed[p][d] <= faults'
    <3>1. CASE entries[d] = None
      <4>1. ~Settled(p, d) /\ faults' = faults
        BY <1>3, <1>typed, <3>1, Unfailing DEF ClusterMiss, KeyFree, Settled
      <4>2. QED
        BY <1>typed, <2>1, <4>1 DEF FlightInv
    <3>2. CASE entries[d] # None
      <4>1. faults' = faults + 1
        BY <1>3, <1>typed, <3>2, FaultCounts DEF ClusterMiss
      <4>2. QED
        BY <1>typed, <2>1, <2>3, <4>1 DEF FlightInv
    <3>3. QED
      BY <3>1, <3>2
  <2>5. ASSUME NEW q \in Process, NEW e \in Document, q # p \/ e # d
        PROVE  /\ computed'[q][e] = computed[q][e] /\ computed[q][e] \in Nat
               /\ Settled(q, e)' <=> Settled(q, e)
    BY <1>3, <1>typed, <2>1, <2>5 DEF ClusterMiss, Locked, Settled
  <2>6. faults' >= faults
    BY <1>3, <1>typed, FaultCounts, Unfailing DEF ClusterMiss
  <2>7. ASSUME NEW q \in Process, NEW e \in Document
        PROVE  computed'[q][e] <= IF Settled(q, e)' THEN faults' + 1 ELSE faults'
    <3>1. CASE q = p /\ e = d
      <4>1. Settled(q, e)'
        BY <2>2, <3>1 DEF Settled
      <4>2. computed'[q][e] <= faults' + 1
        BY <2>3, <2>4, <3>1
      <4>3. QED
        BY <4>1, <4>2
    <3>2. CASE q # p \/ e # d
      <4>1. computed[q][e] <= IF Settled(q, e) THEN faults + 1 ELSE faults
        BY DEF FlightInv
      <4>2. QED
        BY <1>typed, <3>2, <4>1, <2>4, <2>5, <2>6
    <3>3. QED
      BY <3>1, <3>2
  <2>8. QED
    BY <2>7 DEF FlightInv
<1>4. ASSUME NEW c \in Caller, ClusterWrite(c) PROVE FlightInv'
  <2>1. ProcessOf[c] \in Process /\ document[c] \in Document
    BY <1>4, Called DEF ClusterWrite
  <2>2. CASE Fault
    BY <1>1, <1>4, <2>2 DEF ClusterWrite
  <2>3. CASE UNCHANGED counters /\ entries'[document[c]] # None
    <3>1. faults' = faults
      BY <1>typed, <2>3, Unfailing
    <3>2. \A e \in Document : entries[e] # None => entries'[e] # None
      BY <1>4, <2>1, PutTyped DEF ClusterWrite
    <3>3. \A q \in Process, e \in Document : e # document[c] => keyLock'[q][e] = keyLock[q][e]
      BY <1>4, <1>typed, <2>1 DEF ClusterWrite, Locked
    <3>4. \A q \in Process, e \in Document : Settled(q, e) => Settled(q, e)'
      BY <2>3, <3>2, <3>3 DEF Settled
    <3>5. QED
      BY <1>2, <1>4, <3>1, <3>4 DEF ClusterWrite
  <2>4. QED
    BY <1>4, <2>1, <2>2, <2>3, PutTyped DEF ClusterWrite
<1>5. ASSUME NEW d \in Document, ClusterPut(d) PROVE FlightInv'
  <2>1. CASE Fault
    BY <1>1, <1>5, <2>1 DEF ClusterPut
  <2>2. CASE UNCHANGED counters
    <3>1. faults' = faults
      BY <1>typed, <2>2, Unfailing
    <3>2. \A q \in Process, e \in Document : Settled(q, e) => Settled(q, e)'
      BY <1>5, PutTyped DEF ClusterPut, Settled
    <3>3. QED
      BY <1>2, <1>5, <3>1, <3>2 DEF ClusterPut
  <2>3. QED
    BY <1>5, <2>1, <2>2, PutTyped DEF ClusterPut
<1>6. ASSUME NEW c \in Caller, ClusterRaises(c) PROVE FlightInv'
  BY <1>1, <1>6 DEF ClusterRaises
<1>7. ASSUME NEW p \in Process, KillCluster(p) PROVE FlightInv'
  BY <1>1, <1>7 DEF KillCluster
<1>8. ASSUME UNCHANGED <<entries, keyLock, computed>>, OneCall \/ UNCHANGED counters
      PROVE  FlightInv'
  <2>1. faults' = faults
    BY <1>typed, <1>8, Unfailing
  <2>2. \A q \in Process, e \in Document : Settled(q, e) => Settled(q, e)'
    BY <1>8 DEF Settled
  <2>3. QED
    BY <1>2, <1>8, <2>1, <2>2
<1>9. ASSUME \/ \E c \in Caller : ClusterHit(c) \/ \E d \in Document : ClusterCall(c, d)
             \/ UNCHANGED clusterAll
      PROVE  FlightInv'
  BY <1>8, <1>9 DEF ClusterHit, ClusterCall, clusterAll, clusterVars
<1>10. QED
  BY <1>3, <1>4, <1>5, <1>6, <1>7, <1>9 DEF ClusterNext, ClusterStep

LEMMA FlightEnough == ClusterTypeOK /\ FlightInv => SingleFlight
<1> SUFFICES ASSUME ClusterTypeOK, FlightInv, NEW p \in Process, NEW d \in Document
             PROVE  computed[p][d] <= 1 + faults
  BY DEF SingleFlight
<1>1. faults \in Nat /\ computed[p][d] \in Nat
  BY DEF ClusterTypeOK, CountersOK
<1>2. QED
  BY <1>1 DEF FlightInv

\* A process does not compute an entry a second time unless something failed:
\* not by a thread that misses beside another, nor after the entry was put.
THEOREM ComputedOnce == ClusterSpec => []SingleFlight
<1>1. CallersInit /\ ClusterInit => ClusterTypeOK /\ FlightInv
  BY ClusterTypeInit, FlightInit
<1>2. ClusterTypeOK /\ FlightInv /\ [ClusterNext]_clusterAll => (ClusterTypeOK /\ FlightInv)'
  BY ClusterTypeNext, FlightNext
<1>3. ClusterTypeOK /\ FlightInv => SingleFlight
  BY FlightEnough
<1>4. QED
  BY <1>1, <1>2, <1>3, PTL DEF ClusterSpec, clusterAll
-----------------------------------------------------------------------------
(* ModelCache: a caller that is alone finds the whole model                *)

modelAll == <<modelVars, counters>>

LEMMA ModelTypeInit == CallersInit /\ ModelInit => ModelTypeOK
<1>1. CallersInit => CountersOK
  BY DEF CallersInit, CountersOK
<1>2. QED
  BY <1>1 DEF ModelInit, ModelTypeOK

LEMMA ModelTypeNext ==
  ASSUME ModelTypeOK, [ModelNext]_modelAll
  PROVE  ModelTypeOK'
<1> USE DEF ModelTypeOK, To, Answer
<1>1. ASSUME NEW c \in Caller, ModelCall(c) PROVE ModelTypeOK'
  <2>1. CountersOK'
    BY <1>1, CountersNext DEF ModelCall
  <2>2. QED
    BY <1>1, <2>1 DEF ModelCall
<1>2. ASSUME NEW c \in Caller, MakeDir(c) PROVE ModelTypeOK'
  <2>1. CountersOK'
    BY <1>2, CountersNext DEF MakeDir
  <2>2. QED
    <3>1. isDir' \in BOOLEAN
      BY <1>2 DEF MakeDir
    <3>2. toDo' \in [Caller -> SUBSET File]
      <4>1. toDo' = toDo \/ toDo' = [toDo EXCEPT ![c] = File]
        BY <1>2 DEF MakeDir
      <4>2. QED
        BY <4>1
    <3>3. /\ modelAt' \in [Caller -> {"idle", "mkdir", "copy", "except", "remove", "returned"}]
          /\ path' \in [Caller -> {"local", "nfs", None}]
      BY <1>2 DEF MakeDir, CleanUp
    <3>4. UNCHANGED <<local, copyFailed, overlap, cutShort>>
      BY <1>2 DEF MakeDir
    <3>5. QED
      BY <2>1, <3>1, <3>2, <3>3, <3>4
<1>3. ASSUME NEW c \in Caller, NEW f \in File, CopyFile(c, f) PROVE ModelTypeOK'
  <2>1. CountersOK'
    BY <1>3, CountersNext DEF CopyFile
  <2>2. QED
    BY <1>3, <2>1 DEF CopyFile
<1>4. ASSUME NEW c \in Caller, CopyEnd(c) PROVE ModelTypeOK'
  <2>1. CountersOK'
    BY <1>4, CountersNext DEF CopyEnd
  <2>2. QED
    BY <1>4, <2>1 DEF CopyEnd, CleanUp
<1>5. ASSUME NEW c \in Caller, ListDir(c) PROVE ModelTypeOK'
  <2>1. CountersOK'
    BY <1>5, CountersNext DEF ListDir
  <2>2. QED
    BY <1>5, <2>1 DEF ListDir
<1>6. ASSUME NEW c \in Caller, NEW f \in File, RemoveFile(c, f) PROVE ModelTypeOK'
  <2>1. CountersOK'
    BY <1>6, CountersNext DEF RemoveFile
  <2>2. QED
    BY <1>6, <2>1 DEF RemoveFile
<1>7. ASSUME NEW c \in Caller, RemoveEnd(c) PROVE ModelTypeOK'
  <2>1. CountersOK'
    BY <1>7, CountersNext DEF RemoveEnd
  <2>2. toDo' \in [Caller -> SUBSET File]
    BY <1>7 DEF RemoveEnd
  <2>3. QED
    BY <1>7, <2>1, <2>2 DEF RemoveEnd
<1>8. ASSUME NEW c \in Caller, ModelLoaded(c) PROVE ModelTypeOK'
  <2>1. CountersOK'
    BY <1>8, CountersNext DEF ModelLoaded
  <2>2. QED
    BY <1>8, <2>1 DEF ModelLoaded
<1>9. ASSUME NEW c \in Caller, KillModel(c) PROVE ModelTypeOK'
  <2>1. CountersOK'
    BY <1>9, CountersNext DEF KillModel
  <2>2. QED
    BY <1>9, <2>1 DEF KillModel
<1>10. ASSUME UNCHANGED modelAll PROVE ModelTypeOK'
  BY <1>10 DEF modelAll, modelVars, counters, CountersOK
<1>11. QED
  BY <1>1, <1>2, <1>3, <1>4, <1>5, <1>6, <1>7, <1>8, <1>9, <1>10 DEF ModelNext

\* There is no directory, or the whole model is in it.
WholeOrNone == (isDir => local = File) /\ (~isDir => local = {})

\* What a caller that is alone knows of the directory, by where it is.
Knows(c) ==
    /\ modelAt[c] = "mkdir" => ~isDir /\ local = {}
    /\ modelAt[c] = "copy" => isDir /\ (~copyFailed[c] => local \cup toDo[c] = File)
    /\ modelAt[c] = "except" => isDir
    /\ modelAt[c] = "remove" => isDir /\ local = toDo[c]
    /\ modelAt[c] = "returned" => WholeOrNone /\ (path[c] = "local" => isDir)

\* Where it holds at all that a directory is whole: nobody has been in there beside
\* another, and whoever was in there has come to the end of it.
AloneInv ==
    /\ ModelTypeOK
    /\ \A c \in Caller : copyFailed[c] => modelAt[c] = "copy"
    /\ \A c \in Caller : path[c] = "local" => modelAt[c] = "returned"
    /\ ~overlap /\ ~cutShort =>
          /\ \A c, d \in Inside : c = d
          /\ \A c \in Caller : Knows(c)
          /\ Inside = {} => WholeOrNone

LEMMA AloneInit == CallersInit /\ ModelInit => AloneInv
<1> SUFFICES ASSUME CallersInit, ModelInit PROVE AloneInv
  OBVIOUS
<1>1. ModelTypeOK
  BY ModelTypeInit
<1>2. Inside = {} /\ WholeOrNone /\ \A c \in Caller : Knows(c)
  BY DEF ModelInit, Inside, WholeOrNone, Knows
<1>3. \A c \in Caller : ~copyFailed[c] /\ path[c] # "local"
  BY ModelAssumption DEF ModelInit
<1>4. QED
  BY <1>1, <1>2, <1>3 DEF AloneInv

\* A step of a caller that was in there and nobody beside it.
LEMMA AloneStep ==
  ASSUME AloneInv, ModelTypeOK', NEW c \in Caller,
         modelAt[c] # "idle" \/ Inside = {},
         \A d \in Caller : d # c => modelAt'[d] = modelAt[d],
         ~overlap' /\ ~cutShort' => ~overlap /\ ~cutShort,
         \A d \in Caller : d # c => path'[d] = path[d] /\ copyFailed'[d] = copyFailed[d],
         copyFailed'[c] => modelAt'[c] = "copy",
         path'[c] = "local" => modelAt'[c] = "returned",
         ~overlap /\ ~cutShort /\ (modelAt[c] = "idle" => WholeOrNone) /\ Knows(c)
            /\ ~overlap' /\ ~cutShort'
            => Knows(c)' /\ (modelAt'[c] = "idle" => WholeOrNone')
  PROVE  AloneInv'
<1>1. ASSUME NEW d \in Caller PROVE /\ copyFailed'[d] => modelAt'[d] = "copy"
                                   /\ path'[d] = "local" => modelAt'[d] = "returned"
  BY DEF AloneInv
<1>2. ASSUME ~overlap', ~cutShort'
      PROVE  /\ \A d, e \in Inside' : d = e
             /\ \A d \in Caller : Knows(d)'
             /\ Inside' = {} => WholeOrNone'
  <2>1. /\ \A d, e \in Inside : d = e
        /\ \A d \in Caller : Knows(d)
        /\ Inside = {} => WholeOrNone
    BY <1>2 DEF AloneInv
  <2>2. \A d \in Caller : d # c => modelAt[d] = "idle"
    BY <2>1 DEF Inside
  <2>3. \A d \in Caller : d # c => modelAt'[d] = "idle"
    BY <2>2
  <2>4. modelAt[c] = "idle" => WholeOrNone
    BY <2>1, <2>2 DEF Inside
  <2>5. Knows(c)' /\ (modelAt'[c] = "idle" => WholeOrNone')
    BY <1>2, <2>1, <2>4
  <2>6. ASSUME NEW d \in Caller, d # c PROVE Knows(d)'
    BY <2>3, <2>6 DEF Knows
  <2>7. \A d, e \in Inside' : d = e
    BY <2>3 DEF Inside
  <2>8. Inside' = {} => modelAt'[c] = "idle"
    BY DEF Inside
  <2>9. QED
    BY <2>5, <2>6, <2>7, <2>8
<1>3. QED
  BY <1>1, <1>2 DEF AloneInv

LEMMA AloneNext ==
  ASSUME AloneInv, [ModelNext]_modelAll
  PROVE  AloneInv'
<1>typed. ModelTypeOK /\ ModelTypeOK'
  BY ModelTypeNext DEF AloneInv
<1>0. \A d \in Caller : /\ copyFailed[d] => modelAt[d] = "copy"
                        /\ path[d] = "local" => modelAt[d] = "returned"
  BY DEF AloneInv
<1>1. ASSUME NEW c \in Caller, ModelCall(c) PROVE AloneInv'
  <2>1. CASE Inside = {}
    <3>1. ~overlap' /\ ~cutShort' => ~overlap /\ ~cutShort
      BY <1>1 DEF ModelCall
    <3>2. \A d \in Caller : d # c => /\ modelAt'[d] = modelAt[d] /\ path'[d] = path[d]
                                     /\ copyFailed'[d] = copyFailed[d]
      BY <1>1, <1>typed DEF ModelCall, To, Answer, ModelTypeOK
    <3>3. /\ copyFailed'[c] => modelAt'[c] = "copy"
          /\ path'[c] = "local" => modelAt'[c] = "returned"
      BY <1>0, <1>1, <1>typed DEF ModelCall, To, Answer, ModelTypeOK
    <3>4. WholeOrNone => Knows(c)' /\ modelAt'[c] # "idle"
      BY <1>1, <1>typed DEF ModelCall, To, Answer, ModelTypeOK, Knows, WholeOrNone
    <3>5. modelAt[c] = "idle"
      BY <1>1 DEF ModelCall
    <3>6. QED
      BY <1>typed, <2>1, <3>1, <3>2, <3>3, <3>4, <3>5, AloneStep
  <2>2. CASE Inside # {}
    <3>1. overlap'
      BY <1>1, <2>2 DEF ModelCall
    <3>2. \A d \in Caller : /\ copyFailed'[d] => modelAt'[d] = "copy"
                            /\ path'[d] = "local" => modelAt'[d] = "returned"
      BY <1>0, <1>1, <1>typed DEF ModelCall, To, Answer, ModelTypeOK
    <3>3. QED
      BY <1>typed, <3>1, <3>2 DEF AloneInv
  <2>3. QED
    BY <2>1, <2>2
<1>2. ASSUME NEW c \in Caller, MakeDir(c) PROVE AloneInv'
  <2>1. /\ modelAt[c] # "idle" /\ (~overlap' /\ ~cutShort' => ~overlap /\ ~cutShort)
        /\ \A d \in Caller : d # c => /\ modelAt'[d] = modelAt[d] /\ path'[d] = path[d]
                                      /\ copyFailed'[d] = copyFailed[d]
    BY <1>2, <1>typed DEF MakeDir, CleanUp, To, Answer, ModelTypeOK
  <2>2. /\ copyFailed'[c] => modelAt'[c] = "copy"
        /\ path'[c] = "local" => modelAt'[c] = "returned"
    BY <1>0, <1>2, <1>typed DEF MakeDir, CleanUp, To, Answer, ModelTypeOK
  <2>3. Knows(c) => Knows(c)' /\ modelAt'[c] # "idle"
    BY <1>2, <1>typed DEF MakeDir, CleanUp, To, Answer, ModelTypeOK, Knows, WholeOrNone
  <2>4. QED
    BY <1>typed, <2>1, <2>2, <2>3, AloneStep
<1>3. ASSUME NEW c \in Caller, NEW f \in File, CopyFile(c, f) PROVE AloneInv'
  <2>1. /\ modelAt[c] # "idle" /\ (~overlap' /\ ~cutShort' => ~overlap /\ ~cutShort)
        /\ \A d \in Caller : d # c => /\ modelAt'[d] = modelAt[d] /\ path'[d] = path[d]
                                      /\ copyFailed'[d] = copyFailed[d]
    BY <1>3, <1>typed DEF CopyFile, ModelTypeOK
  <2>2. /\ copyFailed'[c] => modelAt'[c] = "copy"
        /\ path'[c] = "local" => modelAt'[c] = "returned"
    BY <1>0, <1>3, <1>typed DEF CopyFile, ModelTypeOK
  <2>3. Knows(c) => Knows(c)' /\ modelAt'[c] # "idle"
    BY <1>3, <1>typed DEF CopyFile, ModelTypeOK, Knows, WholeOrNone
  <2>4. QED
    BY <1>typed, <2>1, <2>2, <2>3, AloneStep
<1>4. ASSUME NEW c \in Caller, CopyEnd(c) PROVE AloneInv'
  <2>1. /\ modelAt[c] # "idle" /\ (~overlap' /\ ~cutShort' => ~overlap /\ ~cutShort)
        /\ \A d \in Caller : d # c => /\ modelAt'[d] = modelAt[d] /\ path'[d] = path[d]
                                      /\ copyFailed'[d] = copyFailed[d]
    BY <1>4, <1>typed DEF CopyEnd, CleanUp, To, Answer, ModelTypeOK
  <2>2. /\ copyFailed'[c] => modelAt'[c] = "copy"
        /\ path'[c] = "local" => modelAt'[c] = "returned"
    BY <1>0, <1>4, <1>typed DEF CopyEnd, CleanUp, To, Answer, ModelTypeOK
  <2>3. Knows(c) => Knows(c)' /\ modelAt'[c] # "idle"
    BY <1>4, <1>typed DEF CopyEnd, CleanUp, To, Answer, ModelTypeOK, Knows, WholeOrNone
  <2>4. QED
    BY <1>typed, <2>1, <2>2, <2>3, AloneStep
<1>5. ASSUME NEW c \in Caller, ListDir(c) PROVE AloneInv'
  <2>1. /\ modelAt[c] # "idle" /\ (~overlap' /\ ~cutShort' => ~overlap /\ ~cutShort)
        /\ \A d \in Caller : d # c => /\ modelAt'[d] = modelAt[d] /\ path'[d] = path[d]
                                      /\ copyFailed'[d] = copyFailed[d]
    BY <1>5, <1>typed DEF ListDir, To, Answer, ModelTypeOK
  <2>2. /\ copyFailed'[c] => modelAt'[c] = "copy"
        /\ path'[c] = "local" => modelAt'[c] = "returned"
    BY <1>0, <1>5, <1>typed DEF ListDir, To, Answer, ModelTypeOK
  <2>3. Knows(c) => Knows(c)' /\ modelAt'[c] # "idle"
    BY <1>5, <1>typed DEF ListDir, To, Answer, ModelTypeOK, Knows, WholeOrNone
  <2>4. QED
    BY <1>typed, <2>1, <2>2, <2>3, AloneStep
<1>6. ASSUME NEW c \in Caller, NEW f \in File, RemoveFile(c, f) PROVE AloneInv'
  <2>1. /\ modelAt[c] # "idle" /\ (~overlap' /\ ~cutShort' => ~overlap /\ ~cutShort)
        /\ \A d \in Caller : d # c => /\ modelAt'[d] = modelAt[d] /\ path'[d] = path[d]
                                      /\ copyFailed'[d] = copyFailed[d]
    BY <1>6, <1>typed DEF RemoveFile, ModelTypeOK
  <2>2. /\ copyFailed'[c] => modelAt'[c] = "copy"
        /\ path'[c] = "local" => modelAt'[c] = "returned"
    BY <1>0, <1>6, <1>typed DEF RemoveFile, ModelTypeOK
  <2>3. Knows(c) /\ ~cutShort' => Knows(c)' /\ modelAt'[c] # "idle"
    BY <1>6, <1>typed DEF RemoveFile, ModelTypeOK, Knows, WholeOrNone
  <2>4. QED
    BY <1>typed, <2>1, <2>2, <2>3, AloneStep
<1>7. ASSUME NEW c \in Caller, RemoveEnd(c) PROVE AloneInv'
  <2>1. /\ modelAt[c] # "idle" /\ (~overlap' /\ ~cutShort' => ~overlap /\ ~cutShort)
        /\ \A d \in Caller : d # c => /\ modelAt'[d] = modelAt[d] /\ path'[d] = path[d]
                                      /\ copyFailed'[d] = copyFailed[d]
    BY <1>7, <1>typed DEF RemoveEnd, To, Answer, ModelTypeOK
  <2>2. /\ copyFailed'[c] => modelAt'[c] = "copy"
        /\ path'[c] = "local" => modelAt'[c] = "returned"
    BY <1>0, <1>7, <1>typed DEF RemoveEnd, To, Answer, ModelTypeOK
  <2>3. Knows(c) => Knows(c)' /\ modelAt'[c] # "idle"
    BY <1>7, <1>typed DEF RemoveEnd, To, Answer, ModelTypeOK, Knows, WholeOrNone
  <2>4. QED
    BY <1>typed, <2>1, <2>2, <2>3, AloneStep
<1>8. ASSUME NEW c \in Caller, ModelLoaded(c) PROVE AloneInv'
  <2>1. /\ modelAt[c] # "idle" /\ (~overlap' /\ ~cutShort' => ~overlap /\ ~cutShort)
        /\ \A d \in Caller : d # c => /\ modelAt'[d] = modelAt[d] /\ path'[d] = path[d]
                                      /\ copyFailed'[d] = copyFailed[d]
    BY <1>8, <1>typed DEF ModelLoaded, To, ModelTypeOK
  <2>2. /\ copyFailed'[c] => modelAt'[c] = "copy"
        /\ path'[c] # "local"
    BY <1>0, <1>8, <1>typed, ModelAssumption DEF ModelLoaded, To, ModelTypeOK
  <2>3. Knows(c) => Knows(c)' /\ WholeOrNone'
    BY <1>8, <1>typed DEF ModelLoaded, To, ModelTypeOK, Knows, WholeOrNone
  <2>4. QED
    BY <1>typed, <2>1, <2>2, <2>3, AloneStep
<1>9. ASSUME NEW c \in Caller, KillModel(c) PROVE AloneInv'
  <2>1. cutShort'
    BY <1>9 DEF KillModel
  <2>2. \A d \in Caller : /\ copyFailed'[d] => modelAt'[d] = "copy"
                          /\ path'[d] = "local" => modelAt'[d] = "returned"
    BY <1>0, <1>9, <1>typed, ModelAssumption DEF KillModel, To, ModelTypeOK
  <2>3. QED
    BY <1>typed, <2>1, <2>2 DEF AloneInv
<1>10. ASSUME UNCHANGED modelAll PROVE AloneInv'
  BY <1>10, <1>typed DEF modelAll, modelVars, AloneInv, Inside, Knows, WholeOrNone
<1>11. QED
  BY <1>1, <1>2, <1>3, <1>4, <1>5, <1>6, <1>7, <1>8, <1>9, <1>10 DEF ModelNext

LEMMA AloneEnough == AloneInv => AloneIsWhole
<1> SUFFICES ASSUME AloneInv, ~overlap, ~cutShort, NEW c \in Caller, path[c] = "local"
             PROVE  local = File
  BY DEF AloneIsWhole, LocalIsWhole
<1>1. modelAt[c] = "returned" /\ Knows(c)
  BY DEF AloneInv
<1>2. QED
  BY <1>1 DEF Knows, WholeOrNone

-----------------------------------------------------------------------------
(* ProcessingTracker: what was recorded stays recorded                     *)

trackerAll == <<trackerVars, counters>>

LEMMA LoadCounts ==
  ASSUME CountersOK, NEW c \in Caller, Load(c)
  PROVE  /\ CountersOK'
         /\ \/ hashes' = [hashes EXCEPT ![c] = saved] /\ unread' = unread
            \/ hashes' = [hashes EXCEPT ![c] = {}] /\ unread' = TRUE
<1>1. calls \in Nat /\ faults \in Nat /\ MaxCalls \in Nat /\ MaxFaults \in Nat
  BY DEF CountersOK
<1>2. QED
  BY <1>1, CountersNext DEF Load, CountersOK

LEMMA TrackerTypeInit == CallersInit /\ TrackerInit => TrackerTypeOK
<1>1. CallersInit => CountersOK
  BY DEF CallersInit, CountersOK
<1>2. QED
  BY <1>1 DEF TrackerInit, TrackerTypeOK

LEMMA TrackerTypeNext ==
  ASSUME TrackerTypeOK, [TrackerNext]_trackerAll
  PROVE  TrackerTypeOK'
<1> USE DEF TrackerTypeOK
<1>1. ASSUME NEW c \in Caller, OpenTracker(c) PROVE TrackerTypeOK'
  <2>1. Load(c)
    BY <1>1 DEF OpenTracker
  <2>2. CountersOK' /\ hashes' \in [Caller -> SUBSET Hash] /\ unread' \in BOOLEAN
    BY <2>1, LoadCounts, ZenonT(40)
  <2>3. QED
    BY <1>1, <2>2 DEF OpenTracker
<1>2. ASSUME NEW c \in Caller, SaveTracker(c) PROVE TrackerTypeOK'
  <2>1. CountersOK'
    BY <1>2, CountersNext DEF SaveTracker
  <2>2. QED
    BY <1>2, <2>1 DEF SaveTracker, ToSave
<1>3. ASSUME NEW c \in Caller, CloseTracker(c) PROVE TrackerTypeOK'
  <2>1. CountersOK'
    BY <1>3, CountersNext DEF CloseTracker
  <2>2. QED
    BY <1>3, <2>1 DEF CloseTracker
<1>4. ASSUME NEW c \in Caller, NEW h \in Hash, MarkProcessed(c, h) PROVE TrackerTypeOK'
  <2>1. CountersOK'
    BY <1>4, CountersNext DEF MarkProcessed
  <2>2. QED
    BY <1>4, <2>1 DEF MarkProcessed
<1>5. ASSUME UNCHANGED trackerAll PROVE TrackerTypeOK'
  BY <1>5 DEF trackerAll, trackerVars, counters, CountersOK
<1>6. QED
  BY <1>1, <1>2, <1>3, <1>4, <1>5 DEF TrackerNext

\* The tracker that is open has every hash that is stored.
SessionInv ==
    /\ TrackerTypeOK
    /\ ~sideBySide /\ ~unread =>
          /\ \A c, d \in tracking : c = d
          /\ \A c \in tracking : saved \subseteq hashes[c]
          /\ saved = recorded

LEMMA SessionInit == CallersInit /\ TrackerInit => SessionInv
BY TrackerTypeInit DEF TrackerInit, SessionInv

LEMMA SessionNext ==
  ASSUME SessionInv, [TrackerNext]_trackerAll
  PROVE  SessionInv'
<1>typed. TrackerTypeOK /\ TrackerTypeOK'
  BY TrackerTypeNext DEF SessionInv
<1> USE DEF SessionInv
<1>1. ASSUME NEW c \in Caller, OpenTracker(c) PROVE SessionInv'
  <2> SUFFICES ASSUME ~sideBySide', ~unread'
               PROVE  /\ \A d, e \in tracking' : d = e
                      /\ \A d \in tracking' : saved' \subseteq hashes'[d]
                      /\ saved' = recorded'
    BY <1>typed
  <2>1. tracking = {} /\ ~sideBySide /\ tracking' = {c} /\ Load(c)
        /\ UNCHANGED <<saved, recorded>>
    BY <1>1 DEF OpenTracker
  <2>2. hashes' = [hashes EXCEPT ![c] = saved] /\ unread' = unread
    BY <1>typed, <2>1, LoadCounts DEF TrackerTypeOK
  <2>3. hashes'[c] = saved
    BY <1>typed, <2>2 DEF TrackerTypeOK
  <2>4. QED
    BY <2>1, <2>2, <2>3
<1>2. ASSUME NEW c \in Caller, SaveTracker(c) PROVE SessionInv'
  BY <1>2, <1>typed DEF SaveTracker, ToSave, TrackerTypeOK
<1>3. ASSUME NEW c \in Caller, CloseTracker(c) PROVE SessionInv'
  BY <1>3, <1>typed DEF CloseTracker, TrackerTypeOK
<1>4. ASSUME NEW c \in Caller, NEW h \in Hash, MarkProcessed(c, h) PROVE SessionInv'
  BY <1>4, <1>typed DEF MarkProcessed, TrackerTypeOK
<1>5. ASSUME UNCHANGED trackerAll PROVE SessionInv'
  BY <1>5, <1>typed DEF trackerAll, trackerVars
<1>6. QED
  BY <1>1, <1>2, <1>3, <1>4, <1>5 DEF TrackerNext

-----------------------------------------------------------------------------
(* AppendStore: a load has every event                                     *)

appendAll == <<appendVars, counters>>

\* An event is added to those a load has; the manager context plays no role.
Deduping(ctx, have, e) == IF e \in ToSet(have) THEN have ELSE Append(have, e)

Deduped == INSTANCE FoldFacts WITH Op <- Deduping

\* A sequence of events that has none twice.
Distinct(s) == \A i, j \in DOMAIN s : s[i] = s[j] => i = j

\* What a load has after more was added to what it had.
Gathered(s, have, more, k) ==
    /\ s \in Seq(Event) /\ Distinct(s)
    /\ ToSet(have) \subseteq ToSet(s)
    /\ \A i \in 1..k : more[i] \in ToSet(s)

LEMMA AppendDistinct ==
  ASSUME NEW have \in Seq(Event), Distinct(have), NEW e \in Event, e \notin ToSet(have)
  PROVE  /\ Append(have, e) \in Seq(Event) /\ Distinct(Append(have, e))
         /\ ToSet(have) \subseteq ToSet(Append(have, e)) /\ e \in ToSet(Append(have, e))
<1>1. PICK next : next = Append(have, e)
  OBVIOUS
<1>2. /\ next \in Seq(Event) /\ Len(have) \in Nat /\ DOMAIN have = 1..Len(have)
      /\ DOMAIN next = 1..(Len(have) + 1)
      /\ \A i \in 1..Len(have) : next[i] = have[i]
      /\ next[Len(have) + 1] = e
  BY <1>1
<1>3. \A i \in 1..Len(have) : have[i] # e
  BY <1>2 DEF ToSet
<1>4. \A i \in DOMAIN next : i \in 1..Len(have) \/ i = Len(have) + 1
  BY <1>2
<1>5. Distinct(next)
  BY <1>2, <1>3, <1>4 DEF Distinct
<1>6. ToSet(have) \subseteq ToSet(next) /\ e \in ToSet(next)
  BY <1>2 DEF ToSet
<1>7. QED
  BY <1>1, <1>2, <1>5, <1>6

LEMMA FirstOfEachGathers ==
  ASSUME NEW have \in Seq(Event), Distinct(have), NEW more \in Seq(Event)
  PROVE  /\ FirstOfEach(have, more) \in Seq(Event) /\ Distinct(FirstOfEach(have, more))
         /\ ToSet(have) \cup ToSet(more) \subseteq ToSet(FirstOfEach(have, more))
<1>1. PICK n \in Nat : n = Len(more) /\ DOMAIN more = 1..n
  OBVIOUS
<1>2. Deduped!FoldsTo(None, have, more, n)
  BY <1>1, Deduped!FoldLeftSteps
<1>3. PICK acc : /\ acc[0] = have
                 /\ \A k \in 1..n : acc[k] = Deduping(None, acc[k - 1], more[k])
                 /\ acc[n] = Deduped!Iter(None, have, more)[DOMAIN more]
  BY <1>2 DEF Deduped!FoldsTo
<1> DEFINE S == {k \in Nat : k <= n => Gathered(acc[k], have, more, k)}
<1>4. 0 \in S
  BY <1>3 DEF Gathered
<1>5. ASSUME NEW k \in Nat, k \in S PROVE k + 1 \in S
  <2> SUFFICES ASSUME k + 1 <= n PROVE Gathered(acc[k + 1], have, more, k + 1)
    OBVIOUS
  <2>1. Gathered(acc[k], have, more, k) /\ k + 1 \in 1..n /\ (k + 1) - 1 = k
    BY <1>5
  <2>2. PICK was, e : was = acc[k] /\ e = more[k + 1]
    OBVIOUS
  <2>3. /\ acc[k + 1] = Deduping(None, was, e)
        /\ e \in Event /\ was \in Seq(Event) /\ Distinct(was)
        /\ ToSet(have) \subseteq ToSet(was) /\ \A i \in 1..k : more[i] \in ToSet(was)
    BY <1>1, <1>3, <2>1, <2>2 DEF Gathered
  <2>4. \A i \in 1..(k + 1) : i \in 1..k \/ i = k + 1
    OBVIOUS
  <2>5. CASE e \in ToSet(was)
    BY <2>2, <2>3, <2>4, <2>5 DEF Gathered, Deduping
  <2>6. CASE e \notin ToSet(was)
    <3>1. acc[k + 1] = Append(was, e)
      BY <2>3, <2>6 DEF Deduping
    <3>2. /\ Append(was, e) \in Seq(Event) /\ Distinct(Append(was, e))
          /\ ToSet(was) \subseteq ToSet(Append(was, e)) /\ e \in ToSet(Append(was, e))
      BY <2>3, <2>6, AppendDistinct
    <3>3. QED
      BY <2>2, <2>3, <2>4, <3>1, <3>2 DEF Gathered
  <2>7. QED
    BY <2>5, <2>6
<1>6. Nat \subseteq S
  <2> HIDE DEF S
  <2> QED
    BY <1>4, <1>5, Deduped!NatSetInduction
<1>7. Gathered(acc[n], have, more, n)
  <2>1. n \in S
    BY <1>6
  <2>2. n <= n
    OBVIOUS
  <2>3. QED
    BY <2>1, <2>2
<1>8. FirstOfEach(have, more) = Deduped!Iter(None, have, more)[DOMAIN more]
  BY DEF FirstOfEach, FoldLeft, MapThenFoldSet, Max, Deduping, ToSet, Deduped!Iter,
         Deduped!Folding, Deduped!Latest
<1>9. ToSet(more) \subseteq ToSet(acc[n])
  BY <1>1, <1>7 DEF Gathered, ToSet
<1>10. QED
  BY <1>3, <1>7, <1>8, <1>9 DEF Gathered

\* What a load has after a file that is whole.
LEMMA CombinedHas ==
  ASSUME NEW have \in Seq(Event), NEW more \in Seq(Event), manager = "s3" => Distinct(have)
  PROVE  /\ Combined(have, more) \in Seq(Event)
         /\ manager = "s3" => Distinct(Combined(have, more))
         /\ ToSet(have) \cup ToSet(more) \subseteq ToSet(Combined(have, more))
<1>1. CASE manager = "s3"
  BY <1>1, FirstOfEachGathers DEF Combined
<1>2. CASE manager # "s3"
  <2>1. PICK both : both = have \o more
    OBVIOUS
  <2>2. /\ both \in Seq(Event) /\ Len(have) \in Nat /\ Len(more) \in Nat
        /\ DOMAIN both = 1..(Len(have) + Len(more))
        /\ DOMAIN have = 1..Len(have) /\ DOMAIN more = 1..Len(more)
        /\ \A i \in 1..Len(have) : both[i] = have[i]
        /\ \A i \in 1..Len(more) : both[Len(have) + i] = more[i]
    BY <2>1
  <2>3. ToSet(have) \subseteq ToSet(both)
    BY <2>2 DEF ToSet
  <2>4. ASSUME NEW i \in 1..Len(more) PROVE more[i] \in ToSet(both)
    <3>1. Len(have) + i \in DOMAIN both /\ both[Len(have) + i] = more[i]
      BY <2>2
    <3>2. QED
      BY <3>1 DEF ToSet
  <2>5. ToSet(more) \subseteq ToSet(both)
    BY <2>2, <2>4 DEF ToSet
  <2>6. QED
    BY <1>2, <2>1, <2>2, <2>3, <2>5 DEF Combined
<1>3. QED
  BY <1>1, <1>2

\* The files and what is written into them, in more detail than AppendTypeOK has it.
FilesTyped ==
    /\ CountersOK
    /\ manager \in Manager
    /\ files \in [RunId -> [state : {"absent", "torn", "whole"}, events : Seq(Event)]]
    /\ writing \in [RunId -> Seq(Event) \cup {None}]
    /\ appended \subseteq Event /\ again \subseteq RunId
    /\ (reading = None \/ reading \subseteq RunId)
    /\ readAll \in Seq(Event) /\ expected \subseteq Event
    /\ passedOver \in BOOLEAN

\* The files a load has still to read, the events that are in some of the files.
ToRead    == IF reading = None THEN {} ELSE reading
EventsIn(fs, R) == UNION {ToSet(fs[r].events) : r \in R}

\* No run has written twice: then its file is empty until its events are there, the
\* events that were appended are in the files, and those a load must find are in the
\* files it has still to read or were read.
OnceInv ==
    /\ \A r \in RunId : files[r].state # "whole" => files[r].events = <<>>
    /\ again = {} =>
          /\ \A r \in RunId : writing[r] # None => files[r].state # "whole"
          /\ appended \subseteq EventsIn(files, RunId)
          /\ ~passedOver => expected \subseteq ToSet(readAll) \cup EventsIn(files, ToRead)

AppendInv == FilesTyped /\ OnceInv /\ (manager = "s3" => Distinct(readAll))

LEMMA AppendInvInit == CallersInit /\ AppendInit => AppendInv
<1> SUFFICES ASSUME CallersInit, AppendInit PROVE AppendInv
  OBVIOUS
<1>1. CountersOK
  BY DEF CallersInit, CountersOK
<1>2. NoFile \in [state : {"absent", "torn", "whole"}, events : Seq(Event)]
  <2>1. <<>> \in Seq(Event)
    OBVIOUS
  <2>2. QED
    BY <2>1 DEF NoFile
<1>3. FilesTyped
  <2>1. files \in [RunId -> [state : {"absent", "torn", "whole"}, events : Seq(Event)]]
    BY <1>2 DEF AppendInit
  <2>2. writing \in [RunId -> Seq(Event) \cup {None}] /\ readAll \in Seq(Event)
    BY DEF AppendInit
  <2>3. QED
    BY <1>1, <2>1, <2>2 DEF AppendInit, FilesTyped
<1>4. OnceInv /\ Distinct(readAll)
  BY DEF AppendInit, OnceInv, Distinct, NoFile
<1>5. QED
  BY <1>3, <1>4 DEF AppendInv

\* No file is there, which is not so when something is in it.
LEMMA NoFileIsEmpty ==
  ASSUME NEW f, f.state = "whole"
  PROVE  f # NoFile
BY DEF NoFile

LEMMA AppendBeginKeeps ==
  ASSUME AppendInv, NEW r \in RunId, NEW e \in Event, NEW f \in Event, AppendBegin(r, <<e, f>>)
  PROVE  AppendInv'
<1> USE DEF AppendInv
<1>1. CountersOK'
  BY CountersNext DEF AppendBegin, FilesTyped
<1>2. /\ writing' = [writing EXCEPT ![r] = <<e, f>>]
      /\ again' = IF files[r] = NoFile THEN again ELSE again \cup {r}
      /\ UNCHANGED <<manager, files, appended, reading, readAll, expected, passedOver>>
  BY DEF AppendBegin
<1>3. FilesTyped'
  BY <1>1, <1>2 DEF FilesTyped
<1>4. ASSUME again' = {} PROVE again = {} /\ files[r].state # "whole"
  BY <1>2, <1>4, NoFileIsEmpty
<1>5. again' = {} => \A q \in RunId : writing'[q] # None => files'[q].state # "whole"
  BY <1>2, <1>4 DEF OnceInv, FilesTyped
<1>6. OnceInv'
  BY <1>2, <1>4, <1>5 DEF OnceInv, EventsIn, ToRead
<1>7. QED
  BY <1>2, <1>3, <1>6 DEF Distinct

\* One file changes, but loses no events.
LEMMA FileKeeps ==
  ASSUME AppendInv, NEW r \in RunId, NEW f,
         f \in [state : {"absent", "torn", "whole"}, events : Seq(Event)],
         files' = [files EXCEPT ![r] = f],
         f.state # "whole" => f.events = <<>>,
         again = {} => ToSet(files[r].events) \subseteq ToSet(f.events),
         CountersOK', writing' \in [RunId -> Seq(Event) \cup {None}],
         \A q \in RunId : writing'[q] # None => writing[q] # None,
         f.state = "whole" => writing'[r] = None,
         appended' \subseteq appended \cup ToSet(f.events),
         appended' \subseteq Event,
         UNCHANGED <<manager, again, reading, readAll, expected, passedOver>>
  PROVE  AppendInv'
<1> USE DEF AppendInv
<1>1. FilesTyped'
  BY DEF FilesTyped
<1>2. /\ files'[r] = f /\ \A q \in RunId : q # r => files'[q] = files[q]
  BY DEF FilesTyped
<1>3. ASSUME again = {} PROVE \A q \in RunId : ToSet(files[q].events) \subseteq ToSet(files'[q].events)
  BY <1>2, <1>3
<1>4. ASSUME again = {}, NEW R \in SUBSET RunId PROVE EventsIn(files, R) \subseteq EventsIn(files', R)
  BY <1>3, <1>4 DEF EventsIn
<1>5. \A q \in RunId : files'[q].state # "whole" => files'[q].events = <<>>
  BY <1>2 DEF OnceInv
<1>6. ASSUME again = {}, NEW q \in RunId, writing'[q] # None PROVE files'[q].state # "whole"
  BY <1>2, <1>6 DEF OnceInv
<1>7. again = {} => appended' \subseteq EventsIn(files', RunId)
  <2>1. ToSet(f.events) \subseteq EventsIn(files', RunId)
    BY <1>2 DEF EventsIn
  <2>2. QED
    BY <1>4, <2>1 DEF OnceInv
<1>8. ToRead' = ToRead /\ ToRead \subseteq RunId
  BY DEF ToRead, FilesTyped
<1>9. again = {} /\ ~passedOver => expected \subseteq ToSet(readAll) \cup EventsIn(files', ToRead')
  BY <1>4, <1>8 DEF OnceInv
<1>10. OnceInv'
  BY <1>5, <1>6, <1>7, <1>8, <1>9 DEF OnceInv
<1>11. QED
  BY <1>1, <1>10 DEF Distinct

LEMMA ReadFileKeeps ==
  ASSUME AppendInv, NEW r \in RunId, ReadFile(r)
  PROVE  AppendInv'
<1> USE DEF AppendInv
<1>1. /\ reading # None /\ r \in reading /\ reading' = reading \ {r}
      /\ UNCHANGED <<manager, files, writing, appended, again, expected>>
      /\ \/ /\ readAll' = Combined(readAll, files[r].events)
            /\ passedOver' = (passedOver \/ files[r].state = "torn")
            /\ UNCHANGED counters
         \/ passedOver' = TRUE /\ Fault /\ UNCHANGED readAll
  BY DEF ReadFile
<1>2. CountersOK'
  BY <1>1, CountersNext DEF FilesTyped
<1>3. files[r].events \in Seq(Event) /\ readAll \in Seq(Event) /\ reading \subseteq RunId
  BY <1>1 DEF FilesTyped
<1>4. /\ readAll' \in Seq(Event) /\ (manager = "s3" => Distinct(readAll'))
      /\ ToSet(readAll) \subseteq ToSet(readAll')
      /\ ~passedOver' => ~passedOver /\ ToSet(files[r].events) \subseteq ToSet(readAll')
  BY <1>1, <1>3, CombinedHas
<1>5. FilesTyped'
  BY <1>1, <1>2, <1>3, <1>4 DEF FilesTyped
<1>6. reading \subseteq ToRead' \cup {r} /\ ToRead = reading
  BY <1>1, <1>3, RunIdAssumption DEF ToRead
<1>7. EventsIn(files, ToRead) \subseteq EventsIn(files', ToRead') \cup ToSet(files[r].events)
  BY <1>1, <1>6 DEF EventsIn
<1>8. again = {} /\ ~passedOver' => expected \subseteq ToSet(readAll') \cup EventsIn(files', ToRead')
  BY <1>4, <1>7 DEF OnceInv
<1>9. OnceInv'
  BY <1>1, <1>8 DEF OnceInv, EventsIn
<1>10. QED
  BY <1>1, <1>4, <1>5, <1>9 DEF Distinct

LEMMA ListFilesKeeps ==
  ASSUME AppendInv, ListFiles
  PROVE  AppendInv'
<1> USE DEF AppendInv
<1>1. /\ reading' = {r \in RunId : files[r].state # "absent"}
      /\ expected' = appended /\ passedOver' = FALSE
      /\ UNCHANGED <<manager, files, writing, appended, again, readAll, counters>>
  BY DEF ListFiles
<1>2. CountersOK'
  BY <1>1, CountersNext DEF FilesTyped
<1>3. FilesTyped'
  BY <1>1, <1>2 DEF FilesTyped
<1>4. EventsIn(files, RunId) \subseteq EventsIn(files, reading')
  <2>1. ASSUME NEW r \in RunId, NEW e \in ToSet(files[r].events) PROVE r \in reading'
    <3>1. files[r].events # <<>>
      BY <2>1 DEF ToSet
    <3>2. QED
      BY <1>1, <3>1 DEF OnceInv
  <2>2. QED
    BY <2>1 DEF EventsIn
<1>5. ToRead' = reading'
  BY <1>1, RunIdAssumption DEF ToRead
<1>6. OnceInv'
  BY <1>1, <1>4, <1>5 DEF OnceInv
<1>7. QED
  BY <1>1, <1>3, <1>6 DEF Distinct

LEMMA LoadDoneKeeps ==
  ASSUME AppendInv, LoadDone
  PROVE  AppendInv'
<1> USE DEF AppendInv
<1>1. /\ reading' = None /\ readAll' = <<>> /\ expected' = {}
      /\ UNCHANGED <<manager, files, writing, appended, again, passedOver, counters>>
  BY DEF LoadDone
<1>2. CountersOK'
  BY <1>1, CountersNext DEF FilesTyped
<1>3. FilesTyped'
  BY <1>1, <1>2 DEF FilesTyped
<1>4. OnceInv' /\ Distinct(readAll')
  BY <1>1 DEF OnceInv, Distinct
<1>5. QED
  BY <1>3, <1>4

LEMMA AppendInvNext ==
  ASSUME AppendInv, [AppendNext]_appendAll
  PROVE  AppendInv'
<1>typed. FilesTyped /\ OnceInv
  BY DEF AppendInv
<1>1. ASSUME NEW r \in RunId, Truncate(r) PROVE AppendInv'
  <2>1. PICK f : f = [state |-> "torn", events |-> <<>>]
    OBVIOUS
  <2>2. f \in [state : {"absent", "torn", "whole"}, events : Seq(Event)] /\ f.state # "whole"
    <3>1. <<>> \in Seq(Event)
      OBVIOUS
    <3>2. QED
      BY <2>1, <3>1
  <2>3. /\ writing[r] # None /\ files' = [files EXCEPT ![r] = f] /\ UNCHANGED writing
        /\ UNCHANGED <<manager, again, appended, reading, readAll, expected, passedOver, counters>>
    BY <1>1, <2>1 DEF Truncate
  <2>4. CountersOK'
    BY <1>typed, <2>3, CountersNext DEF FilesTyped
  <2>5. again = {} => ToSet(files[r].events) \subseteq ToSet(f.events)
    BY <1>typed, <2>3 DEF OnceInv, ToSet
  <2>6. writing' \in [RunId -> Seq(Event) \cup {None}] /\ appended' \subseteq Event
    BY <1>typed, <2>3 DEF FilesTyped
  <2>7. QED
    BY <2>1, <2>2, <2>3, <2>4, <2>5, <2>6, FileKeeps
<1>2. ASSUME NEW r \in RunId, WriteEvents(r) PROVE AppendInv'
  <2>1. PICK f : f = [state |-> "whole", events |-> writing[r]]
    OBVIOUS
  <2>2. /\ writing[r] # None /\ files' = [files EXCEPT ![r] = f]
        /\ writing' = [writing EXCEPT ![r] = None]
        /\ appended' = appended \cup ToSet(writing[r])
        /\ UNCHANGED <<manager, again, reading, readAll, expected, passedOver, counters>>
    BY <1>2, <2>1 DEF WriteEvents, FileOf
  <2>3. writing[r] \in Seq(Event)
    BY <1>typed, <2>2 DEF FilesTyped
  <2>4. /\ f \in [state : {"absent", "torn", "whole"}, events : Seq(Event)]
        /\ f.state = "whole" /\ f.events = writing[r]
    BY <2>1, <2>3
  <2>5. CountersOK'
    BY <1>typed, <2>2, CountersNext DEF FilesTyped
  <2>6. again = {} => ToSet(files[r].events) \subseteq ToSet(f.events)
    <3>1. again = {} => files[r].events = <<>>
      BY <1>typed, <2>2 DEF OnceInv
    <3>2. QED
      BY <3>1 DEF ToSet
  <2>7. ToSet(writing[r]) \subseteq Event
    BY <2>3 DEF ToSet
  <2>8. /\ writing' \in [RunId -> Seq(Event) \cup {None}] /\ appended' \subseteq Event
        /\ writing'[r] = None /\ \A q \in RunId : writing'[q] # None => writing[q] # None
    BY <1>typed, <2>2, <2>7 DEF FilesTyped
  <2>9. QED
    BY <2>2, <2>4, <2>5, <2>6, <2>8, FileKeeps
<1>3. ASSUME NEW r \in RunId, AppendFails(r) PROVE AppendInv'
  <2>1. PICK f : f = files[r]
    OBVIOUS
  <2>2. /\ writing' = [writing EXCEPT ![r] = None] /\ Fault
        /\ UNCHANGED <<manager, files, appended, again, reading, readAll, expected, passedOver>>
    BY <1>3 DEF AppendFails
  <2>3. /\ f \in [state : {"absent", "torn", "whole"}, events : Seq(Event)]
        /\ files' = [files EXCEPT ![r] = f]
        /\ (f.state # "whole" => f.events = <<>>)
    BY <1>typed, <2>1, <2>2 DEF FilesTyped, OnceInv
  <2>4. CountersOK'
    BY <1>typed, <2>2, CountersNext DEF FilesTyped
  <2>5. /\ writing' \in [RunId -> Seq(Event) \cup {None}] /\ appended' \subseteq Event
        /\ writing'[r] = None /\ \A q \in RunId : writing'[q] # None => writing[q] # None
    BY <1>typed, <2>2 DEF FilesTyped
  <2>6. QED
    BY <2>1, <2>2, <2>3, <2>4, <2>5, FileKeeps
<1>4. CASE UNCHANGED appendAll
  <2>1. CountersOK'
    BY <1>typed, <1>4, CountersNext DEF FilesTyped, appendAll
  <2>2. QED
    BY <1>4, <2>1 DEF appendAll, appendVars, AppendInv, FilesTyped, OnceInv, EventsIn, ToRead, Distinct
<1>5. QED
  BY <1>1, <1>2, <1>3, <1>4, AppendBeginKeeps, ReadFileKeeps, ListFilesKeeps, LoadDoneKeeps
  DEF AppendNext

LEMMA AppendEnough == AppendInv => AppendTypeOK /\ EventsLoaded
<1> SUFFICES ASSUME AppendInv PROVE AppendTypeOK /\ EventsLoaded
  OBVIOUS
<1>1. FilesTyped /\ OnceInv /\ (manager = "s3" => Distinct(readAll))
  BY DEF AppendInv
<1>2. ASSUME NEW s \in Seq(Event) PROVE ToSet(s) \subseteq Event
  BY DEF ToSet
<1>3. AppendTypeOK
  BY <1>1, <1>2 DEF FilesTyped, AppendTypeOK
<1>4. reading = {} => EventsIn(files, ToRead) = {}
  BY DEF EventsIn, ToRead
<1>5. EventsLoaded
  BY <1>1, <1>4 DEF OnceInv, Distinct, EventsLoaded
<1>6. QED
  BY <1>3, <1>5

-----------------------------------------------------------------------------
(* LocalStore: an asset loads its own last output                          *)

LEMMA InDirectory ==
  ASSUME NEW t \in Target
  PROVE  Directory[t] \in Target /\ PlaceOf(About[Directory[t]]) = PlaceOf(About[t])
<1>1. PICK d : d = CHOOSE u \in Target : PlaceOf(About[u]) = PlaceOf(About[t])
  OBVIOUS
<1>2. d \in Target /\ PlaceOf(About[d]) = PlaceOf(About[t])
  BY <1>1
<1>3. QED
  BY <1>1, <1>2 DEF Directory

LEMMA ModelSegments ==
  ASSUME NEW a
  PROVE  \/ /\ a.model = None \/ a.layer \notin ModelKeyed
            /\ ModelSegment(a) = <<>>
         \/ /\ a.model # None /\ a.layer \in ModelKeyed
            /\ ModelSegment(a) = <<<<"model", SafeTag(a.model)>>>>
BY DEF ModelSegment

\* A partition as its key tells it and as its directories do.
PartitionAs(key, p) ==
    \/ key = None /\ p = <<>>
    \/ \E y, m, d : /\ key = [kind |-> "date", year |-> y, month |-> m, day |-> d]
                    /\ key # None
                    /\ p = <<<<"year", y>>, <<"month", m>>, <<"day", d>>>>
    \/ \E y, m : /\ key = [kind |-> "month", year |-> y, month |-> m]
                 /\ key # None
                 /\ p = <<<<"year", y>>, <<"month", m>>>>
    \/ \E n : key = [kind |-> "name", name |-> n] /\ key # None /\ p = <<n>>

LEMMA PartitionSegments ==
  ASSUME NEW a, a.partition = None \/ PartitionKey(a.partition)
  PROVE  PartitionAs(a.partition, PartitionSegment(a))
<1>1. CASE a.partition = None
  BY <1>1 DEF PartitionSegment, PartitionAs
<1>2. CASE a.partition # None /\ a.partition.kind = "date"
  BY <1>2 DEF PartitionSegment, PartitionKey, _hive_partition_segment, PartitionAs
<1>3. CASE a.partition # None /\ a.partition.kind = "month"
  BY <1>3 DEF PartitionSegment, PartitionKey, _hive_partition_segment, PartitionAs
<1>4. CASE a.partition # None /\ a.partition.kind = "name"
  BY <1>4 DEF PartitionSegment, PartitionKey, _hive_partition_segment, PartitionAs
<1>5. QED
  BY <1>1, <1>2, <1>3, <1>4 DEF PartitionKey

\* There are as many directories as the key has parts, and they tell what the key is.
LEMMA SegmentsTell ==
  ASSUME NEW key, NEW p, PartitionAs(key, p)
  PROVE  /\ Len(p) \in {0, 1, 2, 3}
         /\ Len(p) = 0 => p = <<>> /\ key = None
         /\ p # <<>> => key # None
         /\ Len(p) = 1 => key = [kind |-> "name", name |-> p[1]] /\ p = <<p[1]>>
         /\ Len(p) = 2 => /\ key = [kind |-> "month", year |-> p[1][2], month |-> p[2][2]]
                          /\ p[1][1] = "year"
         /\ Len(p) = 3 => /\ key = [kind |-> "date", year |-> p[1][2], month |-> p[2][2],
                                    day |-> p[3][2]]
                          /\ p[1][1] = "year"
<1>1. CASE key = None /\ p = <<>>
  BY <1>1
<1>2. CASE \E y, m, d : /\ key = [kind |-> "date", year |-> y, month |-> m, day |-> d]
                        /\ key # None
                        /\ p = <<<<"year", y>>, <<"month", m>>, <<"day", d>>>>
  BY <1>2
<1>3. CASE \E y, m : /\ key = [kind |-> "month", year |-> y, month |-> m]
                     /\ key # None
                     /\ p = <<<<"year", y>>, <<"month", m>>>>
  BY <1>3
<1>4. CASE \E n : key = [kind |-> "name", name |-> n] /\ key # None /\ p = <<n>>
  BY <1>4
<1>5. QED
  BY <1>1, <1>2, <1>3, <1>4 DEF PartitionAs

LEMMA Joined ==
  ASSUME NEW S, NEW r \in Seq(S), NEW m \in Seq(S), NEW p \in Seq(S)
  PROVE  /\ Len(r \o m \o p) = Len(r) + Len(m) + Len(p)
         /\ \A i \in 1..Len(r) : (r \o m \o p)[i] = r[i]
         /\ \A i \in 1..Len(m) : (r \o m \o p)[Len(r) + i] = m[i]
         /\ \A i \in 1..Len(p) : (r \o m \o p)[Len(r) + Len(m) + i] = p[i]
<1>1. /\ r \o m \in Seq(S) /\ Len(r \o m) = Len(r) + Len(m)
      /\ \A i \in 1..Len(r) + Len(m) : (r \o m)[i] = IF i <= Len(r) THEN r[i] ELSE m[i - Len(r)]
  BY ConcatProperties
<1>2. PICK q \in Seq(S) : q = r \o m
  BY <1>1
<1>3. /\ Len(q \o p) = Len(q) + Len(p)
      /\ \A i \in 1..Len(q) + Len(p) : (q \o p)[i] = IF i <= Len(q) THEN q[i] ELSE p[i - Len(q)]
  BY ConcatProperties
<1>4. Len(r) \in Nat /\ Len(m) \in Nat /\ Len(p) \in Nat
  BY LenProperties
<1>5. QED
  BY <1>1, <1>2, <1>3, <1>4

\* Where the directories of the asset, the model and the partition are in a place.
Laid(a, w) ==
    /\ w[1] = a.layer /\ w[3] = _group_from_asset_key(a.key) /\ w[4] = FlattenSeq(a.key)
    /\ Len(w) = 4 + Len(ModelSegment(a)) + Len(PartitionSegment(a))
    /\ \A i \in 1..Len(ModelSegment(a)) : w[4 + i] = ModelSegment(a)[i]
    /\ \A i \in 1..Len(PartitionSegment(a)) :
          w[4 + Len(ModelSegment(a)) + i] = PartitionSegment(a)[i]

LEMMA PlaceLaid ==
  ASSUME NEW a, a.partition = None \/ PartitionKey(a.partition)
  PROVE  Laid(a, PlaceOf(a))
<1>1. PICK m, p : m = ModelSegment(a) /\ p = PartitionSegment(a)
  OBVIOUS
<1>2. PICK r : r = <<a.layer, Location, _group_from_asset_key(a.key), FlattenSeq(a.key)>>
  OBVIOUS
<1>3. \E S : r \in Seq(S) /\ m \in Seq(S) /\ p \in Seq(S)
  <2>1. PICK M : m \in Seq(M)
    <3>1. m = <<>> \/ \E z : m = <<z>>
      BY <1>1, ModelSegments
    <3>2. CASE m = <<>>
      <4>1. m \in Seq({})
        BY <3>2
      <4>2. QED
        BY <4>1
    <3>3. CASE \E z : m = <<z>>
      <4>1. PICK z : m = <<z>>
        BY <3>3
      <4>2. m \in Seq({z})
        BY <4>1
      <4>3. QED
        BY <4>2
    <3>4. QED
      BY <3>1, <3>2, <3>3
  <2>2. PICK P : p \in Seq(P)
    <3>1. \/ p = <<>> \/ (\E z : p = <<z>>) \/ (\E y, z : p = <<y, z>>)
          \/ \E x, y, z : p = <<x, y, z>>
      BY <1>1, PartitionSegments DEF PartitionAs
    <3>2. CASE \E z : p = <<z>>
      <4>1. PICK z : p = <<z>>
        BY <3>2
      <4>2. p \in Seq({z})
        BY <4>1
      <4>3. QED
        BY <4>2
    <3>3. CASE \E y, z : p = <<y, z>>
      <4>1. PICK y, z : p = <<y, z>>
        BY <3>3
      <4>2. p \in Seq({y, z})
        BY <4>1
      <4>3. QED
        BY <4>2
    <3>4. CASE \E x, y, z : p = <<x, y, z>>
      <4>1. PICK x, y, z : p = <<x, y, z>>
        BY <3>4
      <4>2. p \in Seq({x, y, z})
        BY <4>1
      <4>3. QED
        BY <4>2
    <3>5. CASE p = <<>>
      <4>1. p \in Seq({})
        BY <3>5
      <4>2. QED
        BY <4>1
    <3>6. QED
      BY <3>1, <3>2, <3>3, <3>4, <3>5
  <2>3. PICK R : R = {a.layer, Location, _group_from_asset_key(a.key), FlattenSeq(a.key)}
    OBVIOUS
  <2>4. r \in Seq(R)
    BY <1>2, <2>3
  <2>5. PICK S : S = R \union (M \union P)
    OBVIOUS
  <2>6. r \in Seq(S) /\ m \in Seq(S) /\ p \in Seq(S)
    <3>1. R \subseteq S /\ M \subseteq S /\ P \subseteq S
      BY <2>5
    <3>2. QED
      BY <2>1, <2>2, <2>4, <3>1
  <2>7. QED
    BY <2>6
<1>4. PICK S : r \in Seq(S) /\ m \in Seq(S) /\ p \in Seq(S)
  BY <1>3
<1>5. PlaceOf(a) = r \o m \o p
  BY <1>1, <1>2 DEF PlaceOf, build_asset_root
<1>6. Len(r) = 4 /\ r[1] = a.layer /\ r[3] = _group_from_asset_key(a.key) /\ r[4] = FlattenSeq(a.key)
  BY <1>2
<1>7. /\ Len(r \o m \o p) = 4 + Len(m) + Len(p)
      /\ \A i \in 1..4 : (r \o m \o p)[i] = r[i]
      /\ \A i \in 1..Len(m) : (r \o m \o p)[4 + i] = m[i]
      /\ \A i \in 1..Len(p) : (r \o m \o p)[4 + Len(m) + i] = p[i]
  <2>1. /\ Len(r \o m \o p) = Len(r) + Len(m) + Len(p)
        /\ \A i \in 1..Len(r) : (r \o m \o p)[i] = r[i]
        /\ \A i \in 1..Len(m) : (r \o m \o p)[Len(r) + i] = m[i]
        /\ \A i \in 1..Len(p) : (r \o m \o p)[Len(r) + Len(m) + i] = p[i]
    BY <1>4, Joined
  <2>2. PICK x : x = r \o m \o p
    OBVIOUS
  <2>3. QED
    BY <1>6, <2>1, <2>2
<1>8. PICK w : w = r \o m \o p
  OBVIOUS
<1>9. w[1] = r[1] /\ w[3] = r[3] /\ w[4] = r[4]
  BY <1>7, <1>8
<1>10. QED
  BY <1>1, <1>5, <1>6, <1>7, <1>8, <1>9 DEF Laid

\* Where one output has a directory of a model and the other has none, the other is of a
\* partition with that name: dates begin with the year.
LEMMA NameTaken ==
  ASSUME NEW a, NEW b, NEW w, Laid(a, w), Laid(b, w),
         a.partition = None \/ PartitionKey(a.partition),
         b.partition = None \/ PartitionKey(b.partition),
         NEW s, ModelSegment(a) = <<<<"model", s>>>>, ModelSegment(b) = <<>>
  PROVE  NamedAsModel(b, a)
<1>1. PICK p, q : p = PartitionSegment(a) /\ q = PartitionSegment(b)
  OBVIOUS
<1>2. Len(ModelSegment(a)) = 1 /\ ModelSegment(a)[1] = <<"model", s>> /\ Len(ModelSegment(b)) = 0
  OBVIOUS
<1>3. PartitionAs(a.partition, p) /\ PartitionAs(b.partition, q)
  BY <1>1, PartitionSegments
<1>4. Len(p) \in Nat /\ Len(q) \in Nat
  BY <1>3, SegmentsTell
<1>5. Len(q) = 1 + Len(p) /\ w[5] = <<"model", s>> /\ \A i \in 1..Len(q) : w[4 + i] = q[i]
  BY <1>1, <1>2, <1>4 DEF Laid
<1>6. q[1] = <<"model", s>> /\ q # <<>>
  BY <1>4, <1>5
<1>7. q[1][1] # "year"
  BY <1>6
<1>8. Len(q) = 1 /\ q = <<<<"model", s>>>> /\ b.partition # None
  BY <1>3, <1>4, <1>5, <1>6, <1>7, SegmentsTell
<1>9. a.partition = None
  BY <1>3, <1>4, <1>5, <1>8, SegmentsTell
<1>10. QED
  BY <1>1, <1>8, <1>9 DEF NamedAsModel

\* What lies in one place is alike: the directories of the asset are the first four, and
\* those after them tell models and partitions apart.
LEMMA PlacesTell ==
  ASSUME NEW a, NEW b, PlaceOf(a) = PlaceOf(b),
         a.partition = None \/ PartitionKey(a.partition),
         b.partition = None \/ PartitionKey(b.partition)
  PROVE  Alike(a, b)
<1>1. PICK w : w = PlaceOf(a)
  OBVIOUS
<1>2. Laid(a, w) /\ Laid(b, w)
  BY <1>1, PlaceLaid
<1>3. /\ a.layer = b.layer
      /\ _group_from_asset_key(a.key) = _group_from_asset_key(b.key)
      /\ FlattenSeq(a.key) = FlattenSeq(b.key)
  BY <1>2 DEF Laid
<1>4. ASSUME Len(ModelSegment(a)) = Len(ModelSegment(b))
      PROVE  a.partition = b.partition /\ (a.layer \in ModelKeyed => SameModel(a, b))
  <2>1. ModelSegment(a) = ModelSegment(b)
    <3>1. CASE ModelSegment(a) = <<>>
      BY <1>4, <3>1, ModelSegments
    <3>2. CASE ModelSegment(a) # <<>>
      <4>1. PICK s : ModelSegment(a) = <<<<"model", s>>>>
        BY <3>2, ModelSegments
      <4>2. PICK t : ModelSegment(b) = <<<<"model", t>>>>
        BY <1>4, <4>1, ModelSegments
      <4>3. w[5] = <<"model", s>> /\ w[5] = <<"model", t>>
        BY <1>2, <4>1, <4>2 DEF Laid
      <4>4. QED
        BY <4>1, <4>2, <4>3
    <3>3. QED
      BY <3>1, <3>2
  <2>2. a.layer \in ModelKeyed => SameModel(a, b)
    <3>1. CASE ModelSegment(a) = <<>>
      <4>1. a.layer \in ModelKeyed => a.model = None
        BY <3>1, ModelSegments
      <4>2. b.layer \in ModelKeyed => b.model = None
        <5>1. ModelSegment(b) = <<>>
          BY <2>1, <3>1
        <5>2. QED
          BY <5>1, ModelSegments
      <4>3. QED
        BY <1>3, <4>1, <4>2 DEF SameModel
    <3>2. CASE ModelSegment(a) # <<>>
      <4>1. <<<<"model", SafeTag(a.model)>>>> = <<<<"model", SafeTag(b.model)>>>>
            /\ a.model # None /\ b.model # None
        BY <2>1, <3>2, ModelSegments
      <4>2. PICK s, t : s = SafeTag(a.model) /\ t = SafeTag(b.model)
        OBVIOUS
      <4>3. <<<<"model", s>>>> = <<<<"model", t>>>>
        BY <4>1, <4>2
      <4>4. s = t
        BY <4>3
      <4>5. QED
        BY <4>1, <4>2, <4>4 DEF SameModel
    <3>3. QED
      BY <3>1, <3>2
  <2>3. PICK p, q : p = PartitionSegment(a) /\ q = PartitionSegment(b)
    OBVIOUS
  <2>4. PartitionAs(a.partition, p) /\ PartitionAs(b.partition, q)
    BY <2>3, PartitionSegments
  <2>5. Len(p) = Len(q) /\ \A i \in 1..Len(p) : p[i] = q[i]
    <3>1. Len(p) \in Nat /\ Len(q) \in Nat /\ Len(ModelSegment(a)) \in Nat
      BY <2>4, SegmentsTell, ModelSegments
    <3>2. QED
      BY <1>2, <1>4, <2>3, <3>1 DEF Laid
  <2>6. a.partition = b.partition
    <3>p. PartitionAs(a.partition, p) /\ PartitionAs(b.partition, q) /\ Len(p) = Len(q)
      BY <2>4, <2>5
    <3>1. CASE Len(p) = 0
      <4>1. a.partition = None
        BY <3>p, <3>1, SegmentsTell
      <4>2. b.partition = None
        <5>1. PartitionAs(b.partition, q) /\ Len(q) = 0
          BY <3>p, <3>1
        <5>2. QED
          BY <5>1, SegmentsTell
      <4>3. QED
        BY <4>1, <4>2
    <3>2. CASE Len(p) = 1
      <4>1. p[1] = q[1]
        BY <2>5, <3>2
      <4>2. a.partition = [kind |-> "name", name |-> p[1]]
        BY <3>p, <3>2, SegmentsTell
      <4>3. b.partition = [kind |-> "name", name |-> q[1]]
        BY <3>p, <3>2, SegmentsTell
      <4>4. QED
        BY <4>1, <4>2, <4>3
    <3>3. CASE Len(p) = 2
      <4>1. p[1] = q[1] /\ p[2] = q[2]
        BY <2>5, <3>3
      <4>2. a.partition = [kind |-> "month", year |-> p[1][2], month |-> p[2][2]]
        BY <3>p, <3>3, SegmentsTell
      <4>3. b.partition = [kind |-> "month", year |-> q[1][2], month |-> q[2][2]]
        BY <3>p, <3>3, SegmentsTell
      <4>4. QED
        BY <4>1, <4>2, <4>3
    <3>4. CASE Len(p) = 3
      <4>1. p[1] = q[1] /\ p[2] = q[2] /\ p[3] = q[3]
        BY <2>5, <3>4
      <4>2. a.partition = [kind |-> "date", year |-> p[1][2], month |-> p[2][2],
                            day |-> p[3][2]]
        BY <3>p, <3>4, SegmentsTell
      <4>3. b.partition = [kind |-> "date", year |-> q[1][2], month |-> q[2][2],
                            day |-> q[3][2]]
        BY <3>p, <3>4, SegmentsTell
      <4>4. QED
        BY <4>1, <4>2, <4>3
    <3>5. QED
      BY <2>4, <3>1, <3>2, <3>3, <3>4, SegmentsTell
  <2>7. QED
    BY <2>2, <2>6
<1>5. ASSUME Len(ModelSegment(a)) # Len(ModelSegment(b))
      PROVE  NamedAsModel(a, b) \/ NamedAsModel(b, a)
  <2>1. \/ ModelSegment(a) = <<<<"model", SafeTag(a.model)>>>> /\ ModelSegment(b) = <<>>
        \/ ModelSegment(b) = <<<<"model", SafeTag(b.model)>>>> /\ ModelSegment(a) = <<>>
    BY <1>5, ModelSegments
  <2>2. QED
    BY <1>2, <2>1, NameTaken
<1>6. QED
  BY <1>3, <1>4, <1>5 DEF Alike

LocalTyped ==
    /\ localFiles \in [Target -> [Format -> {None, Torn} \union 1..MaxStores]]
    /\ meta \in [Target -> Format \union {None}]
    /\ storing = None \/ storing \in [target : Target, format : Format, at : {"data", "meta"}]
    /\ latest \in [Target -> {None} \union 1..MaxStores]
    /\ formats \in [Target -> SUBSET Format]
    /\ stores \in 0..MaxStores /\ torn \in 0..MaxTorn
    /\ storing # None => stores \in 1..MaxStores

LEMMA LocalTypeNext ==
  ASSUME LocalTyped, [LocalNext]_localVars
  PROVE  LocalTyped'
<1> USE LocalStoreAssumption
<1>typed. LocalTyped
  OBVIOUS
<1>dir. \A t \in Target : Directory[t] \in Target
  <2>1. ASSUME NEW t \in Target PROVE Directory[t] \in Target
    <3>1. Directory[t] = CHOOSE u \in Target : PlaceOf(About[u]) = PlaceOf(About[t])
      BY DEF Directory
    <3>2. PICK d : d = CHOOSE u \in Target : PlaceOf(About[u]) = PlaceOf(About[t])
      OBVIOUS
    <3>3. d \in Target
      BY <3>2
    <3>4. QED
      BY <3>1, <3>2, <3>3
  <2>2. QED
    BY <2>1
<1>1. ASSUME NEW t \in Target, NEW f \in Format, Open(t, f) PROVE LocalTyped'
  <2>1. PICK d \in Target : d = Directory[t]
    BY <1>dir
  <2>2. /\ localFiles' = [localFiles EXCEPT ![d][f] = Torn]
        /\ formats' = [formats EXCEPT ![d] = formats[d] \union {f}]
        /\ storing' = [target |-> t, format |-> f, at |-> "data"]
        /\ stores < MaxStores /\ stores' = stores + 1
        /\ UNCHANGED <<meta, latest, torn>>
    BY <1>1, <2>1 DEF Open
  <2>3. /\ localFiles' \in [Target -> [Format -> {None, Torn} \union 1..MaxStores]]
        /\ formats' \in [Target -> SUBSET Format]
    BY <2>2 DEF LocalTyped
  <2>4. storing' \in [target : Target, format : Format, at : {"data", "meta"}]
    BY <2>2
  <2>5. stores' \in 1..MaxStores /\ stores' \in 0..MaxStores
    BY <2>2 DEF LocalTyped
  <2>6. QED
    BY <2>2, <2>3, <2>4, <2>5 DEF LocalTyped
<1>storing. ASSUME storing # None
            PROVE  /\ storing.target \in Target /\ storing.format \in Format
                   /\ stores \in 1..MaxStores
                   /\ storing = [target |-> storing.target, format |-> storing.format,
                                 at |-> storing.at]
  BY <1>storing DEF LocalTyped
<1>2. CASE WriteData
  <2>1. storing # None
    BY <1>2 DEF WriteData
  <2>2. PICK d \in Target : d = Directory[storing.target]
    BY <1>dir, <1>storing, <2>1
  <2>3. PICK t \in Target, f \in Format : t = storing.target /\ f = storing.format
    BY <1>storing, <2>1
  <2>4. /\ localFiles' = [localFiles EXCEPT ![d][f] = stores]
        /\ storing' = [storing EXCEPT !.at = "meta"]
        /\ latest' = [latest EXCEPT ![t] = stores]
        /\ UNCHANGED <<meta, formats, stores, torn>>
    BY <1>2, <2>2, <2>3 DEF WriteData
  <2>5. storing' = [target |-> t, format |-> f, at |-> "meta"]
    BY <1>storing, <2>1, <2>3, <2>4
  <2>6. storing' \in [target : Target, format : Format, at : {"data", "meta"}]
    BY <2>5
  <2>7. /\ localFiles' \in [Target -> [Format -> {None, Torn} \union 1..MaxStores]]
        /\ latest' \in [Target -> {None} \union 1..MaxStores]
    BY <1>storing, <2>1, <2>4 DEF LocalTyped
  <2>8. stores' \in 1..MaxStores
    BY <1>storing, <2>1, <2>4
  <2>9. QED
    BY <2>4, <2>6, <2>7, <2>8 DEF LocalTyped
<1>3. CASE WriteMeta
  <2>1. storing # None
    BY <1>3 DEF WriteMeta
  <2>2. meta' \in [Target -> Format \union {None}]
    BY <1>3, <1>dir, <1>storing, <2>1 DEF WriteMeta, LocalTyped
  <2>3. QED
    BY <1>3, <2>2 DEF WriteMeta, LocalTyped
<1>4. CASE CutShort
  BY <1>4 DEF CutShort, LocalTyped
<1>5. CASE UNCHANGED localVars
  BY <1>5 DEF localVars, LocalTyped
<1>6. QED
  BY <1>1, <1>2, <1>3, <1>4, <1>5 DEF LocalNext


\* A write is the last of those to directory d.
LastIn(d, n) ==
    /\ \E u \in Target : Directory[u] = d /\ latest[u] = n
    /\ \A u \in Target : Directory[u] = d /\ latest[u] # None => latest[u] <= n

\* The files are of the formats the place was written in; where that is one format, the
\* file is cut off or the last output stored in the place; what is being stored, and what
\* the sidecar tells, is of a format that was written; and writes are counted.
PlaceInv ==
    /\ \A d \in Target, f \in Format : localFiles[d][f] # None <=> f \in formats[d]
    /\ \A d \in Target, f \in Format :
          formats[d] = {f} => localFiles[d][f] = Torn \/ LastIn(d, localFiles[d][f])
    /\ \A t \in Target : formats[Directory[t]] = {} => latest[t] = None
    /\ \A d \in Target : meta[d] # None => meta[d] \in formats[d]
    /\ storing # None => storing.format \in formats[Directory[storing.target]]
    /\ \A t \in Target : latest[t] # None => latest[t] <= stores

LocalInv == LocalTyped /\ PlaceInv

LEMMA LocalInvInit == LocalInit => LocalInv
<1> SUFFICES ASSUME LocalInit PROVE LocalInv
  OBVIOUS
<1>1. LocalTyped
  BY LocalStoreAssumption DEF LocalInit, LocalTyped
<1>2. \A t \in Target : Directory[t] \in Target
  BY InDirectory
<1>3. PlaceInv
  BY <1>2 DEF LocalInit, PlaceInv
<1>4. QED
  BY <1>1, <1>3 DEF LocalInv

LEMMA OpenKeepsPlaces ==
  ASSUME LocalInv, NEW t \in Target, NEW f \in Format, Open(t, f), LocalTyped'
  PROVE  PlaceInv'
<1>typed. LocalTyped /\ PlaceInv
  BY DEF LocalInv
<1>const. MaxStores \in Nat /\ None \notin Nat
  BY LocalStoreAssumption
<1>dir. \A u \in Target : Directory[u] \in Target
  BY InDirectory
<1>1. PICK d \in Target : d = Directory[t]
  BY <1>dir
<1>2. /\ stores' = stores + 1 /\ storing' = [target |-> t, format |-> f, at |-> "data"]
      /\ localFiles' = [localFiles EXCEPT ![d][f] = Torn]
      /\ formats' = [formats EXCEPT ![d] = formats[d] \union {f}]
      /\ UNCHANGED <<meta, latest, torn>>
  BY <1>1 DEF Open
<1>3. Torn # None
  BY <1>const DEF Torn
<1>4. /\ localFiles'[d][f] = Torn /\ formats'[d] = formats[d] \union {f}
      /\ \A u \in Target, g \in Format : u # d \/ g # f => localFiles'[u][g] = localFiles[u][g]
      /\ \A u \in Target : u # d => formats'[u] = formats[u]
  BY <1>typed, <1>2 DEF LocalTyped
<1>5. \A u \in Target, g \in Format : localFiles'[u][g] # None <=> g \in formats'[u]
  BY <1>typed, <1>3, <1>4 DEF PlaceInv
<1>6. ASSUME NEW e \in Target, NEW g \in Format, formats'[e] = {g}
      PROVE  localFiles'[e][g] = Torn \/ LastIn(e, localFiles[e][g])' 
  <2>1. CASE e = d
    BY <1>4, <1>6, <2>1
  <2>2. CASE e # d
    <3>1. formats[e] = {g} /\ localFiles'[e][g] = localFiles[e][g]
      BY <1>4, <1>6, <2>2
    <3>2. localFiles[e][g] = Torn \/ LastIn(e, localFiles[e][g])
      BY <1>typed, <3>1 DEF PlaceInv
    <3>3. QED
      BY <1>2, <3>1, <3>2 DEF LastIn
  <2>3. QED
    BY <2>1, <2>2
<1>7. /\ \A u \in Target : formats'[Directory[u]] = {} => latest'[u] = None
      /\ \A u \in Target : meta'[u] # None => meta'[u] \in formats'[u]
  <2>1. \A u \in Target : formats'[u] = {} => formats[u] = {}
    BY <1>4
  <2>2. \A u \in Target : formats[u] \subseteq formats'[u]
    BY <1>4
  <2>3. QED
    BY <1>typed, <1>dir, <1>2, <2>1, <2>2 DEF PlaceInv
<1>8. storing'.format \in formats'[Directory[storing'.target]]
  BY <1>1, <1>2, <1>4
<1>9. \A u \in Target : latest'[u] # None => latest'[u] <= stores'
  <2>1. \A u \in Target : latest[u] # None => latest[u] \in Nat /\ latest[u] <= stores
    BY <1>typed DEF LocalTyped, PlaceInv
  <2>2. stores \in Nat
    BY <1>typed DEF LocalTyped
  <2>3. QED
    BY <1>2, <2>1, <2>2
<1>10. QED
  BY <1>5, <1>6, <1>7, <1>8, <1>9 DEF PlaceInv

LEMMA WriteKeepsPlaces ==
  ASSUME LocalInv, WriteData, LocalTyped'
  PROVE  PlaceInv'
<1>typed. LocalTyped /\ PlaceInv
  BY DEF LocalInv
<1>const. MaxStores \in Nat /\ None \notin Nat
  BY LocalStoreAssumption
<1>dir. \A u \in Target : Directory[u] \in Target
  BY InDirectory
<1>1. PICK t, f : t = storing.target /\ f = storing.format
  OBVIOUS
<1>2. t \in Target /\ f \in Format /\ f \in formats[Directory[t]] /\ stores \in 1..MaxStores
      /\ storing \in [target : Target, format : Format, at : {"data", "meta"}]
  BY <1>typed, <1>1 DEF WriteData, LocalTyped, PlaceInv
<1>3. PICK d \in Target : d = Directory[t]
  BY <1>dir, <1>2
<1>4. /\ localFiles' = [localFiles EXCEPT ![d][f] = stores]
      /\ storing' = [storing EXCEPT !.at = "meta"]
      /\ latest' = [latest EXCEPT ![t] = stores]
      /\ UNCHANGED <<meta, formats, stores, torn>>
  BY <1>1, <1>3 DEF WriteData
<1>5. storing'.target = t /\ storing'.format = f
  BY <1>1, <1>2, <1>4
<1>6. stores # None /\ stores \in Nat
  BY <1>const, <1>2
<1>7. /\ localFiles'[d][f] = stores /\ latest'[t] = stores
      /\ \A u \in Target, g \in Format : u # d \/ g # f => localFiles'[u][g] = localFiles[u][g]
      /\ \A u \in Target : u # t => latest'[u] = latest[u]
  BY <1>typed, <1>2, <1>4 DEF LocalTyped
<1>8. \A u \in Target, g \in Format : localFiles'[u][g] # None <=> g \in formats'[u]
  BY <1>typed, <1>2, <1>3, <1>4, <1>6, <1>7 DEF PlaceInv
<1>9. \A u \in Target : latest'[u] # None => latest'[u] \in Nat /\ latest'[u] <= stores
  <2>1. \A u \in Target : latest[u] # None => latest[u] \in Nat /\ latest[u] <= stores
    BY <1>typed DEF LocalTyped, PlaceInv
  <2>2. QED
    BY <1>6, <1>7, <2>1
<1>10. ASSUME NEW e \in Target, NEW g \in Format, formats'[e] = {g}
       PROVE  localFiles'[e][g] = Torn \/ LastIn(e, localFiles[e][g])'
  <2>1. CASE e = d
    <3>1. g = f /\ localFiles'[e][g] = stores
      BY <1>2, <1>3, <1>4, <1>7, <1>10, <2>1
    <3>2. QED
      BY <1>2, <1>3, <1>7, <1>9, <2>1, <3>1 DEF LastIn
  <2>2. CASE e # d
    <3>1. formats[e] = {g} /\ localFiles'[e][g] = localFiles[e][g]
      BY <1>4, <1>7, <1>10, <2>2
    <3>2. localFiles[e][g] = Torn \/ LastIn(e, localFiles[e][g])
      BY <1>typed, <3>1 DEF PlaceInv
    <3>3. \A u \in Target : Directory[u] = e => latest'[u] = latest[u]
      BY <1>3, <1>7, <2>2
    <3>4. QED
      BY <3>1, <3>2, <3>3 DEF LastIn
  <2>3. QED
    BY <2>1, <2>2
<1>11. /\ \A u \in Target : formats'[Directory[u]] = {} => latest'[u] = None
       /\ \A u \in Target : meta'[u] # None => meta'[u] \in formats'[u]
  <2>1. \A u \in Target : formats[Directory[u]] = {} => u # t
    BY <1>2
  <2>2. QED
    BY <1>typed, <1>4, <1>7, <2>1 DEF PlaceInv
<1>12. storing'.format \in formats'[Directory[storing'.target]]
  BY <1>2, <1>4, <1>5
<1>13. QED
  BY <1>4, <1>8, <1>9, <1>10, <1>11, <1>12 DEF PlaceInv

LEMMA MetaKeepsPlaces ==
  ASSUME LocalInv, WriteMeta
  PROVE  PlaceInv'
<1>typed. LocalTyped /\ PlaceInv
  BY DEF LocalInv
<1>1. PICK t, f : t = storing.target /\ f = storing.format
  OBVIOUS
<1>2. t \in Target /\ f \in Format /\ f \in formats[Directory[t]]
  BY <1>typed, <1>1 DEF WriteMeta, LocalTyped, PlaceInv
<1>3. PICK d \in Target : d = Directory[t]
  BY <1>2, InDirectory
<1>4. /\ meta' = [meta EXCEPT ![d] = f] /\ storing' = None
      /\ UNCHANGED <<localFiles, latest, formats, stores, torn>>
  BY <1>1, <1>3 DEF WriteMeta
<1>5. \A u \in Target : meta'[u] # None => meta'[u] \in formats'[u]
  BY <1>typed, <1>2, <1>3, <1>4 DEF LocalTyped, PlaceInv
<1>6. \A e, n : LastIn(e, n)' <=> LastIn(e, n)
  BY <1>4 DEF LastIn
<1>7. QED
  BY <1>typed, <1>4, <1>5, <1>6 DEF PlaceInv, LastIn

LEMMA LocalInvNext ==
  ASSUME LocalInv, [LocalNext]_localVars
  PROVE  LocalInv'
<1>1. LocalTyped'
  BY LocalTypeNext DEF LocalInv
<1>2. CASE \E t \in Target, f \in Format : Open(t, f)
  BY <1>1, <1>2, OpenKeepsPlaces DEF LocalInv
<1>3. CASE WriteData
  BY <1>1, <1>3, WriteKeepsPlaces DEF LocalInv
<1>4. CASE WriteMeta
  BY <1>1, <1>4, MetaKeepsPlaces DEF LocalInv
<1>5. CASE CutShort \/ UNCHANGED localVars
  <2>1. UNCHANGED <<localFiles, meta, latest, formats, stores>>
        /\ (storing' # None => storing' = storing /\ storing # None)
    BY <1>5 DEF CutShort, localVars
  <2>2. PlaceInv'
    BY <2>1 DEF LocalInv, PlaceInv, LastIn
  <2>3. QED
    BY <1>1, <2>2 DEF LocalInv
<1>6. QED
  BY <1>2, <1>3, <1>4, <1>5 DEF LocalNext

\* The formats that are tried are all there are, each once.
LEMMA TriedFormats ==
  /\ DOMAIN Tried = 1..3
  /\ \A i \in 1..3 : Tried[i] \in Format
  /\ \A f \in Format : \E i \in 1..3 : Tried[i] = f
BY DEF Tried, Format

LEMMA LoadedOne ==
  ASSUME LocalInv, NEW t \in Target, NEW f \in Format, formats[Directory[t]] = {f}
  PROVE  Loaded(t) = localFiles[Directory[t]][f]
<1> DEFINE places == {i \in DOMAIN Tried : localFiles[Directory[t]][Tried[i]] # None}
<1>1. PICK d \in Target : d = Directory[t]
  BY InDirectory
<1>2. \A i \in places : Tried[i] = f
  BY <1>1, TriedFormats DEF LocalInv, PlaceInv
<1>3. \E i \in 1..3 : i \in places
  BY <1>1, TriedFormats DEF LocalInv, PlaceInv
<1>4. Min(places) \in places
  <2>1. places \in SUBSET (1..3) /\ places # {}
    BY <1>3, TriedFormats
  <2> HIDE DEF places
  <2>2. \E x \in places : \A y \in places : x <= y
    <3>1. CASE 1 \in places
      BY <2>1, <3>1
    <3>2. CASE 1 \notin places /\ 2 \in places
      BY <2>1, <3>2
    <3>3. CASE places = {3}
      BY <3>3
    <3>4. 1 \in places \/ (1 \notin places /\ 2 \in places) \/ places = {3}
      <4>1. \A i \in places : i = 1 \/ i = 2 \/ i = 3
        BY <2>1
      <4>2. QED
        BY <2>1, <4>1
    <3>5. QED
      BY <3>1, <3>2, <3>3, <3>4
  <2>3. QED
    BY <2>2 DEF Min
<1>5. QED
  BY <1>2, <1>4 DEF Loaded

LEMMA LocalEnough == LocalInv => LocalTypeOK /\ LoadsItsOwn
<1> SUFFICES ASSUME LocalInv PROVE LocalTypeOK /\ LoadsItsOwn
  OBVIOUS
<1>1. LocalTypeOK
  BY DEF LocalInv, LocalTyped, LocalTypeOK
<1>2. \A d \in Target : meta[d] # None => meta[d] \in formats[d]
  BY DEF LocalInv, PlaceInv
<1>3. ASSUME NEW t \in Target, Cardinality(formats[Directory[t]]) <= 1, Loaded(t) # Torn
      PROVE  /\ latest[t] # None => Loaded(t) # None /\ Loaded(t) >= latest[t]
             /\ Loaded(t) # None =>
                 \E u \in Target : Alike(About[t], About[u]) /\ Loaded(t) = latest[u]
  <2>1. PICK d \in Target : d = Directory[t]
    BY InDirectory
  <2>2. formats[d] \in SUBSET Format
    BY DEF LocalInv, LocalTyped
  <2>3. IsFiniteSet(Format)
    <3>1. IsFiniteSet({} \cup {"jsonl"})
      BY FS_AddElement, FS_EmptySet
    <3>2. IsFiniteSet(({} \cup {"jsonl"}) \cup {"json"})
      BY <3>1, FS_AddElement
    <3>3. IsFiniteSet((({} \cup {"jsonl"}) \cup {"json"}) \cup {"pkl"})
      BY <3>2, FS_AddElement
    <3>4. Format = (({} \cup {"jsonl"}) \cup {"json"}) \cup {"pkl"}
      BY DEF Format
    <3>5. QED
      BY <3>3, <3>4
  <2>4. IsFiniteSet(formats[d])
    BY <2>2, <2>3, FS_Subset
  <2>5. Cardinality(formats[d]) \in Nat /\ Cardinality(formats[d]) <= 1
    BY <1>3, <2>1, <2>4, FS_CardinalityType
  <2>6. CASE formats[d] = {}
    <3>1. \A i \in DOMAIN Tried : localFiles[d][Tried[i]] = None
      BY <2>6, TriedFormats DEF LocalInv, PlaceInv
    <3>2. Loaded(t) = None
      BY <2>1, <3>1 DEF Loaded
    <3>3. latest[t] = None
      BY <2>1, <2>6 DEF LocalInv, PlaceInv
    <3>4. QED
      BY <3>2, <3>3
  <2>7. CASE formats[d] # {}
    <3>1. Cardinality(formats[d]) = 1
      BY <2>4, <2>5, <2>7, FS_EmptySet
    <3>2. PICK f : formats[d] = {f}
      BY <2>4, <3>1, FS_Singleton
    <3>3. f \in Format
      BY <2>2, <3>2
    <3>4. Loaded(t) = localFiles[d][f]
      BY <2>1, <3>2, <3>3, LoadedOne
    <3>5. LastIn(d, Loaded(t)) /\ Loaded(t) # None
      BY <1>3, <3>2, <3>3, <3>4 DEF LocalInv, PlaceInv
    <3>6. Loaded(t) \in Nat
      BY <1>3, <3>3, <3>4, <3>5 DEF LocalInv, LocalTyped
    <3>7. latest[t] # None => latest[t] \in Nat /\ latest[t] <= Loaded(t)
      BY <2>1, <3>5 DEF LastIn, LocalInv, LocalTyped
    <3>8. PICK u \in Target : Directory[u] = d /\ latest[u] = Loaded(t)
      BY <3>5 DEF LastIn
    <3>9. PlaceOf(About[t]) = PlaceOf(About[u])
      BY <2>1, <3>8, InDirectory
    <3>10. Alike(About[t], About[u])
      BY <3>9, LocalStoreAssumption, PlacesTell
    <3>11. QED
      BY <3>5, <3>6, <3>7, <3>8, <3>10
  <2>8. QED
    BY <2>6, <2>7
<1>4. QED
  BY <1>1, <1>2, <1>3 DEF LoadsItsOwn

-----------------------------------------------------------------------------
(* The attempts of some tasks, added up                                    *)

AnyOf(s) == CHOOSE x \in s : TRUE

\* The function that MapThenSumSet defines by recursion, over the sets of tasks.
AddingUp(h, t, D) ==
    h = [s \in SUBSET D |-> IF s = {} THEN 0 ELSE t[AnyOf(s)].attempts + h[s \ {AnyOf(s)}]]

SumOver(t, D) == CHOOSE h : AddingUp(h, t, D)

\* The same over the sets of up to k tasks.
UpTo(D, k) == {s \in SUBSET D : Cardinality(s) <= k}

Partial(h, t, D, k) ==
    h = [s \in UpTo(D, k) |-> IF s = {} THEN 0 ELSE t[AnyOf(s)].attempts + h[s \ {AnyOf(s)}]]

\* There is such a function: one over the sets of up to k elements makes one over the sets
\* of up to k + 1.
LEMMA AddingUpExists ==
  ASSUME NEW t, NEW D, IsFiniteSet(D)
  PROVE  AddingUp(SumOver(t, D), t, D)
<1> DEFINE K == {k \in Nat : \E h : Partial(h, t, D, k)}
<1>1. ASSUME NEW s \in SUBSET D
      PROVE  /\ IsFiniteSet(s) /\ Cardinality(s) \in Nat /\ Cardinality(s) <= Cardinality(D)
             /\ s # {} => /\ AnyOf(s) \in s /\ s \ {AnyOf(s)} \in SUBSET D
                          /\ Cardinality(s \ {AnyOf(s)}) = Cardinality(s) - 1
                          /\ Cardinality(s) # 0
  <2>1. IsFiniteSet(s) /\ Cardinality(s) \in Nat /\ Cardinality(s) <= Cardinality(D)
    BY FS_Subset, FS_CardinalityType
  <2>2. s # {} => AnyOf(s) \in s
    BY DEF AnyOf
  <2>3. QED
    BY <2>1, <2>2, FS_RemoveElement, FS_EmptySet
<1>2. 0 \in K
  <2>1. ASSUME NEW s \in UpTo(D, 0) PROVE s = {}
    <3>1. s \in SUBSET D /\ Cardinality(s) <= 0
      BY DEF UpTo
    <3>2. Cardinality(s) \in Nat /\ (s # {} => Cardinality(s) # 0)
      BY <1>1, <3>1
    <3>3. QED
      BY <3>1, <3>2
  <2>2. Partial([s \in UpTo(D, 0) |-> 0], t, D, 0)
    BY <2>1 DEF Partial
  <2>3. QED
    BY <2>2
<1>3. ASSUME NEW k \in Nat, k \in K PROVE k + 1 \in K
  <2>1. PICK h : Partial(h, t, D, k)
    BY <1>3
  <2> DEFINE g == [s \in UpTo(D, k + 1) |-> IF s = {} THEN 0
                                         ELSE t[AnyOf(s)].attempts + h[s \ {AnyOf(s)}]]
  <2>2. ASSUME NEW s \in UpTo(D, k + 1), s # {}
        PROVE  g[s \ {AnyOf(s)}] = h[s \ {AnyOf(s)}]
    <3> DEFINE u == s \ {AnyOf(s)}
    <3>1. u \in UpTo(D, k) /\ u \in UpTo(D, k + 1)
      BY <1>1, <2>2 DEF UpTo
    <3>2. h[u] = IF u = {} THEN 0 ELSE t[AnyOf(u)].attempts + h[u \ {AnyOf(u)}]
      BY <2>1, <3>1 DEF Partial
    <3>3. g[u] = IF u = {} THEN 0 ELSE t[AnyOf(u)].attempts + h[u \ {AnyOf(u)}]
      BY <3>1
    <3>4. QED
      BY <3>2, <3>3
  <2>3. Partial(g, t, D, k + 1)
    <3>1. \A s \in UpTo(D, k + 1) : g[s] = IF s = {} THEN 0
                                         ELSE t[AnyOf(s)].attempts + h[s \ {AnyOf(s)}]
      OBVIOUS
    <3>2. g = [s \in UpTo(D, k + 1) |-> g[s]]
      OBVIOUS
    <3> HIDE DEF g
    <3>3. \A s \in UpTo(D, k + 1) : g[s] = IF s = {} THEN 0
                                         ELSE t[AnyOf(s)].attempts + g[s \ {AnyOf(s)}]
      BY <3>1, <2>2
    <3>4. QED
      BY <3>2, <3>3 DEF Partial
  <2>4. QED
    BY <2>3
<1>4. Cardinality(D) \in K
  <2>1. Nat \subseteq K
    <3> HIDE DEF K
    <3> QED
      BY <1>2, <1>3, Deduped!NatSetInduction
  <2>2. QED
    BY <2>1, FS_CardinalityType
<1>5. PICK h : Partial(h, t, D, Cardinality(D))
  BY <1>4
<1>6. UpTo(D, Cardinality(D)) = SUBSET D
  BY <1>1 DEF UpTo
<1>7. AddingUp(h, t, D)
  BY <1>5, <1>6 DEF AddingUp, Partial
<1>8. QED
  BY <1>7 DEF SumOver

\* It does not matter which task is taken first, and a task that is not in a set does not
\* matter at all.
SumsUp(t, D, s) ==
    /\ SumOver(t, D)[s] \in Nat
    /\ \A x \in s : SumOver(t, D)[s] = t[x].attempts + SumOver(t, D)[s \ {x}]

LEMMA SumIsOfEach ==
  ASSUME NEW D, IsFiniteSet(D), NEW t, \A x \in D : t[x].attempts \in Nat
  PROVE  /\ SumOver(t, D)[{}] = 0
         /\ \A s \in SUBSET D : SumsUp(t, D, s)
<1> DEFINE h == SumOver(t, D)
           K == {k \in Nat : \A s \in SUBSET D : Cardinality(s) <= k => SumsUp(t, D, s)}
<1>1. /\ h[{}] = 0
      /\ \A s \in SUBSET D : s # {} => h[s] = t[AnyOf(s)].attempts + h[s \ {AnyOf(s)}]
  <2>1. AddingUp(h, t, D)
    BY AddingUpExists
  <2> HIDE DEF h
  <2>2. QED
    BY <2>1 DEF AddingUp
<1>sets. ASSUME NEW s \in SUBSET D
         PROVE  /\ Cardinality(s) \in Nat
                /\ Cardinality(s) = 0 => s = {}
                /\ \A x \in s : /\ s \ {x} \in SUBSET D
                                /\ Cardinality(s \ {x}) = Cardinality(s) - 1
  BY FS_Subset, FS_CardinalityType, FS_RemoveElement, FS_EmptySet
<1>2. 0 \in K
  BY <1>1, <1>sets DEF SumsUp
<1>3. ASSUME NEW k \in Nat, k \in K PROVE k + 1 \in K
  <2>none. SumsUp(t, D, {})
    BY <1>1 DEF SumsUp
  <2> SUFFICES ASSUME NEW s \in SUBSET D, Cardinality(s) <= k + 1, s # {}
               PROVE  SumsUp(t, D, s)
    BY <2>none
  <2> DEFINE a == AnyOf(s)
  <2>1. s # {}
    OBVIOUS
  <2>2. a \in s
    BY <2>1 DEF AnyOf
  <2>3. \A x \in s : s \ {x} \in SUBSET D /\ SumsUp(t, D, s \ {x})
    BY <1>3, <1>sets
  <2>4. h[s] = t[a].attempts + h[s \ {a}]
    BY <1>1, <2>1
  <2>5. \A x \in s : t[x].attempts \in Nat /\ h[s \ {x}] \in Nat
    BY <2>3 DEF SumsUp
  <2> HIDE DEF a, h, K
  <2>6. ASSUME NEW x \in s PROVE h[s] = t[x].attempts + h[s \ {x}]
    <3>1. CASE x = a
      BY <2>4, <3>1
    <3>2. CASE x # a
      <4> DEFINE r == (s \ {a}) \ {x}
      <4>1. r = (s \ {x}) \ {a}
        OBVIOUS
      <4>2. h[s \ {a}] = t[x].attempts + h[r]
        BY <2>2, <2>3, <3>2 DEF SumsUp, h
      <4>3. h[s \ {x}] = t[a].attempts + h[r]
        BY <2>2, <2>3, <3>2, <4>1 DEF SumsUp, h
      <4>4. h[r] \in Nat
        <5>1. s \ {a} \in SUBSET D /\ Cardinality(s \ {a}) <= k /\ x \in s \ {a}
          BY <1>sets, <2>2, <3>2
        <5>2. r \in SUBSET D /\ Cardinality(r) <= k
          BY <1>sets, <5>1
        <5>3. QED
          BY <1>3, <5>2 DEF SumsUp, h, K
      <4>5. t[x].attempts \in Nat /\ t[a].attempts \in Nat
        BY <2>2, <2>5
      <4> HIDE DEF r
      <4>6. QED
        BY <2>4, <4>2, <4>3, <4>4, <4>5
    <3>3. QED
      BY <3>1, <3>2
  <2>7. h[s] \in Nat
    <3>1. t[a].attempts \in Nat /\ h[s \ {a}] \in Nat
      BY <2>2, <2>5
    <3>2. QED
      BY <2>4, <3>1
  <2>8. QED
    BY <2>6, <2>7 DEF SumsUp, h
<1>4. Nat \subseteq K
  <2> HIDE DEF K
  <2> QED
    BY <1>2, <1>3, Deduped!NatSetInduction
<1>5. QED
  BY <1>1, <1>4, <1>sets

\* Tasks that are not in a set do not matter to its sum.
LEMMA SumOfOthers ==
  ASSUME NEW D, IsFiniteSet(D), NEW t, NEW u, NEW e \in SUBSET D,
         \A x \in D : t[x].attempts \in Nat /\ u[x].attempts \in Nat,
         \A x \in e : t[x].attempts = u[x].attempts
  PROVE  SumOver(t, D)[e] = SumOver(u, D)[e]
<1> DEFINE K == {k \in Nat : \A s \in SUBSET e : Cardinality(s) = k =>
                                 SumOver(t, D)[s] = SumOver(u, D)[s]}
<1>sums. /\ SumOver(t, D)[{}] = 0 /\ SumOver(u, D)[{}] = 0
         /\ \A s \in SUBSET D : SumsUp(t, D, s) /\ SumsUp(u, D, s)
  BY SumIsOfEach
<1>sets. ASSUME NEW s \in SUBSET e
         PROVE  /\ s \in SUBSET D /\ Cardinality(s) \in Nat
                /\ Cardinality(s) = 0 => s = {}
                /\ \A x \in s : /\ s \ {x} \in SUBSET e
                                /\ Cardinality(s \ {x}) = Cardinality(s) - 1
                /\ s = {} => Cardinality(s) = 0
  <2>1. s \in SUBSET D
    OBVIOUS
  <2>2. QED
    BY <2>1, FS_Subset, FS_CardinalityType, FS_RemoveElement, FS_EmptySet
<1>1. 0 \in K
  BY <1>sums, <1>sets
<1>2. ASSUME NEW k \in Nat, k \in K PROVE k + 1 \in K
  <2> SUFFICES ASSUME NEW s \in SUBSET e, Cardinality(s) = k + 1
               PROVE  SumOver(t, D)[s] = SumOver(u, D)[s]
    OBVIOUS
  <2>1. PICK x \in s : TRUE
    BY <1>sets
  <2>2. s \ {x} \in SUBSET e /\ Cardinality(s \ {x}) = k /\ s \in SUBSET D
    BY <1>sets, <2>1
  <2>3. SumOver(t, D)[s \ {x}] = SumOver(u, D)[s \ {x}]
    BY <1>2, <2>2
  <2>4. /\ SumOver(t, D)[s] = t[x].attempts + SumOver(t, D)[s \ {x}]
        /\ SumOver(u, D)[s] = u[x].attempts + SumOver(u, D)[s \ {x}]
    BY <1>sums, <2>1, <2>2 DEF SumsUp
  <2>5. QED
    BY <2>1, <2>3, <2>4
<1>3. Nat \subseteq K
  <2> HIDE DEF K
  <2> QED
    BY <1>1, <1>2, Deduped!NatSetInduction
<1>4. QED
  BY <1>3, <1>sets

\* What one task more or less has attempted is what the sum is more or less.
LEMMA SumOfOneMore ==
  ASSUME NEW D, IsFiniteSet(D), NEW t, NEW u, NEW i \in D,
         \A x \in D : t[x].attempts \in Nat /\ u[x].attempts \in Nat,
         \A x \in D \ {i} : t[x].attempts = u[x].attempts
  PROVE  /\ SumOver(t, D)[D] \in Nat /\ SumOver(u, D)[D] \in Nat
         /\ SumOver(u, D)[D] = SumOver(t, D)[D] - t[i].attempts + u[i].attempts
<1>1. SumsUp(t, D, D) /\ SumsUp(u, D, D) /\ SumsUp(t, D, D \ {i})
  BY SumIsOfEach
<1>2. SumOver(t, D)[D \ {i}] = SumOver(u, D)[D \ {i}]
  BY SumOfOthers
<1>3. /\ SumOver(t, D)[D] = t[i].attempts + SumOver(t, D)[D \ {i}]
      /\ SumOver(u, D)[D] = u[i].attempts + SumOver(u, D)[D \ {i}]
  BY <1>1 DEF SumsUp
<1>4. SumOver(t, D)[D \ {i}] \in Nat
  BY <1>1 DEF SumsUp
<1>5. QED
  BY <1>1, <1>2, <1>3, <1>4 DEF SumsUp

\* The sum that AnswersInPlace is about.
LEMMA AttemptsAreSum ==
  MapThenSumSet(LAMBDA i : task[i].attempts, Item) = SumOver(task, Item)[Item]
BY DEF MapThenSumSet, MapThenFoldSet, SumOver, AddingUp, AnyOf
-----------------------------------------------------------------------------
(* LlmCalls: the vectors of a call to embed                                *)

Embeddings == [batch : Nat, attempt : 1..MAX_EMBED_ATTEMPTS,
               state : {"sending", "returned", "raised"}]

\* A batch never adds a vector too many, so a list that is as long as the texts that were
\* sent has each of them in its place.
VectorsInv ==
    /\ vectors \in Seq(1..Texts) /\ embedding \in Embeddings
    /\ Len(vectors) <= Smaller(embedding.batch, Texts)
    /\ Len(vectors) = Smaller(embedding.batch, Texts) =>
          \A k \in 1..Len(vectors) : vectors[k] = k

LEMMA VectorsInvInit == LlmInit => VectorsInv
<1> SUFFICES ASSUME LlmInit PROVE VectorsInv
  OBVIOUS
<1>1. vectors = <<>> /\ Len(vectors) = 0 /\ vectors \in Seq(1..Texts)
  BY DEF LlmInit
<1>2. embedding \in Embeddings /\ Smaller(embedding.batch, Texts) = 0
  BY LlmAssumption DEF LlmInit, Embeddings, Smaller, MAX_EMBED_ATTEMPTS
<1>3. QED
  BY <1>1, <1>2 DEF VectorsInv

LEMMA AfterThose ==
  ASSUME NEW S, NEW s \in Seq(S), NEW t \in Seq(S),
         NEW k \in (Len(s) + 1)..(Len(s) + Len(t))
  PROVE  (s \o t)[k] = t[k - Len(s)]
OBVIOUS

LEMMA VectorsInvNext ==
  ASSUME VectorsInv, [EmbeddingStep]_embedVars
  PROVE  VectorsInv'
<1> USE LlmAssumption
<1>1. CASE BatchEmbedded
  <2>1. PICK answer \in {BatchTexts, Shortened(BatchTexts)} : vectors' = vectors \o answer
    BY <1>1 DEF BatchEmbedded, Embedded
  <2> DEFINE b == embedding.batch
             n == Smaller(batch_size, Texts - b)
  <2>2. b \in Nat /\ b < Texts /\ n \in Nat /\ n >= 1 /\ n <= Texts - b /\ n <= batch_size
    BY <1>1 DEF BatchEmbedded, VectorsInv, Embeddings, Smaller
  <2>3. embedding' = [embedding EXCEPT !.batch = @ + batch_size, !.attempt = 1]
    BY <1>1 DEF BatchEmbedded
  <2>4. embedding' \in Embeddings /\ embedding'.batch = b + batch_size
    <3>1. b + batch_size \in Nat
      BY <2>2
    <3>2. /\ embedding = [batch |-> b, attempt |-> embedding.attempt, state |-> embedding.state]
          /\ embedding.state \in {"sending", "returned", "raised"}
      BY DEF VectorsInv, Embeddings
    <3>3. embedding' = [batch |-> b + batch_size, attempt |-> 1, state |-> embedding.state]
      BY <2>3, <3>2
    <3>4. 1 \in 1..MAX_EMBED_ATTEMPTS
      BY DEF MAX_EMBED_ATTEMPTS
    <3>5. QED
      BY <3>1, <3>2, <3>3, <3>4 DEF Embeddings
  <2>5. b + n = Smaller(b + batch_size, Texts)
    BY <2>2 DEF Smaller
  <2>6. /\ BatchTexts \in Seq(1..Texts) /\ Len(BatchTexts) = n
        /\ \A k \in 1..n : BatchTexts[k] = b + k
    <3> HIDE DEF n, b
    <3>1. BatchTexts = [k \in 1..n |-> b + k]
      BY DEF BatchTexts, n, b
    <3>2. \A k \in 1..n : b + k \in 1..Texts
      BY <2>2
    <3>3. QED
      BY <2>2, <3>1, <3>2
  <2> HIDE DEF n
  <2>7. Shortened(BatchTexts) \in Seq(1..Texts) /\ Len(Shortened(BatchTexts)) = n - 1
    <3> HIDE DEF b
    <3>1. Shortened(BatchTexts) = SubSeq(BatchTexts, 1, n - 1)
      BY <2>6 DEF Shortened
    <3>2. \A k \in 1..(n - 1) : BatchTexts[k] \in 1..Texts
      BY <2>6, <2>2
    <3>3. QED
      BY <2>2, <2>6, <3>1, <3>2
  <2>8. /\ answer \in Seq(1..Texts) /\ Len(answer) \in Nat /\ Len(answer) <= n
        /\ Len(answer) = n => answer = BatchTexts
    BY <2>1, <2>2, <2>6, <2>7
  <2>9. /\ vectors \in Seq(1..Texts) /\ Len(vectors) \in Nat /\ Len(vectors) <= b
        /\ Len(vectors) = b => \A k \in 1..Len(vectors) : vectors[k] = k
    BY <2>2 DEF VectorsInv, Smaller
  <2>10. vectors' \in Seq(1..Texts) /\ Len(vectors') = Len(vectors) + Len(answer)
    BY <2>1, <2>8, <2>9
  <2>11. ASSUME Len(vectors') = b + n, NEW k \in 1..Len(vectors') PROVE vectors'[k] = k
    <3>1. Len(vectors) = b /\ Len(answer) = n /\ answer = BatchTexts
      BY <2>2, <2>8, <2>9, <2>10, <2>11, SMTT(30)
    <3>2. CASE k <= b
      BY <2>1, <2>8, <2>9, <2>11, <3>1, <3>2
    <3>3. CASE k > b
      <4>1. k - b \in 1..n /\ answer[k - b] = b + (k - b)
        BY <2>2, <2>6, <2>11, <3>1, <3>3
      <4>2. vectors'[k] = answer[k - b]
        <5>1. k \in (Len(vectors) + 1)..(Len(vectors) + Len(answer))
          BY <2>2, <2>10, <2>11, <3>1, <3>3
        <5>2. (vectors \o answer)[k] = answer[k - Len(vectors)]
          BY <2>8, <2>9, <5>1, AfterThose
        <5>3. QED
          BY <2>1, <3>1, <5>2
      <4>3. QED
        BY <2>2, <2>11, <4>1, <4>2
    <3>4. QED
      BY <2>2, <3>2, <3>3
  <2>12. Smaller(embedding'.batch, Texts) = b + n
    BY <2>4, <2>5
  <2>13. Len(vectors') <= b + n
    BY <2>2, <2>8, <2>9, <2>10
  <2> HIDE DEF b
  <2>14. Len(vectors') = Smaller(embedding'.batch, Texts) =>
            \A k \in 1..Len(vectors') : vectors'[k] = k
    BY <2>11, <2>12
  <2>15. Len(vectors') <= Smaller(embedding'.batch, Texts)
    BY <2>12, <2>13
  <2>16. embedding' \in Embeddings /\ vectors' \in Seq(1..Texts)
    BY <2>4, <2>10
  <2>17. QED
    BY <2>14, <2>15, <2>16 DEF VectorsInv
<1>others. ASSUME embedding' \in Embeddings, embedding'.batch = embedding.batch, UNCHANGED vectors
           PROVE  VectorsInv'
  BY <1>others DEF VectorsInv
<1>typed. embedding \in Embeddings
  BY DEF VectorsInv
<1>2. CASE RateLimited
  <2>1. CASE embedding.attempt < MAX_EMBED_ATTEMPTS
    <3>1. embedding' = [embedding EXCEPT !.attempt = @ + 1]
      BY <1>2, <2>1 DEF RateLimited
    <3>2. embedding.attempt + 1 \in 1..MAX_EMBED_ATTEMPTS
      BY <1>typed, <2>1 DEF Embeddings, MAX_EMBED_ATTEMPTS
    <3>3. embedding' \in Embeddings /\ embedding'.batch = embedding.batch
      BY <1>typed, <3>1, <3>2 DEF Embeddings
    <3>4. QED
      BY <1>2, <1>others, <3>3 DEF RateLimited
  <2>2. CASE ~(embedding.attempt < MAX_EMBED_ATTEMPTS)
    <3>1. embedding' \in Embeddings /\ embedding'.batch = embedding.batch
      BY <1>2, <1>typed, <2>2 DEF RateLimited, Embeddings
    <3>2. QED
      BY <1>2, <1>others, <3>1 DEF RateLimited
  <2>3. QED
    BY <2>1, <2>2
<1>3. CASE EmbedFails
  BY <1>3, <1>others, <1>typed DEF EmbedFails, Embeddings
<1>4. CASE EmbedReturns
  BY <1>4, <1>others, <1>typed DEF EmbedReturns, Embeddings
<1>5. CASE UNCHANGED embedVars
  BY <1>5 DEF embedVars, VectorsInv
<1>6. QED
  BY <1>1, <1>2, <1>3, <1>4, <1>5 DEF EmbeddingStep

LEMMA VectorsEnough == VectorsInv => VectorOfItsChunk
<1> SUFFICES ASSUME VectorsInv, Len(vectors) = Texts, NEW k \in 1..Texts
             PROVE  Records[k].embedding = k
  BY DEF VectorOfItsChunk
<1>1. embedding.batch \in Nat /\ Smaller(embedding.batch, Texts) = Texts
  BY LlmAssumption DEF VectorsInv, Embeddings, Smaller
<1>2. vectors[k] = k
  BY <1>1 DEF VectorsInv
<1>3. k \in 1..Smaller(Texts, Len(vectors))
  BY LlmAssumption DEF Smaller
<1>4. Records[k] = [chunk |-> k, embedding |-> vectors[k]]
  BY <1>3 DEF Records
<1>5. QED
  BY <1>2, <1>4

-----------------------------------------------------------------------------
(* LlmCalls: the two outputs of an extraction                              *)

\* The mentions are stored first, so the assertions are never ahead of them.
ExtractionInv ==
    /\ extraction \in [number : 0..MaxExtractions, left : {<<>>, Yields, <<"assertions">>}]
    /\ outputs \in [{"mentions", "assertions"} -> 0..MaxExtractions] /\ breaks \in 0..MaxBreaks
    /\ outputs["assertions"] <= outputs["mentions"]
    /\ outputs["mentions"] <= extraction.number
    /\ extraction.left = <<"assertions">> => outputs["mentions"] = extraction.number

LEMMA ExtractionInvInit == LlmInit => ExtractionInv
<1> SUFFICES ASSUME LlmInit PROVE ExtractionInv
  OBVIOUS
<1>1. extraction \in [number : 0..MaxExtractions, left : {<<>>, Yields, <<"assertions">>}]
  BY LlmAssumption DEF LlmInit
<1>2. QED
  BY <1>1, LlmAssumption DEF LlmInit, ExtractionInv

LEMMA ExtractionInvNext ==
  ASSUME ExtractionInv, [ExtractionStep]_extractionVars
  PROVE  ExtractionInv'
<1> USE LlmAssumption
<1> DEFINE Left == {<<>>, Yields, <<"assertions">>}
<1>yields. /\ Yields # <<>> /\ Yields # <<"assertions">> /\ <<"assertions">> # <<>>
           /\ Head(Yields) = "mentions" /\ Tail(Yields) = <<"assertions">>
           /\ Head(<<"assertions">>) = "assertions" /\ Tail(<<"assertions">>) = <<>>
  BY DEF Yields
<1>typed. /\ extraction.number \in 0..MaxExtractions /\ extraction.left \in Left
          /\ outputs \in [{"mentions", "assertions"} -> 0..MaxExtractions]
          /\ breaks \in 0..MaxBreaks
          /\ extraction = [number |-> extraction.number, left |-> extraction.left]
  BY DEF ExtractionInv
<1>1. CASE Extract
  <2>1. /\ extraction.number + 1 \in 0..MaxExtractions
        /\ extraction' = [number |-> extraction.number + 1, left |-> Yields]
        /\ UNCHANGED <<outputs, breaks>>
    BY <1>1, <1>typed DEF Extract
  <2>2. extraction'.number = extraction.number + 1 /\ extraction'.left = Yields
    BY <2>1
  <2>3. extraction' \in [number : 0..MaxExtractions, left : Left]
    BY <2>1
  <2>4. QED
    BY <1>yields, <1>typed, <2>1, <2>2, <2>3 DEF ExtractionInv
<1>2. CASE StoreOutput
  <2>1. /\ extraction.left # <<>> /\ UNCHANGED breaks
        /\ outputs' = [outputs EXCEPT ![Head(extraction.left)] = extraction.number]
        /\ extraction' = [number |-> extraction.number, left |-> Tail(extraction.left)]
    <3>1. extraction' = [extraction EXCEPT !.left = Tail(@)]
      BY <1>2 DEF StoreOutput
    <3>2. extraction' = [number |-> extraction.number, left |-> Tail(extraction.left)]
      BY <1>typed, <3>1
    <3>3. QED
      BY <1>2, <3>2 DEF StoreOutput
  <2>2. CASE extraction.left = Yields
    <3>1. outputs' = [outputs EXCEPT !["mentions"] = extraction.number]
      BY <1>yields, <2>1, <2>2
    <3>2. /\ outputs'["mentions"] = extraction.number
          /\ outputs'["assertions"] = outputs["assertions"]
          /\ outputs' \in [{"mentions", "assertions"} -> 0..MaxExtractions]
      BY <1>typed, <3>1
    <3>3. extraction' = [number |-> extraction.number, left |-> <<"assertions">>]
      BY <1>yields, <2>1, <2>2
    <3>4. extraction' \in [number : 0..MaxExtractions, left : Left]
      BY <1>typed, <3>3
    <3>5. outputs["assertions"] <= extraction.number
      BY <1>typed DEF ExtractionInv
    <3>6. QED
      BY <1>typed, <2>1, <3>2, <3>3, <3>4, <3>5 DEF ExtractionInv
  <2>3. CASE extraction.left = <<"assertions">>
    <3>1. outputs' = [outputs EXCEPT !["assertions"] = extraction.number]
      BY <1>yields, <2>1, <2>3
    <3>2. /\ outputs'["assertions"] = extraction.number
          /\ outputs'["mentions"] = outputs["mentions"]
          /\ outputs' \in [{"mentions", "assertions"} -> 0..MaxExtractions]
      BY <1>typed, <3>1
    <3>3. extraction' = [number |-> extraction.number, left |-> <<>>]
      BY <1>yields, <2>1, <2>3
    <3>4. extraction' \in [number : 0..MaxExtractions, left : Left]
      BY <1>typed, <3>3
    <3>5. outputs["mentions"] = extraction.number
      BY <2>3 DEF ExtractionInv
    <3>6. QED
      BY <1>yields, <1>typed, <2>1, <3>2, <3>3, <3>4, <3>5 DEF ExtractionInv
  <2>4. QED
    BY <1>typed, <2>1, <2>2, <2>3
<1>3. CASE ExtractionFails
  <2>1. /\ breaks' \in 0..MaxBreaks /\ UNCHANGED outputs
        /\ extraction' = [number |-> extraction.number, left |-> <<>>]
    <3>1. extraction' = [extraction EXCEPT !.left = <<>>]
      BY <1>3 DEF ExtractionFails
    <3>2. QED
      <4>1. breaks < MaxBreaks /\ breaks' = breaks + 1 /\ UNCHANGED outputs
        BY <1>3 DEF ExtractionFails
      <4>2. extraction' = [number |-> extraction.number, left |-> <<>>]
        BY <1>typed, <3>1
      <4>3. QED
        BY <1>typed, <4>1, <4>2
  <2>2. extraction' \in [number : 0..MaxExtractions, left : Left]
    BY <1>typed, <2>1
  <2>3. QED
    BY <1>yields, <1>typed, <2>1, <2>2 DEF ExtractionInv
<1>4. CASE UNCHANGED extractionVars
  BY <1>4 DEF extractionVars, ExtractionInv
<1>5. QED
  BY <1>1, <1>2, <1>3, <1>4 DEF ExtractionStep

LEMMA ExtractionEnough == ExtractionInv => MentionsFirst
BY DEF ExtractionInv, MentionsFirst
-----------------------------------------------------------------------------
(* LlmCalls: a batch of model calls                                        *)

States == {"queued", "calling", "waiting"} \union Over

Tasks(t) == t \in [Item -> [state : States, attempts : 0..(max_retries + 1)]]

\* What the attempts of a task say about it, and what was taken of it by the caller.
TaskInv(i) ==
    /\ task[i].state = "queued" => task[i].attempts = 0
    /\ task[i].state = "waiting" => task[i].attempts <= max_retries
    /\ task[i].state = "failed" => i \in noMessages \/ task[i].attempts > max_retries
    /\ i \in collected => /\ task[i].state \in {"answered", "skipped"}
                          /\ results[i] = (IF task[i].state = "skipped" THEN None ELSE i)

\* A request is counted when it comes back: each attempt but those that are on the way.
CountInv ==
    /\ Cardinality(InFlight) <= max_concurrency
    /\ counted.success + counted.error
         = SumOver(task, Item)[Item] - Cardinality(InState({"calling"}))

BatchTyped ==
    /\ Tasks(task) /\ noMessages \subseteq Suspect
    /\ collected \subseteq Item /\ results \in [Item -> Item \union {None}]
    /\ caller \in {"collecting", "leaving", "returned", "raised"}
    /\ counted \in [success : Nat, error : Nat]

CallerInv ==
    /\ caller = "returned" => collected = Item
    /\ caller \in {"leaving", "raised"} => InState({"failed"}) # {}
    /\ caller = "raised" => PoolIdle

BatchInv == BatchTyped /\ CallerInv /\ CountInv /\ \A i \in Item : TaskInv(i)

LEMMA ItemsAreFinite == IsFiniteSet(Item)
BY FS_Interval, LlmAssumption DEF Item

LEMMA BatchInvInit == LlmInit => BatchInv
<1> SUFFICES ASSUME LlmInit PROVE BatchInv
  OBVIOUS
<1> USE LlmAssumption
<1>1. task = [i \in Item |-> [state |-> "queued", attempts |-> 0]]
  BY DEF LlmInit
<1>2. Tasks(task)
  BY <1>1 DEF Tasks, States
<1>3. InFlight = {} /\ InState({"calling"}) = {}
  BY <1>1 DEF InFlight, InState
<1>4. SumOver(task, Item)[Item] = 0
  <2> DEFINE K == {s \in SUBSET Item : SumOver(task, Item)[s] = 0}
  <2>1. \A x \in Item : task[x].attempts = 0 /\ task[x].attempts \in Nat
    BY <1>1
  <2>2. /\ SumOver(task, Item)[{}] = 0
        /\ \A s \in SUBSET Item : SumsUp(task, Item, s)
    BY <2>1, ItemsAreFinite, SumIsOfEach
  <2> DEFINE L == {k \in Nat : \A s \in SUBSET Item : Cardinality(s) = k =>
                                  SumOver(task, Item)[s] = 0}
  <2>sets. ASSUME NEW s \in SUBSET Item
           PROVE  /\ Cardinality(s) \in Nat
                  /\ Cardinality(s) = 0 <=> s = {}
                  /\ \A x \in s : /\ s \ {x} \in SUBSET Item
                                  /\ Cardinality(s \ {x}) = Cardinality(s) - 1
    BY ItemsAreFinite, FS_Subset, FS_CardinalityType, FS_RemoveElement, FS_EmptySet
  <2>3. 0 \in L
    BY <2>2, <2>sets
  <2>4. ASSUME NEW k \in Nat, k \in L PROVE k + 1 \in L
    <3> SUFFICES ASSUME NEW s \in SUBSET Item, Cardinality(s) = k + 1
                 PROVE  SumOver(task, Item)[s] = 0
      OBVIOUS
    <3>1. PICK x \in s : TRUE
      BY <2>sets
    <3>2. s \ {x} \in SUBSET Item /\ Cardinality(s \ {x}) = k
      BY <2>sets, <3>1
    <3>3. SumOver(task, Item)[s \ {x}] = 0
      BY <2>4, <3>2
    <3>4. SumOver(task, Item)[s] = task[x].attempts + SumOver(task, Item)[s \ {x}]
      BY <2>2, <3>1 DEF SumsUp
    <3>5. QED
      BY <2>1, <3>1, <3>3, <3>4
  <2>5. Nat \subseteq L
    <3> HIDE DEF L
    <3> QED
      BY <2>3, <2>4, Deduped!NatSetInduction
  <2>6. QED
    BY <2>5, <2>sets
<1>5. CountInv
  <2>1. Cardinality({}) = 0
    BY FS_EmptySet
  <2>2. counted.success = 0 /\ counted.error = 0
    BY DEF LlmInit
  <2>3. QED
    BY <1>3, <1>4, <2>1, <2>2 DEF CountInv
<1>6. BatchTyped
  <2>1. counted \in [success : Nat, error : Nat]
    BY DEF LlmInit
  <2>2. QED
    BY <1>2, <2>1 DEF LlmInit, BatchTyped
<1>7. CallerInv /\ \A i \in Item : TaskInv(i)
  BY <1>1 DEF LlmInit, CallerInv, TaskInv
<1>8. QED
  BY <1>5, <1>6, <1>7 DEF BatchInv

\* What a task that is marked changes of the counts.
LEMMA MarkCounts ==
  ASSUME Tasks(task), NEW i \in Item, NEW s \in States, NEW n \in 0..(max_retries + 1),
         Mark(i, s, n)
  PROVE  /\ Tasks(task')
         /\ task'[i] = [state |-> s, attempts |-> n]
         /\ \A k \in Item : k # i => task'[k] = task[k]
         /\ SumOver(task, Item)[Item] \in Nat
         /\ SumOver(task', Item)[Item] = SumOver(task, Item)[Item] - task[i].attempts + n
<1> USE LlmAssumption
<1>1. /\ Tasks(task')
      /\ task'[i] = [state |-> s, attempts |-> n]
      /\ \A k \in Item : k # i => task'[k] = task[k]
  BY DEF Tasks, Mark
<1>2. \A k \in Item : task[k].attempts \in Nat /\ task'[k].attempts \in Nat
  BY <1>1 DEF Tasks
<1>3. /\ SumOver(task, Item)[Item] \in Nat
      /\ SumOver(task', Item)[Item]
           = SumOver(task, Item)[Item] - task[i].attempts + task'[i].attempts
  <2>1. PICK t, u : t = task /\ u = task'
    OBVIOUS
  <2>2. /\ \A x \in Item : t[x].attempts \in Nat /\ u[x].attempts \in Nat
        /\ \A x \in Item \ {i} : t[x].attempts = u[x].attempts
    BY <1>1, <1>2, <2>1
  <2>3. /\ SumOver(t, Item)[Item] \in Nat
        /\ SumOver(u, Item)[Item] = SumOver(t, Item)[Item] - t[i].attempts + u[i].attempts
    BY <2>2, ItemsAreFinite, SumOfOneMore
  <2>4. QED
    BY <2>1, <2>3
<1>4. QED
  BY <1>1, <1>3

\* How many tasks are in some states, after one was marked.
InOf(t, states) == {k \in Item : t[k].state \in states}

LEMMA MarkStates ==
  ASSUME NEW states, NEW t, NEW u, NEW i \in Item,
         \A k \in Item : k # i => u[k] = t[k]
  PROVE  /\ Cardinality(InOf(t, states)) \in Nat
         /\ Cardinality(InOf(u, states)) =
               Cardinality(InOf(t, states))
               - (IF t[i].state \in states THEN 1 ELSE 0)
               + (IF u[i].state \in states THEN 1 ELSE 0)
<1> DEFINE A == InOf(t, states)
           B == InOf(u, states)
<1>1. IsFiniteSet(A) /\ Cardinality(A) \in Nat
  <2>1. A \in SUBSET Item
    BY DEF InOf
  <2>2. QED
    BY <2>1, ItemsAreFinite, FS_Subset, FS_CardinalityType
<1>2. CASE u[i].state \in states
  <2>1. B = A \cup {i} /\ (i \in A <=> t[i].state \in states)
    BY <1>2 DEF InOf
  <2>2. Cardinality(B) = IF i \in A THEN Cardinality(A) ELSE Cardinality(A) + 1
    BY <1>1, <2>1, FS_AddElement
  <2>3. QED
    BY <1>1, <1>2, <2>1, <2>2
<1>3. CASE u[i].state \notin states
  <2>1. B = A \ {i} /\ (i \in A <=> t[i].state \in states)
    BY <1>3 DEF InOf
  <2>2. Cardinality(B) = IF i \in A THEN Cardinality(A) - 1 ELSE Cardinality(A)
    BY <1>1, <2>1, FS_RemoveElement
  <2>3. QED
    BY <1>1, <1>3, <2>1, <2>2
<1>4. QED
  BY <1>2, <1>3

\* A task goes on: what is left to show is about the task itself.
LEMMA MarkStep ==
  ASSUME BatchInv, NEW i \in Item, NEW s \in States, NEW n \in 0..(max_retries + 1),
         Mark(i, s, n), UNCHANGED <<noMessages, collected, results, caller>>,
         task[i].state \notin Over,
         s = "queued" => n = 0,
         s = "waiting" => n <= max_retries,
         s = "failed" => i \in noMessages \/ n > max_retries,
         counted' \in [success : Nat, error : Nat],
         counted'.success + counted'.error
            = counted.success + counted.error + n - task[i].attempts
              + (IF task[i].state = "calling" THEN 1 ELSE 0) - (IF s = "calling" THEN 1 ELSE 0),
         task[i].state = "queued" /\ s \in {"calling", "waiting"}
            => Cardinality(InFlight) < max_concurrency
  PROVE  BatchInv'
<1> USE LlmAssumption
<1>typed. BatchTyped /\ Tasks(task) /\ counted \in [success : Nat, error : Nat]
  BY DEF BatchInv, BatchTyped
<1>1. /\ Tasks(task') /\ task'[i] = [state |-> s, attempts |-> n]
      /\ \A k \in Item : k # i => task'[k] = task[k]
      /\ SumOver(task, Item)[Item] \in Nat
      /\ SumOver(task', Item)[Item] = SumOver(task, Item)[Item] - task[i].attempts + n
  BY <1>typed, MarkCounts
<1>2. /\ InState({"calling"}) = InOf(task, {"calling"})
      /\ InFlight = InOf(task, {"calling", "waiting"})
      /\ InState({"calling"})' = InOf(task', {"calling"})
      /\ InFlight' = InOf(task', {"calling", "waiting"})
  BY DEF InState, InFlight, InOf
<1>3. ASSUME NEW states
      PROVE  /\ Cardinality(InOf(task, states)) \in Nat
             /\ Cardinality(InOf(task', states)) =
                   Cardinality(InOf(task, states))
                   - (IF task[i].state \in states THEN 1 ELSE 0)
                   + (IF s \in states THEN 1 ELSE 0)
  <2>1. PICK t, u : t = task /\ u = task'
    OBVIOUS
  <2>2. \A k \in Item : k # i => u[k] = t[k]
    BY <1>1, <2>1
  <2>3. /\ Cardinality(InOf(t, states)) \in Nat
        /\ Cardinality(InOf(u, states)) =
              Cardinality(InOf(t, states))
              - (IF t[i].state \in states THEN 1 ELSE 0)
              + (IF u[i].state \in states THEN 1 ELSE 0)
    BY <2>2, MarkStates
  <2>4. QED
    BY <1>1, <2>1, <2>3
<1>4. BatchTyped'
  BY <1>typed, <1>1 DEF BatchTyped
<1>5. CallerInv'
  <2>1. caller # "raised"
    BY <1>typed DEF BatchInv, CallerInv, PoolIdle, InState
  <2>2. \A k \in InState({"failed"}) : k \in InState({"failed"})'
    <3>1. \A k \in InState({"failed"}) : k \in Item /\ k # i
      BY DEF InState, Over
    <3>2. QED
      BY <1>1, <3>1 DEF InState
  <2>3. QED
    BY <2>1, <2>2 DEF BatchInv, CallerInv
<1>6. CountInv'
  <2>1. Cardinality(InFlight)' <= max_concurrency
    <3>1. Cardinality(InFlight) \in Nat /\ Cardinality(InFlight) <= max_concurrency
      BY <1>2, <1>3 DEF BatchInv, CountInv
    <3>2. Cardinality(InFlight') = Cardinality(InFlight)
              - (IF task[i].state \in {"calling", "waiting"} THEN 1 ELSE 0)
              + (IF s \in {"calling", "waiting"} THEN 1 ELSE 0)
      BY <1>2, <1>3
    <3>3. task[i].state \in {"queued", "calling", "waiting"}
      BY <1>typed DEF Tasks, States
    <3>4. QED
      BY <3>1, <3>2, <3>3
  <2>2. (counted.success + counted.error)'
            = SumOver(task', Item)[Item] - Cardinality(InState({"calling"})')
    <3> DEFINE C == Cardinality(InState({"calling"}))
    <3>1. C \in Nat /\ Cardinality(InState({"calling"})') =
              C - (IF task[i].state = "calling" THEN 1 ELSE 0) + (IF s = "calling" THEN 1 ELSE 0)
      BY <1>2, <1>3
    <3>2. counted.success + counted.error = SumOver(task, Item)[Item] - C
      BY DEF BatchInv, CountInv
    <3>3. task[i].attempts \in Nat /\ n \in Nat
      BY <1>typed DEF Tasks
    <3> HIDE DEF C
    <3>4. QED
      BY <1>1, <3>1, <3>2, <3>3
  <2>3. QED
    BY <2>1, <2>2 DEF CountInv
<1>7. ASSUME NEW k \in Item PROVE TaskInv(k)'
  <2>1. TaskInv(k) /\ TaskInv(i)
    BY DEF BatchInv
  <2>2. CASE k = i
    <3>1. i \notin collected
      BY <2>1 DEF TaskInv, Over
    <3>2. QED
      BY <1>1, <2>2, <3>1 DEF TaskInv
  <2>3. CASE k # i
    BY <1>1, <2>1, <2>3 DEF TaskInv
  <2>4. QED
    BY <2>2, <2>3
<1>8. QED
  BY <1>4, <1>5, <1>6, <1>7 DEF BatchInv

LEMMA BatchInvNext ==
  ASSUME BatchInv, [BatchStep]_batchVars
  PROVE  BatchInv'
<1> USE LlmAssumption
<1>typed. BatchTyped /\ Tasks(task) /\ counted \in [success : Nat, error : Nat]
  BY DEF BatchInv, BatchTyped
<1>task. ASSUME NEW i \in Item
         PROVE  /\ task[i].state \in States /\ task[i].attempts \in 0..(max_retries + 1)
                /\ TaskInv(i)
  BY <1>typed DEF Tasks, BatchInv
<1>1. ASSUME NEW i \in Item, Start(i) PROVE BatchInv'
  <2>1. /\ task[i].state = "queued" /\ task[i].attempts = 0 /\ task[i].state \notin Over
        /\ Cardinality(InFlight) < max_concurrency
        /\ UNCHANGED <<noMessages, collected, results, caller>> /\ counted' = counted
    BY <1>1, <1>task DEF Start, TaskInv, Over
  <2>2. CASE i \in noMessages
    <3>1. Mark(i, "failed", 0) /\ "failed" \in States /\ 0 \in 0..(max_retries + 1)
      BY <1>1, <2>2 DEF Start, States, Over
    <3>2. counted'.success + counted'.error = counted.success + counted.error + 0 - task[i].attempts
              + (IF task[i].state = "calling" THEN 1 ELSE 0) - (IF "failed" = "calling" THEN 1 ELSE 0)
      BY <1>typed, <2>1
    <3>3. QED
      BY <1>typed, <2>1, <2>2, <3>1, <3>2, MarkStep
  <2>3. CASE i \notin noMessages
    <3>1. Mark(i, "calling", 1) /\ "calling" \in States /\ 1 \in 0..(max_retries + 1)
      BY <1>1, <2>3 DEF Start, States
    <3>2. counted'.success + counted'.error = counted.success + counted.error + 1 - task[i].attempts
              + (IF task[i].state = "calling" THEN 1 ELSE 0) - (IF "calling" = "calling" THEN 1 ELSE 0)
      BY <1>typed, <2>1
    <3>3. QED
      BY <1>typed, <2>1, <3>1, <3>2, MarkStep
  <2>4. QED
    BY <2>2, <2>3
<1>2. ASSUME NEW i \in Item, Retry(i) PROVE BatchInv'
  <2> DEFINE n == task[i].attempts + 1
  <2>1. /\ task[i].state = "waiting" /\ task[i].state \notin Over
        /\ n \in 0..(max_retries + 1) /\ Mark(i, "calling", n) /\ "calling" \in States
        /\ UNCHANGED <<noMessages, collected, results, caller>> /\ counted' = counted
    BY <1>2, <1>task DEF Retry, TaskInv, Over, States
  <2>2. counted'.success + counted'.error = counted.success + counted.error + n - task[i].attempts
            + (IF task[i].state = "calling" THEN 1 ELSE 0) - (IF "calling" = "calling" THEN 1 ELSE 0)
    BY <1>typed, <1>task, <2>1
  <2> HIDE DEF n
  <2>3. QED
    BY <1>typed, <2>1, <2>2, MarkStep
\* A request has come back.
<1>back. ASSUME NEW i \in Item, NEW s \in States \ {"queued", "calling"},
                task[i].state = "calling", Mark(i, s, task[i].attempts),
                s = "waiting" => task[i].attempts <= max_retries,
                s = "failed" => task[i].attempts > max_retries,
                \/ counted' = [counted EXCEPT !.success = @ + 1]
                \/ counted' = [counted EXCEPT !.error = @ + 1],
                UNCHANGED <<noMessages, collected, results, caller>>
         PROVE  BatchInv'
  <2> DEFINE n == task[i].attempts
  <2>1. /\ counted' \in [success : Nat, error : Nat]
        /\ counted'.success + counted'.error = counted.success + counted.error + 1
    BY <1>typed, <1>back
  <2>2. n \in 0..(max_retries + 1) /\ task[i].state \notin Over
    BY <1>task, <1>back DEF Over
  <2>3. counted'.success + counted'.error = counted.success + counted.error + n - task[i].attempts
            + (IF task[i].state = "calling" THEN 1 ELSE 0) - (IF s = "calling" THEN 1 ELSE 0)
    BY <1>typed, <1>back, <2>1, <2>2
  <2>4. Mark(i, s, n)
    BY <1>back
  <2>5. s = "waiting" => n <= max_retries
    BY <1>back
  <2>6. s = "failed" => n > max_retries
    BY <1>back
  <2> HIDE DEF n
  <2>7. QED
    BY <1>back, <2>1, <2>2, <2>3, <2>4, <2>5, <2>6, MarkStep
<1>3. ASSUME NEW i \in Item, ModelAnswers(i) PROVE BatchInv'
  <2>1. "answered" \in States \ {"queued", "calling"}
    BY DEF States, Over
  <2>2. QED
    BY <1>3, <1>back, <2>1 DEF ModelAnswers
<1>4. ASSUME NEW i \in Item, AnswerTooLong(i) PROVE BatchInv'
  <2>1. "skipped" \in States \ {"queued", "calling"}
    BY DEF States, Over
  <2>2. QED
    BY <1>4, <1>back, <2>1 DEF AnswerTooLong
<1>5. ASSUME NEW i \in Item, RequestFails(i) PROVE BatchInv'
  <2> DEFINE s == IF task[i].attempts <= max_retries THEN "waiting" ELSE "failed"
  <2>1. /\ s \in States \ {"queued", "calling"}
        /\ s = "waiting" => task[i].attempts <= max_retries
        /\ s = "failed" => task[i].attempts > max_retries
    BY <1>task DEF States, Over
  <2>2. Mark(i, s, task[i].attempts)
    BY <1>5 DEF RequestFails
  <2> HIDE DEF s
  <2>3. QED
    BY <1>5, <1>back, <2>1, <2>2 DEF RequestFails
<1>6. ASSUME NEW i \in Item, Collect(i) PROVE BatchInv'
  <2>1. /\ caller = "collecting" /\ task[i].state \in Over /\ i \notin collected
        /\ UNCHANGED <<noMessages, task, counted>>
    BY <1>6 DEF Collect, InState
  <2>2. CountInv'
    BY <2>1 DEF BatchInv, CountInv, InFlight, InState
  <2>3. CASE task[i].state = "failed"
    <3>1. caller' = "leaving" /\ UNCHANGED <<collected, results>>
      BY <1>6, <2>3 DEF Collect
    <3>2. BatchTyped'
      BY <1>typed, <2>1, <3>1 DEF BatchTyped
    <3>3. CallerInv'
      BY <2>1, <2>3, <3>1 DEF CallerInv, InState
    <3>4. \A k \in Item : TaskInv(k)'
      BY <2>1, <3>1 DEF BatchInv, TaskInv
    <3>5. QED
      BY <2>2, <3>2, <3>3, <3>4 DEF BatchInv
  <2>4. CASE task[i].state # "failed"
    <3>1. /\ results' = [results EXCEPT ![i] = IF task[i].state = "answered" THEN i ELSE None]
          /\ collected' = collected \union {i}
          /\ caller' = IF collected' = Item THEN "returned" ELSE caller
      BY <1>6, <2>4 DEF Collect, Position
    <3>2. results \in [Item -> Item \union {None}] /\ collected \subseteq Item
      BY <1>typed DEF BatchTyped
    <3>3. BatchTyped'
      BY <1>typed, <2>1, <3>1, <3>2 DEF BatchTyped
    <3>4. CallerInv'
      BY <2>1, <3>1 DEF CallerInv
    <3>5. task[i].state \in {"answered", "skipped"}
      BY <2>1, <2>4 DEF Over
    <3>6. ASSUME NEW k \in Item PROVE TaskInv(k)'
      <4>1. CASE k = i
        BY <1>task, <2>1, <3>1, <3>2, <3>5, <4>1 DEF TaskInv
      <4>2. CASE k # i
        BY <1>task, <2>1, <3>1, <3>2, <4>2 DEF TaskInv
      <4>3. QED
        BY <4>1, <4>2
    <3>7. QED
      BY <2>2, <3>3, <3>4, <3>6 DEF BatchInv
  <2>5. QED
    BY <2>3, <2>4
<1>7. CASE Raise
  <2>1. /\ caller = "leaving" /\ PoolIdle /\ caller' = "raised"
        /\ UNCHANGED <<noMessages, task, collected, results, counted>>
    BY <1>7 DEF Raise
  <2>2. CountInv'
    BY <2>1 DEF BatchInv, CountInv, InFlight, InState
  <2>3. CallerInv'
    BY <2>1 DEF BatchInv, CallerInv, PoolIdle, InState
  <2>4. BatchTyped' /\ \A k \in Item : TaskInv(k)'
    BY <1>typed, <2>1 DEF BatchInv, BatchTyped, TaskInv
  <2>5. QED
    BY <2>2, <2>3, <2>4 DEF BatchInv
<1>8. CASE UNCHANGED batchVars
  <2>1. UNCHANGED <<noMessages, task, collected, results, caller, counted>>
    BY <1>8 DEF batchVars
  <2>2. CountInv' /\ CallerInv'
    BY <2>1 DEF BatchInv, CountInv, CallerInv, PoolIdle, InFlight, InState
  <2>3. BatchTyped' /\ \A k \in Item : TaskInv(k)'
    BY <1>typed, <2>1 DEF BatchInv, BatchTyped, TaskInv
  <2>4. QED
    BY <2>2, <2>3 DEF BatchInv
<1>9. QED
  BY <1>1, <1>2, <1>3, <1>4, <1>5, <1>6, <1>7, <1>8 DEF BatchStep

LEMMA BatchEnough == BatchInv => AnswersInPlace
<1> SUFFICES ASSUME BatchInv PROVE AnswersInPlace
  OBVIOUS
<1>1. ASSUME caller = "returned", NEW i \in Item
      PROVE  results[i] = (IF task[i].state = "skipped" THEN None ELSE i)
  BY <1>1 DEF BatchInv, CallerInv, TaskInv
<1>2. ASSUME caller = "raised"
      PROVE  /\ PoolIdle
             /\ \E i \in InState({"failed"}) : i \in noMessages \/ task[i].attempts > max_retries
  <2>1. PoolIdle /\ InState({"failed"}) # {}
    BY <1>2 DEF BatchInv, CallerInv
  <2>2. PICK i \in InState({"failed"}) : TRUE
    BY <2>1
  <2>3. i \in Item /\ task[i].state = "failed"
    BY <2>2 DEF InState
  <2>4. i \in noMessages \/ task[i].attempts > max_retries
    BY <2>3 DEF BatchInv, TaskInv
  <2>5. QED
    BY <2>1, <2>4, <2>2
<1>3. /\ Cardinality(InFlight) <= max_concurrency
      /\ counted.success + counted.error
           = MapThenSumSet(LAMBDA i : task[i].attempts, Item) - Cardinality(InState({"calling"}))
  BY AttemptsAreSum DEF BatchInv, CountInv
<1>4. QED
  BY <1>1, <1>2, <1>3 DEF AnswersInPlace

-----------------------------------------------------------------------------
(* LlmCalls: the types                                                     *)

LEMMA LlmTyped == BatchInv /\ VectorsInv /\ ExtractionInv => LlmTypeOK
<1> SUFFICES ASSUME BatchInv, VectorsInv, ExtractionInv PROVE LlmTypeOK
  OBVIOUS
<1>1. /\ task \in [Item -> [state : {"queued", "calling", "waiting"} \union Over,
                            attempts : 0..(max_retries + 1)]]
      /\ noMessages \subseteq Suspect /\ collected \subseteq Item
      /\ results \in [Item -> Item \union {None}]
      /\ caller \in {"collecting", "leaving", "returned", "raised"}
  BY DEF BatchInv, BatchTyped, Tasks, States
<1>2. counted.success \in Nat /\ counted.error \in Nat
  BY DEF BatchInv, BatchTyped
<1>3. /\ vectors \in Seq(1..Texts)
      /\ embedding.attempt \in 1..MAX_EMBED_ATTEMPTS
      /\ embedding.state \in {"sending", "returned", "raised"}
  BY DEF VectorsInv, Embeddings
<1>4. /\ extraction.number \in 0..MaxExtractions
      /\ outputs \in [{"mentions", "assertions"} -> 0..MaxExtractions]
      /\ breaks \in 0..MaxBreaks
  BY DEF ExtractionInv
<1>5. QED
  BY <1>1, <1>2, <1>3, <1>4 DEF LlmTypeOK
-----------------------------------------------------------------------------
(* RunStatus: what is told of a run that has ended                         *)

Ended(r) == job[r].state \in _STATUS_LABELS

JobsTyped == job \in [Job -> [state : {"running"} \union _STATUS_LABELS, selected : BOOLEAN,
                              planned : SUBSET Product, done : SUBSET (Product \X Slot)]]

\* A run that goes on has told nothing; one that has ended tells what it did and what it
\* lacks, all of it once an emission came to its end.
ToldAsItIs(r) ==
    /\ told[r] \subseteq FromLog(r) \union FromGaps(r)
    /\ ~Ended(r) => told[r] = {}
    /\ sensor[r] \in {"counted", "seen"} /\ configured /\ drifts = 0 =>
          FromLog(r) \union FromGaps(r) \subseteq told[r]

\* A daemon that dies makes the sensor count a run once more.
CountedOnce(r) ==
    /\ sensor[r] # "waits" => Ended(r) /\ counter[r] >= 1
    /\ counter[r] <= IF sensor[r] = "waits" THEN restarts ELSE restarts + 1

StatusInv ==
    /\ StatusTypeOK /\ JobsTyped /\ DOMAIN told = Job
    /\ \A r \in Job : ToldAsItIs(r) /\ CountedOnce(r)
    /\ \A a \in Product : \A r \in fresh[a] : job[r].state = "success" /\ counter[r] >= 1

LEMMA StatusInvInit == StatusInit => StatusInv
<1> SUFFICES ASSUME StatusInit PROVE StatusInv
  OBVIOUS
<1> USE RunStatusAssumption
<1>1. ASSUME NEW r \in Job
      PROVE  job[r] \in [state : {"running"}, selected : BOOLEAN,
                         planned : SUBSET Product, done : {{}}]
  BY DEF StatusInit
<1>2. ASSUME NEW r \in Job PROVE job[r].state = "running" /\ job[r].done = {}
  BY <1>1
<1>3. JobsTyped
  BY <1>1 DEF JobsTyped, StatusInit
<1>4. StatusTypeOK
  BY <1>2 DEF StatusInit, StatusTypeOK
<1>5. ASSUME NEW r \in Job PROVE ToldAsItIs(r) /\ CountedOnce(r)
  BY <1>2 DEF StatusInit, ToldAsItIs, CountedOnce, Ended
<1>6. QED
  BY <1>3, <1>4, <1>5 DEF StatusInv, StatusInit

LEMMA StatusInvNext ==
  ASSUME StatusInv, [StatusNext]_statusVars
  PROVE  StatusInv'
<1> USE RunStatusAssumption
<1>typed. /\ StatusTypeOK /\ JobsTyped /\ DOMAIN told = Job /\ restarts \in Nat /\ drifts \in Nat
          /\ \A r \in Job : counter[r] \in Nat /\ counter[r] <= restarts + 1
  <2>1. \A r \in Job : CountedOnce(r) /\ counter[r] \in Nat
    BY DEF StatusInv, StatusTypeOK
  <2>2. QED
    BY <2>1 DEF StatusInv, StatusTypeOK, CountedOnce
<1>1. ASSUME NEW r \in Job, NEW a \in Product, NEW s \in Slot, Materialize(r, a, s)
      PROVE  StatusInv'
  <2>1. /\ job[r].state = "running" /\ a \in job[r].planned /\ ~Ended(r)
        /\ job' = [job EXCEPT ![r].done = @ \union {<<a, s>>}]
        /\ UNCHANGED <<sensor, counter, fresh, told, configured, restarts, drifts>>
    BY <1>1 DEF Materialize, Ended, _STATUS_LABELS
  <2>2. \A q \in Job : /\ job'[q].state = job[q].state
                       /\ q # r => job'[q] = job[q]
    BY <1>typed, <2>1 DEF JobsTyped
  <2>3. JobsTyped'
    BY <1>typed, <2>1 DEF JobsTyped
  <2>4. StatusTypeOK'
    BY <1>typed, <2>1, <2>2 DEF StatusTypeOK, JobsTyped
  <2>5. ASSUME NEW q \in Job PROVE ToldAsItIs(q)' /\ CountedOnce(q)'
    <3>1. CASE q # r
      BY <2>1, <2>2, <3>1 DEF StatusInv, ToldAsItIs, CountedOnce, Ended, FromLog, FromGaps,
                              MaterializedKeys
    <3>2. CASE q = r
      <4>1. told[r] = {} /\ sensor[r] = "waits" /\ ~Ended(r)'
        BY <2>1, <2>2 DEF StatusInv, ToldAsItIs, CountedOnce, Ended
      <4>2. QED
        BY <2>1, <3>2, <4>1 DEF StatusInv, ToldAsItIs, CountedOnce
    <3>3. QED
      BY <3>1, <3>2
  <2>6. \A b \in Product : \A q \in fresh'[b] : job'[q].state = "success" /\ counter'[q] >= 1
    BY <1>typed, <2>1, <2>2 DEF StatusInv, StatusTypeOK
  <2>7. QED
    BY <1>typed, <2>1, <2>3, <2>4, <2>5, <2>6 DEF StatusInv
<1>2. ASSUME NEW r \in Job, End(r) PROVE StatusInv'
  <2>1. PICK s \in _STATUS_LABELS : job' = [job EXCEPT ![r].state = s]
    BY <1>2 DEF End
  <2>2. /\ job[r].state = "running" /\ ~Ended(r)
        /\ UNCHANGED <<sensor, counter, fresh, told, configured, restarts, drifts>>
    BY <1>2 DEF End, Ended, _STATUS_LABELS
  <2>3. \A q \in Job : /\ job'[q].done = job[q].done /\ job'[q].planned = job[q].planned
                       /\ q # r => job'[q] = job[q]
    BY <1>typed, <2>1 DEF JobsTyped
  <2>4. JobsTyped'
    BY <1>typed, <2>1 DEF JobsTyped
  <2>5. job'[r].state \in _STATUS_LABELS
    BY <1>typed, <2>1 DEF JobsTyped
  <2>6. StatusTypeOK'
    BY <1>typed, <2>2, <2>3, <2>5 DEF StatusTypeOK
  <2>7. ASSUME NEW q \in Job PROVE ToldAsItIs(q)' /\ CountedOnce(q)'
    <3>1. CASE q # r
      BY <2>2, <2>3, <3>1 DEF StatusInv, ToldAsItIs, CountedOnce, Ended, FromLog, FromGaps,
                              MaterializedKeys
    <3>2. CASE q = r
      <4>1. told[r] = {} /\ sensor[r] = "waits" /\ Ended(r)'
        BY <2>2, <2>5 DEF StatusInv, ToldAsItIs, CountedOnce, Ended
      <4>2. QED
        BY <2>2, <3>2, <4>1 DEF StatusInv, ToldAsItIs, CountedOnce
    <3>3. QED
      BY <3>1, <3>2
  <2>8. \A b \in Product : \A q \in fresh'[b] : job'[q].state = "success" /\ counter'[q] >= 1
    <3>1. \A b \in Product : \A q \in fresh[b] : q \in Job /\ q # r
      BY <1>typed, <2>2 DEF StatusInv, StatusTypeOK
    <3>2. QED
      BY <2>2, <2>3, <3>1 DEF StatusInv
  <2>9. QED
    BY <1>typed, <2>2, <2>4, <2>6, <2>7, <2>8 DEF StatusInv
<1>3. ASSUME NEW r \in Job, Count(r) PROVE StatusInv'
  <2>1. /\ Ended(r) /\ sensor[r] = "waits"
        /\ counter' = [counter EXCEPT ![r] = @ + 1]
        /\ sensor' = [sensor EXCEPT ![r] = IF configured THEN "tells" ELSE "counted"]
        /\ UNCHANGED <<job, told, configured, restarts, drifts>>
    BY <1>3 DEF Count, Ended
  <2>2. fresh' = IF job[r].state = "success"
                 THEN [a \in Product |-> fresh[a] \union (IF a \in Selection(r) THEN {r} ELSE {})]
                 ELSE fresh
    BY <1>3 DEF Count
  <2>3. \A a \in Product : fresh'[a] \subseteq fresh[a] \union
                              (IF job[r].state = "success" THEN {r} ELSE {})
    BY <2>2
  <2>4. fresh' \in [Product -> SUBSET Job]
    BY <1>typed, <2>2 DEF StatusTypeOK
  <2>5. counter[r] \in Nat /\ counter[r] <= restarts /\ counter'[r] = counter[r] + 1
    BY <1>typed, <2>1 DEF StatusInv, CountedOnce, StatusTypeOK
  <2>6. counter' \in [Job -> 0..(MaxRestarts + 1)]
    BY <1>typed, <2>1, <2>5 DEF StatusTypeOK
  <2>7. StatusTypeOK'
    BY <1>typed, <2>1, <2>4, <2>6 DEF StatusTypeOK
  <2>8. \A q \in Job : counter'[q] >= counter[q] /\ counter[q] \in Nat /\ counter'[q] \in Nat
    BY <1>typed, <2>1 DEF StatusTypeOK
  <2>9. ASSUME NEW q \in Job PROVE ToldAsItIs(q)' /\ CountedOnce(q)'
    <3>1. CASE q # r
      <4>1. sensor'[q] = sensor[q] /\ counter'[q] = counter[q]
        BY <1>typed, <2>1, <3>1 DEF StatusTypeOK
      <4>2. QED
        BY <2>1, <4>1 DEF StatusInv, ToldAsItIs, CountedOnce, Ended, FromLog, FromGaps,
                          MaterializedKeys
    <3>2. CASE q = r
      <4>1. sensor'[r] \in {"tells", "counted"} /\ (configured => sensor'[r] = "tells")
        BY <1>typed, <2>1 DEF StatusTypeOK
      <4>2. CountedOnce(r)'
        BY <1>typed, <2>1, <2>5, <4>1 DEF CountedOnce, Ended
      <4>3. ToldAsItIs(r)'
        BY <2>1, <4>1 DEF StatusInv, ToldAsItIs, Ended, FromLog, FromGaps, MaterializedKeys
      <4>4. QED
        BY <3>2, <4>2, <4>3
    <3>3. QED
      BY <3>1, <3>2
  <2>10. \A b \in Product : \A q \in fresh'[b] : job'[q].state = "success" /\ counter'[q] >= 1
    <3>1. ASSUME NEW b \in Product, NEW q \in fresh'[b]
          PROVE  job'[q].state = "success" /\ counter'[q] >= 1
      <4>1. CASE q \in fresh[b]
        <5>1. q \in Job /\ job[q].state = "success" /\ counter[q] >= 1
          BY <1>typed, <4>1 DEF StatusInv, StatusTypeOK
        <5>2. QED
          BY <2>1, <2>8, <5>1
      <4>2. CASE q \notin fresh[b]
        <5>1. q = r /\ job[r].state = "success"
          BY <2>3, <4>2
        <5>2. QED
          BY <2>1, <2>5, <5>1
      <4>3. QED
        BY <4>1, <4>2
    <3>2. QED
      BY <3>1
  <2>11. QED
    BY <1>typed, <2>1, <2>7, <2>9, <2>10 DEF StatusInv, JobsTyped
<1>4. ASSUME NEW r \in Job, Tell(r) PROVE StatusInv'
  <2>1. /\ sensor[r] = "tells" /\ Ended(r)
        /\ sensor' = [sensor EXCEPT ![r] = "counted"]
        /\ UNCHANGED <<job, counter, fresh, configured, restarts>>
    BY <1>4 DEF Tell, StatusInv, CountedOnce
  <2>2. PICK new \in SUBSET (FromLog(r) \union FromGaps(r)) :
          /\ told' = [told EXCEPT ![r] = @ \union new]
          /\ drifts' \in 0..MaxDrifts
          /\ \/ drifts' = drifts /\ new = FromLog(r) \union FromGaps(r)
             \/ drifts' = drifts + 1
    <3>1. CASE /\ told' = [told EXCEPT ![r] = @ \union FromLog(r) \union FromGaps(r)]
               /\ UNCHANGED drifts
      <4>1. told' = [told EXCEPT ![r] = @ \union (FromLog(r) \union FromGaps(r))]
        BY <3>1
      <4>2. QED
        BY <1>typed, <3>1, <4>1 DEF StatusTypeOK
    <3>2. CASE /\ drifts < MaxDrifts /\ drifts' = drifts + 1
               /\ \E some \in SUBSET FromLog(r) : told' = [told EXCEPT ![r] = @ \union some]
      <4>1. PICK some \in SUBSET FromLog(r) : told' = [told EXCEPT ![r] = @ \union some]
        BY <3>2
      <4>2. some \in SUBSET (FromLog(r) \union FromGaps(r))
        OBVIOUS
      <4>3. drifts' \in 0..MaxDrifts
        BY <1>typed, <3>2
      <4>4. QED
        BY <3>2, <4>1, <4>2, <4>3
    <3>3. QED
      BY <1>4, <3>1, <3>2 DEF Tell
  <2>3. StatusTypeOK' /\ JobsTyped' /\ DOMAIN told' = Job
    BY <1>typed, <2>1, <2>2 DEF StatusTypeOK, JobsTyped
  <2>4. \A q \in Job : q # r => told'[q] = told[q] /\ sensor'[q] = sensor[q]
    BY <1>typed, <2>1, <2>2 DEF StatusTypeOK
  <2>5. told'[r] = told[r] \union new /\ sensor'[r] = "counted"
    BY <1>typed, <2>1, <2>2 DEF StatusTypeOK
  <2>6. drifts' = 0 => drifts = 0 /\ new = FromLog(r) \union FromGaps(r)
    BY <1>typed, <2>2
  <2>7. ASSUME NEW q \in Job PROVE ToldAsItIs(q)' /\ CountedOnce(q)'
    <3>1. FromLog(q)' = FromLog(q) /\ FromGaps(q)' = FromGaps(q) /\ (Ended(q)' <=> Ended(q))
      BY <2>1 DEF FromLog, FromGaps, MaterializedKeys, Ended
    <3>2. CASE q # r
      BY <2>1, <2>4, <2>6, <3>1, <3>2 DEF StatusInv, ToldAsItIs, CountedOnce
    <3>3. CASE q = r
      <4>1. CountedOnce(r)'
        BY <2>1, <2>5, <3>1, <3>3 DEF StatusInv, CountedOnce
      <4>2. ToldAsItIs(r)'
        BY <2>1, <2>2, <2>5, <2>6, <3>1, <3>3 DEF StatusInv, ToldAsItIs
      <4>3. QED
        BY <3>3, <4>1, <4>2
    <3>4. QED
      BY <3>2, <3>3
  <2>8. QED
    BY <2>1, <2>3, <2>7 DEF StatusInv
<1>5. ASSUME NEW r \in Job, Remember(r) PROVE StatusInv'
  <2>1. /\ sensor[r] = "counted" /\ sensor' = [sensor EXCEPT ![r] = "seen"]
        /\ UNCHANGED <<job, counter, fresh, told, configured, restarts, drifts>>
    BY <1>5 DEF Remember
  <2>2. ASSUME NEW q \in Job PROVE ToldAsItIs(q)' /\ CountedOnce(q)'
    <3>1. \/ sensor'[q] = sensor[q]
          \/ sensor[q] = "counted" /\ sensor'[q] = "seen"
      BY <1>typed, <2>1 DEF StatusTypeOK
    <3>2. QED
      BY <2>1, <3>1 DEF StatusInv, ToldAsItIs, CountedOnce, Ended, FromLog, FromGaps,
                        MaterializedKeys
  <2>3. StatusTypeOK'
    BY <1>typed, <2>1 DEF StatusTypeOK
  <2>4. QED
    BY <2>1, <2>2, <2>3 DEF StatusInv, JobsTyped
<1>6. ASSUME Restart PROVE StatusInv'
  <2>1. /\ restarts' \in 0..MaxRestarts /\ restarts' = restarts + 1
        /\ sensor' = [r \in Job |-> IF sensor[r] = "seen" THEN "seen" ELSE "waits"]
        /\ UNCHANGED <<job, counter, fresh, told, configured, drifts>>
    BY <1>6, <1>typed DEF Restart, StatusTypeOK
  <2>2. StatusTypeOK'
    BY <1>typed, <2>1 DEF StatusTypeOK
  <2>3. ASSUME NEW q \in Job PROVE ToldAsItIs(q)' /\ CountedOnce(q)'
    <3>1. \/ sensor'[q] = "waits"
          \/ sensor[q] = "seen" /\ sensor'[q] = "seen"
      BY <2>1
    <3>2. CountedOnce(q)'
      BY <1>typed, <2>1, <3>1 DEF StatusInv, CountedOnce, Ended
    <3>3. ToldAsItIs(q)'
      BY <2>1, <3>1 DEF StatusInv, ToldAsItIs, Ended, FromLog, FromGaps, MaterializedKeys
    <3>4. QED
      BY <3>2, <3>3
  <2>4. QED
    BY <2>1, <2>2, <2>3 DEF StatusInv, JobsTyped
<1>7. ASSUME UNCHANGED statusVars PROVE StatusInv'
  <2>1. StatusTypeOK' /\ JobsTyped' /\ DOMAIN told' = Job
    BY <1>7, <1>typed DEF statusVars, StatusTypeOK, JobsTyped
  <2>2. \A r \in Job : ToldAsItIs(r)' /\ CountedOnce(r)'
    BY <1>7 DEF StatusInv, statusVars, ToldAsItIs, CountedOnce, Ended, FromLog, FromGaps,
                MaterializedKeys
  <2>3. QED
    BY <1>7, <2>1, <2>2 DEF StatusInv, statusVars
<1>8. QED
  BY <1>1, <1>2, <1>3, <1>4, <1>5, <1>6, <1>7 DEF StatusNext

LEMMA StatusEnough == StatusInv => StatusTypeOK /\ RunsTold
<1> SUFFICES ASSUME StatusInv PROVE RunsTold
  BY DEF StatusInv
<1>1. ASSUME NEW r \in Job
      PROVE  sensor[r] = "seen" => counter[r] >= 1 /\ (restarts = 0 => counter[r] = 1)
  <2>1. counter[r] \in Nat /\ CountedOnce(r)
    BY DEF StatusInv, StatusTypeOK
  <2>2. QED
    BY <2>1 DEF CountedOnce
<1>2. ASSUME NEW r \in Job, sensor[r] = "seen", configured, drifts = 0
      PROVE  /\ \A d \in job[r].done : Materialized(d[1], d[2]) \in told[r]
             /\ \A a \in job[r].planned :
                   Missing(a) \in told[r] <=> \A s \in Slot : <<a, s>> \notin job[r].done
  <2>1. told[r] = FromLog(r) \union FromGaps(r)
    BY <1>2 DEF StatusInv, ToldAsItIs
  <2>2. job[r].done \subseteq job[r].planned \X Slot
    BY DEF StatusInv, StatusTypeOK
  <2>3. ASSUME NEW a \in job[r].planned
        PROVE  Missing(a) \in told[r] <=> \A s \in Slot : <<a, s>> \notin job[r].done
    <3>1. Missing(a) \notin FromLog(r)
      BY DEF FromLog, Missing, Planned, Materialized
    <3>2. \A b : Missing(a) = Missing(b) => a = b
      BY DEF Missing
    <3>3. Missing(a) \in FromGaps(r) <=> a \notin MaterializedKeys(r)
      BY <3>2 DEF FromGaps
    <3>4. a \in MaterializedKeys(r) <=> \E s \in Slot : <<a, s>> \in job[r].done
      <4>1. \A d \in job[r].done : \E s \in Slot : d = <<d[1], s>>
        BY <2>2
      <4>2. \A s : <<a, s>>[1] = a
        OBVIOUS
      <4>3. ASSUME a \in MaterializedKeys(r) PROVE \E s \in Slot : <<a, s>> \in job[r].done
        <5>1. PICK d \in job[r].done : d[1] = a
          BY <4>3 DEF MaterializedKeys
        <5>2. QED
          BY <4>1, <5>1
      <4>4. ASSUME NEW s \in Slot, <<a, s>> \in job[r].done PROVE a \in MaterializedKeys(r)
        BY <4>2, <4>4 DEF MaterializedKeys
      <4>5. QED
        BY <4>3, <4>4
    <3>5. QED
      BY <2>1, <3>1, <3>3, <3>4
  <2>4. QED
    BY <2>1, <2>3 DEF FromLog
<1>3. QED
  BY <1>1, <1>2 DEF StatusInv, RunsTold
-----------------------------------------------------------------------------
(* Side by side                                                            *)

\* What each component sees of a step of any of them.  The five that use the counters of
\* Callers may find them changed by another.
LEMMA EachStep ==
  ASSUME [Next]_vars
  PROVE  /\ [EmbeddingNext]_embeddingAll \/ UNCHANGED embeddingVars
         /\ [ClusterNext]_clusterAll \/ UNCHANGED clusterVars
         /\ [ModelNext]_modelAll \/ UNCHANGED modelVars
         /\ [TrackerNext]_trackerAll \/ UNCHANGED trackerVars
         /\ [AppendNext]_appendAll \/ UNCHANGED appendVars
         /\ [BatchStep]_batchVars /\ [EmbeddingStep]_embedVars
         /\ [ExtractionStep]_extractionVars
         /\ [StatusNext]_statusVars /\ [LocalNext]_localVars
<1> USE DEF Caches, Stores, Others, llmVars
<1>1. CASE part = "embedding" /\ EmbeddingNext /\ UNCHANGED NotEmbedding
  BY <1>1 DEF NotEmbedding
<1>2. CASE part = "cluster" /\ ClusterNext /\ UNCHANGED NotCluster
  BY <1>2 DEF NotCluster
<1>3. CASE part = "model" /\ ModelNext /\ UNCHANGED NotModel
  BY <1>3 DEF NotModel
<1>4. CASE part = "tracker" /\ TrackerNext /\ UNCHANGED NotTracker
  BY <1>4 DEF NotTracker
<1>5. CASE part = "append" /\ AppendNext /\ UNCHANGED NotAppend
  BY <1>5 DEF NotAppend
<1>6. CASE part = "batch" /\ BatchStep /\ UNCHANGED NotBatch
  BY <1>6 DEF NotBatch, NotLlm
<1>7. CASE part = "vectors" /\ EmbeddingStep /\ UNCHANGED <<NotLlm, batchVars, extractionVars>>
  BY <1>7 DEF NotLlm
<1>8. CASE part = "extraction" /\ ExtractionStep /\ UNCHANGED <<NotLlm, batchVars, embedVars>>
  BY <1>8 DEF NotLlm
<1>9. CASE part = "status" /\ StatusNext /\ UNCHANGED NotStatus
  BY <1>9 DEF NotStatus
<1>10. CASE part = "local" /\ LocalNext /\ UNCHANGED NotLocal
  BY <1>10 DEF NotLocal
<1>11. CASE UNCHANGED vars
  BY <1>11 DEF vars
<1>12. QED
  BY <1>1, <1>2, <1>3, <1>4, <1>5, <1>6, <1>7, <1>8, <1>9, <1>10, <1>11 DEF Next

SharedInv ==
    /\ EmbeddingTypeOK /\ ClusterTypeOK
    /\ AloneInv /\ SessionInv /\ AppendInv
    /\ BatchInv /\ VectorsInv /\ ExtractionInv
    /\ StatusInv /\ LocalInv

\* A step of any of them keeps within the bounds of the counters.
LEMMA CountersStay == SharedInv /\ [Next]_vars => CountersOK'
<1> SUFFICES ASSUME SharedInv, [Next]_vars PROVE CountersOK'
  OBVIOUS
<1> USE DEF SharedInv
<1>1. CASE EmbeddingNext
  BY <1>1, EmbeddingTypeNext DEF EmbeddingTypeOK
<1>2. CASE ClusterNext
  BY <1>2, ClusterTypeNext DEF ClusterTypeOK
<1>3. CASE ModelNext
  BY <1>3, AloneNext DEF AloneInv, ModelTypeOK
<1>4. CASE TrackerNext
  BY <1>4, SessionNext DEF SessionInv, TrackerTypeOK
<1>5. CASE AppendNext
  BY <1>5, AppendInvNext DEF AppendInv, FilesTyped
<1>6. CASE UNCHANGED counters
  BY <1>6 DEF counters, CountersOK, EmbeddingTypeOK
<1>7. UNCHANGED counters \/ EmbeddingNext \/ ClusterNext \/ ModelNext \/ TrackerNext \/ AppendNext
  BY DEF Next, vars, NotBatch, NotLlm, NotStatus, NotLocal
<1>8. QED
  BY <1>1, <1>2, <1>3, <1>4, <1>5, <1>6, <1>7

LEMMA SharedInvInit == Init => SharedInv
<1> SUFFICES ASSUME Init PROVE SharedInv
  OBVIOUS
<1>1. EmbeddingTypeOK /\ ClusterTypeOK
  BY EmbeddingTypeInit, ClusterTypeInit DEF Init
<1>2. AloneInv /\ SessionInv /\ AppendInv
  BY AloneInit, SessionInit, AppendInvInit DEF Init
<1>3. BatchInv /\ VectorsInv /\ ExtractionInv
  BY BatchInvInit, VectorsInvInit, ExtractionInvInit DEF Init
<1>4. StatusInv /\ LocalInv
  BY StatusInvInit, LocalInvInit DEF Init
<1>5. QED
  BY <1>1, <1>2, <1>3, <1>4 DEF SharedInv

LEMMA SharedInvNext == SharedInv /\ [Next]_vars => SharedInv'
<1> SUFFICES ASSUME SharedInv, [Next]_vars PROVE SharedInv'
  OBVIOUS
<1> USE DEF SharedInv
<1>0. CountersOK'
  BY CountersStay
<1>1. EmbeddingTypeOK'
  <2>1. CASE UNCHANGED embeddingVars
    BY <1>0, <2>1 DEF embeddingVars, EmbeddingTypeOK
  <2>2. QED
    BY <2>1, EachStep, EmbeddingTypeNext
<1>2. ClusterTypeOK'
  <2>1. CASE UNCHANGED clusterVars
    BY <1>0, <2>1 DEF clusterVars, ClusterTypeOK
  <2>2. QED
    BY <2>1, EachStep, ClusterTypeNext
<1>3. AloneInv'
  <2>1. CASE UNCHANGED modelVars
    <3>1. ModelTypeOK'
      BY <1>0, <2>1 DEF modelVars, AloneInv, ModelTypeOK
    <3>2. \A c \in Caller : (copyFailed[c] => modelAt[c] = "copy")'
                            /\ (path[c] = "local" => modelAt[c] = "returned")'
                            /\ (Knows(c)' <=> Knows(c))
      BY <2>1 DEF modelVars, AloneInv, Knows, WholeOrNone
    <3>3. Inside' = Inside /\ (WholeOrNone' <=> WholeOrNone) /\ UNCHANGED <<overlap, cutShort>>
      BY <2>1 DEF modelVars, Inside, WholeOrNone
    <3>4. QED
      BY <3>1, <3>2, <3>3 DEF AloneInv
  <2>2. QED
    BY <2>1, EachStep, AloneNext
<1>4. SessionInv'
  <2>1. CASE UNCHANGED trackerVars
    BY <1>0, <2>1 DEF trackerVars, SessionInv, TrackerTypeOK
  <2>2. QED
    BY <2>1, EachStep, SessionNext
<1>5. AppendInv'
  <2>1. CASE UNCHANGED appendVars
    <3>1. /\ UNCHANGED <<manager, files, writing, appended, again, reading, readAll,
                         expected, passedOver>>
          /\ FilesTyped /\ OnceInv /\ (manager = "s3" => Distinct(readAll))
      BY <2>1 DEF appendVars, AppendInv
    <3>2. FilesTyped'
      BY <1>0, <3>1 DEF FilesTyped
    <3>3. OnceInv'
      BY <3>1 DEF OnceInv, ToRead
    <3>4. (manager = "s3" => Distinct(readAll))'
      BY <3>1
    <3>5. QED
      BY <3>2, <3>3, <3>4 DEF AppendInv
  <2>2. QED
    BY <2>1, EachStep, AppendInvNext
<1>6. BatchInv' /\ VectorsInv' /\ ExtractionInv'
  BY EachStep, BatchInvNext, VectorsInvNext, ExtractionInvNext
<1>7. StatusInv' /\ LocalInv'
  BY EachStep, StatusInvNext, LocalInvNext
<1>8. QED
  BY <1>1, <1>2, <1>3, <1>4, <1>5, <1>6, <1>7

\* The state of every cache, file, call and run is of its type, whichever of them a
\* behaviour is about.
THEOREM ObjectsTypeCorrect == Spec => []TypeOK
<1>1. SharedInv => TypeOK
  BY AppendEnough, LlmTyped, StatusEnough, LocalEnough DEF SharedInv, TypeOK, AloneInv, SessionInv
<1>2. QED
  BY <1>1, SharedInvInit, SharedInvNext, PTL DEF Spec

\* What was asked for is what is handed on: a batch call that returns has each answer at
\* the item it answers, whatever requests failed and in whatever order they came; the rows
\* of the embedding asset have the vectors of their own chunks; assertions are not ahead
\* of their mentions; and a run that was seen has told what it did and what it lacks.
THEOREM AnswersAreKept == Spec => []AnswersKept
<1>1. SharedInv => AnswersKept
  BY BatchEnough, VectorsEnough, ExtractionEnough, StatusEnough DEF SharedInv, AnswersKept
<1>2. QED
  BY <1>1, SharedInvInit, SharedInvNext, PTL DEF Spec

\* What was stored under one name is found there: a cached model is whole to whoever was
\* alone with it, what a session has recorded stays recorded, a load has the events of all
\* runs, and an asset loads its own last output or a later one of an asset that the paths
\* do not tell from it.
THEOREM ObjectsAreFound == Spec => []ObjectsFound
<1>1. SharedInv => ObjectsFound
  BY AloneEnough, AppendEnough, LocalEnough DEF SharedInv, SessionInv, RecordedKept, ObjectsFound
<1>2. QED
  BY <1>1, SharedInvInit, SharedInvNext, PTL DEF Spec
====
