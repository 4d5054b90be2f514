--------------------------- MODULE EmbeddingCache ---------------------------
(***************************************************************************)
(* EmbeddingCache of dagster_io/embedding_cache.py, as EmbeddingResource   *)
(* (llm.py) uses it: the vectors of texts, kept in one parquet object per  *)
(* shard.  get_or_compute reads the shards of its texts, computes the      *)
(* vectors that are missing and puts them, each shard read, extended and   *)
(* put back under a lock that one process holds on the shard.              *)
(***************************************************************************)
EXTENDS Callers

CONSTANTS
    Key,            \* cache keys of texts: the hash of model, dimension, text
    Batch,          \* the sets of texts that are embedded together
    Shard,          \* the shards
    ShardOf,        \* the shard of each key
    InstructionOf   \* what the resource of each process puts before a text

ASSUME KeyAssumption == /\ ShardOf \in [Key -> Shard]
                        /\ Batch \subseteq SUBSET Key
                        /\ None \notin Shard
                        /\ None \notin {InstructionOf[p] : p \in Process}

VARIABLES
    rows,       \* the stored vectors, each named by the instruction in it
    embedAt,    \* where each caller is in get_or_compute
    texts,      \* the keys of the texts it was called with
    shards,     \* the shards it has still to read, or to put
    found,      \* the vectors it has, of the store or computed
    extending,  \* the shard it has locked
    base,       \* the rows of that shard as it has read them
    shardLock,  \* per process and shard: the thread that has the lock
    landed,     \* history: keys whose shard was put
    crossed,    \* history: shards two processes have been putting at once
    blind       \* history: shards put over a read that failed

embeddingVars == <<rows, embedAt, texts, shards, found, extending, base,
                   shardLock, landed, crossed, blind>>

Vector == {InstructionOf[p] : p \in Process} \cup {None}

Rows == [Key -> Vector]

NoVectors == [k \in Key |-> None]

EmbeddingInit ==
    /\ rows = NoVectors
    /\ embedAt = [c \in Caller |-> "idle"]
    /\ texts = [c \in Caller |-> {}]
    /\ shards = [c \in Caller |-> {}]
    /\ found = [c \in Caller |-> NoVectors]
    /\ extending = [c \in Caller |-> None]
    /\ base = [c \in Caller |-> NoVectors]
    /\ shardLock = [p \in Process |-> [s \in Shard |-> None]]
    /\ landed = {} /\ crossed = {} /\ blind = {}

In(s) == {k \in Key : ShardOf[k] = s}

ShardsOf(K) == {ShardOf[k] : k \in K}

Stored(s) == [k \in Key |-> IF ShardOf[k] = s THEN rows[k] ELSE None]

\* The rows of a shard as read_shard returns them: none when the request fails
\* or the object cannot be parsed, for whatever reason.
ReadShard(s, read) ==
    \/ read = Stored(s) /\ UNCHANGED counters
    \/ read = NoVectors /\ Stored(s) # NoVectors /\ Fault

EmbedCall(c, K) ==
    /\ embedAt[c] = "idle"
    /\ OneCall
    /\ embedAt' = [embedAt EXCEPT ![c] = "get"]
    /\ texts' = [texts EXCEPT ![c] = K]
    /\ shards' = [shards EXCEPT ![c] = ShardsOf(K)]
    /\ UNCHANGED <<rows, found, extending, base, shardLock, landed, crossed, blind>>

\* get: no lock is taken.
GetShard(c, s) ==
    /\ embedAt[c] = "get"
    /\ s \in shards[c]
    /\ \E read \in {NoVectors, Stored(s)} :
          /\ ReadShard(s, read)
          /\ found' = [found EXCEPT ![c] =
                          [k \in Key |-> IF k \in texts[c] \cap In(s) THEN read[k] ELSE @[k]]]
    /\ shards' = [shards EXCEPT ![c] = @ \ {s}]
    /\ UNCHANGED <<rows, embedAt, texts, extending, base, shardLock, landed, crossed,
                   blind>>

Misses(c) == {k \in texts[c] : found[c][k] = None}

\* Callers have their vectors, or an exception, or are no more.
Leave(C) ==
    /\ embedAt' = [c \in Caller |-> IF c \in C THEN "idle" ELSE embedAt[c]]
    /\ texts' = [c \in Caller |-> IF c \in C THEN {} ELSE texts[c]]
    /\ shards' = [c \in Caller |-> IF c \in C THEN {} ELSE shards[c]]
    /\ found' = [c \in Caller |-> IF c \in C THEN NoVectors ELSE found[c]]
    /\ extending' = [c \in Caller |-> IF c \in C THEN None ELSE extending[c]]
    /\ base' = [c \in Caller |-> IF c \in C THEN NoVectors ELSE base[c]]

\* All shards are read.  The misses are computed, the instruction of the
\* resource before each text, and put is called with them; texts stands for
\* the misses from here on, because only they are put.
Compute(c) ==
    /\ embedAt[c] = "get"
    /\ shards[c] = {}
    /\ Misses(c) # {}
    /\ embedAt' = [embedAt EXCEPT ![c] = "put"]
    /\ texts' = [texts EXCEPT ![c] = Misses(c)]
    /\ shards' = [shards EXCEPT ![c] = ShardsOf(Misses(c))]
    /\ found' = [found EXCEPT ![c] =
                    [k \in Key |-> IF k \in Misses(c) THEN InstructionOf[ProcessOf[c]] ELSE @[k]]]
    /\ UNCHANGED <<rows, extending, base, shardLock, landed, crossed, blind,
                   counters>>

\* Variant: the caller does not wait for the lock.
NoLock(c, s) == TRUE

LockFree(c, s) == shardLock[ProcessOf[c]][s] = None

\* put, the first half for one shard: the lock, and the rows that are there.
LockShard(c, s) ==
    /\ embedAt[c] = "put"
    /\ s \in shards[c]
    /\ LockFree(c, s)
    /\ shardLock' = [shardLock EXCEPT ![ProcessOf[c]][s] = c]
    /\ \E read \in {NoVectors, Stored(s)} :
          /\ ReadShard(s, read)
          /\ base' = [base EXCEPT ![c] = read]
          /\ blind' = IF read # Stored(s) THEN blind \cup {s} ELSE blind
    /\ extending' = [extending EXCEPT ![c] = s]
    /\ embedAt' = [embedAt EXCEPT ![c] = "extend"]
    /\ crossed' = IF \E p \in Process \ {ProcessOf[c]} : shardLock[p][s] # None
                  THEN crossed \cup {s} ELSE crossed
    /\ UNCHANGED <<rows, texts, shards, found, landed>>

\* existing.update(new_rows)
Extended(c, k) == IF k \in texts[c] THEN found[c][k] ELSE base[c][k]

\* Variant: an exception leaves the lock behind.
StaysLocked(C) == shardLock

\* The with statement, or the end of the process, releases what was locked.
Released(C) == [p \in Process |-> [s \in Shard |->
                   IF shardLock[p][s] \in C THEN None ELSE shardLock[p][s]]]

\* put, the second half: the shard is put back, the lock released.
PutShard(c, s) ==
    /\ embedAt[c] = "extend"
    /\ extending[c] = s
    /\ rows' = [k \in Key |-> IF ShardOf[k] = s THEN Extended(c, k) ELSE rows[k]]
    /\ landed' = landed \cup (texts[c] \cap In(s))
    /\ shardLock' = Released({c})
    /\ shards' = [shards EXCEPT ![c] = @ \ {s}]
    /\ extending' = [extending EXCEPT ![c] = None]
    /\ base' = [base EXCEPT ![c] = NoVectors]
    /\ embedAt' = [embedAt EXCEPT ![c] = "put"]
    /\ UNCHANGED <<texts, found, crossed, blind, counters>>

\* The vectors are returned in the order of the texts: full hits, or computed.
EmbedReturn(c) ==
    /\ \/ embedAt[c] = "get" /\ Misses(c) = {}
       \/ embedAt[c] = "put"
    /\ shards[c] = {}
    /\ Leave({c})
    /\ UNCHANGED <<rows, shardLock, landed, crossed, blind, counters>>

\* compute raises, or the put of a shard does; get never raises.
EmbedRaises(c) ==
    /\ \/ embedAt[c] = "get" /\ shards[c] = {} /\ Misses(c) # {}
       \/ embedAt[c] = "extend"
    /\ Fault
    /\ Leave({c})
    /\ shardLock' = Released({c})
    /\ UNCHANGED <<rows, landed, crossed, blind>>

\* A process is killed with all its threads.
KillEmbedding(p) ==
    LET C == {c \in Caller : ProcessOf[c] = p} IN
    /\ \E c \in C : embedAt[c] # "idle"
    /\ Fault
    /\ Leave(C)
    /\ shardLock' = Released(C)
    /\ UNCHANGED <<rows, landed, crossed, blind>>

EmbedStep(c) ==
    \/ \E s \in Shard : GetShard(c, s) \/ LockShard(c, s) \/ PutShard(c, s)
    \/ Compute(c) \/ EmbedReturn(c)

EmbeddingNext ==
    \/ \E c \in Caller :
          \/ \E K \in Batch : EmbedCall(c, K)
          \/ EmbedStep(c)
          \/ EmbedRaises(c)
    \/ \E p \in Process : KillEmbedding(p)

\* A thread that is not waiting for a lock goes on.
EmbeddingFairness == \A c \in Caller : WF_<<embeddingVars, counters>>(EmbedStep(c))

EmbeddingSpec == /\ CallersInit /\ EmbeddingInit
                 /\ [][EmbeddingNext]_<<embeddingVars, counters>>
                 /\ EmbeddingFairness

-----------------------------------------------------------------------------
(* Properties                                                              *)

EmbeddingTypeOK ==
    /\ CountersOK
    /\ rows \in Rows
    /\ embedAt \in [Caller -> {"idle", "get", "put", "extend"}]
    /\ texts \in [Caller -> SUBSET Key]
    /\ shards \in [Caller -> SUBSET Shard]
    /\ found \in [Caller -> Rows]
    /\ extending \in [Caller -> Shard \cup {None}]
    /\ base \in [Caller -> Rows]
    /\ shardLock \in [Process -> [Shard -> Caller \cup {None}]]
    /\ \A c \in Caller : embedAt[c] = "extend" =>
          extending[c] \in Shard /\ shardLock[ProcessOf[c]][extending[c]] = c
    /\ landed \subseteq Key /\ crossed \subseteq Shard /\ blind \subseteq Shard

\* A vector that was put stays in the cache, whatever its process or the
\* threads beside it do afterwards, unless two processes have extended its
\* shard at once or the read before a put has failed.
VectorsKept ==
    \A k \in landed : rows[k] # None \/ ShardOf[k] \in crossed \cup blind

\* Every call ends, with its vectors or with an exception: nobody is left
\* waiting for a lock.
EmbedCallsEnd == \A c \in Caller : embedAt[c] # "idle" ~> embedAt[c] = "idle"
=============================================================================
