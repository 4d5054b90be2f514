---------------------------- MODULE ClusterCache ----------------------------
(***************************************************************************)
(* ClusterCache of dagster_io/cluster_cache.py: one JSON object per        *)
(* document, NER model and parameters.  get_or_compute holds a lock of the *)
(* process on the key from its read to its write.                          *)
(***************************************************************************)
EXTENDS Callers

CONSTANT Document   \* what a cache key is the hash of

ASSUME ClusterAssumption == None \notin Document \cup {"list", "dict"}

VARIABLES
    entries,    \* the shape of each stored entry: list is the old one
    clusterAt,  \* where each caller is in get_or_compute
    document,   \* the document it was called for
    keyLock,    \* per process and document: the thread that has the lock
    computed    \* history: how often each process has computed a document

clusterVars == <<entries, clusterAt, document, keyLock, computed>>

Shape == {"list", "dict"}

\* A bucket may hold entries of the old shape, which no code writes any more.
ClusterInit ==
    /\ entries \in [Document -> {None, "list"}]
    /\ clusterAt = [c \in Caller |-> "idle"]
    /\ document = [c \in Caller |-> None]
    /\ keyLock = [p \in Process |-> [d \in Document |-> None]]
    /\ computed = [p \in Process |-> [d \in Document |-> 0]]

ClusterCall(c, d) ==
    /\ clusterAt[c] = "idle"
    /\ OneCall
    /\ clusterAt' = [clusterAt EXCEPT ![c] = "called"]
    /\ document' = [document EXCEPT ![c] = d]
    /\ UNCHANGED <<entries, keyLock, computed>>

\* Variant: the lock is not waited for.
AnyTime(c) == TRUE

KeyFree(c) == keyLock[ProcessOf[c]][document[c]] = None

Locked(c, by) == [keyLock EXCEPT ![ProcessOf[c]][document[c]] = by]

Finish(c) == /\ clusterAt' = [clusterAt EXCEPT ![c] = "idle"]
             /\ document' = [document EXCEPT ![c] = None]

\* The lock, and a read that finds the entry, of either shape.
ClusterHit(c) ==
    /\ clusterAt[c] = "called"
    /\ KeyFree(c)
    /\ entries[document[c]] # None
    /\ Finish(c)
    /\ UNCHANGED <<entries, keyLock, computed, counters>>

\* The lock, and a read that finds nothing, or fails; compute_fn begins.
ClusterMiss(c) ==
    /\ clusterAt[c] = "called"
    /\ KeyFree(c)
    /\ IF entries[document[c]] = None THEN UNCHANGED counters ELSE Fault
    /\ keyLock' = Locked(c, c)
    /\ clusterAt' = [clusterAt EXCEPT ![c] = "compute"]
    /\ computed' = [computed EXCEPT ![ProcessOf[c]][document[c]] = @ + 1]
    /\ UNCHANGED <<entries, document>>

\* An entry is put in the new shape; a put that fails is logged and forgotten.
Put(d) == \/ entries' = [entries EXCEPT ![d] = "dict"] /\ UNCHANGED counters
          \/ UNCHANGED entries /\ Fault

ClusterWrite(c) ==
    /\ clusterAt[c] = "compute"
    /\ Put(document[c])
    /\ keyLock' = Locked(c, None)
    /\ Finish(c)
    /\ UNCHANGED computed

\* compute_fn raises: the with statement releases the lock.
ClusterRaises(c) ==
    /\ clusterAt[c] = "compute"
    /\ Fault
    /\ keyLock' = Locked(c, None)
    /\ Finish(c)
    /\ UNCHANGED <<entries, computed>>

KillCluster(p) ==
    LET C == {c \in Caller : ProcessOf[c] = p} IN
    /\ \E c \in C : clusterAt[c] # "idle"
    /\ Fault
    /\ clusterAt' = [c \in Caller |-> IF c \in C THEN "idle" ELSE clusterAt[c]]
    /\ document' = [c \in Caller |-> IF c \in C THEN None ELSE document[c]]
    /\ keyLock' = [keyLock EXCEPT ![p] = [d \in Document |-> None]]
    /\ UNCHANGED <<entries, computed>>

\* put, for a caller that has looked with get and computed by itself: no lock.
ClusterPut(d) ==
    /\ Put(d)
    /\ UNCHANGED <<clusterAt, document, keyLock, computed>>

ClusterStep(c) == ClusterHit(c) \/ ClusterMiss(c) \/ ClusterWrite(c)

ClusterNext ==
    \/ \E c \in Caller :
          \/ \E d \in Document : ClusterCall(c, d)
          \/ ClusterStep(c)
          \/ ClusterRaises(c)
    \/ \E d \in Document : ClusterPut(d)
    \/ \E p \in Process : KillCluster(p)

ClusterSpec == CallersInit /\ ClusterInit
               /\ [][ClusterNext]_<<clusterVars, counters>>

-----------------------------------------------------------------------------
(* Properties                                                              *)

ClusterTypeOK ==
    /\ CountersOK
    /\ entries \in [Document -> Shape \cup {None}]
    /\ clusterAt \in [Caller -> {"idle", "called", "compute"}]
    /\ document \in [Caller -> Document \cup {None}]
    /\ \A c \in Caller : clusterAt[c] = "idle" <=> document[c] = None
    /\ keyLock \in [Process -> [Document -> Caller \cup {None}]]
    /\ computed \in [Process -> [Document -> Nat]]

\* What get_or_compute says of its lock: "a single process won't compute the
\* same entry twice under concurrent load".  Only a failure of its own makes a
\* process compute an entry again.
SingleFlight == \A p \in Process, d \in Document : computed[p][d] <= 1 + faults
=============================================================================
