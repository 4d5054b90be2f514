-------------------------- MODULE EventArchiveProofs --------------------------
(***************************************************************************)
(* Proofs about EventArchive, for every finite set of runs and partitions  *)
(* and every number of events and failures: type correctness, that the     *)
(* cache implements AuditLog, for which the set of the rows of a file is   *)
(* enough, and how often a row is in the files, the archive and an answer. *)
(***************************************************************************)
EXTENDS EventArchive, FiniteSetTheorems, TLAPS

USE RunAssumption, DocAssumption, BoundAssumption

Emitted == UNION {rows[v] : v \in Run}

-----------------------------------------------------------------------------
(* Bags and minima                                                         *)

LEMMA BagFacts ==
  /\ \A S : BagToSet(RowsOf(S)) = S
  /\ \A a, b : BagToSet(UnionAll(a, b)) = BagToSet(a) \cup BagToSet(b)
  /\ BagToSet(NoRows) = {}
BY DEF RowsOf, UnionAll, NoRows, SetToBag, BagToSet, EmptyBag, (+)

LEMMA MergedRows ==
  ASSUME NEW w
  PROVE  BagToSet(Merged(w)) = BagToSet(data[At(w)])
                               \cup UNION {BagToSet(shard[f]) : f \in Shards(w)}
BY DEF Merged, RowsOfShards, BagToSet

\* The partitions before n in a set shrink as n does, and such a chain of finite sets
\* has an end.
LEMMA LeastExists ==
  ASSUME NEW S \in SUBSET Doc, S # {}
  PROVE  Min(S) \in S
<1> DEFINE Before(x) == {y \in S : y < x}
           T == {Before(x) : x \in S}
<1>1. IsWellFoundedOn(StrictSubsetOrdering(Doc), FiniteSubsetsOf(Doc))
  BY FS_StrictSubsetOrderingWellFounded
<1>2. IsWellFoundedOn(StrictSubsetOrdering(Doc), SUBSET Doc)
  <2>1. FiniteSubsetsOf(Doc) = SUBSET Doc
    BY FS_FiniteSubsetsOfFinite
  <2>2. QED
    BY <1>1, <2>1
<1>3. S \subseteq Nat
  OBVIOUS
<1>4. /\ T \subseteq SUBSET Doc /\ T # {}
      /\ \A x \in S : Before(x) \in T
      /\ \A t \in T : \E x \in S : t = Before(x)
  <2>1. PICK x \in S : TRUE
    OBVIOUS
  <2>2. Before(x) \in T
    BY <2>1
  <2>3. QED
    BY <2>2
<1> HIDE DEF T
<1>5. PICK t \in T : \A u \in T : ~ (<<u, t>> \in StrictSubsetOrdering(Doc))
  <2> HIDE DEF Before
  <2>1. QED
    BY <1>2, <1>4, WFMin, Zenon
<1>6. PICK x \in S : t = Before(x)
  BY <1>4, <1>5
<1>7. ASSUME NEW y \in S, y < x PROVE FALSE
  <2>1. Before(y) \in T /\ Before(y) \in SUBSET Doc /\ t \in SUBSET Doc
    BY <1>4, <1>5, <1>7
  <2>2. Before(y) \subseteq t /\ y \in t /\ y \notin Before(y)
    <3>1. x \in Nat /\ y \in Nat /\ \A z \in S : z \in Nat
      BY <1>3
    <3>2. \A z \in Before(y) : z \in Before(x)
      BY <1>7, <3>1
    <3>3. y \in Before(x) /\ y \notin Before(y)
      BY <1>7, <3>1
    <3> HIDE DEF Before
    <3>4. QED
      BY <1>6, <3>2, <3>3
  <2>3. <<Before(y), t>> \in StrictSubsetOrdering(Doc)
    BY <2>1, <2>2 DEF StrictSubsetOrdering
  <2>4. QED
    BY <1>5, <2>1, <2>3
<1>8. \A y \in S : x <= y
  BY <1>3, <1>7
<1>9. QED
  BY <1>8 DEF Min

\* A consolidation with shards left is at a partition, and at one of its shards.
LEMMA AtShards ==
  ASSUME NEW w, work[w] \in SUBSET Shard, work[w] # {}
  PROVE  /\ At(w) \in Doc
         /\ Shards(w) # {} /\ Shards(w) \subseteq work[w] /\ Shards(w) \subseteq Shard
         /\ \A f \in Shards(w) : f[2] = At(w)
<1>1. {f[2] : f \in work[w]} \in SUBSET Doc /\ {f[2] : f \in work[w]} # {}
  BY DEF Shard
<1>2. At(w) \in {f[2] : f \in work[w]}
  BY <1>1, LeastExists DEF At
<1>3. QED
  BY <1>1, <1>2 DEF Shards

-----------------------------------------------------------------------------
(* Type correctness                                                        *)

ControlOK ==
    /\ phase \in [Run -> Phase]
    /\ cur \in [Run -> Doc \cup {0}]
    /\ work \in [Run -> SUBSET Shard] /\ todo \in [Run -> SUBSET Doc]
    /\ faults \in 0..MaxFaults
    /\ overlap \in BOOLEAN /\ cut \in BOOLEAN

\* A run numbers its rows and gives up only rows it has in memory.
MemoryOK ==
    /\ rows \in [Run -> SUBSET Row]
    /\ \A w \in Run : pending[w] \subseteq rows[w] \ lost
    /\ lost \subseteq Emitted
    /\ DOMAIN pending = Run
    /\ \A w \in Run : /\ IsFiniteSet(rows[w])
                      /\ \A r \in rows[w] : r.run = w /\ r.seq <= Cardinality(rows[w])

FilesOK ==
    /\ DOMAIN shard = Shard /\ DOMAIN archive = Shard
    /\ DOMAIN data = Doc /\ DOMAIN dtmp = Doc
    /\ \A f \in Shard :
          /\ BagToSet(shard[f]) \subseteq {r \in rows[f[1]] : r.doc = f[2]}
          /\ BagToSet(archive[f]) \subseteq {r \in Row : r.doc = f[2]}
    /\ torn \subseteq {f \in Shard : shard[f] = NoRows}
    /\ \A d \in Doc : /\ BagToSet(data[d]) \subseteq {r \in Emitted : r.doc = d}
                      /\ BagToSet(dtmp[d]) \subseteq {r \in Emitted : r.doc = d}

\* What the phases of a run rely on.
PlacesOK ==
    /\ DOMAIN stmp = Run
    /\ \A w \in Run :
          /\ phase[w] \in Flush => cur[w] \in Doc
          /\ phase[w] = "replacing" =>
                BagToSet(stmp[w]) \subseteq {r \in rows[w] : r.doc = cur[w]}
          /\ phase[w] \in {"copy", "rename", "unlink"} => work[w] # {}

TypeInv == ControlOK /\ MemoryOK /\ FilesOK /\ PlacesOK

LEMMA EmittedTyped ==
  ASSUME MemoryOK
  PROVE  /\ Emitted \subseteq Row
         /\ \A w \in Run : rows[w] \subseteq Emitted /\ pending[w] \subseteq rows[w]
         /\ \A r \in Emitted : r.run \in Run /\ r.doc \in Doc /\ r \in rows[r.run]
BY DEF MemoryOK, Emitted, Row

LEMMA TypeInvIsTypeOK == TypeInv => TypeOK
<1> SUFFICES ASSUME TypeInv PROVE TypeOK
  OBVIOUS
<1>1. ControlOK /\ MemoryOK /\ FilesOK
  BY DEF TypeInv
<1>2. \A d \in Doc : BagToSet(data[d]) \subseteq {r \in Row : r.doc = d}
  BY <1>1, EmittedTyped DEF FilesOK
<1>3. lost \subseteq UNION {rows[w] : w \in Run}
  BY <1>1 DEF MemoryOK, Emitted
<1>4. QED
  BY <1>1, <1>2, <1>3 DEF TypeOK, ControlOK, MemoryOK, FilesOK

LEMMA TypeInit == Init => TypeInv
<1> SUFFICES ASSUME Init PROVE TypeInv
  OBVIOUS
<1>1. ControlOK
  <2>1. "idle" \in Phase /\ 0 \in 0..MaxFaults
    BY DEF Phase
  <2>2. QED
    BY <2>1 DEF Init, ControlOK
<1>2. MemoryOK
  BY FS_EmptySet DEF Init, MemoryOK
<1>3. FilesOK
  BY BagFacts DEF Init, FilesOK
<1>4. PlacesOK
  BY DEF Init, PlacesOK, Flush
<1>5. QED
  BY <1>1, <1>2, <1>3, <1>4 DEF TypeInv

\* Steps that change no row and no file.
LEMMA QuietStep ==
  ASSUME TypeInv, UNCHANGED <<rows, pending, lost, fileVars, archive>>
  PROVE  MemoryOK' /\ FilesOK'
<1>1. Emitted' = Emitted
  BY DEF Emitted
<1>2. MemoryOK'
  BY <1>1 DEF TypeInv, MemoryOK
<1>3. FilesOK'
  BY <1>1 DEF TypeInv, FilesOK, fileVars
<1>4. QED
  BY <1>2, <1>3

\* Where a run goes to, with what that place relies on.
LEMMA GotoTyped ==
  ASSUME TypeInv, NEW w \in Run, NEW place \in Phase, Goto(w, place)
  PROVE  /\ phase' \in [Run -> Phase] /\ phase'[w] = place
         /\ \A v \in Run : v # w => phase'[v] = phase[v]
BY DEF TypeInv, ControlOK, Goto

LEMMA PhaseNames ==
  /\ Active = {"live", "upload", "merging", "creating", "replacing",
               "closed", "copy", "rename", "unlink"}
  /\ Phase = {"live", "upload", "merging", "creating", "replacing", "closed", "copy",
              "rename", "unlink", "idle", "done", "failed", "dead"}
BY DEF Phase, Active, Flush, Consolidate

LEMMA StartTyped ==
  ASSUME TypeInv, NEW w \in Run, Start(w) \/ Close(w) \/ Finish(w) \/ List(w) \/ EndRaises(w)
  PROVE  TypeInv'
<1> USE DEF TypeInv
<1>1. MemoryOK' /\ FilesOK'
  BY QuietStep DEF Start, Close, Finish, List, EndRaises, memVars, history
<1>2. ASSUME NEW place \in {"live", "closed", "done", "failed"}, Goto(w, place),
             UNCHANGED <<rows, memVars>>, faults' \in 0..MaxFaults,
             overlap' \in BOOLEAN, cut' \in BOOLEAN
      PROVE  ControlOK' /\ PlacesOK'
  <2>1. place \in Phase
    BY <1>2, PhaseNames
  <2>2. /\ phase' \in [Run -> Phase] /\ phase'[w] = place
        /\ \A v \in Run : v # w => phase'[v] = phase[v]
    BY <1>2, <2>1, GotoTyped
  <2>3. ControlOK'
    BY <1>2, <2>2 DEF ControlOK, memVars
  <2>4. PlacesOK'
    BY <1>2, <2>2 DEF PlacesOK, memVars, Flush
  <2>5. QED
    BY <2>3, <2>4
<1>3. CASE Start(w) \/ Close(w) \/ Finish(w)
  <2>1. /\ \E place \in {"live", "closed", "done", "failed"} : Goto(w, place)
        /\ UNCHANGED <<rows, memVars>>
        /\ faults' \in 0..MaxFaults /\ overlap' \in BOOLEAN /\ cut' \in BOOLEAN
    BY <1>3 DEF Start, Close, Finish, ControlOK, history
  <2>2. QED
    BY <1>1, <1>2, <2>1
<1>4. CASE EndRaises(w)
  <2>1. /\ Goto(w, "failed") /\ UNCHANGED <<rows, memVars>>
        /\ faults' \in 0..MaxFaults /\ overlap' \in BOOLEAN /\ cut' \in BOOLEAN
    BY <1>4 DEF EndRaises, ControlOK, Fault
  <2>2. QED
    BY <1>1, <1>2, <2>1
<1>5. CASE List(w)
  <2>1. OnDisk \subseteq Shard
    BY DEF OnDisk, FilesOK
  <2>2. {d \in Doc : data[d] # NoRows} \cup {f[2] : f \in OnDisk} \subseteq Doc
    BY <2>1 DEF Shard
  <2>3. /\ work' = [work EXCEPT ![w] = OnDisk]
        /\ todo' \in [Run -> SUBSET Doc]
        /\ UNCHANGED <<rows, pending, cur, stmp, faults, overlap, cut>>
    BY <1>5, <2>2 DEF List, ControlOK, history
  <2>4. PICK place \in {"copy", "upload"} :
            Goto(w, place) /\ (place = "copy" => OnDisk # {})
    BY <1>5 DEF List, NextPartition
  <2>5. place \in Phase
    BY PhaseNames
  <2>6. /\ phase' \in [Run -> Phase] /\ phase'[w] = place
        /\ \A v \in Run : v # w => phase'[v] = phase[v]
    BY <2>4, <2>5, GotoTyped
  <2>7. /\ work' \in [Run -> SUBSET Shard] /\ work'[w] = OnDisk
        /\ \A v \in Run : v # w => work'[v] = work[v]
    BY <2>1, <2>3 DEF ControlOK
  <2>8. ControlOK'
    BY <2>3, <2>6, <2>7 DEF ControlOK
  <2>9. PlacesOK'
    BY <2>3, <2>4, <2>6, <2>7 DEF PlacesOK, Flush
  <2>10. QED
    BY <1>1, <2>8, <2>9
<1>6. QED
  BY <1>3, <1>4, <1>5

LEMMA AppendTyped ==
  ASSUME TypeInv, NEW w \in Run, NEW d \in Doc, Append(w, d)
  PROVE  /\ TypeInv'
         /\ \E r \in Row \ Emitted : /\ Emitted' = Emitted \cup {r}
                                     /\ pending'[w] = pending[w] \cup {r}
         /\ \A v \in Run : v # w => pending'[v] = pending[v]
<1> USE DEF TypeInv
<1> DEFINE r == [run |-> w, doc |-> d, seq |-> Cardinality(rows[w]) + 1]
<1>1. /\ phase[w] = "live"
      /\ Cardinality(Emitted) < MaxEvents
      /\ rows' = [rows EXCEPT ![w] = @ \cup {r}]
      /\ pending' = [pending EXCEPT ![w] = @ \cup {r}]
      /\ UNCHANGED <<phase, cur, stmp, work, todo, fileVars, archive, faults, history>>
  BY DEF Append, Emitted
<1>2. IsFiniteSet(Emitted) /\ Cardinality(Emitted) \in Nat
  <2> DEFINE all == {rows[v] : v \in Run}
  <2>1. IsFiniteSet(all)
    <3> DEFINE f == [v \in Run |-> rows[v]]
    <3>1. f \in Surjection(Run, all)
      BY DEF Surjection
    <3> HIDE DEF all, f
    <3>2. QED
      BY <3>1, FS_Surjection
  <2>2. \A T \in all : IsFiniteSet(T)
    BY DEF MemoryOK
  <2> HIDE DEF all
  <2>3. IsFiniteSet(UNION all)
    BY <2>1, <2>2, FS_UNION
  <2>4. QED
    BY <2>3, FS_CardinalityType DEF Emitted, all
<1>3. rows[w] \in SUBSET Emitted /\ IsFiniteSet(rows[w])
  BY DEF Emitted, MemoryOK
<1>4. Cardinality(rows[w]) \in Nat /\ Cardinality(rows[w]) <= Cardinality(Emitted)
  BY <1>2, <1>3, FS_Subset, FS_CardinalityType
<1>5. r \in Row
  <2>1. Cardinality(rows[w]) + 1 \in 1..MaxEvents
    BY <1>1, <1>2, <1>4
  <2>2. QED
    BY <2>1 DEF Row
<1>6. r \notin rows[w]
  BY <1>4 DEF MemoryOK
<1>7. r \notin Emitted
  <2>1. ASSUME NEW v \in Run, r \in rows[v] PROVE FALSE
    <3>1. r.run = v /\ r.run = w
      BY <2>1 DEF MemoryOK
    <3>2. QED
      BY <1>6, <2>1, <3>1
  <2>2. QED
    BY <2>1 DEF Emitted
<1>8. /\ IsFiniteSet(rows[w] \cup {r})
      /\ Cardinality(rows[w] \cup {r}) = Cardinality(rows[w]) + 1
  BY <1>3, <1>6, FS_AddElement
<1> HIDE DEF r
<1>9. /\ rows'[w] = rows[w] \cup {r} /\ pending'[w] = pending[w] \cup {r}
      /\ \A v \in Run : v # w => rows'[v] = rows[v] /\ pending'[v] = pending[v]
      /\ DOMAIN pending' = Run
  BY <1>1 DEF MemoryOK
<1>10. Emitted' = Emitted \cup {r}
  <2>1. \A e : e \in Emitted' <=> \E v \in Run : e \in rows'[v]
    BY DEF Emitted
  <2>2. \A e : e \in Emitted <=> \E v \in Run : e \in rows[v]
    BY DEF Emitted
  <2>3. QED
    BY <1>9, <2>1, <2>2
<1>11. MemoryOK'
  <2>1. rows' \in [Run -> SUBSET Row]
    BY <1>1, <1>5 DEF MemoryOK
  <2>2. r \notin lost /\ lost' = lost
    BY <1>1, <1>7 DEF MemoryOK, history
  <2>3. \A v \in Run : pending'[v] \subseteq rows'[v] \ lost'
    BY <1>9, <2>2 DEF MemoryOK
  <2>4. lost' \subseteq Emitted'
    BY <1>10, <2>2 DEF MemoryOK
  <2>5. \A v \in Run : IsFiniteSet(rows'[v])
    BY <1>8, <1>9 DEF MemoryOK
  <2>6. ASSUME NEW v \in Run, NEW e \in rows'[v]
        PROVE  e.run = v /\ e.seq <= Cardinality(rows'[v])
    <3>1. CASE v # w
      BY <1>9, <2>6, <3>1 DEF MemoryOK
    <3>2. CASE v = w /\ e = r
      <4>1. r.run = w /\ r.seq = Cardinality(rows[w]) + 1
        BY DEF r
      <4>2. Cardinality(rows'[w]) = Cardinality(rows[w]) + 1
        BY <1>8, <1>9
      <4>3. QED
        BY <1>4, <3>2, <4>1, <4>2
    <3>3. CASE v = w /\ e \in rows[w]
      <4>1. e.run = w /\ e.seq <= Cardinality(rows[w]) /\ e.seq \in Nat
        BY <3>3 DEF MemoryOK, Row
      <4>2. Cardinality(rows'[w]) = Cardinality(rows[w]) + 1
        BY <1>8, <1>9
      <4>3. QED
        BY <1>4, <3>3, <4>1, <4>2
    <3>4. QED
      BY <1>9, <2>6, <3>1, <3>2, <3>3
  <2>7. QED
    BY <1>9, <2>1, <2>3, <2>4, <2>5, <2>6 DEF MemoryOK
<1>12. FilesOK'
  <2>1. \A v \in Run : rows[v] \subseteq rows'[v]
    BY <1>9
  <2>2. UNCHANGED <<shard, torn, data, dtmp, archive>>
    BY <1>1 DEF fileVars
  <2>3. \A f \in Shard : f[1] \in Run
    BY DEF Shard
  <2>4. QED
    BY <1>10, <2>1, <2>2, <2>3 DEF FilesOK
<1>13. ControlOK' /\ PlacesOK'
  BY <1>1, <1>9 DEF ControlOK, PlacesOK, history
<1>14. QED
  BY <1>5, <1>7, <1>9, <1>10, <1>11, <1>12, <1>13

\* A run takes rows out of its memory, and perhaps gives them up.
LEMMA DrainTyped ==
  ASSUME MemoryOK, NEW w \in Run, NEW S \in SUBSET pending[w], UNCHANGED rows,
         pending' = [pending EXCEPT ![w] = @ \ S], lost' = lost \/ lost' = lost \cup S
  PROVE  /\ MemoryOK' /\ Emitted' = Emitted
         /\ pending'[w] = pending[w] \ S
         /\ \A v \in Run : v # w => pending'[v] = pending[v]
<1>1. Emitted' = Emitted
  BY DEF Emitted
<1>2. /\ pending'[w] = pending[w] \ S /\ DOMAIN pending' = Run
      /\ \A v \in Run : v # w => pending'[v] = pending[v]
  BY DEF MemoryOK
<1>3. S \subseteq rows[w]
  BY DEF MemoryOK
<1>4. lost' \subseteq Emitted
  BY <1>3, EmittedTyped DEF MemoryOK
<1>5. \A v \in Run : pending'[v] \subseteq rows[v] \ lost'
  <2>1. ASSUME NEW v \in Run, NEW r \in pending'[v] PROVE r \in rows[v] /\ r \notin lost'
    <3>1. r \in rows[v] /\ r \notin lost /\ r.run = v
      BY <1>2, <2>1 DEF MemoryOK
    <3>2. r \notin S
      <4>1. CASE v = w
        BY <1>2, <2>1, <4>1
      <4>2. CASE v # w
        BY <1>3, <3>1, <4>2 DEF MemoryOK
      <4>3. QED
        BY <4>1, <4>2
    <3>3. QED
      BY <3>1, <3>2
  <2>2. QED
    BY <2>1
<1>6. MemoryOK'
  BY <1>1, <1>2, <1>4, <1>5 DEF MemoryOK
<1>7. QED
  BY <1>1, <1>2, <1>6

LEMMA DropTyped ==
  ASSUME MemoryOK, NEW w \in Run, DropRows(w), UNCHANGED rows
  PROVE  /\ MemoryOK' /\ Emitted' = Emitted
         /\ pending'[w] = {}
         /\ \A v \in Run : v # w => pending'[v] = pending[v]
<1>1. pending' = [pending EXCEPT ![w] = @ \ pending[w]]
  BY DEF DropRows
<1>2. lost' = lost \cup pending[w]
  BY DEF DropRows
<1>3. QED
  BY <1>1, <1>2, DrainTyped

LEMMA FlushTyped ==
  ASSUME TypeInv, NEW w \in Run,
         (\E d \in Doc : FlushBegin(w, d)) \/ MergeShard(w)
  PROVE  TypeInv'
<1> USE DEF TypeInv
<1>1. ASSUME NEW d \in Doc, FlushBegin(w, d) PROVE TypeInv'
  <2>1. PICK place \in {"merging", "creating"} : Goto(w, place)
    BY <1>1 DEF FlushBegin
  <2>2. place \in Phase
    BY PhaseNames
  <2>3. /\ phase' \in [Run -> Phase] /\ phase'[w] = place
        /\ \A v \in Run : v # w => phase'[v] = phase[v]
    BY <2>1, <2>2, GotoTyped
  <2>4. /\ cur' \in [Run -> Doc \cup {0}] /\ cur'[w] = d
        /\ \A v \in Run : v # w => cur'[v] = cur[v]
    BY <1>1 DEF FlushBegin, ControlOK
  <2>5. /\ UNCHANGED <<rows, pending, stmp, work, todo, shard, data, dtmp, archive,
                       faults, lost, overlap, cut>>
        /\ torn' = torn \/ (<<w, d>> \notin OnDisk /\ torn' = torn \cup {<<w, d>>})
    BY <1>1 DEF FlushBegin, history
  <2>6. torn' \subseteq {f \in Shard : shard[f] = NoRows}
    BY <2>5 DEF FilesOK, OnDisk, Shard
  <2>7. Emitted' = Emitted
    BY <2>5 DEF Emitted
  <2>8. MemoryOK' /\ FilesOK'
    BY <2>5, <2>6, <2>7 DEF MemoryOK, FilesOK
  <2>9. ControlOK' /\ PlacesOK'
    BY <2>3, <2>4, <2>5 DEF ControlOK, PlacesOK, Flush
  <2>10. QED
    BY <2>8, <2>9
<1>2. CASE MergeShard(w)
  <2>1. /\ UNCHANGED <<rows, pending, cur, work, todo, fileVars, archive, faults,
                       lost, overlap, cut>>
        /\ <<w, cur[w]>> \in OnDisk
        /\ stmp' = [stmp EXCEPT ![w] = UnionAll(shard[<<w, cur[w]>>],
                                                RowsOf(RowsFor(w, cur[w])))]
    BY <1>2 DEF MergeShard, history
  <2>2. MemoryOK' /\ FilesOK'
    BY <2>1, QuietStep
  <2>3. "replacing" \in Phase
    BY PhaseNames
  <2>4. /\ phase' \in [Run -> Phase] /\ phase'[w] = "replacing"
        /\ \A v \in Run : v # w => phase'[v] = phase[v]
    BY <1>2, <2>3, GotoTyped DEF MergeShard
  <2>5. cur[w] \in Doc /\ <<w, cur[w]>> \in Shard
    BY <1>2 DEF MergeShard, PlacesOK, Flush, Shard
  <2>6. /\ stmp'[w] = UnionAll(shard[<<w, cur[w]>>], RowsOf(RowsFor(w, cur[w])))
        /\ \A v \in Run : v # w => stmp'[v] = stmp[v]
        /\ DOMAIN stmp' = Run
    BY <2>1 DEF PlacesOK
  <2>7. BagToSet(stmp'[w]) \subseteq {r \in rows[w] : r.doc = cur[w]}
    <3>1. BagToSet(stmp'[w]) = BagToSet(shard[<<w, cur[w]>>]) \cup RowsFor(w, cur[w])
      BY <2>6, BagFacts
    <3>2. BagToSet(shard[<<w, cur[w]>>]) \subseteq {r \in rows[w] : r.doc = cur[w]}
      BY <2>5 DEF FilesOK
    <3>3. RowsFor(w, cur[w]) \subseteq {r \in rows[w] : r.doc = cur[w]}
      BY DEF RowsFor, MemoryOK
    <3>4. QED
      BY <3>1, <3>2, <3>3
  <2>8. ControlOK' /\ PlacesOK'
    BY <2>1, <2>4, <2>5, <2>6, <2>7 DEF ControlOK, PlacesOK, Flush
  <2>9. QED
    BY <2>2, <2>8
<1>3. QED
  BY <1>1, <1>2

LEMMA FlushDoneTyped ==
  ASSUME TypeInv, NEW w \in Run, ReplaceShard(w) \/ FinishShard(w)
  PROVE  TypeInv'
<1> USE DEF TypeInv
<1> DEFINE f == <<w, cur[w]>>
           S == RowsFor(w, cur[w])
<1>1. cur[w] \in Doc /\ f \in Shard
  BY DEF ReplaceShard, FinishShard, PlacesOK, Flush, Shard
<1>2. FlushDone(w)
  BY DEF ReplaceShard, FinishShard
<1>3. /\ torn' = torn \ {f}
      /\ pending' = [pending EXCEPT ![w] = @ \ S]
      /\ Goto(w, "live")
      /\ UNCHANGED <<rows, cur, stmp, work, todo, data, dtmp, archive, faults, overlap, cut>>
  BY <1>2 DEF FlushDone
<1>4. S \in SUBSET pending[w] /\ S \subseteq {r \in rows[w] : r.doc = cur[w]}
  BY DEF RowsFor, MemoryOK
<1>5. lost' = lost \/ lost' = lost \cup S
  BY DEF ReplaceShard, FinishShard
<1>6. MemoryOK' /\ Emitted' = Emitted
  BY <1>3, <1>4, <1>5, DrainTyped
<1>7. "live" \in Phase
  BY PhaseNames
<1>8. /\ phase' \in [Run -> Phase] /\ phase'[w] = "live"
      /\ \A v \in Run : v # w => phase'[v] = phase[v]
  BY <1>3, <1>7, GotoTyped
<1>9. ControlOK' /\ PlacesOK'
  BY <1>3, <1>8 DEF ControlOK, PlacesOK, Flush
<1>10. /\ DOMAIN shard' = Shard
       /\ \A g \in Shard : g # f => shard'[g] = shard[g]
       /\ BagToSet(shard'[f]) \subseteq {r \in rows[w] : r.doc = cur[w]}
  <2>1. CASE ReplaceShard(w)
    <3>1. shard' = [shard EXCEPT ![f] = stmp[w]] /\ phase[w] = "replacing"
      BY <2>1 DEF ReplaceShard
    <3>2. QED
      BY <1>1, <3>1 DEF FilesOK, PlacesOK
  <2>2. CASE FinishShard(w)
    <3>1. shard' = shard \/ shard' = [shard EXCEPT ![f] = RowsOf(S)]
      BY <2>2 DEF FinishShard
    <3>2. BagToSet(shard[f]) \subseteq {r \in rows[w] : r.doc = cur[w]}
      BY <1>1 DEF FilesOK
    <3>3. BagToSet(RowsOf(S)) = S
      BY BagFacts
    <3> HIDE DEF f, S
    <3>4. QED
      BY <1>1, <1>4, <3>1, <3>2, <3>3 DEF FilesOK
  <2>3. QED
    BY <2>1, <2>2
<1>11. torn' \subseteq {g \in Shard : shard'[g] = NoRows}
  <2> HIDE DEF f
  <2>1. QED
    BY <1>3, <1>10 DEF FilesOK
<1>12. \A g \in Shard : BagToSet(shard'[g]) \subseteq {r \in rows[g[1]] : r.doc = g[2]}
  <2>1. ASSUME NEW g \in Shard, g # f
        PROVE  BagToSet(shard'[g]) \subseteq {r \in rows[g[1]] : r.doc = g[2]}
    BY <1>10, <2>1 DEF FilesOK
  <2>2. f[1] = w /\ f[2] = cur[w]
    OBVIOUS
  <2> HIDE DEF f
  <2>3. BagToSet(shard'[f]) \subseteq {r \in rows[f[1]] : r.doc = f[2]}
    BY <1>10, <2>2
  <2>4. QED
    BY <2>1, <2>3
<1>13. FilesOK'
  BY <1>3, <1>6, <1>10, <1>11, <1>12 DEF FilesOK
<1>14. QED
  BY <1>6, <1>9, <1>13

LEMMA DropsTyped ==
  ASSUME TypeInv, NEW w \in Run, FlushRaises(w) \/ Crash(w)
  PROVE  TypeInv'
<1> USE DEF TypeInv
<1>1. /\ DropRows(w)
      /\ UNCHANGED <<rows, cur, stmp, work, todo, fileVars, archive, overlap>>
      /\ \E place \in {"live", "failed", "dead"} : Goto(w, place)
      /\ faults' \in 0..MaxFaults /\ cut' \in BOOLEAN
  <2>1. CASE FlushRaises(w)
    <3>1. faults' \in 0..MaxFaults
      BY <2>1 DEF FlushRaises, ControlOK, Fault
    <3>2. \E place \in {"live", "failed"} : Goto(w, place)
      BY <2>1 DEF FlushRaises
    <3>3. QED
      BY <2>1, <3>1, <3>2 DEF FlushRaises, ControlOK
  <2>2. CASE Crash(w)
    <3>1. cut' \in BOOLEAN
      BY <2>2, Zenon DEF Crash, ControlOK
    <3>2. QED
      BY <2>2, <3>1 DEF Crash, ControlOK
  <2>3. QED
    BY <2>1, <2>2
<1>2. MemoryOK' /\ Emitted' = Emitted
  BY <1>1, DropTyped
<1>3. FilesOK'
  BY <1>1, <1>2 DEF FilesOK, fileVars
<1>4. PICK place \in {"live", "failed", "dead"} : Goto(w, place)
  BY <1>1
<1>5. place \in Phase
  BY PhaseNames
<1>6. /\ phase' \in [Run -> Phase] /\ phase'[w] = place
      /\ \A v \in Run : v # w => phase'[v] = phase[v]
  BY <1>4, <1>5, GotoTyped
<1>7. ControlOK' /\ PlacesOK'
  BY <1>1, <1>6 DEF ControlOK, PlacesOK, Flush
<1>8. QED
  BY <1>2, <1>3, <1>7

\* In the phases of a merge the run is at a partition and has shards of it left.
LEMMA AtPartition ==
  ASSUME TypeInv, NEW w \in Run, phase[w] \in {"copy", "rename", "unlink"}
  PROVE  /\ At(w) \in Doc
         /\ Shards(w) # {} /\ Shards(w) \subseteq work[w] /\ Shards(w) \subseteq Shard
         /\ \A f \in Shards(w) : f[2] = At(w)
<1>1. work[w] \in SUBSET Shard /\ work[w] # {}
  BY DEF TypeInv, ControlOK, PlacesOK
<1>2. QED
  BY <1>1, AtShards

LEMMA MergedTyped ==
  ASSUME TypeInv, NEW w \in Run, phase[w] \in {"copy", "rename", "unlink"}
  PROVE  BagToSet(Merged(w)) \subseteq {r \in Emitted : r.doc = At(w)}
<1>1. /\ At(w) \in Doc /\ Shards(w) \subseteq Shard
      /\ \A f \in Shards(w) : f[2] = At(w)
  BY AtPartition
<1>2. BagToSet(data[At(w)]) \subseteq {r \in Emitted : r.doc = At(w)}
  BY <1>1 DEF TypeInv, FilesOK
<1>3. ASSUME NEW f \in Shards(w)
      PROVE  BagToSet(shard[f]) \subseteq {r \in Emitted : r.doc = At(w)}
  <2>1. f \in Shard /\ f[1] \in Run /\ f[2] = At(w)
    BY <1>1 DEF Shard
  <2>2. BagToSet(shard[f]) \subseteq {r \in rows[f[1]] : r.doc = f[2]}
    BY <2>1 DEF TypeInv, FilesOK
  <2>3. QED
    BY <2>1, <2>2 DEF Emitted
<1>4. QED
  BY <1>2, <1>3, MergedRows

LEMMA MergeTyped ==
  ASSUME TypeInv, NEW w \in Run, CopyMerged(w) \/ ReplaceData(w)
  PROVE  TypeInv'
<1> USE DEF TypeInv
<1>1. phase[w] \in {"copy", "rename"} /\ work[w] # {}
  BY DEF CopyMerged, ReplaceData, PlacesOK
<1>2. At(w) \in Doc
  BY <1>1, AtPartition
<1>3. /\ UNCHANGED <<rows, memVars, shard, torn, archive, faults, lost, overlap, cut>>
      /\ \E place \in {"rename", "unlink"} : Goto(w, place)
  BY DEF CopyMerged, ReplaceData, history
<1>4. Emitted' = Emitted
  BY <1>3 DEF Emitted
<1>5. /\ DOMAIN data' = Doc /\ DOMAIN dtmp' = Doc
      /\ \A d \in Doc : /\ BagToSet(data'[d]) \subseteq {r \in Emitted : r.doc = d}
                        /\ BagToSet(dtmp'[d]) \subseteq {r \in Emitted : r.doc = d}
  <2>1. CASE CopyMerged(w)
    <3>1. data' = data /\ dtmp' = [dtmp EXCEPT ![At(w)] = Merged(w)]
      BY <2>1 DEF CopyMerged
    <3>2. BagToSet(Merged(w)) \subseteq {r \in Emitted : r.doc = At(w)}
      BY <1>1, MergedTyped
    <3>3. QED
      BY <1>2, <3>1, <3>2 DEF FilesOK
  <2>2. CASE ReplaceData(w)
    <3>1. /\ data' = [data EXCEPT ![At(w)] = dtmp[At(w)]]
          /\ dtmp' = [dtmp EXCEPT ![At(w)] = NoRows]
      BY <2>2 DEF ReplaceData
    <3>2. QED
      BY <1>2, <3>1, BagFacts DEF FilesOK
  <2>3. QED
    BY <2>1, <2>2
<1>6. FilesOK'
  BY <1>3, <1>4, <1>5 DEF FilesOK
<1>7. MemoryOK'
  BY <1>3, <1>4 DEF MemoryOK, memVars
<1>8. PICK place \in {"rename", "unlink"} : Goto(w, place)
  BY <1>3
<1>9. place \in Phase
  BY PhaseNames
<1>10. /\ phase' \in [Run -> Phase] /\ phase'[w] = place
       /\ \A v \in Run : v # w => phase'[v] = phase[v]
  BY <1>8, <1>9, GotoTyped
<1>11. ControlOK' /\ PlacesOK'
  BY <1>1, <1>3, <1>10 DEF ControlOK, PlacesOK, memVars, Flush
<1>12. QED
  BY <1>6, <1>7, <1>11

\* The next place of a consolidation that has removed a shard.
LEMMA UnlinkTyped ==
  ASSUME TypeInv, NEW w \in Run, Unlink(w)
  PROVE  TypeInv'
<1> USE DEF TypeInv
<1>1. phase[w] = "unlink"
  BY DEF Unlink
<1>2. PICK f \in Shards(w) :
          /\ RemoveShard(f)
          /\ work' = [work EXCEPT ![w] = @ \ {f}]
          /\ Goto(w, IF Shards(w) = {f} THEN NextPartition(work[w] \ {f}) ELSE "unlink")
  BY DEF Unlink
<1>3. /\ UNCHANGED <<rows, pending, cur, stmp, todo, data, dtmp, archive, faults,
                     lost, overlap, cut>>
  BY DEF Unlink, history
<1>4. f \in Shard /\ f \in work[w] /\ Shards(w) \subseteq work[w]
  BY <1>1, AtPartition
<1>5. PICK place \in {"copy", "upload", "unlink"} :
          Goto(w, place) /\ (place # "upload" => work[w] \ {f} # {})
  <2>1. CASE Shards(w) = {f}
    BY <1>2, <2>1 DEF NextPartition
  <2>2. CASE Shards(w) # {f}
    <3>1. work[w] \ {f} # {}
      BY <1>4, <2>2
    <3>2. QED
      BY <1>2, <2>2, <3>1
  <2>3. QED
    BY <2>1, <2>2
<1>6. place \in Phase
  BY PhaseNames
<1>7. /\ phase' \in [Run -> Phase] /\ phase'[w] = place
      /\ \A v \in Run : v # w => phase'[v] = phase[v]
  BY <1>5, <1>6, GotoTyped
<1>8. /\ work' \in [Run -> SUBSET Shard] /\ work'[w] = work[w] \ {f}
      /\ \A v \in Run : v # w => work'[v] = work[v]
  BY <1>2 DEF ControlOK
<1>9. ControlOK'
  BY <1>3, <1>7, <1>8 DEF ControlOK
<1>10. PlacesOK'
  BY <1>3, <1>5, <1>7, <1>8 DEF PlacesOK, Flush
<1>11. Emitted' = Emitted
  BY <1>3 DEF Emitted
<1>12. /\ DOMAIN shard' = Shard /\ shard'[f] = NoRows
       /\ \A g \in Shard : g # f => shard'[g] = shard[g]
       /\ torn' = torn \ {f}
  BY <1>2, <1>4 DEF RemoveShard, FilesOK
<1>13. \A g \in Shard : /\ BagToSet(shard'[g]) \subseteq BagToSet(shard[g])
                        /\ shard[g] = NoRows => shard'[g] = NoRows
  BY <1>12, BagFacts
<1>14. FilesOK'
  BY <1>3, <1>11, <1>12, <1>13 DEF FilesOK
<1>15. MemoryOK'
  BY <1>3, <1>11 DEF MemoryOK
<1>16. QED
  BY <1>9, <1>10, <1>14, <1>15

LEMMA UploadTyped ==
  ASSUME TypeInv, NEW w \in Run, Upload(w)
  PROVE  TypeInv'
<1> USE DEF TypeInv
<1> DEFINE d == Min(todo[w])
<1>1. todo[w] \in SUBSET Doc /\ todo[w] # {}
  BY DEF Upload, ControlOK
<1>2. d \in Doc
  BY <1>1, LeastExists
<1>3. /\ todo' = [todo EXCEPT ![w] = @ \ {d}]
      /\ archive' = archive \/ archive' = [archive EXCEPT ![<<w, d>>] = data[d]]
      /\ UNCHANGED <<phase, rows, pending, cur, stmp, work, fileVars, faults, history>>
  BY DEF Upload
<1> HIDE DEF d
<1>4. ControlOK' /\ MemoryOK' /\ PlacesOK' /\ Emitted' = Emitted
  <2>1. Emitted' = Emitted
    BY <1>3 DEF Emitted
  <2>2. QED
    BY <1>3, <2>1 DEF ControlOK, MemoryOK, PlacesOK, history
<1>5. DOMAIN archive' = Shard
      /\ \A f \in Shard : BagToSet(archive'[f]) \subseteq {r \in Row : r.doc = f[2]}
  <2>1. BagToSet(data[d]) \subseteq {r \in Row : r.doc = d}
    BY <1>2, EmittedTyped DEF FilesOK
  <2>2. ASSUME NEW f \in Shard
        PROVE  BagToSet(archive'[f]) \subseteq {r \in Row : r.doc = f[2]}
    <3>1. CASE archive'[f] = archive[f]
      BY <3>1 DEF FilesOK
    <3>2. CASE f = <<w, d>> /\ archive'[f] = data[d]
      BY <2>1, <3>2
    <3>3. QED
      BY <1>3, <3>1, <3>2 DEF FilesOK
  <2>3. QED
    BY <1>3, <2>2 DEF FilesOK
<1>6. FilesOK'
  BY <1>3, <1>4, <1>5 DEF FilesOK, fileVars
<1>7. QED
  BY <1>4, <1>6

LEMMA TypeNext == TypeInv /\ [Next]_vars => TypeInv'
<1> SUFFICES ASSUME TypeInv, [Next]_vars PROVE TypeInv'
  OBVIOUS
<1>1. CASE UNCHANGED vars
  <2>1. UNCHANGED <<phase, rows, memVars, fileVars, archive, faults, history>>
    BY <1>1 DEF vars
  <2>2. MemoryOK' /\ FilesOK'
    BY <2>1, QuietStep DEF memVars, history
  <2>3. ControlOK' /\ PlacesOK'
    BY <2>1 DEF TypeInv, ControlOK, PlacesOK, memVars, history
  <2>4. QED
    BY <2>2, <2>3 DEF TypeInv
<1>2. ASSUME NEW w \in Run, NEW d \in Doc, Append(w, d) PROVE TypeInv'
  BY <1>2, AppendTyped
<1>3. QED
  BY <1>1, <1>2, StartTyped, FlushTyped, FlushDoneTyped, DropsTyped, MergeTyped,
     UnlinkTyped, UploadTyped
  DEF Next, EndStep

\* Every variable of the archive keeps its type: a file holds only rows of its run and
\* partition that were appended, a shard without a footer holds none, and what a run
\* has in memory it has not given up.
THEOREM ArchiveTypeCorrect == Spec => []TypeOK
<1>1. QED
  BY TypeInit, TypeNext, TypeInvIsTypeOK, PTL DEF Spec

-----------------------------------------------------------------------------
(* The cache implements AuditLog                                           *)

\* As long as runs do not overlap one is active at a time.
OneActive ==
    ~overlap => \A v, w \in Run : phase[v] \in Active /\ phase[w] \in Active => v = w

\* What is in the memory of a run is in no file that is read.
MemoryApart == ~overlap => \A w \in Run : pending[w] \cap Durable = {}

\* A tmp file that is to replace a file has what that file has, and what is to be
\* removed is in the file that has replaced it.
Exact(w) ==
    /\ phase[w] = "replacing" =>
          BagToSet(stmp[w]) = BagToSet(shard[<<w, cur[w]>>]) \cup RowsFor(w, cur[w])
    /\ phase[w] = "rename" =>
          BagToSet(dtmp[At(w)]) = BagToSet(data[At(w)])
                                  \cup UNION {BagToSet(shard[f]) : f \in Shards(w)}
    /\ phase[w] = "unlink" =>
          \A f \in Shards(w) : BagToSet(shard[f]) \subseteq BagToSet(data[At(w)])

LogInv == /\ TypeInv /\ OneActive /\ MemoryApart
          /\ ~overlap => \A w \in Run : Exact(w)

LEMMA LogInit == Init => LogInv /\ Log!Init
<1> SUFFICES ASSUME Init PROVE LogInv /\ Log!Init
  OBVIOUS
<1>1. TypeInv
  BY TypeInit
<1>2. \A w \in Run : phase[w] = "idle" /\ pending[w] = {}
  BY DEF Init
<1>3. OneActive /\ MemoryApart /\ \A w \in Run : Exact(w)
  <2>1. "idle" \notin Active
    BY PhaseNames
  <2>2. QED
    BY <1>2, <2>1 DEF OneActive, MemoryApart, Exact
<1>4. Durable = {}
  <2>1. /\ \A f \in Shard : shard[f] = NoRows
        /\ \A d \in Doc : data[d] = NoRows
    BY DEF Init
  <2>2. QED
    BY <2>1, BagFacts DEF Durable
<1>5. UNION {rows[w] : w \in Run} = {}
  BY DEF Init
<1>6. lost = {} /\ ~overlap
  BY DEF Init
<1>7. Log!Init
  BY <1>4, <1>5, <1>6 DEF Log!Init
<1>8. QED
  BY <1>1, <1>3, <1>7 DEF LogInv

LEMMA DurableRows ==
  \A r : r \in Durable <=> \/ \E f \in Shard : r \in BagToSet(shard[f])
                           \/ \E d \in Doc : r \in BagToSet(data[d])
<1>1. \A r : r \in UNION {BagToSet(shard[f]) : f \in Shard}
             <=> \E f \in Shard : r \in BagToSet(shard[f])
  OBVIOUS
<1>2. \A r : r \in UNION {BagToSet(data[d]) : d \in Doc}
             <=> \E d \in Doc : r \in BagToSet(data[d])
  OBVIOUS
<1> DEFINE A == UNION {BagToSet(shard[f]) : f \in Shard}
           B == UNION {BagToSet(data[d]) : d \in Doc}
<1>3. Durable = A \cup B
  BY DEF Durable
<1> HIDE DEF A, B
<1>4. \A r : r \in Durable <=> r \in A \/ r \in B
  BY <1>3
<1>5. QED
  BY <1>1, <1>2, <1>4 DEF A, B

LEMMA DurableTyped == TypeInv => Durable \subseteq Emitted
<1> SUFFICES ASSUME TypeInv, NEW r \in Durable PROVE r \in Emitted
  OBVIOUS
<1>1. ASSUME NEW f \in Shard, r \in BagToSet(shard[f]) PROVE r \in Emitted
  <2>1. f[1] \in Run
    BY DEF Shard
  <2>2. r \in rows[f[1]]
    BY <1>1 DEF TypeInv, FilesOK
  <2>3. QED
    BY <2>1, <2>2 DEF Emitted
<1>2. ASSUME NEW d \in Doc, r \in BagToSet(data[d]) PROVE r \in Emitted
  BY <1>2 DEF TypeInv, FilesOK
<1>3. QED
  BY <1>1, <1>2, DurableRows

\* Once runs have overlapped nothing is promised of the files.
LEMMA OverlapStep ==
  ASSUME TypeInv', overlap', TypeInv, Emitted' = Emitted, Durable' \subseteq Emitted'
  PROVE  LogInv' /\ [Log!Next]_(Log!vars)
<1>1. lost' \subseteq Emitted'
  BY DEF TypeInv, MemoryOK
<1>2. (~overlap)' = FALSE
  BY DEF TypeInv, ControlOK
<1>3. Log!Disorder
  BY <1>1, <1>2 DEF Log!Disorder, Emitted
<1>4. LogInv'
  BY DEF LogInv, OneActive, MemoryApart
<1>5. QED
  BY <1>3, <1>4 DEF Log!Next

\* A step of the one active run keeps what it establishes for that run.
LEMMA ActiveStep ==
  ASSUME LogInv, TypeInv', NEW w \in Run, phase[w] \in Active, ~overlap,
         UNCHANGED overlap, \A v \in Run : v # w => phase'[v] = phase[v],
         Exact(w)', MemoryApart'
  PROVE  LogInv'
<1>1. \A v \in Run : v # w => phase[v] \notin Active
  BY DEF LogInv, OneActive
<1>2. OneActive'
  BY <1>1 DEF OneActive, Active, Flush, Consolidate
<1>3. ASSUME NEW v \in Run PROVE Exact(v)'
  <2>1. CASE v = w
    BY <2>1
  <2>2. CASE v # w
    BY <1>1, <2>2, PhaseNames DEF Exact
  <2>3. QED
    BY <2>1, <2>2
<1>4. QED
  BY <1>2, <1>3 DEF LogInv

\* A step that leaves what can be read, emitted and given up as it is.
LEMMA QuietLog ==
  ASSUME LogInv, UNCHANGED <<rows, pending, lost, overlap, Durable>>
  PROVE  MemoryApart' /\ [Log!Next]_(Log!vars)
<1>1. MemoryApart'
  BY DEF LogInv, MemoryApart
<1>2. UNCHANGED Log!vars
  BY DEF Log!vars
<1>3. QED
  BY <1>1, <1>2

LEMMA PhaseKept ==
  ASSUME TypeInv, NEW w \in Run, NEW place, Goto(w, place)
  PROVE  phase'[w] = place /\ \A v \in Run : v # w => phase'[v] = phase[v]
BY DEF TypeInv, ControlOK, Goto

LEMMA StartLogs ==
  ASSUME LogInv, TypeInv', Durable' \subseteq Emitted', NEW w \in Run, Start(w)
  PROVE  LogInv' /\ [Log!Next]_(Log!vars)
<1> USE DEF LogInv
<1>1. /\ UNCHANGED <<rows, memVars, fileVars, archive, faults, lost, cut>>
      /\ overlap' = (overlap \/ \E v \in Run : phase[v] \in Active)
      /\ Goto(w, "live")
  BY DEF Start
<1>2. Emitted' = Emitted
  BY <1>1 DEF Emitted
<1>3. CASE overlap'
  BY <1>2, <1>3, OverlapStep
<1>4. CASE ~overlap'
  <2>1. ~overlap /\ \A v \in Run : phase[v] \notin Active
    BY <1>1, <1>4, Zenon
  <2>2. UNCHANGED <<rows, pending, lost, Durable>>
    BY <1>1 DEF memVars, fileVars, Durable
  <2>3. overlap' = overlap
    BY <1>4, <2>1 DEF TypeInv, ControlOK
  <2>4. MemoryApart' /\ [Log!Next]_(Log!vars)
    BY <2>2, <2>3, QuietLog
  <2>5. phase'[w] = "live" /\ \A v \in Run : v # w => phase'[v] = phase[v]
    BY <1>1, PhaseKept
  <2>6. OneActive'
    BY <2>1, <2>5 DEF OneActive, Active, Flush, Consolidate
  <2>7. \A v \in Run : Exact(v)'
    BY <2>1, <2>5, PhaseNames DEF Exact
  <2>8. QED
    BY <2>4, <2>6, <2>7
<1>5. QED
  BY <1>3, <1>4

\* Steps of the active run that read no file and change none that is read.
LEMMA QuietLogs ==
  ASSUME LogInv, TypeInv', ~overlap, NEW w \in Run,
         \/ Close(w) \/ List(w) \/ Upload(w) \/ Finish(w) \/ EndRaises(w)
         \/ \E d \in Doc : FlushBegin(w, d)
  PROVE  LogInv' /\ [Log!Next]_(Log!vars)
<1>1. /\ phase[w] \in {"live", "closed", "copy", "rename", "unlink", "upload"}
      /\ UNCHANGED <<rows, pending, shard, data, lost, overlap>>
      /\ \/ Upload(w)
         \/ \E place \in {"closed", "copy", "upload", "done", "failed", "merging",
                          "creating"} : Goto(w, place)
  <2>1. CASE Close(w) \/ Finish(w)
    BY <2>1 DEF Close, Finish, Flushed, memVars, fileVars, history
  <2>2. CASE List(w)
    BY <2>2 DEF List, NextPartition, fileVars, history
  <2>3. CASE Upload(w)
    BY <2>3 DEF Upload, fileVars, history
  <2>4. CASE EndRaises(w)
    BY <2>4 DEF EndRaises, Consolidate, memVars, fileVars
  <2>5. CASE \E d \in Doc : FlushBegin(w, d)
    BY <2>5 DEF FlushBegin, history
  <2>6. QED
    BY <2>1, <2>2, <2>3, <2>4, <2>5
<1>2. phase[w] \in Active
  BY <1>1, PhaseNames
<1>3. UNCHANGED Durable
  BY <1>1 DEF Durable
<1>4. MemoryApart' /\ [Log!Next]_(Log!vars)
  BY <1>1, <1>3, QuietLog
<1>5. /\ phase'[w] \notin {"replacing", "rename", "unlink"}
      /\ \A v \in Run : v # w => phase'[v] = phase[v]
  <2>1. CASE Upload(w)
    BY <2>1 DEF Upload
  <2>2. CASE \E place \in {"closed", "copy", "upload", "done", "failed", "merging",
                           "creating"} : Goto(w, place)
    BY <2>2, PhaseKept DEF LogInv
  <2>3. QED
    BY <1>1, <2>1, <2>2
<1>6. Exact(w)'
  BY <1>5 DEF Exact
<1>7. QED
  BY <1>1, <1>2, <1>4, <1>5, <1>6, ActiveStep

\* What is appended is in no file yet.
LEMMA AppendLogs ==
  ASSUME LogInv, TypeInv', NEW w \in Run, NEW d \in Doc, Append(w, d)
  PROVE  LogInv' /\ [Log!Next]_(Log!vars)
<1> USE DEF LogInv
<1>1. PICK r \in Row \ Emitted : /\ Emitted' = Emitted \cup {r}
                                 /\ pending'[w] = pending[w] \cup {r}
  BY AppendTyped
<1>2. \A v \in Run : v # w => pending'[v] = pending[v]
  BY AppendTyped
<1>3. /\ UNCHANGED <<phase, shard, data, lost, overlap>> /\ phase[w] = "live"
  BY DEF Append, fileVars, history
<1>4. UNCHANGED Durable
  BY <1>3 DEF Durable
<1>5. Log!Emit
  BY <1>1, <1>3, <1>4 DEF Log!Emit, Emitted
<1>6. MemoryApart'
  BY <1>1, <1>2, <1>3, <1>4, DurableTyped DEF MemoryApart
<1>7. CASE overlap
  BY <1>3, <1>5, <1>7 DEF OneActive, MemoryApart, Log!Next
<1>8. CASE ~overlap
  <2>1. Exact(w)' /\ phase[w] \in Active
    BY <1>3, PhaseNames DEF Exact
  <2>2. LogInv'
    BY <1>3, <1>6, <1>8, <2>1, ActiveStep
  <2>3. QED
    BY <1>5, <2>2 DEF Log!Next
<1>9. QED
  BY <1>5, <1>7, <1>8 DEF Log!Next

LEMMA MergeShardLogs ==
  ASSUME LogInv, TypeInv', ~overlap, NEW w \in Run, MergeShard(w)
  PROVE  LogInv' /\ [Log!Next]_(Log!vars)
<1> USE DEF LogInv
<1>1. /\ phase[w] = "merging"
      /\ stmp' = [stmp EXCEPT ![w] = UnionAll(shard[<<w, cur[w]>>],
                                              RowsOf(RowsFor(w, cur[w])))]
      /\ Goto(w, "replacing")
      /\ UNCHANGED <<rows, pending, cur, shard, data, lost, overlap>>
  BY DEF MergeShard, fileVars, history
<1>2. UNCHANGED Durable
  BY <1>1 DEF Durable
<1>3. MemoryApart' /\ [Log!Next]_(Log!vars)
  BY <1>1, <1>2, QuietLog
<1>4. phase'[w] = "replacing" /\ \A v \in Run : v # w => phase'[v] = phase[v]
  BY <1>1, PhaseKept
<1>5. stmp'[w] = UnionAll(shard[<<w, cur[w]>>], RowsOf(RowsFor(w, cur[w])))
  BY <1>1 DEF TypeInv, PlacesOK
<1>6. BagToSet(stmp'[w]) = BagToSet(shard[<<w, cur[w]>>]) \cup RowsFor(w, cur[w])
  BY <1>5, BagFacts
<1>7. BagToSet(stmp[w])' = BagToSet(stmp'[w])
      /\ BagToSet(shard[<<w, cur[w]>>])' = BagToSet(shard[<<w, cur[w]>>])
      /\ RowsFor(w, cur[w])' = RowsFor(w, cur[w])
  BY <1>1 DEF RowsFor
<1>8. Exact(w)'
  BY <1>4, <1>6, <1>7 DEF Exact
<1>9. phase[w] \in Active
  BY <1>1, PhaseNames
<1>10. QED
  BY <1>1, <1>3, <1>4, <1>8, <1>9, ActiveStep

\* Rows leave the memory of one run for a file, or are given up.
LEMMA DrainLogs ==
  ASSUME LogInv, TypeInv', ~overlap, UNCHANGED <<rows, overlap>>,
         NEW w \in Run, NEW S \in SUBSET pending[w], pending'[w] = pending[w] \ S,
         \A v \in Run : v # w => pending'[v] = pending[v],
         \/ Durable' = Durable \cup S /\ lost' = lost
         \/ Durable' = Durable /\ lost' = lost \cup S
  PROVE  MemoryApart' /\ [Log!Next]_(Log!vars)
<1> USE DEF LogInv
<1>1. S \subseteq rows[w] \ lost /\ S \cap Durable = {}
  BY DEF TypeInv, MemoryOK, MemoryApart
<1>2. S \in SUBSET Log!Pending
  BY <1>1 DEF Log!Pending
<1>3. Log!Persist \/ Log!GiveUp
  BY <1>2 DEF Log!Persist, Log!GiveUp
<1>4. MemoryApart'
  <2> SUFFICES ASSUME NEW v \in Run, NEW r \in pending'[v], r \in Durable' PROVE FALSE
    BY DEF MemoryApart
  <2>1. r \in pending[v] /\ r \notin Durable
    BY DEF MemoryApart
  <2>2. r \in S
    BY <2>1
  <2>3. v = w
    BY <1>1, <2>1, <2>2 DEF TypeInv, MemoryOK
  <2>4. QED
    BY <2>2, <2>3
<1>5. QED
  BY <1>3, <1>4 DEF Log!Next

LEMMA FlushDoneLogs ==
  ASSUME LogInv, TypeInv', ~overlap, NEW w \in Run, ReplaceShard(w) \/ FinishShard(w)
  PROVE  LogInv' /\ [Log!Next]_(Log!vars)
<1> USE DEF LogInv
<1> DEFINE f == <<w, cur[w]>>
           S == RowsFor(w, cur[w])
<1>1. /\ phase[w] \in {"replacing", "creating"}
      /\ pending' = [pending EXCEPT ![w] = @ \ S]
      /\ Goto(w, "live")
      /\ UNCHANGED <<rows, data, overlap>>
  BY DEF ReplaceShard, FinishShard, FlushDone
<1>2. cur[w] \in Doc /\ f \in Shard
  BY <1>1 DEF TypeInv, PlacesOK, Flush, Shard
<1>3. /\ pending'[w] = pending[w] \ S /\ S \in SUBSET pending[w]
      /\ \A v \in Run : v # w => pending'[v] = pending[v]
  BY <1>1 DEF TypeInv, MemoryOK, RowsFor
<1>4. phase'[w] = "live" /\ \A v \in Run : v # w => phase'[v] = phase[v]
  BY <1>1, PhaseKept
<1>5. \/ Durable' = Durable \cup S /\ lost' = lost
      \/ Durable' = Durable /\ lost' = lost \cup S
  <2>1. ASSUME NEW content, shard' = [shard EXCEPT ![f] = content],
               BagToSet(content) = BagToSet(shard[f]) \cup S
        PROVE  Durable' = Durable \cup S
    <3> HIDE DEF f, S
    <3>1. /\ shard'[f] = content /\ \A g \in Shard : g # f => shard'[g] = shard[g]
      BY <1>2, <2>1 DEF TypeInv, FilesOK
    <3>2. \A r : (\E g \in Shard : r \in BagToSet(shard'[g]))
                 <=> r \in S \/ \E g \in Shard : r \in BagToSet(shard[g])
      BY <1>2, <2>1, <3>1
    <3>3. \A r : r \in Durable' <=> \/ \E g \in Shard : r \in BagToSet(shard'[g])
                                    \/ \E d \in Doc : r \in BagToSet(data[d])
      BY <1>1 DEF Durable
    <3>4. \A r : r \in Durable' <=> r \in Durable \/ r \in S
      BY <3>2, <3>3, DurableRows
    <3>5. QED
      BY <3>4
  <2>2. CASE ReplaceShard(w)
    <3>1. phase[w] = "replacing" /\ shard' = [shard EXCEPT ![f] = stmp[w]] /\ lost' = lost
      BY <2>2 DEF ReplaceShard
    <3>2. BagToSet(stmp[w]) = BagToSet(shard[f]) \cup S
      BY <3>1 DEF Exact
    <3>3. QED
      BY <2>1, <3>1, <3>2
  <2>3. CASE FinishShard(w) /\ f \in torn
    <3>1. shard' = [shard EXCEPT ![f] = RowsOf(S)] /\ lost' = lost
      BY <2>3 DEF FinishShard
    <3>2. BagToSet(shard[f]) = {} /\ BagToSet(RowsOf(S)) = S
      BY <2>3, BagFacts DEF TypeInv, FilesOK
    <3> HIDE DEF f, S
    <3>3. QED
      BY <2>1, <3>1, <3>2
  <2>4. CASE FinishShard(w) /\ f \notin torn
    BY <1>1, <2>4 DEF FinishShard, Durable
  <2>5. QED
    BY <2>2, <2>3, <2>4
<1>6. MemoryApart' /\ [Log!Next]_(Log!vars)
  <2> HIDE DEF f, S
  <2>1. QED
    BY <1>1, <1>3, <1>5, DrainLogs
<1>7. Exact(w)' /\ phase[w] \in Active
  BY <1>1, <1>4, PhaseNames DEF Exact
<1>8. QED
  BY <1>1, <1>4, <1>6, <1>7, ActiveStep

LEMMA DropLogs ==
  ASSUME LogInv, TypeInv', ~overlap, NEW w \in Run, FlushRaises(w) \/ Crash(w)
  PROVE  LogInv' /\ [Log!Next]_(Log!vars)
<1> USE DEF LogInv
<1>1. /\ DropRows(w) /\ UNCHANGED <<rows, shard, data, overlap>>
      /\ phase[w] \in Active
      /\ \E place \in {"live", "failed", "dead"} : Goto(w, place)
  BY DEF FlushRaises, Crash, fileVars, Active
<1>2. /\ phase'[w] \in {"live", "failed", "dead"}
      /\ \A v \in Run : v # w => phase'[v] = phase[v]
  BY <1>1, PhaseKept
<1>3. /\ pending'[w] = pending[w] \ pending[w] /\ lost' = lost \cup pending[w]
      /\ \A v \in Run : v # w => pending'[v] = pending[v]
  BY <1>1 DEF DropRows, TypeInv, MemoryOK
<1>4. Durable' = Durable
  BY <1>1 DEF Durable
<1>5. MemoryApart' /\ [Log!Next]_(Log!vars)
  BY <1>1, <1>3, <1>4, DrainLogs
<1>6. Exact(w)'
  BY <1>2 DEF Exact
<1>7. QED
  BY <1>1, <1>2, <1>5, <1>6, ActiveStep

\* Where a merge is depends on what is left of its list alone.
LEMMA AtKept ==
  ASSUME NEW w, UNCHANGED work
  PROVE  At(w)' = At(w) /\ Shards(w)' = Shards(w)
<1>1. At(w)' = At(w)
  BY DEF At
<1>2. QED
  BY <1>1 DEF Shards

LEMMA CopyMergedLogs ==
  ASSUME LogInv, TypeInv', ~overlap, NEW w \in Run, CopyMerged(w)
  PROVE  LogInv' /\ [Log!Next]_(Log!vars)
<1> USE DEF LogInv
<1>1. /\ phase[w] = "copy"
      /\ dtmp' = [dtmp EXCEPT ![At(w)] = Merged(w)]
      /\ Goto(w, "rename")
      /\ UNCHANGED <<rows, pending, work, shard, data, lost, overlap>>
  BY DEF CopyMerged, memVars, history
<1>2. UNCHANGED Durable
  BY <1>1 DEF Durable
<1>3. MemoryApart' /\ [Log!Next]_(Log!vars)
  BY <1>1, <1>2, QuietLog
<1>4. phase'[w] = "rename" /\ \A v \in Run : v # w => phase'[v] = phase[v]
  BY <1>1, PhaseKept
<1>5. At(w) \in Doc
  BY <1>1, AtPartition
<1>6. dtmp'[At(w)] = Merged(w)
  BY <1>1, <1>5 DEF TypeInv, FilesOK
<1>7. At(w)' = At(w) /\ Shards(w)' = Shards(w)
  BY <1>1, AtKept
<1>8. BagToSet(dtmp'[At(w)]) = BagToSet(data'[At(w)])
                               \cup UNION {BagToSet(shard'[f]) : f \in Shards(w)}
  BY <1>1, <1>6, MergedRows
<1>9. Exact(w)'
  BY <1>4, <1>7, <1>8 DEF Exact
<1>10. phase[w] \in Active
  BY <1>1, PhaseNames
<1>11. QED
  BY <1>1, <1>3, <1>4, <1>9, <1>10, ActiveStep

\* The file that replaces data.parquet has its rows and rows of shards, which stay.
LEMMA ReplaceDataLogs ==
  ASSUME LogInv, TypeInv', ~overlap, NEW w \in Run, ReplaceData(w)
  PROVE  LogInv' /\ [Log!Next]_(Log!vars)
<1> USE DEF LogInv
<1>1. /\ phase[w] = "rename"
      /\ data' = [data EXCEPT ![At(w)] = dtmp[At(w)]]
      /\ Goto(w, "unlink")
      /\ UNCHANGED <<rows, pending, work, shard, lost, overlap>>
  BY DEF ReplaceData, memVars, history
<1>2. At(w) \in Doc /\ Shards(w) \subseteq Shard
  BY <1>1, AtPartition
<1>3. /\ data'[At(w)] = dtmp[At(w)]
      /\ \A d \in Doc : d # At(w) => data'[d] = data[d]
  BY <1>1, <1>2 DEF TypeInv, FilesOK
<1>4. BagToSet(dtmp[At(w)]) = BagToSet(data[At(w)])
                              \cup UNION {BagToSet(shard[f]) : f \in Shards(w)}
  BY <1>1 DEF Exact
<1>5. UNCHANGED Durable
  <2>1. \A r : r \in Durable' <=> \/ \E f \in Shard : r \in BagToSet(shard[f])
                                  \/ \E d \in Doc : r \in BagToSet(data'[d])
    <3>1. Durable' = (UNION {BagToSet(shard[f]) : f \in Shard})
                     \cup (UNION {BagToSet(data'[d]) : d \in Doc})
      BY <1>1 DEF Durable
    <3>2. QED
      BY <3>1
  <2>2. \A r : r \in BagToSet(dtmp[At(w)])
               <=> r \in BagToSet(data[At(w)]) \/ \E f \in Shards(w) : r \in BagToSet(shard[f])
    BY <1>4
  <2>3. ASSUME NEW r, r \in Durable PROVE r \in Durable'
    <3>1. CASE \E f \in Shard : r \in BagToSet(shard[f])
      BY <2>1, <3>1
    <3>2. ASSUME NEW d \in Doc, r \in BagToSet(data[d]) PROVE r \in BagToSet(data'[d])
      BY <1>3, <2>2, <3>2
    <3>3. QED
      BY <2>1, <2>3, <3>1, <3>2, DurableRows
  <2>4. ASSUME NEW r, r \in Durable' PROVE r \in Durable
    <3>1. CASE \E f \in Shard : r \in BagToSet(shard[f])
      BY <3>1, DurableRows
    <3>2. ASSUME NEW d \in Doc, r \in BagToSet(data'[d]) PROVE r \in Durable
      <4>1. CASE d # At(w)
        BY <1>3, <3>2, <4>1, DurableRows
      <4>2. CASE d = At(w)
        <5>1. r \in BagToSet(data[At(w)]) \/ \E f \in Shards(w) : r \in BagToSet(shard[f])
          BY <1>3, <2>2, <3>2, <4>2
        <5>2. QED
          BY <1>2, <5>1, DurableRows
      <4>3. QED
        BY <4>1, <4>2
    <3>3. QED
      BY <2>1, <2>4, <3>1, <3>2
  <2>5. QED
    BY <2>3, <2>4
<1>6. MemoryApart' /\ [Log!Next]_(Log!vars)
  BY <1>1, <1>5, QuietLog
<1>7. phase'[w] = "unlink" /\ \A v \in Run : v # w => phase'[v] = phase[v]
  BY <1>1, PhaseKept
<1>8. At(w)' = At(w) /\ Shards(w)' = Shards(w)
  BY <1>1, AtKept
<1>9. \A f \in Shards(w) : BagToSet(shard'[f]) \subseteq BagToSet(data'[At(w)])
  BY <1>1, <1>3, <1>4
<1>10. Exact(w)'
  BY <1>7, <1>8, <1>9 DEF Exact
<1>11. phase[w] \in Active
  BY <1>1, PhaseNames
<1>12. QED
  BY <1>1, <1>6, <1>7, <1>10, <1>11, ActiveStep

\* The rows of a shard that is removed are in data.parquet.
LEMMA UnlinkLogs ==
  ASSUME LogInv, TypeInv', ~overlap, NEW w \in Run, Unlink(w)
  PROVE  LogInv' /\ [Log!Next]_(Log!vars)
<1> USE DEF LogInv
<1>1. /\ phase[w] = "unlink"
      /\ UNCHANGED <<rows, pending, data, lost, overlap>>
  BY DEF Unlink, history
<1>2. PICK f \in Shards(w) :
          /\ RemoveShard(f)
          /\ work' = [work EXCEPT ![w] = @ \ {f}]
          /\ Goto(w, IF Shards(w) = {f} THEN NextPartition(work[w] \ {f}) ELSE "unlink")
  BY DEF Unlink
<1>3. At(w) \in Doc /\ Shards(w) \subseteq Shard /\ f \in Shard
  BY <1>1, AtPartition
<1>4. /\ shard'[f] = NoRows
      /\ \A g \in Shard : g # f => shard'[g] = shard[g]
  BY <1>2, <1>3 DEF RemoveShard, TypeInv, FilesOK
<1>5. \A g \in Shards(w) : BagToSet(shard[g]) \subseteq BagToSet(data[At(w)])
  BY <1>1 DEF Exact
<1>6. \A g \in Shard : BagToSet(shard'[g]) \subseteq BagToSet(shard[g])
  BY <1>4, BagFacts
<1>7. UNCHANGED Durable
  <2>1. \A r : r \in Durable' <=> \/ \E g \in Shard : r \in BagToSet(shard'[g])
                                  \/ \E d \in Doc : r \in BagToSet(data[d])
    <3>1. Durable' = (UNION {BagToSet(shard'[g]) : g \in Shard})
                     \cup (UNION {BagToSet(data[d]) : d \in Doc})
      BY <1>1 DEF Durable
    <3>2. QED
      BY <3>1
  <2>2. ASSUME NEW r, r \in Durable' PROVE r \in Durable
    BY <1>6, <2>1, <2>2, DurableRows
  <2>3. ASSUME NEW r, r \in Durable PROVE r \in Durable'
    <3>1. ASSUME NEW g \in Shard, r \in BagToSet(shard[g]) PROVE r \in Durable'
      <4>1. CASE g # f
        BY <1>4, <2>1, <3>1, <4>1
      <4>2. CASE g = f
        BY <1>3, <1>5, <2>1, <3>1, <4>2
      <4>3. QED
        BY <4>1, <4>2
    <3>2. QED
      BY <2>1, <2>3, <3>1, DurableRows
  <2>4. QED
    BY <2>2, <2>3
<1>8. MemoryApart' /\ [Log!Next]_(Log!vars)
  BY <1>1, <1>7, QuietLog
<1>9. \A v \in Run : v # w => phase'[v] = phase[v]
  BY <1>2, PhaseKept
<1>10. Exact(w)'
  <2>1. CASE Shards(w) = {f}
    <3>1. phase'[w] \in {"upload", "copy"}
      BY <1>2, <2>1, PhaseKept DEF NextPartition
    <3>2. QED
      BY <3>1 DEF Exact
  <2>2. CASE Shards(w) # {f}
    <3>1. phase'[w] = "unlink"
      BY <1>2, <2>2, PhaseKept
    <3>2. work'[w] = work[w] \ {f}
      BY <1>2 DEF TypeInv, ControlOK
    <3>3. PICK g \in Shards(w) : g # f
      BY <2>2
    <3>4. g \in work'[w] /\ g[2] = f[2]
      BY <1>2, <3>2, <3>3 DEF Shards
    <3>5. {h[2] : h \in work'[w]} = {h[2] : h \in work[w]}
      BY <1>2, <3>2, <3>4 DEF Shards
    <3>6. At(w)' = At(w)
      BY <3>5 DEF At
    <3>7. Shards(w)' = Shards(w) \ {f}
      BY <3>2, <3>6 DEF Shards
    <3>8. \A h \in Shards(w)' : BagToSet(shard'[h]) \subseteq BagToSet(data'[At(w)])
      BY <1>1, <1>3, <1>5, <1>6, <3>7
    <3>9. QED
      BY <3>1, <3>6, <3>8 DEF Exact
  <2>3. QED
    BY <2>1, <2>2
<1>11. phase[w] \in Active
  BY <1>1, PhaseNames
<1>12. QED
  BY <1>1, <1>8, <1>9, <1>10, <1>11, ActiveStep

\* Only Append emits, and only Start finds that runs overlap.
LEMMA EmittedKept ==
  ASSUME NEW w \in Run,
         \/ Start(w) \/ MergeShard(w) \/ ReplaceShard(w) \/ FinishShard(w)
         \/ FlushRaises(w) \/ Close(w) \/ EndStep(w) \/ Crash(w)
         \/ \E d \in Doc : FlushBegin(w, d)
  PROVE  /\ Emitted' = Emitted
         /\ Start(w) \/ UNCHANGED overlap
<1>1. UNCHANGED rows /\ (Start(w) \/ UNCHANGED overlap)
  BY DEF Start, MergeShard, ReplaceShard, FinishShard, FlushDone, FlushRaises, Close,
         EndStep, List, CopyMerged, ReplaceData, Unlink, Upload, Finish, EndRaises, Crash,
         FlushBegin, history
<1>2. QED
  BY <1>1 DEF Emitted

LEMMA LogNext ==
  ASSUME LogInv, TypeInv', Durable' \subseteq Emitted', [Next]_vars
  PROVE  LogInv' /\ [Log!Next]_(Log!vars)
<1>1. CASE UNCHANGED vars
  <2>1. UNCHANGED <<phase, rows, pending, cur, stmp, work, shard, data, dtmp, lost, overlap>>
    BY <1>1 DEF vars, memVars, fileVars, history
  <2>2. UNCHANGED Durable
    BY <2>1 DEF Durable
  <2>3. MemoryApart' /\ [Log!Next]_(Log!vars)
    BY <2>1, <2>2, QuietLog
  <2>4. OneActive'
    BY <2>1 DEF LogInv, OneActive
  <2>5. ASSUME NEW w \in Run, Exact(w) PROVE Exact(w)'
    <3>1. At(w)' = At(w) /\ Shards(w)' = Shards(w) /\ RowsFor(w, cur[w])' = RowsFor(w, cur[w])
      BY <2>1, AtKept DEF RowsFor
    <3>2. QED
      BY <2>1, <2>5, <3>1 DEF Exact
  <2>6. QED
    BY <2>1, <2>3, <2>4, <2>5 DEF LogInv
<1>2. ASSUME NEW w \in Run, NEW d \in Doc, Append(w, d)
      PROVE  LogInv' /\ [Log!Next]_(Log!vars)
  BY <1>2, AppendLogs
<1>3. ASSUME NEW w \in Run,
             \/ Start(w) \/ MergeShard(w) \/ ReplaceShard(w) \/ FinishShard(w)
             \/ FlushRaises(w) \/ Close(w) \/ EndStep(w) \/ Crash(w)
             \/ \E d \in Doc : FlushBegin(w, d)
      PROVE  LogInv' /\ [Log!Next]_(Log!vars)
  <2>1. Emitted' = Emitted /\ (Start(w) \/ UNCHANGED overlap)
    BY <1>3, EmittedKept
  <2>2. CASE Start(w)
    BY <2>2, StartLogs
  <2>3. CASE overlap /\ UNCHANGED overlap
    BY <2>1, <2>3, OverlapStep DEF LogInv
  <2>4. CASE ~overlap /\ ~Start(w)
    BY <1>3, <2>4, QuietLogs, MergeShardLogs, FlushDoneLogs, DropLogs, CopyMergedLogs,
       ReplaceDataLogs, UnlinkLogs
    DEF EndStep
  <2>5. QED
    BY <2>1, <2>2, <2>3, <2>4
<1>4. QED
  BY <1>1, <1>2, <1>3 DEF Next

LEMMA LogHolds == Spec => []LogInv /\ [][Log!Next]_(Log!vars)
<1> DEFINE Known == Durable \subseteq Emitted
<1>1. Init => LogInv
  BY LogInit
<1>2. LogInv => TypeInv
  BY DEF LogInv
<1>3. TypeInv => Known
  BY DurableTyped
<1>4. TypeInv /\ [Next]_vars => TypeInv'
  BY TypeNext
<1>5. LogInv /\ TypeInv' /\ Known' /\ [Next]_vars => LogInv' /\ [Log!Next]_(Log!vars)
  BY LogNext
<1> HIDE DEF Known
<1>6. QED
  BY <1>1, <1>2, <1>3, <1>4, <1>5, PTL DEF Spec

\* The cache implements the log for every number of runs, partitions, events and
\* failures: as long as runs do not overlap, what is durable stays, what was given up
\* was not durable, and nothing becomes durable that was not emitted.
THEOREM CacheImplementsLog == Spec => ImplementsLog
<1>1. Init => Log!Init
  BY LogInit
<1>2. QED
  BY <1>1, LogHolds, PTL DEF Spec, ImplementsLog, Log!Spec

-----------------------------------------------------------------------------
(* How often a row is in the files, as long as runs do not overlap and     *)
(* none ends while it removes shards                                       *)

Orderly == ~overlap /\ ~cut

Own(r) == <<r.run, r.doc>>

InData(r) == Copies(r, data[r.doc])

\* A consolidation has merged the shard of the row and is about to remove it.
Removing(r) == \E w \in Run : phase[w] = "unlink" /\ Own(r) \in Shards(w)

\* A row is given up, in memory, in its shard or in data.parquet, and in both files only
\* while its shard is being removed.
RowInv(r) ==
    /\ InShard(r) \in {0, 1} /\ InData(r) \in {0, 1}
    /\ r \in lost \cup pending[r.run] => InShard(r) = 0 /\ InData(r) = 0
    /\ r \notin lost \cup pending[r.run] => InShard(r) = 1 \/ InData(r) = 1
    /\ InShard(r) = 1 /\ InData(r) = 1 => Removing(r)

\* The file that is to replace a shard has its rows and those that are flushed, once.
FlushInv(w) ==
    phase[w] = "replacing" =>
        \A r \in rows[w] : r.doc = cur[w] =>
            Copies(r, stmp[w]) = IF r \in pending[w] THEN 1 ELSE InShard(r)

\* The file that is to replace data.parquet has its rows and those of the shards, once,
\* and then the shards have no others.
MergeInv(w) ==
    /\ phase[w] = "rename" =>
          \A r \in Emitted : r.doc = At(w) =>
              Copies(r, dtmp[At(w)]) = IF Own(r) \in Shards(w) /\ InShard(r) = 1
                                       THEN 1 ELSE InData(r)
    /\ phase[w] = "unlink" =>
          \A r \in Emitted : Own(r) \in Shards(w) /\ InShard(r) = 1 => InData(r) = 1

\* A consolidation has listed every shard that has rows, and leaves none.
Cleared(w) ==
    /\ phase[w] \in Consolidate \cup {"upload", "done"} => pending[w] = {}
    /\ phase[w] \in {"copy", "rename", "unlink"} =>
          \A f \in Shard : shard[f] # NoRows => f \in work[w]
    /\ phase[w] = "upload" => \A f \in Shard : shard[f] = NoRows
    /\ phase[w] = "done" => \A d \in Doc : shard[<<w, d>>] = NoRows

\* It uploads every partition in which the run has rows.
Asked(w) ==
    phase[w] \in {"copy", "rename", "unlink"} =>
        \A r \in rows[w] : r \in lost \/ r.doc \in todo[w]

\* What has been uploaded has the rows of the run, and before there is nothing.
Sent(w) ==
    /\ phase[w] \in {"upload", "done"} =>
          \A r \in rows[w] : phase[w] = "done" \/ r.doc \notin todo[w] =>
              Copies(r, archive[Own(r)]) = IF r \in lost THEN 0 ELSE 1
    /\ \A d \in Doc :
          \/ phase[w] \in {"idle", "live"} \cup Flush \cup Consolidate
          \/ phase[w] = "upload" /\ d \in todo[w]
          => archive[<<w, d>>] = NoRows

RunInv(w) == FlushInv(w) /\ MergeInv(w) /\ Cleared(w) /\ Asked(w) /\ Sent(w)

CopiesInv == Orderly => /\ \A r \in Emitted : RowInv(r)
                        /\ \A w \in Run : RunInv(w)

-----------------------------------------------------------------------------

LEMMA CopiesFacts ==
  /\ \A r : Copies(r, NoRows) = 0
  /\ \A r, S : Copies(r, RowsOf(S)) = IF r \in S THEN 1 ELSE 0
  /\ \A r, a, b : Copies(r, UnionAll(a, b)) = Copies(r, a) + Copies(r, b)
<1>1. \A r : Copies(r, NoRows) = 0
  BY DEF Copies, BagIn, NoRows, EmptyBag, SetToBag, BagToSet
<1>2. \A r, S : Copies(r, RowsOf(S)) = IF r \in S THEN 1 ELSE 0
  BY DEF Copies, BagIn, RowsOf, SetToBag, BagToSet
<1>3. ASSUME NEW r, NEW a, NEW b
      PROVE  Copies(r, UnionAll(a, b)) = Copies(r, a) + Copies(r, b)
  <2>1. CASE r \in DOMAIN a \cup DOMAIN b
    BY <2>1 DEF Copies, BagIn, UnionAll, (+), BagToSet
  <2>2. CASE r \notin DOMAIN a \cup DOMAIN b
    BY <2>2 DEF Copies, BagIn, UnionAll, (+), BagToSet
  <2>3. QED
    BY <2>1, <2>2
<1>4. QED
  BY <1>1, <1>2, <1>3

\* Where a row can be.
LEMMA RowPlaces ==
  ASSUME TypeInv, NEW r \in Emitted
  PROVE  /\ r.run \in Run /\ r.doc \in Doc /\ r \in rows[r.run] /\ r \in Row
         /\ Own(r) \in Shard /\ Own(r)[1] = r.run /\ Own(r)[2] = r.doc
         /\ \A w \in Run : r \in rows[w] \/ r \in pending[w] => w = r.run
<1>1. /\ r.run \in Run /\ r.doc \in Doc /\ r \in rows[r.run] /\ r \in Row
  BY EmittedTyped DEF TypeInv
<1>2. \A w \in Run : r \in rows[w] \/ r \in pending[w] => w = r.run
  BY DEF TypeInv, MemoryOK
<1>3. QED
  BY <1>1, <1>2 DEF Own, Shard

\* A row that was not emitted is nowhere.
LEMMA NotThere ==
  ASSUME TypeInv, NEW r \in Row, r \notin Emitted
  PROVE  InShard(r) = 0 /\ InData(r) = 0
<1>1. r.run \in Run /\ r.doc \in Doc /\ <<r.run, r.doc>> \in Shard
  BY DEF Row, Shard
<1>2. r \notin rows[r.run]
  BY <1>1 DEF Emitted
<1>3. r \notin BagToSet(shard[<<r.run, r.doc>>]) /\ r \notin BagToSet(data[r.doc])
  BY <1>1, <1>2 DEF TypeInv, FilesOK
<1>4. QED
  BY <1>3 DEF InShard, InData, Copies, BagIn

\* What a merge counts.
LEMMA MergedCopies ==
  ASSUME TypeInv, NEW w \in Run, phase[w] = "copy", NEW r \in Emitted, r.doc = At(w),
         InShard(r) \in {0, 1}, InData(r) \in {0, 1}
  PROVE  Copies(r, Merged(w)) = InData(r) + IF Own(r) \in Shards(w) THEN InShard(r) ELSE 0
<1>1. /\ Shards(w) \subseteq Shard
      /\ \A f \in Shards(w) : f[2] = At(w)
  BY AtPartition
<1>2. \A f \in Shards(w) : r \in BagToSet(shard[f]) => f = Own(r)
  <2> SUFFICES ASSUME NEW f \in Shards(w), r \in BagToSet(shard[f]) PROVE f = Own(r)
    OBVIOUS
  <2>1. f \in Shard /\ f[1] \in Run /\ f = <<f[1], f[2]>>
    BY <1>1 DEF Shard
  <2>2. r \in rows[f[1]] /\ r.doc = f[2]
    BY <2>1 DEF TypeInv, FilesOK
  <2>3. QED
    BY <2>1, <2>2, RowPlaces DEF Own
<1>3. r \in RowsOfShards(w) <=> Own(r) \in Shards(w) /\ r \in BagToSet(shard[Own(r)])
  BY <1>2 DEF RowsOfShards
<1>4. InShard(r) = Copies(r, shard[Own(r)]) /\ InData(r) = Copies(r, data[At(w)])
  BY DEF InShard, Own, InData
<1>5. r \notin BagToSet(shard[Own(r)]) => InShard(r) = 0
  BY <1>4 DEF Copies, BagIn
<1>6. CASE r \in BagToSet(data[At(w)]) \cup RowsOfShards(w)
  <2>1. Copies(r, Merged(w)) = InData(r) + IF r \in RowsOfShards(w) THEN InShard(r) ELSE 0
    BY <1>4, <1>6 DEF Merged, Copies, BagIn, BagToSet
  <2>2. QED
    BY <1>3, <1>5, <2>1
<1>7. CASE r \notin BagToSet(data[At(w)]) \cup RowsOfShards(w)
  <2>1. Copies(r, Merged(w)) = 0 /\ InData(r) = 0
    BY <1>4, <1>7 DEF Merged, Copies, BagIn, BagToSet
  <2>2. (IF Own(r) \in Shards(w) THEN InShard(r) ELSE 0) = 0
    BY <1>3, <1>5, <1>7
  <2>3. QED
    BY <2>1, <2>2
<1>8. QED
  BY <1>6, <1>7
\* What a step of another run leaves of a run.
Untouched(v) ==
    /\ phase'[v] = phase[v] /\ rows'[v] = rows[v] /\ pending'[v] = pending[v]
    /\ \A r \in rows[v] : r \in lost' <=> r \in lost
    /\ \A d \in Doc : /\ shard[<<v, d>>] = NoRows => shard'[<<v, d>>] = NoRows
                      /\ archive'[<<v, d>>] = archive[<<v, d>>]

LEMMA OthersKeep ==
  ASSUME TypeInv, NEW v \in Run, phase[v] \notin Active, RunInv(v), Untouched(v)
  PROVE  RunInv(v)'
<1>1. phase'[v] = phase[v] /\ phase'[v] \in {"idle", "done", "failed", "dead"}
  BY PhaseNames DEF TypeInv, ControlOK, Untouched
<1>2. FlushInv(v)' /\ MergeInv(v)' /\ Asked(v)'
  BY <1>1 DEF FlushInv, MergeInv, Asked
<1>3. Cleared(v)'
  BY <1>1 DEF Cleared, RunInv, Untouched, Consolidate
<1>4. Sent(v)'
  <2>1. \A r \in rows[v] : Own(r) = <<v, r.doc>> /\ r.doc \in Doc
    BY EmittedTyped DEF TypeInv, MemoryOK, Own
  <2>2. ASSUME NEW r \in rows'[v], phase'[v] = "done"
        PROVE  Copies(r, archive'[Own(r)]) = IF r \in lost' THEN 0 ELSE 1
    <3>1. r \in rows[v] /\ (r \in lost' <=> r \in lost) /\ archive'[Own(r)] = archive[Own(r)]
      <4>1. r \in rows[v] /\ (r \in lost' <=> r \in lost)
        BY <2>2 DEF Untouched
      <4>2. Own(r) = <<v, r.doc>> /\ r.doc \in Doc
        BY <2>1, <4>1
      <4>3. archive'[<<v, r.doc>>] = archive[<<v, r.doc>>]
        BY <4>2 DEF Untouched
      <4>4. QED
        BY <4>1, <4>2, <4>3
    <3>2. Copies(r, archive[Own(r)]) = IF r \in lost THEN 0 ELSE 1
      BY <1>1, <2>2, <3>1 DEF RunInv, Sent
    <3>3. QED
      BY <3>1, <3>2
  <2>3. ASSUME NEW d \in Doc, phase'[v] = "idle" PROVE archive'[<<v, d>>] = NoRows
    BY <1>1, <2>3 DEF RunInv, Sent, Untouched
  <2>4. QED
    BY <1>1, <2>2, <2>3 DEF Sent, Flush, Consolidate, Own
<1>5. QED
  BY <1>2, <1>3, <1>4 DEF RunInv

LEMMA Assembled ==
  ASSUME LogInv, CopiesInv, Orderly, NEW w \in Run, phase[w] \in Active,
         \A v \in Run : v # w => Untouched(v),
         RunInv(w)', \A r \in Emitted' : RowInv(r)'
  PROVE  CopiesInv'
<1>1. \A v \in Run : v # w => phase[v] \notin Active
  BY DEF LogInv, OneActive, Orderly
<1>2. \A v \in Run : RunInv(v)
  BY DEF CopiesInv
<1>3. \A v \in Run : RunInv(v)'
  BY <1>1, <1>2, OthersKeep DEF LogInv
<1>4. QED
  BY <1>3 DEF CopiesInv

\* Unless a run removes shards a row that is in a file is in no other.
LEMMA OneFile ==
  ASSUME CopiesInv, Orderly, \A v \in Run : phase[v] # "unlink", NEW r \in Emitted
  PROVE  /\ InShard(r) \in {0, 1} /\ InData(r) \in {0, 1}
         /\ r \in lost \cup pending[r.run] => InShard(r) = 0 /\ InData(r) = 0
         /\ r \notin lost \cup pending[r.run] =>
               (InShard(r) = 1 /\ InData(r) = 0) \/ (InShard(r) = 0 /\ InData(r) = 1)
BY DEF CopiesInv, RowInv, Removing

\* Steps that move no row.
LEMMA QuietCopies ==
  ASSUME LogInv, CopiesInv, Orderly, NEW w \in Run, phase[w] \in Active \ {"unlink"},
         UNCHANGED <<rows, pending, shard, data, lost>>,
         \A v \in Run : v # w => phase'[v] = phase[v],
         \A v \in Run, d \in Doc : v # w => archive'[<<v, d>>] = archive[<<v, d>>],
         RunInv(w)'
  PROVE  CopiesInv'
<1>1. \A v \in Run : phase[v] # "unlink"
  BY DEF LogInv, OneActive, Orderly, Active, Consolidate
<1>2. Emitted' = Emitted
  BY DEF Emitted
<1>3. ASSUME NEW r \in Emitted' PROVE RowInv(r)'
  <2>1. InShard(r)' = InShard(r) /\ InData(r)' = InData(r)
    BY DEF InShard, InData
  <2>2. QED
    BY <1>1, <1>2, <2>1, OneFile DEF RowInv
<1>4. \A v \in Run : v # w => Untouched(v)
  BY DEF Untouched
<1>5. QED
  BY <1>3, <1>4, Assembled

\* Before the upload nothing is archived, in whatever phase.
LEMMA NothingSent ==
  ASSUME CopiesInv, Orderly, NEW w \in Run,
         phase[w] \in {"idle", "live"} \cup Flush \cup Consolidate,
         UNCHANGED archive, phase'[w] \notin {"upload", "done"}
  PROVE  Sent(w)'
BY DEF CopiesInv, RunInv, Sent
LEMMA StartCopies ==
  ASSUME LogInv, CopiesInv, Orderly, Orderly', NEW w \in Run, Start(w)
  PROVE  CopiesInv'
<1>1. /\ phase[w] = "idle" /\ Goto(w, "live")
      /\ UNCHANGED <<rows, pending, shard, data, lost, archive>>
      /\ overlap' = (overlap \/ \E v \in Run : phase[v] \in Active)
  BY DEF Start, memVars, fileVars
<1>2. phase'[w] = "live" /\ \A v \in Run : v # w => phase'[v] = phase[v]
  BY <1>1, PhaseKept DEF LogInv
<1>3. \A v \in Run : phase[v] \notin Active
  BY <1>1, Zenon DEF Orderly
<1>4. \A v \in Run : v # w => Untouched(v)
  BY <1>1, <1>2 DEF Untouched
<1>5. \A v \in Run : RunInv(v)
  BY DEF CopiesInv
<1>6. \A v \in Run : v # w => RunInv(v)'
  BY <1>3, <1>4, <1>5, OthersKeep DEF LogInv
<1>7. Sent(w)'
  BY <1>1, <1>2, NothingSent
<1>8. RunInv(w)'
  BY <1>2, <1>7 DEF RunInv, FlushInv, MergeInv, Cleared, Asked, Consolidate
<1>9. ASSUME NEW r \in Emitted' PROVE RowInv(r)'
  <2>1. r \in Emitted /\ InShard(r)' = InShard(r) /\ InData(r)' = InData(r)
    BY <1>1 DEF Emitted, InShard, InData
  <2>2. \A v \in Run : phase[v] # "unlink"
    BY <1>3, PhaseNames
  <2>3. QED
    BY <1>1, <2>1, <2>2, OneFile DEF RowInv
<1>10. QED
  BY <1>6, <1>8, <1>9 DEF CopiesInv

\* What is appended is in memory and in no file.
LEMMA AppendCopies ==
  ASSUME LogInv, CopiesInv, Orderly, NEW w \in Run, NEW d \in Doc, Append(w, d)
  PROVE  CopiesInv'
<1>1. PICK n \in Row \ Emitted : /\ Emitted' = Emitted \cup {n}
                                 /\ pending'[w] = pending[w] \cup {n}
  BY AppendTyped DEF LogInv
<1>2. \A v \in Run : v # w => pending'[v] = pending[v]
  BY AppendTyped DEF LogInv
<1>3. /\ phase[w] = "live"
      /\ UNCHANGED <<phase, shard, data, lost, archive>>
      /\ \A v \in Run : v # w => rows'[v] = rows[v]
  BY DEF Append, fileVars, history, LogInv, TypeInv, MemoryOK
<1>4. \A v \in Run : v # w => Untouched(v)
  BY <1>2, <1>3 DEF Untouched
<1>5. RunInv(w)'
  <2>1. Sent(w)'
    BY <1>3, NothingSent
  <2>2. QED
    BY <1>3, <2>1 DEF RunInv, FlushInv, MergeInv, Cleared, Asked, Consolidate
<1>6. phase[w] \in Active /\ phase[w] # "unlink"
  BY <1>3, PhaseNames
<1>7. \A v \in Run : phase[v] # "unlink"
  BY <1>6 DEF LogInv, OneActive, Orderly, Active, Consolidate
<1>8. ASSUME NEW r \in Emitted' PROVE RowInv(r)'
  <2>1. InShard(r)' = InShard(r) /\ InData(r)' = InData(r)
    BY <1>3 DEF InShard, InData
  <2>2. CASE r \in Emitted
    <3>1. r # n /\ r.run \in Run
      BY <2>2, RowPlaces DEF LogInv
    <3>2. r \in pending'[r.run] <=> r \in pending[r.run]
      BY <1>1, <1>2, <3>1
    <3>3. QED
      BY <1>3, <1>7, <2>1, <2>2, <3>2, OneFile DEF RowInv
  <2>3. CASE r \notin Emitted
    <3>1. r = n
      BY <1>1, <1>8, <2>3
    <3>2. InShard(r) = 0 /\ InData(r) = 0
      BY <3>1, NotThere DEF LogInv
    <3>3. r \in pending'[r.run]
      <4>1. TypeInv'
        BY AppendTyped DEF LogInv
      <4>2. r \in pending'[w]
        BY <1>1, <3>1
      <4>3. r.run = w
        BY <4>1, <4>2 DEF TypeInv, MemoryOK
      <4>4. QED
        BY <4>2, <4>3
    <3>4. QED
      BY <2>1, <3>2, <3>3 DEF RowInv
  <2>4. QED
    BY <2>2, <2>3
<1>9. QED
  BY <1>4, <1>5, <1>6, <1>8, Assembled

\* A flush begins, ends in a tmp file, or a run is closed.
LEMMA FlushCopies ==
  ASSUME LogInv, CopiesInv, Orderly, NEW w \in Run,
         MergeShard(w) \/ Close(w) \/ \E d \in Doc : FlushBegin(w, d)
  PROVE  CopiesInv'
<1>1. /\ phase[w] \in {"live", "merging"}
      /\ UNCHANGED <<rows, pending, shard, data, lost, archive>>
      /\ \E place \in {"merging", "creating", "replacing", "closed"} : Goto(w, place)
  <2>1. CASE MergeShard(w)
    BY <2>1 DEF MergeShard, fileVars, history
  <2>2. CASE Close(w)
    BY <2>2 DEF Close, Flushed, memVars, fileVars, history
  <2>3. CASE \E d \in Doc : FlushBegin(w, d)
    BY <2>3 DEF FlushBegin, history
  <2>4. QED
    BY <2>1, <2>2, <2>3
<1>2. /\ phase'[w] \in {"merging", "creating", "replacing", "closed"}
      /\ \A v \in Run : v # w => phase'[v] = phase[v]
  BY <1>1, PhaseKept DEF LogInv
<1>3. Sent(w)'
  BY <1>1, <1>2, NothingSent DEF Flush
<1>4. FlushInv(w)'
  <2>1. CASE MergeShard(w)
    <3>1. /\ stmp' = [stmp EXCEPT ![w] = UnionAll(shard[<<w, cur[w]>>],
                                                  RowsOf(RowsFor(w, cur[w])))]
          /\ cur' = cur
      BY <2>1 DEF MergeShard
    <3>2. stmp'[w] = UnionAll(shard[<<w, cur[w]>>], RowsOf(RowsFor(w, cur[w])))
      BY <3>1 DEF LogInv, TypeInv, PlacesOK
    <3>3. ASSUME NEW r \in rows[w], r.doc = cur[w]
          PROVE  Copies(r, stmp'[w]) = IF r \in pending[w] THEN 1 ELSE InShard(r)
      <4>1. r.run = w /\ InShard(r) = Copies(r, shard[<<w, cur[w]>>])
            /\ (r \in RowsFor(w, cur[w]) <=> r \in pending[w]) /\ r \in Emitted
        BY <3>3 DEF LogInv, TypeInv, MemoryOK, InShard, RowsFor, Emitted
      <4>2. InShard(r) \in {0, 1} /\ (r \in pending[w] => InShard(r) = 0)
        BY <4>1 DEF CopiesInv, RowInv
      <4>3. Copies(r, stmp'[w]) = InShard(r) + IF r \in pending[w] THEN 1 ELSE 0
        BY <3>2, <4>1, CopiesFacts
      <4>4. QED
        BY <4>2, <4>3
    <3>4. QED
      BY <1>1, <3>1, <3>3 DEF FlushInv, InShard
  <2>2. CASE ~ MergeShard(w)
    <3>1. phase'[w] # "replacing"
      <4>1. \E place \in {"merging", "creating", "closed"} : Goto(w, place)
        <5>1. CASE Close(w)
          BY <5>1 DEF Close
        <5>2. CASE \E d \in Doc : FlushBegin(w, d)
          BY <5>2 DEF FlushBegin
        <5>3. QED
          BY <2>2, <5>1, <5>2
      <4>2. PICK place \in {"merging", "creating", "closed"} : Goto(w, place)
        BY <4>1
      <4>3. QED
        BY <4>2, PhaseKept DEF LogInv
    <3>2. QED
      BY <3>1 DEF FlushInv
  <2>3. QED
    BY <2>1, <2>2
<1>5. Cleared(w)'
  <2>1. phase'[w] = "closed" => pending[w] = {}
    <3>1. CASE Close(w)
      BY <3>1 DEF Close, Flushed
    <3>2. CASE ~ Close(w)
      <4>1. \E place \in {"merging", "creating", "replacing"} : Goto(w, place)
        <5>1. CASE MergeShard(w)
          BY <5>1 DEF MergeShard
        <5>2. CASE \E d \in Doc : FlushBegin(w, d)
          BY <5>2 DEF FlushBegin
        <5>3. QED
          BY <3>2, <5>1, <5>2
      <4>2. PICK place \in {"merging", "creating", "replacing"} : Goto(w, place)
        BY <4>1
      <4>3. QED
        BY <4>2, PhaseKept DEF LogInv
    <3>3. QED
      BY <3>1, <3>2
  <2>2. QED
    BY <1>1, <1>2, <2>1 DEF Cleared, Consolidate
<1>6. RunInv(w)'
  BY <1>2, <1>3, <1>4, <1>5 DEF RunInv, MergeInv, Asked
<1>7. phase[w] \in Active \ {"unlink"}
  BY <1>1, PhaseNames
<1>8. QED
  BY <1>1, <1>2, <1>6, <1>7, QuietCopies

\* What has been flushed is in the shard, once.
LEMMA FlushDoneCopies ==
  ASSUME LogInv, CopiesInv, Orderly, NEW w \in Run, ReplaceShard(w) \/ FinishShard(w)
  PROVE  CopiesInv'
<1> DEFINE f == <<w, cur[w]>>
           S == RowsFor(w, cur[w])
<1>1. /\ phase[w] \in {"replacing", "creating"}
      /\ pending' = [pending EXCEPT ![w] = @ \ S]
      /\ Goto(w, "live")
      /\ UNCHANGED <<rows, data, archive>>
  BY DEF ReplaceShard, FinishShard, FlushDone
<1>2. cur[w] \in Doc /\ f \in Shard
  BY <1>1 DEF LogInv, TypeInv, PlacesOK, Flush, Shard
<1>3. /\ pending'[w] = pending[w] \ S
      /\ \A v \in Run : v # w => pending'[v] = pending[v]
  BY <1>1 DEF LogInv, TypeInv, MemoryOK
<1>4. phase'[w] = "live" /\ \A v \in Run : v # w => phase'[v] = phase[v]
  BY <1>1, PhaseKept DEF LogInv
<1>5. phase[w] \in Active /\ \A v \in Run : phase[v] # "unlink"
  BY <1>1 DEF LogInv, OneActive, Orderly, Active, Flush, Consolidate
<1>6. \A g \in Shard : g # f => shard'[g] = shard[g]
  BY <1>2 DEF ReplaceShard, FinishShard, LogInv, TypeInv, FilesOK
<1>7. lost' = lost \/ lost' = lost \cup S
  BY DEF ReplaceShard, FinishShard
<1>8. \A r \in Emitted : r \in S <=> r \in pending[r.run] /\ Own(r) = f
  BY RowPlaces DEF LogInv, RowsFor, Own
<1>9. \A r \in S : r \in Emitted /\ r.run = w
  BY DEF RowsFor, LogInv, TypeInv, MemoryOK, Emitted
<1>10. ASSUME NEW r \in Emitted, Own(r) = f
       PROVE  \/ r \in lost' /\ r \in S /\ shard' = shard
              \/ /\ r \in lost' <=> r \in lost
                 /\ InShard(r)' = IF r \in S THEN 1 ELSE InShard(r)
  <2>1. r.run = w /\ r.doc = cur[w] /\ r \in rows[w] /\ (r \in S <=> r \in pending[w])
    BY <1>8, <1>10, RowPlaces DEF Own, LogInv
  <2>2. InShard(r)' = Copies(r, shard'[f])
    BY <2>1 DEF InShard
  <2>3. CASE ReplaceShard(w)
    <3>1. shard'[f] = stmp[w] /\ lost' = lost /\ phase[w] = "replacing"
      BY <1>2, <2>3 DEF ReplaceShard, LogInv, TypeInv, FilesOK
    <3>2. Copies(r, stmp[w]) = IF r \in pending[w] THEN 1 ELSE InShard(r)
      BY <2>1, <3>1 DEF CopiesInv, RunInv, FlushInv
    <3> HIDE DEF f, S
    <3>3. QED
      BY <2>1, <2>2, <3>1, <3>2
  <2>4. CASE FinishShard(w) /\ f \in torn
    <3>1. shard'[f] = RowsOf(S) /\ lost' = lost
      BY <1>2, <2>4 DEF FinishShard, LogInv, TypeInv, FilesOK
    <3>2. shard[f] = NoRows
      BY <2>4 DEF LogInv, TypeInv, FilesOK
    <3>3. InShard(r) = 0
      BY <2>1, <3>2, CopiesFacts DEF InShard
    <3> HIDE DEF f, S
    <3>4. QED
      BY <2>2, <3>1, <3>3, CopiesFacts
  <2>5. CASE FinishShard(w) /\ f \notin torn
    <3>1. shard' = shard /\ lost' = lost \cup S
      BY <2>5 DEF FinishShard
    <3>2. r \notin S => (r \in lost' <=> r \in lost) /\ InShard(r)' = InShard(r)
      BY <3>1 DEF InShard
    <3> HIDE DEF f, S
    <3>3. QED
      BY <3>1, <3>2
  <2>6. QED
    BY <2>3, <2>4, <2>5
<1> HIDE DEF f, S
<1>11. ASSUME NEW r \in Emitted' PROVE RowInv(r)'
  <2>1. r \in Emitted /\ InData(r)' = InData(r)
    BY <1>1 DEF Emitted, InData
  <2>2. /\ InShard(r) \in {0, 1} /\ InData(r) \in {0, 1}
        /\ r \in lost \cup pending[r.run] => InShard(r) = 0 /\ InData(r) = 0
        /\ r \notin lost \cup pending[r.run] =>
              (InShard(r) = 1 /\ InData(r) = 0) \/ (InShard(r) = 0 /\ InData(r) = 1)
    BY <1>5, <2>1, OneFile
  <2>3. Own(r) \in Shard /\ r.run \in Run /\ Own(r) = <<r.run, r.doc>>
    BY <2>1, RowPlaces DEF LogInv, Own
  <2>4. r \in pending'[r.run] <=> r \in pending[r.run] /\ r \notin S
    BY <1>3, <1>9, <2>3
  <2>5. CASE Own(r) # f
    <3>1. InShard(r)' = InShard(r)
      BY <1>6, <2>3, <2>5 DEF InShard
    <3>2. r \notin S
      BY <1>8, <2>1, <2>5
    <3>3. r \in lost' <=> r \in lost
      BY <1>7, <3>2
    <3>4. QED
      BY <2>1, <2>2, <2>4, <3>1, <3>2, <3>3 DEF RowInv
  <2>6. CASE Own(r) = f /\ r \notin S
    <3>1. (r \in lost' <=> r \in lost) /\ InShard(r)' = InShard(r)
      BY <1>10, <2>1, <2>6
    <3>2. QED
      BY <2>1, <2>2, <2>4, <2>6, <3>1 DEF RowInv
  <2>7. CASE Own(r) = f /\ r \in S
    <3>1. r \in pending[r.run] /\ r \notin lost
      BY <1>8, <2>1, <2>3, <2>7 DEF LogInv, TypeInv, MemoryOK
    <3>2. InShard(r) = 0 /\ InData(r) = 0
      BY <2>2, <3>1
    <3>3. \/ r \in lost' /\ InShard(r)' = 0
          \/ r \notin lost' /\ InShard(r)' = 1
      <4>1. CASE r \in lost' /\ shard' = shard
        BY <3>2, <4>1 DEF InShard
      <4>2. CASE (r \in lost' <=> r \in lost) /\ InShard(r)' = 1
        BY <3>1, <4>2
      <4>3. QED
        BY <1>10, <2>1, <2>7, <4>1, <4>2
    <3>4. QED
      BY <2>1, <2>4, <2>7, <3>2, <3>3 DEF RowInv
  <2>8. QED
    BY <2>5, <2>6, <2>7
<1>12. RunInv(w)'
  <2>1. Sent(w)'
    BY <1>1, <1>4, NothingSent DEF Flush
  <2>2. QED
    BY <1>4, <2>1 DEF RunInv, FlushInv, MergeInv, Cleared, Asked, Consolidate
<1>13. ASSUME NEW v \in Run, v # w PROVE Untouched(v)
  <2>1. \A d \in Doc : <<v, d>> # f /\ <<v, d>> \in Shard
    BY <1>13 DEF f, Shard
  <2>2. \A r \in rows[v] : r \notin S
    BY <1>9, <1>13 DEF LogInv, TypeInv, MemoryOK
  <2>3. QED
    BY <1>1, <1>3, <1>4, <1>6, <1>7, <1>13, <2>1, <2>2 DEF Untouched
<1>14. QED
  BY <1>5, <1>11, <1>12, <1>13, Assembled

\* What a run drops is given up and in no file.
LEMMA DropCopies ==
  ASSUME LogInv, CopiesInv, Orderly, Orderly', NEW w \in Run, FlushRaises(w) \/ Crash(w)
  PROVE  CopiesInv'
<1>1. /\ UNCHANGED <<rows, shard, data, archive>>
      /\ lost' = lost \cup pending[w] /\ pending' = [pending EXCEPT ![w] = {}]
      /\ phase[w] \in Active
      /\ phase[w] \in Flush \/ Goto(w, "dead")
      /\ \E place \in {"live", "failed", "dead"} : Goto(w, place)
  BY DEF FlushRaises, Crash, fileVars, Active, DropRows
<1>2. /\ phase'[w] \in {"live", "failed", "dead"}
      /\ phase[w] \in Flush \/ phase'[w] = "dead"
      /\ \A v \in Run : v # w => phase'[v] = phase[v]
  BY <1>1, PhaseKept DEF LogInv
<1>3. pending'[w] = {} /\ \A v \in Run : v # w => pending'[v] = pending[v]
  BY <1>1 DEF LogInv, TypeInv, MemoryOK
<1>4. \A v \in Run : phase[v] # "unlink"
  <2>1. phase[w] # "unlink"
    <3>1. CASE Crash(w) /\ phase[w] = "unlink"
      BY <3>1 DEF Crash, Orderly
    <3>2. CASE FlushRaises(w)
      BY <3>2 DEF FlushRaises, Flush
    <3>3. QED
      BY <3>1, <3>2
  <2>2. QED
    BY <1>1, <2>1, PhaseNames DEF LogInv, OneActive, Orderly
<1>5. ASSUME NEW r \in Emitted' PROVE RowInv(r)'
  <2>1. r \in Emitted /\ InShard(r)' = InShard(r) /\ InData(r)' = InData(r)
    BY <1>1 DEF Emitted, InShard, InData
  <2>2. r.run \in Run /\ (r \in pending[w] => w = r.run)
    BY <2>1, RowPlaces DEF LogInv
  <2>3. r \in lost' \cup pending'[r.run] <=> r \in lost \cup pending[r.run]
    BY <1>1, <1>3, <2>2
  <2>4. QED
    BY <1>4, <2>1, <2>3, OneFile DEF RowInv
<1>6. RunInv(w)'
  <2>1. Sent(w)'
    <3>1. CASE phase[w] \in Flush
      BY <1>1, <1>2, <3>1, NothingSent
    <3>2. CASE phase'[w] = "dead"
      BY <3>2 DEF Sent, Flush, Consolidate
    <3>3. QED
      BY <1>2, <3>1, <3>2
  <2>2. QED
    BY <1>2, <2>1 DEF RunInv, FlushInv, MergeInv, Cleared, Asked, Consolidate
<1>7. ASSUME NEW v \in Run, v # w PROVE Untouched(v)
  <2>1. \A r \in rows[v] : r \notin pending[w]
    <3>1. pending[w] \subseteq rows[w]
      BY DEF LogInv, TypeInv, MemoryOK
    <3>2. \A r \in rows[v] : r.run = v
      BY DEF LogInv, TypeInv, MemoryOK
    <3>3. \A r \in rows[w] : r.run = w
      BY DEF LogInv, TypeInv, MemoryOK
    <3>4. QED
      BY <1>7, <3>1, <3>2, <3>3
  <2>2. QED
    BY <1>1, <1>2, <1>3, <1>7, <2>1 DEF Untouched
<1>8. QED
  BY <1>1, <1>5, <1>6, <1>7, Assembled

LEMMA EndCopies ==
  ASSUME LogInv, CopiesInv, Orderly, Orderly', NEW w \in Run, Finish(w) \/ EndRaises(w)
  PROVE  CopiesInv'
<1>1. /\ UNCHANGED <<rows, pending, shard, data, lost, archive>>
      /\ phase[w] \in Consolidate \cup {"upload"}
      /\ Goto(w, "failed") \/ (Finish(w) /\ Goto(w, "done"))
  BY DEF Finish, EndRaises, memVars, fileVars, history
<1>2. /\ phase'[w] \in {"done", "failed"}
      /\ phase'[w] = "done" => Finish(w)
      /\ \A v \in Run : v # w => phase'[v] = phase[v]
  <2>1. PICK place \in {"done", "failed"} : Goto(w, place) /\ (place = "done" => Finish(w))
    BY <1>1
  <2>2. QED
    BY <2>1, PhaseKept DEF LogInv
<1>3. phase[w] \in Active \ {"unlink"}
  <2>1. ~ (EndRaises(w) /\ phase[w] = "unlink")
    BY DEF EndRaises, Orderly
  <2>2. CASE Finish(w)
    BY <2>2 DEF Finish, Active
  <2>3. QED
    BY <1>1, <2>1, <2>2 DEF Active
<1>4. RunInv(w)'
  <2>1. CASE phase'[w] = "failed"
    BY <2>1 DEF RunInv, FlushInv, MergeInv, Cleared, Asked, Sent, Flush, Consolidate
  <2>2. CASE phase'[w] = "done"
    <3>1. phase[w] = "upload" /\ todo[w] = {}
      BY <1>2, <2>2 DEF Finish
    <3>2. RunInv(w)
      BY DEF CopiesInv
    <3>3. /\ pending[w] = {} /\ \A f \in Shard : shard[f] = NoRows
          /\ \A r \in rows[w] : Copies(r, archive[Own(r)]) = IF r \in lost THEN 0 ELSE 1
      BY <3>1, <3>2 DEF RunInv, Cleared, Sent
    <3>4. Cleared(w)'
      BY <1>1, <2>2, <3>3 DEF Cleared, Shard, Consolidate
    <3>5. Sent(w)'
      BY <1>1, <2>2, <3>3 DEF Sent, Own, Flush, Consolidate
    <3>6. QED
      BY <2>2, <3>4, <3>5 DEF RunInv, FlushInv, MergeInv, Asked
  <2>3. QED
    BY <1>2, <2>1, <2>2
<1>5. QED
  BY <1>1, <1>2, <1>3, <1>4, QuietCopies

\* A consolidation lists the shards there are and all partitions with rows.
LEMMA ListCopies ==
  ASSUME LogInv, CopiesInv, Orderly, NEW w \in Run, List(w)
  PROVE  CopiesInv'
<1>1. /\ phase[w] = "closed"
      /\ work' = [work EXCEPT ![w] = OnDisk]
      /\ Goto(w, NextPartition(OnDisk))
      /\ todo' = [todo EXCEPT ![w] = {d \in Doc : data[d] # NoRows} \cup {f[2] : f \in OnDisk}]
      /\ UNCHANGED <<rows, pending, shard, data, lost, archive>>
  BY DEF List, fileVars, history
<1>2. /\ phase'[w] = (IF OnDisk = {} THEN "upload" ELSE "copy")
      /\ \A v \in Run : v # w => phase'[v] = phase[v]
  BY <1>1, PhaseKept DEF LogInv, NextPartition
<1>3. /\ work'[w] = OnDisk
      /\ todo'[w] = {d \in Doc : data[d] # NoRows} \cup {f[2] : f \in OnDisk}
  BY <1>1 DEF LogInv, TypeInv, ControlOK
<1>4. pending[w] = {} /\ \A d \in Doc : archive[<<w, d>>] = NoRows
  BY <1>1 DEF CopiesInv, RunInv, Cleared, Sent, Consolidate
<1>5. \A f \in Shard : shard[f] # NoRows => f \in OnDisk
  BY DEF OnDisk
<1>6. ASSUME NEW r \in rows[w], r \notin lost PROVE r.doc \in todo'[w]
  <2>1. r \in Emitted /\ r.run = w /\ r.doc \in Doc /\ Own(r) \in Shard /\ Own(r)[2] = r.doc
    <3>1. r \in Emitted
      BY DEF Emitted
    <3>2. QED
      BY <3>1, RowPlaces DEF LogInv
  <2>2. InShard(r) = 1 \/ InData(r) = 1
    BY <1>4, <1>6, <2>1 DEF CopiesInv, RowInv
  <2>3. CASE InData(r) = 1
    BY <1>3, <2>1, <2>3, CopiesFacts DEF InData
  <2>4. CASE InShard(r) = 1
    <3>1. shard[Own(r)] # NoRows
      BY <2>4, CopiesFacts DEF InShard, Own
    <3>2. QED
      BY <1>3, <1>5, <2>1, <3>1
  <2>5. QED
    BY <2>2, <2>3, <2>4
<1>7. Cleared(w)'
  BY <1>1, <1>2, <1>3, <1>4, <1>5 DEF Cleared, Consolidate
<1>8. Asked(w)'
  BY <1>1, <1>6 DEF Asked
<1>9. Sent(w)'
  <2>1. ASSUME NEW r \in rows'[w], r.doc \notin todo'[w] \/ phase'[w] = "done"
        PROVE  Copies(r, archive'[Own(r)]) = IF r \in lost' THEN 0 ELSE 1
    <3>1. r \in rows[w] /\ r \in lost
      BY <1>1, <1>2, <1>6, <2>1
    <3>2. Own(r) = <<w, r.doc>> /\ r.doc \in Doc
      BY <3>1, EmittedTyped DEF LogInv, TypeInv, MemoryOK, Own
    <3>3. QED
      BY <1>1, <1>4, <3>1, <3>2, CopiesFacts
  <2>2. \A d \in Doc : archive'[<<w, d>>] = NoRows
    BY <1>1, <1>4
  <2>3. QED
    BY <2>1, <2>2 DEF Sent, Own
<1>10. RunInv(w)'
  BY <1>2, <1>7, <1>8, <1>9 DEF RunInv, FlushInv, MergeInv
<1>11. phase[w] \in Active \ {"unlink"}
  BY <1>1, PhaseNames
<1>12. QED
  BY <1>1, <1>2, <1>10, <1>11, QuietCopies

LEMMA CopyMergedCopies ==
  ASSUME LogInv, CopiesInv, Orderly, NEW w \in Run, CopyMerged(w)
  PROVE  CopiesInv'
<1>1. /\ phase[w] = "copy"
      /\ dtmp' = [dtmp EXCEPT ![At(w)] = Merged(w)]
      /\ Goto(w, "rename")
      /\ UNCHANGED <<rows, pending, work, todo, shard, data, lost, archive>>
  BY DEF CopyMerged, memVars, history
<1>2. phase'[w] = "rename" /\ \A v \in Run : v # w => phase'[v] = phase[v]
  BY <1>1, PhaseKept DEF LogInv
<1>3. At(w) \in Doc
  BY <1>1, AtPartition DEF LogInv
<1>4. dtmp'[At(w)] = Merged(w)
  BY <1>1, <1>3 DEF LogInv, TypeInv, FilesOK
<1>5. At(w)' = At(w) /\ Shards(w)' = Shards(w)
  BY <1>1, AtKept
<1>6. phase[w] \in Active \ {"unlink"} /\ \A v \in Run : phase[v] # "unlink"
  BY <1>1 DEF LogInv, OneActive, Orderly, Active, Consolidate
<1>7. ASSUME NEW r \in Emitted, r.doc = At(w)
      PROVE  Copies(r, dtmp'[At(w)]) = IF Own(r) \in Shards(w) /\ InShard(r) = 1
                                       THEN 1 ELSE InData(r)
  <2>1. /\ InShard(r) \in {0, 1} /\ InData(r) \in {0, 1}
        /\ InShard(r) = 0 \/ InData(r) = 0
    BY <1>6, OneFile
  <2>2. Copies(r, dtmp'[At(w)])
            = InData(r) + IF Own(r) \in Shards(w) THEN InShard(r) ELSE 0
    BY <1>1, <1>4, <1>7, <2>1, MergedCopies DEF LogInv
  <2>3. QED
    BY <2>1, <2>2
<1>8. \A r : InShard(r)' = InShard(r) /\ InData(r)' = InData(r) /\ Own(r)' = Own(r)
  BY <1>1 DEF InShard, InData, Own
<1>9. MergeInv(w)'
  <2>1. Emitted' = Emitted
    BY <1>1 DEF Emitted
  <2>2. QED
    BY <1>2, <1>5, <1>7, <1>8, <2>1 DEF MergeInv
<1>10. RunInv(w)
  BY DEF CopiesInv
<1>11. Cleared(w)' /\ Asked(w)'
  BY <1>1, <1>2, <1>10 DEF RunInv, Cleared, Asked, Consolidate
<1>12. Sent(w)'
  BY <1>1, <1>2, NothingSent DEF Consolidate
<1>13. RunInv(w)'
  BY <1>2, <1>9, <1>11, <1>12 DEF RunInv, FlushInv
<1>14. QED
  BY <1>1, <1>2, <1>6, <1>13, QuietCopies

\* After the rename a row of a merged shard is in data.parquet too.
LEMMA ReplaceDataCopies ==
  ASSUME LogInv, CopiesInv, Orderly, NEW w \in Run, ReplaceData(w)
  PROVE  CopiesInv'
<1>1. /\ phase[w] = "rename"
      /\ data' = [data EXCEPT ![At(w)] = dtmp[At(w)]]
      /\ Goto(w, "unlink")
      /\ UNCHANGED <<rows, pending, work, todo, shard, lost, archive>>
  BY DEF ReplaceData, memVars, history
<1>2. phase'[w] = "unlink" /\ \A v \in Run : v # w => phase'[v] = phase[v]
  BY <1>1, PhaseKept DEF LogInv
<1>3. At(w) \in Doc /\ \A f \in Shards(w) : f[2] = At(w)
  BY <1>1, AtPartition DEF LogInv
<1>4. /\ data'[At(w)] = dtmp[At(w)]
      /\ \A d \in Doc : d # At(w) => data'[d] = data[d]
  BY <1>1, <1>3 DEF LogInv, TypeInv, FilesOK
<1>5. At(w)' = At(w) /\ Shards(w)' = Shards(w)
  BY <1>1, AtKept
<1>6. phase[w] \in Active /\ \A v \in Run : phase[v] # "unlink"
  BY <1>1 DEF LogInv, OneActive, Orderly, Active, Consolidate
<1>7. RunInv(w) /\ Emitted' = Emitted
  BY <1>1 DEF CopiesInv, Emitted
<1>8. \A r : InShard(r)' = InShard(r) /\ Own(r)' = Own(r)
  BY <1>1 DEF InShard, Own
<1>9. ASSUME NEW r \in Emitted
      PROVE  InData(r)' = IF Own(r) \in Shards(w) /\ InShard(r) = 1 THEN 1 ELSE InData(r)
  <2>1. r.doc \in Doc /\ Own(r)[2] = r.doc
    BY RowPlaces DEF LogInv
  <2>2. CASE r.doc = At(w)
    BY <1>1, <1>4, <1>7, <2>2 DEF RunInv, MergeInv, InData
  <2>3. CASE r.doc # At(w)
    BY <1>3, <1>4, <2>1, <2>3 DEF InData
  <2>4. QED
    BY <2>2, <2>3
<1>10. ASSUME NEW r \in Emitted' PROVE RowInv(r)'
  <2>1. r \in Emitted
    BY <1>7
  <2>2. /\ InShard(r) \in {0, 1} /\ InData(r) \in {0, 1}
        /\ r \in lost \cup pending[r.run] => InShard(r) = 0 /\ InData(r) = 0
        /\ r \notin lost \cup pending[r.run] =>
              (InShard(r) = 1 /\ InData(r) = 0) \/ (InShard(r) = 0 /\ InData(r) = 1)
    BY <1>6, <2>1, OneFile
  <2>3. Own(r) \in Shards(w) => Removing(r)'
    BY <1>2, <1>5, <1>8 DEF Removing
  <2>4. QED
    BY <1>1, <1>8, <1>9, <2>1, <2>2, <2>3 DEF RowInv
<1>11. MergeInv(w)'
  BY <1>2, <1>5, <1>7, <1>8, <1>9 DEF MergeInv
<1>12. Cleared(w)' /\ Asked(w)'
  BY <1>1, <1>2, <1>7 DEF RunInv, Cleared, Asked, Consolidate
<1>13. Sent(w)'
  BY <1>1, <1>2, NothingSent DEF Consolidate
<1>14. RunInv(w)'
  BY <1>2, <1>11, <1>12, <1>13 DEF RunInv, FlushInv
<1>15. \A v \in Run : v # w => Untouched(v)
  BY <1>1, <1>2 DEF Untouched
<1>16. QED
  BY <1>6, <1>10, <1>14, <1>15, Assembled

\* The shard that is removed leaves its rows once, in data.parquet.
LEMMA UnlinkCopies ==
  ASSUME LogInv, CopiesInv, Orderly, NEW w \in Run, Unlink(w)
  PROVE  CopiesInv'
<1>1. /\ phase[w] = "unlink"
      /\ UNCHANGED <<rows, pending, todo, data, lost, archive>>
  BY DEF Unlink, history
<1>2. PICK f \in Shards(w) :
          /\ RemoveShard(f)
          /\ work' = [work EXCEPT ![w] = @ \ {f}]
          /\ Goto(w, IF Shards(w) = {f} THEN NextPartition(work[w] \ {f}) ELSE "unlink")
  BY DEF Unlink
<1>3. f \in Shard /\ f \in work[w] /\ Shards(w) \subseteq work[w] /\ Shards(w) \subseteq Shard
  BY <1>1, AtPartition DEF LogInv
<1>4. /\ shard'[f] = NoRows
      /\ \A g \in Shard : g # f => shard'[g] = shard[g]
  BY <1>2, <1>3 DEF RemoveShard, LogInv, TypeInv, FilesOK
<1>5. /\ phase'[w] = (IF Shards(w) = {f} THEN NextPartition(work[w] \ {f}) ELSE "unlink")
      /\ \A v \in Run : v # w => phase'[v] = phase[v]
  BY <1>2, PhaseKept DEF LogInv
<1>6. /\ work'[w] = work[w] \ {f}
      /\ \A v \in Run : v # w => work'[v] = work[v]
  BY <1>2 DEF LogInv, TypeInv, ControlOK
<1>7. phase[w] \in Active /\ \A v \in Run : v # w => phase[v] # "unlink"
  BY <1>1 DEF LogInv, OneActive, Orderly, Active, Consolidate
<1>8. RunInv(w) /\ Emitted' = Emitted
  BY <1>1 DEF CopiesInv, Emitted
<1>9. ASSUME Shards(w) # {f}
      PROVE  At(w)' = At(w) /\ Shards(w)' = Shards(w) \ {f}
  <2>1. PICK g \in Shards(w) : g # f
    BY <1>9
  <2>2. g \in work'[w] /\ g[2] = f[2]
    BY <1>2, <1>6, <2>1 DEF Shards
  <2>3. {h[2] : h \in work'[w]} = {h[2] : h \in work[w]}
    BY <1>2, <1>6, <2>2 DEF Shards
  <2>4. At(w)' = At(w)
    BY <2>3 DEF At
  <2>5. QED
    BY <1>6, <2>4 DEF Shards
<1>10. ASSUME NEW r \in Emitted
       PROVE  /\ InShard(r)' = (IF Own(r) = f THEN 0 ELSE InShard(r))
              /\ InData(r)' = InData(r) /\ Own(r)' = Own(r)
  <2>1. Own(r) \in Shard /\ Own(r) = <<r.run, r.doc>>
    BY RowPlaces DEF LogInv, Own
  <2>2. CASE Own(r) = f
    BY <1>1, <1>4, <2>1, <2>2, CopiesFacts DEF InShard, InData, Own
  <2>3. CASE Own(r) # f
    BY <1>1, <1>4, <2>1, <2>3 DEF InShard, InData, Own
  <2>4. QED
    BY <2>2, <2>3
<1>11. ASSUME NEW r \in Emitted' PROVE RowInv(r)'
  <2>1. r \in Emitted /\ RowInv(r)
    BY <1>8 DEF CopiesInv
  <2>2. Own(r) = f /\ InShard(r) = 1 => InData(r) = 1
    BY <1>1, <1>8, <2>1 DEF RunInv, MergeInv
  <2>3. ASSUME Own(r) # f, InShard(r) = 1, InData(r) = 1 PROVE Removing(r)'
    <3>1. Own(r) \in Shards(w)
      BY <1>7, <2>1, <2>3 DEF RowInv, Removing
    <3>2. Shards(w) # {f}
      BY <2>3, <3>1
    <3>3. phase'[w] = "unlink" /\ Own(r)' \in Shards(w)'
      BY <1>5, <1>9, <1>10, <2>1, <2>3, <3>1, <3>2
    <3>4. QED
      BY <3>3 DEF Removing
  <2>4. QED
    BY <1>1, <1>10, <2>1, <2>2, <2>3 DEF RowInv
<1>12. CASE Shards(w) # {f}
  <2>1. phase'[w] = "unlink"
    BY <1>5, <1>12
  <2>2. MergeInv(w)'
    <3>1. ASSUME NEW r \in Emitted', Own(r)' \in Shards(w)', InShard(r)' = 1
          PROVE  InData(r)' = 1
      <4>1. r \in Emitted /\ Own(r) \in Shards(w) /\ InShard(r) = 1
        BY <1>8, <1>9, <1>10, <1>12, <3>1
      <4>2. QED
        BY <1>1, <1>8, <1>10, <4>1 DEF RunInv, MergeInv
    <3>2. QED
      BY <2>1, <3>1 DEF MergeInv
  <2>3. Cleared(w)'
    BY <1>1, <1>4, <1>6, <1>8, <2>1 DEF RunInv, Cleared, Consolidate
  <2>4. Asked(w)'
    BY <1>1, <1>8, <2>1 DEF RunInv, Asked
  <2>5. Sent(w)'
    BY <1>1, <2>1, NothingSent DEF Consolidate
  <2>6. RunInv(w)'
    BY <2>1, <2>2, <2>3, <2>4, <2>5 DEF RunInv, FlushInv
  <2>7. \A v \in Run : v # w => Untouched(v)
    BY <1>1, <1>4, <1>5 DEF Untouched, Shard
  <2>8. QED
    BY <1>7, <1>11, <2>6, <2>7, Assembled
<1>13. CASE Shards(w) = {f}
  <2>1. phase'[w] = IF work'[w] = {} THEN "upload" ELSE "copy"
    BY <1>5, <1>6, <1>13 DEF NextPartition
  <2>2. pending'[w] = {}
    BY <1>1, <1>8 DEF RunInv, Cleared, Consolidate
  <2>3. \A g \in Shard : shard'[g] # NoRows => g \in work'[w]
    BY <1>1, <1>4, <1>6, <1>8 DEF RunInv, Cleared
  <2>4. Cleared(w)'
    BY <2>1, <2>2, <2>3 DEF Cleared
  <2>5. Asked(w)'
    BY <1>1, <1>8 DEF RunInv, Asked
  <2>6. \A d \in Doc : archive[<<w, d>>] = NoRows
    BY <1>1, <1>8 DEF RunInv, Sent, Consolidate
  <2>7. ASSUME NEW r \in rows'[w], r.doc \notin todo'[w]
        PROVE  Copies(r, archive'[Own(r)]) = IF r \in lost' THEN 0 ELSE 1
    <3>1. r \in rows[w] /\ r \in lost
      BY <1>1, <1>8, <2>7 DEF RunInv, Asked
    <3>2. Own(r) = <<w, r.doc>> /\ r.doc \in Doc
      BY <3>1, EmittedTyped DEF LogInv, TypeInv, MemoryOK, Own
    <3>3. QED
      BY <1>1, <2>6, <3>1, <3>2, CopiesFacts
  <2>8. Sent(w)'
    BY <1>1, <2>1, <2>6, <2>7 DEF Sent, Own
  <2>9. RunInv(w)'
    BY <2>1, <2>4, <2>5, <2>8 DEF RunInv, FlushInv, MergeInv
  <2>10. \A v \in Run : v # w => Untouched(v)
    BY <1>1, <1>4, <1>5 DEF Untouched, Shard
  <2>11. QED
    BY <1>7, <1>11, <2>9, <2>10, Assembled
<1>14. QED
  BY <1>12, <1>13

\* What is uploaded of a run is in data.parquet, once.
LEMMA UploadCopies ==
  ASSUME LogInv, CopiesInv, Orderly, NEW w \in Run, Upload(w)
  PROVE  CopiesInv'
<1> DEFINE d == Min(todo[w])
<1>1. /\ phase[w] = "upload" /\ todo[w] # {}
      /\ todo' = [todo EXCEPT ![w] = @ \ {d}]
      /\ archive' = IF data[d] = NoRows THEN archive
                    ELSE [archive EXCEPT ![<<w, d>>] = data[d]]
      /\ UNCHANGED <<phase, rows, pending, shard, data, lost>>
  BY DEF Upload, fileVars, history
<1>2. todo[w] \in SUBSET Doc
  BY DEF LogInv, TypeInv, ControlOK
<1>3. d \in todo[w] /\ d \in Doc
  BY <1>1, <1>2, LeastExists
<1> HIDE DEF d
<1>4. todo'[w] = todo[w] \ {d}
  BY <1>1 DEF LogInv, TypeInv, ControlOK
<1>5. /\ \A g \in Shard : g # <<w, d>> => archive'[g] = archive[g]
      /\ data[d] # NoRows => archive'[<<w, d>>] = data[d]
      /\ data[d] = NoRows => archive'[<<w, d>>] = archive[<<w, d>>]
  BY <1>1, <1>3 DEF LogInv, TypeInv, FilesOK, Shard
<1>6. RunInv(w)
  BY DEF CopiesInv
<1>7. /\ pending[w] = {} /\ \A f \in Shard : shard[f] = NoRows
      /\ \A e \in todo[w] : archive[<<w, e>>] = NoRows
  BY <1>1, <1>2, <1>6 DEF RunInv, Cleared, Sent
<1>8. ASSUME NEW r \in rows[w]
      PROVE  /\ Own(r) = <<w, r.doc>> /\ Own(r) \in Shard
             /\ InData(r) = IF r \in lost THEN 0 ELSE 1
  <2>1. r \in Emitted
    BY DEF Emitted
  <2>2. r.run = w /\ Own(r) \in Shard
    BY <2>1, RowPlaces DEF LogInv
  <2>3. InShard(r) = 0
    BY <1>7, <2>2, CopiesFacts DEF InShard, Own
  <2>4. QED
    BY <1>7, <2>1, <2>2, <2>3 DEF CopiesInv, RowInv, Own
<1>9. ASSUME NEW r \in rows[w], r.doc \notin todo'[w]
      PROVE  Copies(r, archive'[Own(r)]) = IF r \in lost THEN 0 ELSE 1
  <2>1. CASE r.doc # d
    <3>1. Own(r) # <<w, d>> /\ r.doc \notin todo[w]
      BY <1>4, <1>8, <1>9, <2>1
    <3>2. archive'[Own(r)] = archive[Own(r)]
      BY <1>5, <1>8, <3>1
    <3>3. QED
      BY <1>1, <1>6, <3>1, <3>2 DEF RunInv, Sent
  <2>2. CASE r.doc = d
    <3>1. Copies(r, archive'[Own(r)]) = InData(r)
      BY <1>3, <1>5, <1>7, <1>8, <2>2, CopiesFacts DEF InData
    <3>2. QED
      BY <1>8, <3>1
  <2>3. QED
    BY <2>1, <2>2
<1>10. \A e \in Doc : e \in todo'[w] => archive'[<<w, e>>] = NoRows
  <2> SUFFICES ASSUME NEW e \in Doc, e \in todo'[w] PROVE archive'[<<w, e>>] = NoRows
    OBVIOUS
  <2>1. e \in todo[w] /\ <<w, e>> # <<w, d>> /\ <<w, e>> \in Shard
    BY <1>4 DEF Shard
  <2>2. QED
    BY <1>5, <1>7, <2>1
<1>11. Sent(w)'
  BY <1>1, <1>9, <1>10 DEF Sent, Own, Flush, Consolidate
<1>12. Cleared(w)'
  BY <1>1, <1>6 DEF RunInv, Cleared, Consolidate
<1>13. RunInv(w)'
  BY <1>1, <1>11, <1>12 DEF RunInv, FlushInv, MergeInv, Asked
<1>14. phase[w] \in Active \ {"unlink"}
  BY <1>1, PhaseNames
<1>15. \A v \in Run, e \in Doc : v # w => archive'[<<v, e>>] = archive[<<v, e>>]
  BY <1>5 DEF Shard
<1>16. QED
  BY <1>1, <1>13, <1>14, <1>15, QuietCopies

LEMMA CopiesInit == Init => CopiesInv
<1> SUFFICES ASSUME Init PROVE CopiesInv
  OBVIOUS
<1>1. Emitted = {}
  BY DEF Init, Emitted
<1>2. \A w \in Run : /\ phase[w] = "idle"
                     /\ \A d \in Doc : archive[<<w, d>>] = NoRows
  BY DEF Init, Shard
<1>3. \A w \in Run : RunInv(w)
  BY <1>2 DEF RunInv, FlushInv, MergeInv, Cleared, Asked, Sent, Consolidate
<1>4. QED
  BY <1>1, <1>3 DEF CopiesInv

\* What has once gone wrong stays so.
LEMMA OrderlyBefore ==
  ASSUME TypeInv, Orderly', [Next]_vars
  PROVE  Orderly
<1>1. overlap \in BOOLEAN /\ cut \in BOOLEAN
  BY DEF TypeInv, ControlOK
<1>2. (overlap => overlap') /\ (cut => cut')
  <2>1. CASE UNCHANGED vars
    BY <2>1 DEF vars, history
  <2>2. ASSUME NEW w \in Run, NEW d \in Doc, Append(w, d) \/ FlushBegin(w, d)
        PROVE  (overlap => overlap') /\ (cut => cut')
    BY <2>2 DEF Append, FlushBegin, history
  <2>3. ASSUME NEW w \in Run,
               \/ MergeShard(w) \/ ReplaceShard(w) \/ FinishShard(w) \/ FlushRaises(w)
               \/ Close(w) \/ List(w) \/ CopyMerged(w) \/ ReplaceData(w) \/ Unlink(w)
               \/ Upload(w) \/ Finish(w)
        PROVE  (overlap => overlap') /\ (cut => cut')
    <3>1. UNCHANGED <<overlap, cut>>
      BY <2>3
      DEF MergeShard, ReplaceShard, FinishShard, FlushDone, FlushRaises, Close, List,
          CopyMerged, ReplaceData, Unlink, Upload, Finish, history
    <3>2. QED
      BY <3>1
  <2>4. ASSUME NEW w \in Run, Start(w) PROVE (overlap => overlap') /\ (cut => cut')
    <3>1. overlap' = (overlap \/ \E v \in Run : phase[v] \in Active) /\ cut' = cut
      BY <2>4 DEF Start
    <3>2. QED
      BY <3>1, Zenon
  <2>5. ASSUME NEW w \in Run, EndRaises(w) \/ Crash(w)
        PROVE  (overlap => overlap') /\ (cut => cut')
    <3>1. cut' = (cut \/ phase[w] = "unlink") /\ overlap' = overlap
      BY <2>5 DEF EndRaises, Crash
    <3>2. QED
      BY <3>1, Zenon
  <2>6. QED
    BY <2>1, <2>2, <2>3, <2>4, <2>5 DEF Next, EndStep
<1>3. QED
  BY <1>1, <1>2 DEF Orderly

LEMMA CopiesNext ==
  ASSUME LogInv, CopiesInv, [Next]_vars
  PROVE  CopiesInv'
<1> SUFFICES ASSUME Orderly' PROVE CopiesInv'
  BY DEF CopiesInv
<1>1. Orderly
  BY OrderlyBefore DEF LogInv
<1>2. CASE UNCHANGED vars
  <2>1. /\ UNCHANGED <<phase, rows, pending, cur, stmp, work, todo, shard, data, dtmp,
                       archive, lost>>
    BY <1>2 DEF vars, memVars, fileVars, history
  <2>2. Emitted' = Emitted
    BY <2>1 DEF Emitted
  <2>3. \A w : At(w)' = At(w) /\ Shards(w)' = Shards(w)
    BY <2>1, AtKept
  <2>4. \A r : /\ InShard(r)' = InShard(r) /\ InData(r)' = InData(r) /\ Own(r)' = Own(r)
               /\ Removing(r)' <=> Removing(r)
    BY <2>1, <2>3 DEF InShard, InData, Own, Removing
  <2>5. ASSUME NEW r \in Emitted' PROVE RowInv(r)'
    BY <1>1, <2>1, <2>2, <2>4 DEF CopiesInv, RowInv
  <2>6. ASSUME NEW w \in Run PROVE RunInv(w)'
    <3>1. RunInv(w)
      BY <1>1 DEF CopiesInv
    <3>2. FlushInv(w)' /\ MergeInv(w)'
      BY <2>1, <2>2, <2>3, <2>4, <3>1 DEF RunInv, FlushInv, MergeInv
    <3>3. Cleared(w)' /\ Asked(w)' /\ Sent(w)'
      BY <2>1, <2>4, <3>1 DEF RunInv, Cleared, Asked, Sent
    <3>4. QED
      BY <3>2, <3>3 DEF RunInv
  <2>7. QED
    BY <2>5, <2>6 DEF CopiesInv
<1>3. ASSUME NEW w \in Run, NEW d \in Doc, Append(w, d) PROVE CopiesInv'
  BY <1>1, <1>3, AppendCopies
<1>4. QED
  BY <1>1, <1>2, <1>3, StartCopies, FlushCopies, FlushDoneCopies, DropCopies, EndCopies,
     ListCopies, CopyMergedCopies, ReplaceDataCopies, UnlinkCopies, UploadCopies
  DEF Next, EndStep

-----------------------------------------------------------------------------

LEMMA CopiesAreOne ==
  ASSUME LogInv, CopiesInv
  PROVE  OneCopy
<1> SUFFICES ASSUME Orderly, NEW r \in Row, LocalCopies(r) > 1
             PROVE  /\ LocalCopies(r) = 2
                    /\ \E w \in Run : phase[w] = "unlink" /\ <<r.run, r.doc>> \in work[w]
  BY DEF OneCopy, Orderly
<1>1. LocalCopies(r) = InShard(r) + InData(r)
  BY DEF LocalCopies, InData
<1>2. r \in Emitted
  BY <1>1, NotThere DEF LogInv
<1>3. RowInv(r)
  BY <1>2 DEF CopiesInv
<1>4. InShard(r) = 1 /\ InData(r) = 1
  BY <1>1, <1>3 DEF RowInv
<1>5. QED
  BY <1>1, <1>3, <1>4 DEF RowInv, Removing, Own, Shards

LEMMA DoneIsSent ==
  ASSUME LogInv, CopiesInv, Orderly, NEW w \in Run, phase[w] = "done", NEW r \in rows[w]
  PROVE  /\ r \in Row /\ r.run = w
         /\ Copies(r, archive[<<w, r.doc>>]) = IF r \in lost THEN 0 ELSE 1
         /\ LocalCopies(r) = IF r \in lost THEN 0 ELSE 1
<1>1. r \in Emitted /\ RunInv(w)
  BY DEF CopiesInv, Emitted
<1>2. r \in Row /\ r.run = w /\ r.doc \in Doc
  BY <1>1, RowPlaces DEF LogInv
<1>3. Copies(r, archive[<<w, r.doc>>]) = IF r \in lost THEN 0 ELSE 1
  BY <1>1, <1>2 DEF RunInv, Sent, Own
<1>4. pending[w] = {} /\ InShard(r) = 0
  BY <1>1, <1>2, CopiesFacts DEF RunInv, Cleared, InShard
<1>5. InData(r) = IF r \in lost THEN 0 ELSE 1
  BY <1>1, <1>2, <1>4 DEF CopiesInv, RowInv
<1>6. LocalCopies(r) = InShard(r) + InData(r)
  BY DEF LocalCopies, InData
<1>7. QED
  BY <1>2, <1>3, <1>4, <1>5, <1>6

\* A row is in one local file at most, as long as runs do not overlap and none ends
\* while it removes shards; but for the shards a consolidation is about to remove.
THEOREM RowsAreOnce == Spec => []OneCopy
<1>1. Init => LogInv /\ CopiesInv
  BY LogInit, CopiesInit
<1>2. LogInv /\ CopiesInv /\ LogInv' /\ [Next]_vars => CopiesInv'
  BY CopiesNext
<1>3. LogInv /\ CopiesInv => OneCopy
  BY CopiesAreOne
<1>4. QED
  BY <1>1, <1>2, <1>3, LogHolds, PTL DEF Spec

\* The archive of a run that ended well has each of its rows once, but for those that a
\* flush lost, whatever the runs before have left in the directory.
THEOREM ArchivesAreComplete == Spec => []ArchiveComplete
<1>1. Init => LogInv /\ CopiesInv
  BY LogInit, CopiesInit
<1>2. LogInv /\ CopiesInv /\ LogInv' /\ [Next]_vars => CopiesInv'
  BY CopiesNext
<1>3. LogInv /\ CopiesInv => ArchiveComplete
  BY DoneIsSent DEF ArchiveComplete, HoldsRun, Orderly
<1>4. QED
  BY <1>1, <1>2, <1>3, LogHolds, PTL DEF Spec

\* And the viewer answers with each of them once, from the local files as long as they
\* are there to be read and from the archive otherwise.
THEOREM RunsAreAnswered == Spec => []StillAnswered
<1>1. Init => LogInv /\ CopiesInv
  BY LogInit, CopiesInit
<1>2. LogInv /\ CopiesInv /\ LogInv' /\ [Next]_vars => CopiesInv'
  BY CopiesNext
<1>3. LogInv /\ CopiesInv => StillAnswered
  BY DoneIsSent DEF StillAnswered, HoldsRun, Response, Orderly
<1>4. QED
  BY <1>1, <1>2, <1>3, LogHolds, PTL DEF Spec
=============================================================================
