-------------------------- MODULE AssetStoreProofs --------------------------
(***************************************************************************)
(* Proofs about AssetStore, for every set of steps, partitions and payloads *)
(* and every number of outputs, faults and manifest entries.               *)
(***************************************************************************)
EXTENDS AssetStore, SequenceTheorems, TLAPS

USE PayloadAssumption, PartitionAssumption, BoundAssumption

\* The records of a manifest are among those of the manifest that was loaded and
\* the one that was added; that one is the last.
LEMMA CappedManifest ==
  ASSUME NEW m \in Seq(Record), NEW r \in Record
  PROVE  LET new == Capped(Append(m, r)) IN
            /\ new \in Seq(Record)
            /\ new # <<>>
            /\ Len(new) = IF Len(m) < MaxEntries THEN Len(m) + 1 ELSE MaxEntries
            /\ new[Len(new)] = r
            /\ \A i \in 1..Len(new) : new[i] = Append(m, r)[Len(m) + 1 - Len(new) + i]
<1> DEFINE long == Append(m, r)
           first == Len(long) - MaxEntries + 1
           new == Capped(long)
           Facts == /\ new \in Seq(Record)
                    /\ new # <<>>
                    /\ Len(new) = IF Len(m) < MaxEntries THEN Len(m) + 1 ELSE MaxEntries
                    /\ new[Len(new)] = r
                    /\ \A i \in 1..Len(new) : new[i] = long[Len(m) + 1 - Len(new) + i]
<1>1. /\ long \in Seq(Record) /\ Len(long) = Len(m) + 1
      /\ \A i \in 1..Len(long) : long[i] \in Record
      /\ long[Len(long)] = r
  BY AppendProperties
<1>2. ASSUME Len(long) <= MaxEntries PROVE Facts
  <2>1. new = long
    BY <1>1, <1>2 DEF Capped
  <2>2. QED
    BY <1>1, <1>2, <2>1
<1>3. ASSUME Len(long) > MaxEntries PROVE Facts
  <2>1. new = SubSeq(long, first, Len(long))
    BY <1>1, <1>3 DEF Capped
  <2>2. first \in 1..Len(long) /\ first \in Int /\ Len(long) \in Int
    BY <1>1, <1>3
  <2>3. \A i \in first..Len(long) : long[i] \in Record
    BY <1>1, <2>2
  <2> HIDE DEF long, first
  <2>4. /\ SubSeq(long, first, Len(long)) \in Seq(Record)
        /\ Len(SubSeq(long, first, Len(long))) = Len(long) - first + 1
        /\ \A i \in 1..Len(long) - first + 1 :
              SubSeq(long, first, Len(long))[i] = long[first + i - 1]
    BY <2>2, <2>3, SubSeqProperties
  <2>5. new \in Seq(Record) /\ Len(new) = MaxEntries
    BY <2>1, <2>2, <2>4 DEF first
  <2>6. \A i \in 1..Len(new) : new[i] = long[Len(long) - Len(new) + i]
    BY <2>1, <2>2, <2>4, <2>5 DEF first
  <2>7. new[Len(new)] = r
    BY <1>1, <2>2, <2>5, <2>6
  <2>8. QED
    BY <1>1, <1>3, <2>5, <2>6, <2>7
<1>4. Facts
  BY <1>1, <1>2, <1>3
<1>5. QED
  BY <1>4

LEMMA FormatOfPayload == \A c : FormatOf(c) \in Format
BY DEF FormatOf, Format

-----------------------------------------------------------------------------
(* Type correctness                                                        *)

LEMMA TypeInit == Init => TypeOK
<1> SUFFICES ASSUME Init PROVE TypeOK
  OBVIOUS
<1>1. <<>> \in Seq(Record) /\ Len(<<>>) = 0
  OBVIOUS
<1>2. QED
  BY <1>1 DEF Init, TypeOK, NoObject

LEMMA TypeNext == TypeOK /\ [Next]_vars => TypeOK'
<1> SUFFICES ASSUME TypeOK, [Next]_vars PROVE TypeOK'
  OBVIOUS
<1> USE DEF TypeOK
<1>1. ASSUME NEW s \in Step, NEW p \in Partition, NEW c \in Payload, Begin(s, p, c)
      PROVE TypeOK'
  <2>1. seen' \in [Step -> Seq(Record)]
    <3>1. <<>> \in Seq(Record)
      OBVIOUS
    <3>2. QED
      <4>1. CASE seen' = [seen EXCEPT ![s] = manifest]
        BY <4>1
      <4>2. CASE seen' = [seen EXCEPT ![s] = <<>>]
        BY <3>1, <4>2
      <4>3. QED
        BY <1>1, <4>1, <4>2 DEF Begin, LoadManifest
  <2>2. faults' \in 0..MaxFaults
    BY <1>1 DEF Begin, LoadManifest, Fault
  <2>3. QED
    BY <1>1, <2>1, <2>2 DEF Begin, LoadManifest, objects, loads
<1>2. ASSUME NEW s \in Step, Return(s)
      PROVE /\ pc' \in [Step -> {"idle", "loaded", "data", "sidecar"}]
            /\ part' \in [Step -> Partition \cup {None}]
            /\ payload' \in [Step -> Payload \cup {None}]
            /\ \A t \in Step : /\ pc'[t] = "idle" <=> part'[t] = None
                               /\ pc'[t] = "idle" <=> payload'[t] = None
            /\ seen' \in [Step -> Seq(Record)]
            /\ outputs' = outputs
  <2>1. <<>> \in Seq(Record)
    OBVIOUS
  <2>2. QED
    BY <1>2, <2>1 DEF Return
<1>3. ASSUME NEW s \in Step, Skip(s) PROVE TypeOK'
  BY <1>2, <1>3 DEF Skip, objects, loads
<1>4. ASSUME NEW s \in Step, PutData(s) PROVE TypeOK'
  <2>1. part[s] \in Partition /\ payload[s] \in Payload
    BY <1>4 DEF PutData
  <2>2. data' \in [Partition -> [Format -> Payload \cup {None}]]
    BY <1>4, <2>1, FormatOfPayload DEF PutData, Overwrite
  <2>3. QED
    BY <1>4, <2>2 DEF PutData, loads
<1>5. ASSUME NEW s \in Step, PutSidecar(s) PROVE TypeOK'
  BY <1>5 DEF PutSidecar, loads
<1>6. ASSUME NEW s \in Step, PutManifest(s) PROVE TypeOK'
  <2> DEFINE record == [partition |-> part[s], payload |-> payload[s]]
  <2>1. record \in Record /\ seen[s] \in Seq(Record)
    BY <1>6 DEF PutManifest, Record
  <2> HIDE DEF record
  <2>2. /\ Capped(Append(seen[s], record)) \in Seq(Record)
        /\ Len(Capped(Append(seen[s], record))) <= MaxEntries
    BY <2>1, CappedManifest
  <2> USE DEF record
  <2>3. manifest' \in Seq(Record) /\ Len(manifest') <= MaxEntries
    BY <1>6, <2>2 DEF PutManifest
  <2>4. QED
    BY <1>2, <1>6, <2>3 DEF PutManifest, loads
<1>7. ASSUME NEW s \in Step, StepFails(s) PROVE TypeOK'
  BY <1>2, <1>7 DEF StepFails, Fault, objects, loads
<1>8. CASE LoadBegin
  BY <1>8 DEF LoadBegin, objects, steps
<1>9. ASSUME NEW p \in Partition, LoadSidecar(p) PROVE TypeOK'
  BY <1>9, FormatOfPayload DEF LoadSidecar, Missing, Onward, objects, steps
<1>10. CASE LoadData
  <2>1. at \in Partition /\ format \in Format
    BY <1>10 DEF LoadData
  <2>2. got' \in [Partition -> Payload \cup {None}]
    <3>1. Found(at, format) \in Payload \cup {None}
      BY <2>1 DEF Found
    <3>2. QED
      <4>1. CASE Found(at, format) = None
        BY <1>10, <4>1 DEF LoadData, Missing
      <4>2. CASE Found(at, format) # None
        <5>1. got' = [got EXCEPT ![at] = Found(at, format)]
          BY <1>10, <4>2 DEF LoadData
        <5>2. QED
          BY <2>1, <3>1, <5>1
      <4>3. QED
        BY <4>1, <4>2
  <2>3. QED
    BY <1>10, <2>2 DEF LoadData, Missing, Onward, objects, steps
<1>11. CASE LoadEnd
  BY <1>11 DEF LoadEnd, Fault, NoObject, objects, steps
<1>12. CASE UNCHANGED vars
  BY <1>12 DEF vars, objects, steps, loads
<1>13. QED
  BY <1>1, <1>3, <1>4, <1>5, <1>6, <1>7, <1>8, <1>9, <1>10, <1>11, <1>12 DEF Next

\* Every variable keeps its type, and the manifest its cap.
THEOREM TypeCorrect == Spec => []TypeOK
BY TypeInit, TypeNext, PTL DEF Spec

-----------------------------------------------------------------------------
(* What a sidecar leads to                                                 *)

\* Between its first two puts a step has its data where its sidecar will say.
DataIsPut ==
    \A s \in Step : pc[s] = "data" => data[part[s]][FormatOf(payload[s])] # None

\* A put of data fills one place with a payload and leaves the others alone.
LEMMA PutDataFills ==
  ASSUME TypeOK, NEW s \in Step, PutData(s)
  PROVE  /\ part[s] \in Partition /\ payload[s] \in Payload
         /\ \A p \in Partition, f \in Format :
               data'[p][f] = IF p = part[s] /\ f = FormatOf(payload[s])
                             THEN payload[s] ELSE data[p][f]
<1>1. part[s] \in Partition /\ payload[s] \in Payload
  BY DEF PutData, TypeOK
<1>2. data' = [data EXCEPT ![part[s]][FormatOf(payload[s])] = payload[s]]
  BY DEF PutData, Overwrite
<1>3. data \in [Partition -> [Format -> Payload \cup {None}]]
  BY DEF TypeOK
<1>4. QED
  BY <1>1, <1>2, <1>3, FormatOfPayload

LEMMA SidecarNext ==
  ASSUME TypeOK, SidecarLeads, DataIsPut, [Next]_vars
  PROVE  SidecarLeads' /\ DataIsPut'
<1> USE DEF SidecarLeads, DataIsPut, Stored
<1>1. ASSUME NEW s \in Step, PutData(s) PROVE SidecarLeads' /\ DataIsPut'
  <2>1. \A p \in Partition, f \in Format : data[p][f] # None => data'[p][f] # None
    BY <1>1, PutDataFills
  <2>2. SidecarLeads'
    BY <1>1, <2>1, FormatOfPayload DEF PutData, TypeOK
  <2>3. data'[part[s]][FormatOf(payload[s])] # None
    BY <1>1, PutDataFills, FormatOfPayload
  <2>4. DataIsPut'
    <3> SUFFICES ASSUME NEW t \in Step, pc'[t] = "data"
                 PROVE  data'[part'[t]][FormatOf(payload'[t])] # None
      OBVIOUS
    <3>1. CASE t = s
      BY <1>1, <2>3, <3>1 DEF PutData
    <3>2. CASE t # s
      <4>1. pc[t] = "data" /\ part'[t] = part[t] /\ payload'[t] = payload[t]
        BY <1>1, <3>2 DEF PutData, TypeOK
      <4>2. part[t] \in Partition
        BY <4>1 DEF TypeOK
      <4>3. QED
        BY <2>1, <4>1, <4>2, FormatOfPayload
    <3>3. QED
      BY <3>1, <3>2
  <2>5. QED
    BY <2>2, <2>4
<1>2. ASSUME NEW s \in Step, PutSidecar(s) PROVE SidecarLeads' /\ DataIsPut'
  <2>1. data' = data /\ part' = part /\ payload' = payload
    BY <1>2 DEF PutSidecar
  <2>2. \A p \in Partition : sidecar'[p] = IF p = part[s] THEN payload[s] ELSE sidecar[p]
    BY <1>2 DEF PutSidecar, TypeOK
  <2>3. \A t \in Step : pc'[t] = "data" => pc[t] = "data"
    BY <1>2 DEF PutSidecar, TypeOK
  <2>4. data[part[s]][FormatOf(payload[s])] # None
    BY <1>2 DEF PutSidecar
  <2>5. QED
    BY <2>1, <2>2, <2>3, <2>4
<1>3. ASSUME NEW s \in Step, Return(s), data' = data, sidecar' = sidecar
      PROVE  SidecarLeads' /\ DataIsPut'
  <2>1. \A t \in Step : pc'[t] = "data" =>
            pc[t] = "data" /\ part'[t] = part[t] /\ payload'[t] = payload[t]
    BY <1>3 DEF Return, TypeOK
  <2>2. QED
    BY <1>3, <2>1
<1>4. ASSUME NEW s \in Step, NEW p \in Partition, NEW c \in Payload, Begin(s, p, c)
      PROVE  SidecarLeads' /\ DataIsPut'
  <2>1. \A t \in Step : pc'[t] = "data" =>
            pc[t] = "data" /\ part'[t] = part[t] /\ payload'[t] = payload[t]
    BY <1>4 DEF Begin, TypeOK
  <2>2. QED
    BY <1>4, <2>1 DEF Begin, objects
<1>5. CASE UNCHANGED <<data, sidecar, pc, part, payload>>
  BY <1>5
<1>6. QED
  BY <1>1, <1>2, <1>3, <1>4, <1>5
  DEF Next, Skip, PutManifest, StepFails, LoadBegin, LoadSidecar, LoadData, LoadEnd,
      vars, objects, steps

\* A sidecar never leads nowhere, whichever steps run, fail or overlap.
THEOREM SidecarAlwaysLeads == Spec => []SidecarLeads
<1>1. Init => SidecarLeads /\ DataIsPut
  BY DEF Init, SidecarLeads, DataIsPut, NoObject
<1>2. TypeOK /\ SidecarLeads /\ DataIsPut /\ [Next]_vars => SidecarLeads' /\ DataIsPut'
  BY SidecarNext
<1>3. QED
  BY <1>1, <1>2, TypeCorrect, PTL DEF Spec

-----------------------------------------------------------------------------
(* What a load finds                                                       *)

\* While a load goes on, everything it may still read is current: what a sidecar
\* leads to, what a step is about to let its sidecar lead to, and what the
\* sidecar that was read last has named.
Readable ==
    /\ \A p \in Partition : p \in stored => sidecar[p] # None
    /\ \A p \in Partition : sidecar[p] # None => <<p, Stored(p)>> \in current
    /\ \A s \in Step : pc[s] = "data" =>
          <<part[s], data[part[s]][FormatOf(payload[s])]>> \in current
    /\ at # None => /\ Found(at, format) # None
                    /\ <<at, Found(at, format)>> \in current

LoadInv ==
    /\ load = "idle" => got = NoObject
    /\ load # "idle" => Readable
    /\ LoadIsCurrent
    /\ FanInComplete

\* The facts of the other invariants that a load rests on.
StoreInv == TypeOK /\ SidecarLeads /\ DataIsPut

LEMMA LoadInit == Init => LoadInv
BY DEF Init, LoadInv, LoadIsCurrent, FanInComplete, NoObject

\* A step of handle_output leaves the load alone; it is enough that what the load
\* may read stays current.
LEMMA ReadableKeepsLoad ==
  ASSUME LoadInv, UNCHANGED <<loads, stored>>, current \subseteq current',
         load # "idle" => Readable'
  PROVE  LoadInv'
BY DEF LoadInv, LoadIsCurrent, FanInComplete, NoObject, loads

\* When the stored objects stay, nothing that the load may read changes.
LEMMA SameObjectsKeepLoad ==
  ASSUME LoadInv, UNCHANGED <<data, sidecar, loads, stored, current>>,
         \A s \in Step : pc'[s] = "data" =>
            pc[s] = "data" /\ part'[s] = part[s] /\ payload'[s] = payload[s]
  PROVE  LoadInv'
<1>1. load # "idle" => Readable'
  BY DEF LoadInv, Readable, Stored, Found, loads
<1>2. QED
  BY <1>1, ReadableKeepsLoad

LEMMA PutDataKeepsLoad ==
  ASSUME StoreInv, LoadInv, NEW s \in Step, PutData(s)
  PROVE  LoadInv'
<1> USE DEF StoreInv
<1>1. SUFFICES ASSUME load # "idle" PROVE Readable'
  <2>1. UNCHANGED <<loads, stored>> /\ current \subseteq current'
    BY DEF PutData, loads
  <2>2. QED
    BY <1>1, <2>1, ReadableKeepsLoad
<1>2. Readable
  BY <1>1 DEF LoadInv
<1>3. /\ part[s] \in Partition /\ payload[s] \in Payload
      /\ \A p \in Partition, f \in Format :
            data'[p][f] = IF p = part[s] /\ f = FormatOf(payload[s])
                          THEN payload[s] ELSE data[p][f]
  BY PutDataFills
<1>4. current' = current \cup {<<part[s], payload[s]>>}
  BY <1>1 DEF PutData
<1>5. ASSUME NEW p \in Partition, NEW f \in Format, <<p, data[p][f]>> \in current
      PROVE  <<p, data'[p][f]>> \in current'
  BY <1>3, <1>4, <1>5
<1>6. UNCHANGED <<sidecar, part, payload, stored, at, format>>
  BY DEF PutData, loads
<1>7. ASSUME NEW p \in Partition, sidecar'[p] # None
      PROVE  <<p, Stored(p)'>> \in current'
  <2>1. <<p, data[p][FormatOf(sidecar[p])]>> \in current
    BY <1>2, <1>6, <1>7 DEF Readable, Stored
  <2>2. <<p, data'[p][FormatOf(sidecar[p])]>> \in current'
    BY <1>5, <2>1, FormatOfPayload
  <2>3. QED
    BY <1>6, <1>7, <2>2 DEF Stored
<1>8. ASSUME NEW t \in Step, pc'[t] = "data"
      PROVE  <<part'[t], data'[part'[t]][FormatOf(payload'[t])]>> \in current'
  <2>1. CASE t = s
    BY <1>3, <1>4, <1>6, <2>1, FormatOfPayload
  <2>2. CASE t # s
    <3>1. pc[t] = "data" /\ part[t] \in Partition
      BY <1>8, <2>2 DEF PutData, TypeOK
    <3>2. <<part[t], data[part[t]][FormatOf(payload[t])]>> \in current
      BY <1>2, <3>1 DEF Readable
    <3>3. QED
      BY <1>5, <1>6, <3>1, <3>2, FormatOfPayload
  <2>3. QED
    BY <2>1, <2>2
<1>9. ASSUME at' # None
      PROVE  Found(at, format)' # None /\ <<at', Found(at, format)'>> \in current'
  <2>1. at \in Partition /\ format \in Format
    BY <1>6, <1>9 DEF TypeOK
  <2>2. data[at][format] # None /\ <<at, data[at][format]>> \in current
    BY <1>2, <1>6, <1>9 DEF Readable, Found
  <2>3. data'[at][format] # None /\ <<at, data'[at][format]>> \in current'
    BY <1>3, <1>5, <2>1, <2>2
  <2>4. QED
    BY <1>6, <2>3 DEF Found
<1>10. QED
  BY <1>2, <1>6, <1>7, <1>8, <1>9 DEF Readable

LEMMA PutSidecarKeepsLoad ==
  ASSUME StoreInv, LoadInv, NEW s \in Step, PutSidecar(s)
  PROVE  LoadInv'
<1>1. /\ UNCHANGED <<data, part, payload, loads, stored, current>>
      /\ \A p \in Partition : sidecar'[p] = IF p = part[s] THEN payload[s] ELSE sidecar[p]
      /\ \A t \in Step : pc'[t] = "data" => pc[t] = "data"
      /\ payload[s] # None /\ pc[s] = "data"
  BY DEF PutSidecar, StoreInv, TypeOK
<1>2. ASSUME load # "idle" PROVE Readable'
  <2>1. Readable
    BY <1>2 DEF LoadInv
  <2>2. ASSUME NEW p \in Partition, sidecar'[p] # None
        PROVE  <<p, Stored(p)'>> \in current'
    <3>1. CASE p = part[s]
      BY <1>1, <2>1, <3>1 DEF Readable, Stored
    <3>2. CASE p # part[s]
      BY <1>1, <2>1, <2>2, <3>2 DEF Readable, Stored
    <3>3. QED
      BY <3>1, <3>2
  <2>3. \A p \in Partition : p \in stored' => sidecar'[p] # None
    BY <1>1, <2>1 DEF Readable
  <2>4. \A t \in Step : pc'[t] = "data" =>
            <<part'[t], data'[part'[t]][FormatOf(payload'[t])]>> \in current'
    BY <1>1, <2>1 DEF Readable
  <2>5. at' # None => Found(at, format)' # None /\ <<at', Found(at, format)'>> \in current'
    BY <1>1, <2>1 DEF Readable, Found, loads
  <2>6. QED
    BY <2>2, <2>3, <2>4, <2>5 DEF Readable
<1>3. QED
  BY <1>1, <1>2, ReadableKeepsLoad

LEMMA LoadBeginStarts ==
  ASSUME StoreInv, LoadInv, LoadBegin
  PROVE  LoadInv'
<1>1. /\ load = "idle" /\ load' \in {"minio", "optional"} /\ todo' = keys'
      /\ UNCHANGED <<data, sidecar, pc, part, payload, at, got>>
      /\ stored' = {p \in Partition : sidecar[p] # None}
      /\ \A p \in Partition : sidecar[p] # None => <<p, Stored(p)>> \in current'
      /\ \A s \in Step : pc[s] = "data" =>
            <<part[s], data[part[s]][FormatOf(payload[s])]>> \in current'
  BY DEF LoadBegin, objects, steps
<1>2. at' = None /\ got' = NoObject
  BY <1>1 DEF LoadInv, StoreInv, TypeOK
<1>3. Readable'
  BY <1>1, <1>2 DEF Readable, Stored
<1>4. QED
  BY <1>1, <1>2, <1>3 DEF LoadInv, LoadIsCurrent, FanInComplete, NoObject

LEMMA LoadSidecarReads ==
  ASSUME StoreInv, LoadInv, NEW p \in Partition, LoadSidecar(p)
  PROVE  LoadInv'
<1> USE DEF StoreInv
<1>1. /\ load \in {"minio", "optional"} /\ p \in todo /\ Readable
      /\ UNCHANGED <<data, sidecar, pc, part, payload, keys, stored, current>>
  BY DEF LoadSidecar, LoadInv, objects, steps
<1>2. CASE sidecar[p] = None
  <2>1. /\ load' \in {"minio", "optional", "raised"} /\ (load' = "raised" \/ load' = load)
        /\ todo' = todo \ {p} /\ at' = None /\ got' = got
    BY <1>1, <1>2 DEF LoadSidecar, Missing, Onward
  <2>2. p \notin stored /\ p \in keys
    BY <1>1, <1>2 DEF Readable, TypeOK
  <2>3. Readable'
    BY <1>1, <2>1 DEF Readable, Stored
  <2>4. FanInComplete'
    BY <1>1, <2>1, <2>2 DEF LoadInv, FanInComplete
  <2>5. QED
    BY <1>1, <2>1, <2>3, <2>4 DEF LoadInv, LoadIsCurrent
<1>3. CASE sidecar[p] # None
  <2>1. /\ at' = p /\ format' = FormatOf(sidecar[p])
        /\ UNCHANGED <<load, todo, got>>
    BY <1>1, <1>3 DEF LoadSidecar
  <2>2. Found(at, format)' = Stored(p)
    BY <1>1, <1>3, <2>1 DEF Found, Stored
  <2>3. Stored(p) # None /\ <<p, Stored(p)>> \in current
    BY <1>1, <1>3 DEF SidecarLeads, Readable
  <2>4. Readable'
    BY <1>1, <2>1, <2>2, <2>3 DEF Readable, Stored
  <2>5. QED
    BY <1>1, <2>1, <2>4 DEF LoadInv, LoadIsCurrent, FanInComplete
<1>4. QED
  BY <1>2, <1>3

LEMMA LoadDataReads ==
  ASSUME StoreInv, LoadInv, LoadData
  PROVE  LoadInv'
<1>1. /\ load \in {"minio", "optional"} /\ at \in Partition /\ Readable
      /\ got \in [Partition -> Payload \cup {None}]
      /\ UNCHANGED <<data, sidecar, pc, part, payload, keys, stored, current>>
  BY DEF LoadData, LoadInv, StoreInv, TypeOK, objects, steps
<1>2. Found(at, format) # None /\ <<at, Found(at, format)>> \in current
  BY <1>1 DEF Readable
<1>3. /\ got' = [got EXCEPT ![at] = Found(at, format)]
      /\ todo' = todo \ {at} /\ at' = None /\ load' = load
  BY <1>2 DEF LoadData, Onward
<1>4. \A p \in Partition : got'[p] = IF p = at THEN Found(at, format) ELSE got[p]
  BY <1>1, <1>3
<1>5. Readable'
  BY <1>1, <1>3 DEF Readable, Stored
<1>6. LoadIsCurrent'
  BY <1>1, <1>2, <1>4 DEF LoadInv, LoadIsCurrent
<1>7. FanInComplete'
  BY <1>1, <1>2, <1>3, <1>4 DEF LoadInv, FanInComplete, StoreInv, TypeOK
<1>8. QED
  BY <1>1, <1>3, <1>5, <1>6, <1>7 DEF LoadInv

LEMMA LoadNext ==
  ASSUME StoreInv, LoadInv, [Next]_vars
  PROVE  LoadInv'
<1>1. ASSUME NEW s \in Step, NEW p \in Partition, NEW c \in Payload, Begin(s, p, c)
      PROVE  LoadInv'
  <2>1. \A t \in Step : pc'[t] = "data" =>
            pc[t] = "data" /\ part'[t] = part[t] /\ payload'[t] = payload[t]
    BY <1>1 DEF Begin, StoreInv, TypeOK
  <2>2. UNCHANGED <<data, sidecar, loads, stored, current>>
    BY <1>1 DEF Begin, objects
  <2>3. QED
    BY <2>1, <2>2, SameObjectsKeepLoad
<1>2. ASSUME NEW s \in Step, Return(s), UNCHANGED <<data, sidecar, loads, stored, current>>
      PROVE  LoadInv'
  <2>1. \A t \in Step : pc'[t] = "data" =>
            pc[t] = "data" /\ part'[t] = part[t] /\ payload'[t] = payload[t]
    BY <1>2 DEF Return, StoreInv, TypeOK
  <2>2. QED
    BY <1>2, <2>1, SameObjectsKeepLoad
<1>3. ASSUME NEW s \in Step, Skip(s) \/ PutManifest(s) \/ StepFails(s) PROVE LoadInv'
  BY <1>2, <1>3 DEF Skip, PutManifest, StepFails, objects
<1>4. CASE LoadEnd
  BY <1>4 DEF LoadEnd, LoadInv, LoadIsCurrent, FanInComplete, NoObject
<1>5. CASE UNCHANGED vars
  BY <1>5, SameObjectsKeepLoad DEF vars, objects, steps
<1>6. QED
  BY <1>1, <1>3, <1>4, <1>5, PutDataKeepsLoad, PutSidecarKeepsLoad, LoadBeginStarts,
     LoadSidecarReads, LoadDataReads
  DEF Next

LEMMA StoreInductive == Spec => []StoreInv
<1>1. Init => StoreInv
  BY TypeInit DEF Init, StoreInv, SidecarLeads, DataIsPut, NoObject
<1>2. StoreInv /\ [Next]_vars => StoreInv'
  BY TypeNext, SidecarNext DEF StoreInv
<1>3. QED
  BY <1>1, <1>2, PTL DEF Spec

LEMMA LoadInductive == Spec => []LoadInv
BY LoadInit, LoadNext, StoreInductive, PTL DEF Spec

\* A load finds what was stored when it began, what was about to be, or what has
\* been put since, however many steps write while it reads.
THEOREM LoadsAreCurrent == Spec => []LoadIsCurrent
<1>1. LoadInv => LoadIsCurrent
  BY DEF LoadInv
<1>2. QED
  BY <1>1, LoadInductive, PTL

\* A fan-in has every partition that was stored when it began, and the strict
\* manager raises for no other reason than one that was not.
THEOREM FanInsAreComplete == Spec => []FanInComplete
<1>1. LoadInv => FanInComplete
  BY DEF LoadInv
<1>2. QED
  BY <1>1, LoadInductive, PTL

-----------------------------------------------------------------------------
(* Outputs are kept                                                        *)

Clean(p) == p \notin raced \cup cut

\* A step is between the puts of its data and of its manifest.
Putting(p) == \E s \in Step : part[s] = p /\ pc[s] \in {"data", "sidecar"}

LastOf(m) == m[Len(m)]

\* The last record of a manifest is of an output that was put,
Recorded(m) == m # <<>> => <<LastOf(m).partition, LastOf(m).payload>> \in written

\* and if it is of this partition, it is what the partition has stored.
Shows(m, p) == m # <<>> /\ LastOf(m).partition = p => Stored(p) = LastOf(m).payload

KeptIs(p) == /\ kept[p] # None
             /\ \A q \in Partition \ {p} : <<q, kept[p]>> \notin written
             => Stored(p) = kept[p]

\* What a step has reached of its output, when it is alone in its partition.
Reached(s) ==
    /\ pc[s] = "loaded" => Shows(seen[s], part[s])
    /\ pc[s] = "data" => data[part[s]][FormatOf(payload[s])] = payload[s]
    /\ pc[s] = "sidecar" => Stored(part[s]) = payload[s]

OneWriter == \A s, t \in Step : s # t /\ part[s] = part[t] /\ part[s] # None
                                    => part[s] \in raced

WritesRecorded ==
    /\ Recorded(manifest)
    /\ \A s \in Step : Recorded(seen[s])
    /\ \A s \in Step : pc[s] \in {"data", "sidecar"} =>
          <<part[s], payload[s]>> \in written

StepsReached == \A s \in Step : pc[s] # "idle" /\ Clean(part[s]) => Reached(s)

PartitionsKept ==
    \A p \in Partition : Clean(p) /\ ~Putting(p) => Shows(manifest, p) /\ KeptIs(p)

KeptInv ==
    /\ kept \in [Partition -> Payload \cup {None}]
    /\ WritesRecorded
    /\ OneWriter
    /\ StepsReached
    /\ PartitionsKept

LEMMA KeptInit == Init => KeptInv
BY DEF Init, KeptInv, WritesRecorded, Recorded, OneWriter, StepsReached, PartitionsKept,
   Shows, KeptIs, NoObject

\* What a step does to its partition disturbs neither the steps that are alone in
\* theirs nor the other partitions.
LEMMA OthersKept ==
  ASSUME TypeOK, KeptInv, NEW s \in Step, NEW p \in Partition, part[s] \in {p, None},
         \A t \in Step : t # s =>
            /\ pc'[t] = pc[t] /\ part'[t] = part[t]
            /\ payload'[t] = payload[t] /\ seen'[t] = seen[t]
            /\ part[t] = p => p \in raced',
         \A q \in Partition : q # p =>
            /\ \A f \in Format : data'[q][f] = data[q][f]
            /\ sidecar'[q] = sidecar[q] /\ kept'[q] = kept[q]
            /\ manifest' # <<>> /\ LastOf(manifest').partition = q => manifest' = manifest,
         written \subseteq written', raced \subseteq raced', cut \subseteq cut'
  PROVE  /\ \A t \in Step : t # s /\ pc'[t] # "idle" /\ Clean(part[t])' => Reached(t)'
         /\ \A q \in Partition : q # p /\ Clean(q)' /\ ~Putting(q)' =>
               Shows(manifest, q)' /\ KeptIs(q)'
<1>1. \A q \in Partition : q # p => Stored(q)' = Stored(q)
  BY FormatOfPayload DEF Stored
<1>2. \A q : q \notin (raced \cup cut)' => Clean(q)
  BY DEF Clean
<1>3. ASSUME NEW t \in Step, t # s, pc'[t] # "idle", Clean(part[t])' PROVE Reached(t)'
  <2>1. part'[t] = part[t] /\ part[t] \in Partition /\ part[t] # p
    BY <1>3 DEF Clean, TypeOK
  <2>2. Reached(t)
    BY <1>2, <1>3, <2>1 DEF KeptInv, StepsReached, Clean
  <2>3. Stored(part[t])' = Stored(part[t])
    BY <1>1, <2>1 DEF Stored
  <2>4. QED
    BY <1>3, <2>1, <2>2, <2>3, FormatOfPayload DEF Reached, Shows
<1>4. ASSUME NEW q \in Partition, q # p, Clean(q)', ~Putting(q)'
      PROVE  Shows(manifest, q)' /\ KeptIs(q)'
  <2>1. ~Putting(q)
    BY <1>4 DEF Putting
  <2>2. Shows(manifest, q) /\ KeptIs(q)
    BY <1>2, <1>4, <2>1 DEF KeptInv, PartitionsKept, Clean
  <2>3. QED
    BY <1>1, <1>4, <2>2 DEF Shows, KeptIs
<1>5. QED
  BY <1>3, <1>4

LEMMA BeginKeeps ==
  ASSUME TypeOK, KeptInv, NEW s \in Step, NEW p \in Partition, NEW c \in Payload,
         Begin(s, p, c)
  PROVE  KeptInv'
<1>1. /\ UNCHANGED <<data, sidecar, manifest, kept, written, cut>>
      /\ raced \subseteq raced'
      /\ \A t \in Step : part[t] = p => p \in raced'
      /\ pc[s] = "idle" /\ part[s] = None
      /\ pc'[s] = "loaded" /\ part'[s] = p /\ payload'[s] = c
      /\ seen'[s] \in {manifest, <<>>}
      /\ \A t \in Step : t # s => /\ pc'[t] = pc[t] /\ part'[t] = part[t]
                                  /\ payload'[t] = payload[t] /\ seen'[t] = seen[t]
  <2>1. \A t \in Step : part[t] = p => t \in Busy
    BY DEF Busy, TypeOK
  <2>2. raced' = raced \cup {q \in {p} : \E t \in Busy : part[t] = q}
    BY DEF Begin
  <2>3. seen' = [seen EXCEPT ![s] = manifest] \/ seen' = [seen EXCEPT ![s] = <<>>]
    BY DEF Begin, LoadManifest
  <2>4. QED
    BY <2>1, <2>2, <2>3 DEF Begin, TypeOK, objects
<1>2. /\ \A t \in Step : t # s /\ pc'[t] # "idle" /\ Clean(part[t])' => Reached(t)'
      /\ \A q \in Partition : q # p /\ Clean(q)' /\ ~Putting(q)' =>
            Shows(manifest, q)' /\ KeptIs(q)'
  BY <1>1, OthersKept
<1>3. Clean(p)' => Clean(p) /\ ~Putting(p)
  BY <1>1 DEF Clean, Putting
<1>4. Clean(p)' => Shows(manifest, p)' /\ KeptIs(p)'
  BY <1>1, <1>3 DEF KeptInv, PartitionsKept, Shows, KeptIs, Stored
<1>5. Clean(p)' => Reached(s)'
  BY <1>1, <1>4 DEF Reached, Shows, Stored
<1>6. StepsReached'
  BY <1>1, <1>2, <1>5 DEF StepsReached
<1>7. PartitionsKept'
  BY <1>2, <1>4 DEF PartitionsKept
<1>8. OneWriter'
  BY <1>1 DEF KeptInv, OneWriter
<1>9. WritesRecorded'
  BY <1>1 DEF KeptInv, WritesRecorded, Recorded
<1>10. QED
  BY <1>1, <1>6, <1>7, <1>8, <1>9 DEF KeptInv

LEMMA PutDataKeeps ==
  ASSUME TypeOK, KeptInv, NEW s \in Step, PutData(s)
  PROVE  KeptInv'
<1>1. /\ part[s] \in Partition /\ payload[s] \in Payload
      /\ \A q \in Partition, f \in Format :
            data'[q][f] = IF q = part[s] /\ f = FormatOf(payload[s])
                          THEN payload[s] ELSE data[q][f]
  BY PutDataFills
<1>2. /\ UNCHANGED <<sidecar, manifest, part, payload, seen, kept, raced, cut>>
      /\ written' = written \cup {<<part[s], payload[s]>>}
      /\ pc'[s] = "data"
      /\ \A t \in Step : t # s => pc'[t] = pc[t]
  BY DEF PutData, TypeOK
<1>3. \A t \in Step : t # s /\ part[t] = part[s] => part[s] \in raced
  BY <1>1 DEF KeptInv, OneWriter
<1>4. /\ \A t \in Step : t # s /\ pc'[t] # "idle" /\ Clean(part[t])' => Reached(t)'
      /\ \A q \in Partition : q # part[s] /\ Clean(q)' /\ ~Putting(q)' =>
            Shows(manifest, q)' /\ KeptIs(q)'
  BY <1>1, <1>2, <1>3, OthersKept
<1>5. Reached(s)' /\ Putting(part[s])'
  BY <1>1, <1>2, FormatOfPayload DEF Reached, Putting
<1>6. StepsReached' /\ PartitionsKept'
  BY <1>2, <1>4, <1>5 DEF StepsReached, PartitionsKept
<1>7. OneWriter' /\ WritesRecorded'
  BY <1>2 DEF KeptInv, OneWriter, WritesRecorded, Recorded
<1>8. QED
  BY <1>2, <1>6, <1>7 DEF KeptInv

LEMMA PutSidecarKeeps ==
  ASSUME TypeOK, KeptInv, NEW s \in Step, PutSidecar(s)
  PROVE  KeptInv'
<1>1. /\ UNCHANGED <<data, manifest, part, payload, seen, kept, written, raced, cut>>
      /\ \A q \in Partition : sidecar'[q] = IF q = part[s] THEN payload[s] ELSE sidecar[q]
      /\ part[s] \in Partition /\ payload[s] \in Payload
      /\ pc[s] = "data" /\ pc'[s] = "sidecar"
      /\ \A t \in Step : t # s => pc'[t] = pc[t]
  BY DEF PutSidecar, TypeOK, history
<1>2. \A t \in Step : t # s /\ part[t] = part[s] => part[s] \in raced
  BY <1>1 DEF KeptInv, OneWriter
<1>3. /\ \A t \in Step : t # s /\ pc'[t] # "idle" /\ Clean(part[t])' => Reached(t)'
      /\ \A q \in Partition : q # part[s] /\ Clean(q)' /\ ~Putting(q)' =>
            Shows(manifest, q)' /\ KeptIs(q)'
  BY <1>1, <1>2, OthersKept
<1>4. Clean(part[s])' => Reached(s)'
  BY <1>1 DEF KeptInv, StepsReached, Reached, Clean, Stored
<1>5. Putting(part[s])'
  BY <1>1 DEF Putting
<1>6. StepsReached' /\ PartitionsKept'
  BY <1>1, <1>3, <1>4, <1>5 DEF StepsReached, PartitionsKept
<1>7. OneWriter' /\ WritesRecorded'
  BY <1>1 DEF KeptInv, OneWriter, WritesRecorded, Recorded
<1>8. QED
  BY <1>1, <1>6, <1>7 DEF KeptInv

\* A step goes back to Dagster.  What is left to show is that its own partition
\* keeps its output, and that the manifest records an output that was put.
LEMMA ReturnKeeps ==
  ASSUME TypeOK, KeptInv, NEW s \in Step, NEW p \in Partition, p = part[s], Return(s),
         UNCHANGED <<data, sidecar, written, raced>>, cut \subseteq cut',
         kept' \in [Partition -> Payload \cup {None}],
         \A q \in Partition : q # p =>
            /\ kept'[q] = kept[q]
            /\ manifest' # <<>> /\ LastOf(manifest').partition = q => manifest' = manifest,
         Recorded(manifest)',
         Clean(p)' /\ ~Putting(p)' => Shows(manifest, p)' /\ KeptIs(p)'
  PROVE  KeptInv'
<1>1. /\ pc'[s] = "idle" /\ part'[s] = None /\ seen'[s] = <<>>
      /\ \A t \in Step : t # s => /\ pc'[t] = pc[t] /\ part'[t] = part[t]
                                  /\ payload'[t] = payload[t] /\ seen'[t] = seen[t]
  BY DEF Return, TypeOK
<1>2. \A t \in Step : t # s /\ part[t] = p => p \in raced
  BY DEF KeptInv, OneWriter
<1>3. /\ \A t \in Step : t # s /\ pc'[t] # "idle" /\ Clean(part[t])' => Reached(t)'
      /\ \A q \in Partition : q # p /\ Clean(q)' /\ ~Putting(q)' =>
            Shows(manifest, q)' /\ KeptIs(q)'
  BY <1>1, <1>2, OthersKept
<1>4. StepsReached' /\ PartitionsKept'
  BY <1>1, <1>3 DEF StepsReached, PartitionsKept
<1>5. OneWriter'
  BY <1>1 DEF KeptInv, OneWriter
<1>6. WritesRecorded'
  BY <1>1 DEF KeptInv, WritesRecorded, Recorded
<1>7. QED
  BY <1>4, <1>5, <1>6 DEF KeptInv

LEMMA SkipKeeps ==
  ASSUME TypeOK, KeptInv, NEW s \in Step, NEW p \in Partition, p = part[s], Skip(s)
  PROVE  KeptInv'
<1> DEFINE c == payload[s]
<1>1. /\ c \in Payload /\ pc[s] = "loaded" /\ Return(s)
      /\ UNCHANGED <<data, sidecar, manifest, written, raced, cut>>
      /\ kept' = [kept EXCEPT ![p] = c]
      /\ seen[s] # <<>> /\ LastOf(seen[s]).payload = c
  BY DEF Skip, Unchanged, LastOf, TypeOK, objects
<1>2. /\ kept' \in [Partition -> Payload \cup {None}]
      /\ \A q \in Partition : kept'[q] = IF q = p THEN c ELSE kept[q]
  BY <1>1 DEF KeptInv
<1>3. LastOf(seen[s]) \in Record
  BY <1>1 DEF LastOf, TypeOK
<1>4. <<LastOf(seen[s]).partition, c>> \in written /\ LastOf(seen[s]).partition \in Partition
  BY <1>1, <1>3 DEF KeptInv, WritesRecorded, Recorded, Record
<1>5. ASSUME Clean(p)', ~Putting(p)' PROVE Shows(manifest, p)' /\ KeptIs(p)'
  <2>1. Clean(p)
    BY <1>1, <1>5 DEF Clean
  <2>2. \A t \in Step : t # s => part[t] # p
    BY <1>1, <2>1 DEF KeptInv, OneWriter, Clean
  <2>3. ~Putting(p)
    BY <1>1, <2>2 DEF Putting
  <2>4. Shows(manifest, p) /\ Shows(seen[s], p)
    BY <1>1, <2>1, <2>3 DEF KeptInv, PartitionsKept, StepsReached, Reached
  <2>5. LastOf(seen[s]).partition = p => Stored(p) = c
    BY <1>1, <2>4 DEF Shows
  <2>6. Stored(p)' = Stored(p)
    BY <1>1 DEF Stored
  <2>7. QED
    BY <1>1, <1>2, <1>4, <2>4, <2>5, <2>6 DEF Shows, KeptIs
<1>6. Recorded(manifest)'
  BY <1>1 DEF KeptInv, WritesRecorded, Recorded
<1>7. QED
  BY <1>1, <1>2, <1>5, <1>6, ReturnKeeps

LEMMA PutManifestKeeps ==
  ASSUME TypeOK, KeptInv, NEW s \in Step, NEW p \in Partition, p = part[s], PutManifest(s)
  PROVE  KeptInv'
<1> DEFINE c == payload[s]
           record == [partition |-> p, payload |-> c]
<1>1. /\ c \in Payload /\ pc[s] = "sidecar" /\ Return(s)
      /\ UNCHANGED <<data, sidecar, written, raced, cut>>
      /\ kept' = [kept EXCEPT ![p] = c]
      /\ manifest' = Capped(Append(seen[s], record))
  BY DEF PutManifest, TypeOK
<1>2. /\ kept' \in [Partition -> Payload \cup {None}]
      /\ \A q \in Partition : kept'[q] = IF q = p THEN c ELSE kept[q]
  BY <1>1 DEF KeptInv
<1>3. manifest' # <<>> /\ LastOf(manifest') = record
  <2>1. record \in Record /\ seen[s] \in Seq(Record)
    BY <1>1 DEF Record, TypeOK
  <2> HIDE DEF record
  <2>2. LET new == Capped(Append(seen[s], record)) IN new # <<>> /\ new[Len(new)] = record
    BY <2>1, CappedManifest
  <2>3. QED
    BY <1>1, <2>2 DEF LastOf
<1>4. Recorded(manifest)'
  <2>1. <<p, c>> \in written
    BY <1>1 DEF KeptInv, WritesRecorded
  <2>2. QED
    BY <1>1, <1>3, <2>1 DEF Recorded, LastOf
<1>5. ASSUME Clean(p)' PROVE Shows(manifest, p)' /\ KeptIs(p)'
  <2>1. Stored(p) = c
    BY <1>1, <1>5 DEF KeptInv, StepsReached, Reached, Clean
  <2>2. Stored(p)' = c
    BY <1>1, <2>1 DEF Stored
  <2>3. QED
    BY <1>2, <1>1, <1>3, <2>2 DEF Shows, KeptIs, LastOf
<1>6. \A q \in Partition : q # p => LastOf(manifest').partition # q
  BY <1>3
<1>7. QED
  BY <1>1, <1>2, <1>4, <1>5, <1>6, ReturnKeeps

LEMMA StepFailsKeeps ==
  ASSUME TypeOK, KeptInv, NEW s \in Step, NEW p \in Partition, p = part[s], StepFails(s)
  PROVE  KeptInv'
<1>1. /\ Return(s)
      /\ UNCHANGED <<data, sidecar, manifest, kept, written, raced>>
      /\ cut' = IF pc[s] = "loaded" THEN cut ELSE cut \cup {p}
      /\ pc[s] # "idle"
  BY DEF StepFails, TypeOK, objects
<1>2. ASSUME Clean(p)', ~Putting(p)' PROVE Shows(manifest, p)' /\ KeptIs(p)'
  <2>1. Clean(p) /\ pc[s] = "loaded"
    BY <1>1, <1>2 DEF Clean
  <2>2. ~Putting(p)
    BY <1>1, <2>1 DEF Putting, KeptInv, OneWriter, Clean
  <2>3. QED
    BY <1>1, <2>1, <2>2 DEF KeptInv, PartitionsKept, Shows, KeptIs, Stored
<1>3. Recorded(manifest)' /\ kept' \in [Partition -> Payload \cup {None}]
  BY <1>1 DEF KeptInv, WritesRecorded, Recorded
<1>4. QED
  BY <1>1, <1>2, <1>3, ReturnKeeps

LEMMA KeptNext ==
  ASSUME TypeOK, KeptInv, [Next]_vars
  PROVE  KeptInv'
<1>1. CASE UNCHANGED <<objects, steps, history>>
  BY <1>1 DEF objects, steps, history, KeptInv, WritesRecorded, Recorded, OneWriter,
     StepsReached, PartitionsKept, Reached, Shows, KeptIs, Clean, Putting, Stored
<1>2. CASE LoadBegin \/ (\E p \in Partition : LoadSidecar(p)) \/ LoadData \/ LoadEnd
  BY <1>1, <1>2 DEF LoadBegin, LoadSidecar, LoadData, LoadEnd
<1>3. CASE UNCHANGED vars
  BY <1>1, <1>3 DEF vars
<1>4. \A s \in Step : Skip(s) \/ PutManifest(s) \/ StepFails(s) => part[s] \in Partition
  BY DEF Skip, PutManifest, StepFails, TypeOK
<1>5. QED
  BY <1>2, <1>3, <1>4, BeginKeeps, SkipKeeps, PutDataKeeps, PutSidecarKeeps,
     PutManifestKeeps, StepFailsKeeps
  DEF Next

\* An output that a step has handed over stays what a load finds, unless two steps
\* have written the partition at once, an output of it was cut off after its first
\* put, or another partition was given the same payload.
THEOREM OutputsAreKept == Spec => []OutputKept
<1>1. TypeOK /\ KeptInv => OutputKept
  <2> SUFFICES ASSUME TypeOK, KeptInv, NEW p \in Partition,
                      kept[p] # None, ~Writing(p), p \notin raced \cup cut,
                      \A q \in Partition \ {p} : <<q, kept[p]>> \notin written
               PROVE  Stored(p) = kept[p]
    BY DEF OutputKept
  <2>1. Clean(p) /\ ~Putting(p)
    BY DEF Clean, Putting, Writing
  <2>2. QED
    BY <2>1 DEF KeptInv, PartitionsKept, KeptIs
<1>2. TypeOK /\ KeptInv /\ [Next]_vars => KeptInv'
  BY KeptNext
<1>3. QED
  BY <1>1, <1>2, KeptInit, TypeCorrect, PTL DEF Spec

-----------------------------------------------------------------------------
(* The manifest is the end of the log                                      *)

\* A step that is alone and whose requests succeed puts back the manifest it read.
Alone == \A s \in Step : pc[s] # "idle" =>
            /\ seen[s] = manifest
            /\ \A t \in Step : pc[t] # "idle" => t = s

HistoryInv ==
    /\ log \in Seq(Record)
    /\ ManifestIsHistory
    /\ ~shared /\ faults = 0 => Alone

LEMMA HistoryInit == Init => HistoryInv
<1> SUFFICES ASSUME Init PROVE HistoryInv
  OBVIOUS
<1>1. <<>> \in Seq(Record) /\ Len(<<>>) = 0 /\ DOMAIN <<>> = {}
  OBVIOUS
<1>2. QED
  BY <1>1 DEF Init, HistoryInv, ManifestIsHistory, Alone

LEMMA HistoryNext ==
  ASSUME TypeOK, HistoryInv, [Next]_vars
  PROVE  HistoryInv'
<1> USE DEF HistoryInv
<1>1. ASSUME UNCHANGED <<manifest, log, shared>>, faults' = 0 => faults = 0,
             \A s \in Step : pc'[s] # "idle" => pc[s] # "idle" /\ seen'[s] = seen[s]
      PROVE  HistoryInv'
  BY <1>1 DEF ManifestIsHistory, Alone
<1>2. ASSUME NEW s \in Step, NEW p \in Partition, NEW c \in Payload, Begin(s, p, c)
      PROVE  HistoryInv'
  <2>1. /\ UNCHANGED <<manifest, log>>
        /\ ~shared' => ~shared /\ \A t \in Step : pc[t] = "idle"
        /\ faults' = 0 => faults = 0 /\ seen'[s] = manifest
        /\ \A t \in Step : t # s => pc'[t] = pc[t]
    <3>1. ~shared' => ~shared /\ \A t \in Step : pc[t] = "idle"
      BY <1>2 DEF Begin, Busy
    <3>2. faults' = 0 => faults = 0 /\ seen' = [seen EXCEPT ![s] = manifest]
      BY <1>2 DEF Begin, LoadManifest, Fault, TypeOK
    <3>3. QED
      BY <1>2, <3>1, <3>2 DEF Begin, TypeOK, objects
  <2>2. QED
    BY <2>1 DEF ManifestIsHistory, Alone
<1>3. ASSUME NEW s \in Step, Return(s)
      PROVE  \A t \in Step : pc'[t] # "idle" => /\ t # s /\ pc[t] # "idle"
                                                /\ seen'[t] = seen[t]
  BY <1>3 DEF Return, TypeOK
<1>4. ASSUME NEW s \in Step, PutManifest(s) PROVE HistoryInv'
  <2> DEFINE record == [partition |-> part[s], payload |-> payload[s]]
  <2>1. /\ record \in Record /\ seen[s] \in Seq(Record) /\ pc[s] # "idle"
        /\ manifest' = Capped(Append(seen[s], record))
        /\ log' = Append(log, record)
        /\ UNCHANGED <<shared, faults>>
    BY <1>4 DEF PutManifest, TypeOK, Record
  <2> HIDE DEF record
  <2>2. log' \in Seq(Record) /\ Len(log') = Len(log) + 1
    BY <2>1, AppendProperties
  <2>3. ASSUME ~shared', faults' = 0 PROVE Alone'
    BY <1>3, <1>4, <2>1, <2>3 DEF Alone, PutManifest
  <2>4. ASSUME ~shared', faults' = 0
        PROVE  /\ Len(manifest') = IF Len(log') < MaxEntries THEN Len(log') ELSE MaxEntries
               /\ \A i \in DOMAIN manifest' :
                     manifest'[i] = log'[Len(log') - Len(manifest') + i]
    <3>1. seen[s] = manifest
      BY <2>1, <2>4 DEF Alone
    <3>2. /\ Len(manifest) = IF Len(log) < MaxEntries THEN Len(log) ELSE MaxEntries
          /\ \A i \in 1..Len(manifest) : manifest[i] = log[Len(log) - Len(manifest) + i]
      BY <2>1, <2>4 DEF ManifestIsHistory, TypeOK
    <3>3. /\ manifest' \in Seq(Record)
          /\ Len(manifest') = IF Len(manifest) < MaxEntries THEN Len(manifest) + 1 ELSE MaxEntries
          /\ \A i \in 1..Len(manifest') :
                manifest'[i] = Append(manifest, record)[Len(manifest) + 1 - Len(manifest') + i]
      <4> DEFINE new == Capped(Append(manifest, record))
      <4>1. /\ new \in Seq(Record)
            /\ Len(new) = IF Len(manifest) < MaxEntries THEN Len(manifest) + 1 ELSE MaxEntries
            /\ \A i \in 1..Len(new) :
                  new[i] = Append(manifest, record)[Len(manifest) + 1 - Len(new) + i]
        <5>1. manifest \in Seq(Record) /\ record \in Record
          BY <2>1, <3>1
        <5> HIDE DEF new
        <5>2. QED
          BY <5>1, CappedManifest DEF new
      <4>2. new = manifest'
        BY <2>1, <3>1
      <4>3. QED
        BY <4>1, <4>2
    <3>4. /\ Len(log) \in Nat /\ Len(manifest) \in Nat /\ Len(manifest') \in Nat
          /\ Len(log') = Len(log) + 1 /\ Len(manifest) <= Len(log)
          /\ Len(manifest') <= Len(manifest) + 1
          /\ Len(manifest') = IF Len(log') < MaxEntries THEN Len(log') ELSE MaxEntries
      <4>1. Len(log) \in Nat /\ Len(manifest) \in Nat /\ Len(manifest') \in Nat
        BY <3>3 DEF TypeOK
      <4>2. QED
        BY <2>2, <3>2, <3>3, <4>1
    <3>5. ASSUME NEW i \in 1..Len(manifest')
          PROVE  manifest'[i] = log'[Len(log') - Len(manifest') + i]
      <4> DEFINE j == Len(manifest) + 1 - Len(manifest') + i
                 k == Len(log') - Len(manifest') + i
      <4>1. /\ i \in Int /\ 1 <= i /\ i <= Len(manifest')
            /\ j \in 1..Len(manifest) + 1 /\ k \in 1..Len(log) + 1
            /\ k - Len(log) = j - Len(manifest)
        <5>1. i \in Int /\ 1 <= i /\ i <= Len(manifest')
          BY <3>4, <3>5
        <5>2. j \in 1..Len(manifest) + 1
          BY <3>4, <5>1
        <5>3. k \in 1..Len(log) + 1
          BY <3>4, <5>1
        <5>4. k - Len(log) = j - Len(manifest)
          BY <3>4, <5>1
        <5>5. QED
          BY <5>1, <5>2, <5>3, <5>4
      <4> HIDE DEF j, k
      <4>2. CASE j = Len(manifest) + 1
        <5>1. k = Len(log) + 1
          BY <3>4, <4>1, <4>2
        <5>2. Append(manifest, record)[j] = record /\ log'[k] = record
          BY <2>1, <4>2, <5>1, AppendProperties DEF TypeOK
        <5>3. QED
          BY <3>3, <5>2 DEF j, k
      <4>3. CASE j # Len(manifest) + 1
        <5>1. j \in 1..Len(manifest) /\ k \in 1..Len(log) /\ k = Len(log) - Len(manifest) + j
          BY <3>4, <4>1, <4>3
        <5>2. manifest'[i] = manifest[j]
          <6>1. Append(manifest, record)[j] = manifest[j]
            BY <2>1, <5>1, AppendProperties DEF TypeOK
          <6>2. QED
            BY <3>3, <6>1 DEF j
        <5>3. log'[k] = log[k]
          BY <2>1, <5>1, AppendProperties
        <5>4. QED
          BY <3>2, <5>1, <5>2, <5>3 DEF k
      <4>4. QED
        BY <4>2, <4>3
    <3>6. DOMAIN manifest' = 1..Len(manifest')
      BY <3>3
    <3>7. QED
      BY <3>4, <3>5, <3>6
  <2>5. QED
    BY <2>2, <2>3, <2>4 DEF ManifestIsHistory
<1>5. ASSUME NEW s \in Step, PutData(s) \/ PutSidecar(s) PROVE HistoryInv'
  BY <1>1, <1>5 DEF PutData, PutSidecar, TypeOK, history
<1>6. ASSUME NEW s \in Step, Skip(s) \/ StepFails(s) PROVE HistoryInv'
  BY <1>1, <1>3, <1>6 DEF Skip, StepFails, Fault, TypeOK, objects
<1>7. CASE LoadBegin \/ (\E p \in Partition : LoadSidecar(p)) \/ LoadData \/ LoadEnd
  BY <1>1, <1>7 DEF LoadBegin, LoadSidecar, LoadData, LoadEnd, Fault, TypeOK,
     objects, steps, history
<1>8. CASE UNCHANGED vars
  BY <1>1, <1>8 DEF vars, objects, steps, history
<1>9. QED
  BY <1>2, <1>4, <1>5, <1>6, <1>7, <1>8 DEF Next

\* Without failures and with one step at a time the manifest has the newest outputs
\* that were written, in their order, whatever the cap.
THEOREM ManifestIsEndOfLog == Spec => []ManifestIsHistory
<1>1. HistoryInv => ManifestIsHistory
  BY DEF HistoryInv
<1>2. QED
  BY <1>1, HistoryInit, HistoryNext, TypeCorrect, PTL DEF Spec

=============================================================================
