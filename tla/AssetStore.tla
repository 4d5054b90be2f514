----------------------------- MODULE AssetStore -----------------------------
(***************************************************************************)
(* How assets are kept between Dagster steps: MinioIOManager and its       *)
(* Optional variant (dagster_io/io_manager.py) and the manifest of an      *)
(* asset (dagster_io/manifest.py).                                         *)
(*                                                                         *)
(* One asset with its partitions.  handle_output puts three objects, one   *)
(* after the other: the data and a sidecar under the prefix of the         *)
(* partition, and a manifest that all the partitions of the asset share.   *)
(* load_input reads the sidecar and then the data it names.  Steps of the  *)
(* same asset run at the same time, fail and are run again.                *)
(***************************************************************************)
EXTENDS Naturals, Sequences, FiniteSets

CONSTANTS
    Partition,   \* the partitions of the asset
    Payload,     \* serialized outputs; equal payloads have equal hashes
    Pickled,     \* those whose format is pkl; the others are jsonl
    None,        \* no object
    Step,        \* the steps that may write the asset at one time
    MaxEntries,  \* MAX_MANIFEST_ENTRIES
    MaxOutputs,  \* bound on the calls of handle_output
    MaxFaults    \* bound on requests that fail and steps that are killed

Format == {"jsonl", "pkl"}

ASSUME PayloadAssumption == None \notin Payload /\ Pickled \subseteq Payload
ASSUME PartitionAssumption == None \notin Partition \cup Format
ASSUME BoundAssumption == /\ MaxEntries \in Nat \ {0}
                          /\ MaxOutputs \in Nat /\ MaxFaults \in Nat

VARIABLES
    data,       \* data.<format> of each partition
    sidecar,    \* _metadata.json of each partition: the payload it describes
    manifest,   \* _manifest.json, the records of the asset
    pc,         \* where each step is in handle_output
    part,       \* the partition it writes
    payload,    \* what it writes there
    seen,       \* the manifest it has loaded
    outputs,    \* calls of handle_output so far
    load,       \* where a downstream step is in load_input
    keys,       \* the partitions it loads, and those still to do
    todo,
    at,         \* the partition whose sidecar it has just read
    format,     \* and the format that sidecar names
    got,        \* what it has loaded
    faults,     \* such failures so far
    kept,       \* history: what the last successful output of a partition was
    written,    \* history: the payloads put for each partition
    log,        \* history: the records of the outputs that were completed
    raced,      \* history: partitions that two steps have written at once
    shared,     \* history: two steps have been in handle_output at once
    cut,        \* history: partitions whose output ended before its manifest
    stored,     \* history: the partitions with a sidecar when the load began
    current     \* history: what was stored then or about to be, or put since

objects == <<data, sidecar, manifest>>
steps   == <<pc, part, payload, seen, outputs>>
loads   == <<load, keys, todo, at, format, got>>
history == <<kept, written, log, raced, shared, cut>>

vars == <<objects, steps, loads, faults, history, stored, current>>

FormatOf(c) == IF c \in Pickled THEN "pkl" ELSE "jsonl"

Record == [partition : Partition, payload : Payload]

NoObject == [p \in Partition |-> None]

Init ==
    /\ data = [p \in Partition |-> [f \in Format |-> None]]
    /\ sidecar = NoObject
    /\ manifest = <<>>
    /\ pc = [s \in Step |-> "idle"]
    /\ part = [s \in Step |-> None]
    /\ payload = [s \in Step |-> None]
    /\ seen = [s \in Step |-> <<>>]
    /\ outputs = 0
    /\ load = "idle"
    /\ keys = {}
    /\ todo = {}
    /\ at = None
    /\ format = None
    /\ got = NoObject
    /\ faults = 0
    /\ kept = NoObject
    /\ written = {}
    /\ log = <<>>
    /\ raced = {}
    /\ shared = FALSE
    /\ cut = {}
    /\ stored = {}
    /\ current = {}

Fault == faults < MaxFaults /\ faults' = faults + 1

-----------------------------------------------------------------------------
(* handle_output                                                           *)

Busy == {s \in Step : pc[s] # "idle"}

\* When the read of the manifest fails, for whatever reason, the step goes on
\* with an empty one.
LoadManifest(s) ==
    \/ seen' = [seen EXCEPT ![s] = manifest] /\ UNCHANGED faults
    \/ seen' = [seen EXCEPT ![s] = <<>>] /\ manifest # <<>> /\ Fault

\* The payload is serialized and the manifest loaded.  (An output that is None
\* has returned before, and changed nothing.)
Begin(s, p, c) ==
    /\ pc[s] = "idle"
    /\ outputs < MaxOutputs
    /\ outputs' = outputs + 1
    /\ LoadManifest(s)
    /\ pc' = [pc EXCEPT ![s] = "loaded"]
    /\ part' = [part EXCEPT ![s] = p]
    /\ payload' = [payload EXCEPT ![s] = c]
    /\ shared' = (shared \/ Busy # {})
    /\ raced' = raced \cup {q \in {p} : \E t \in Busy : part[t] = q}
    /\ UNCHANGED <<objects, loads, kept, written, log, cut, stored, current>>

\* Variant: the payload is looked for in the whole manifest.
AnyRecord(m, c) == \E i \in DOMAIN m : m[i].payload = c

\* The payload has the hash of the last record, whatever its partition is.
Unchanged(m, c) == m # <<>> /\ m[Len(m)].payload = c

\* The step is back in Dagster.
Return(s) == /\ pc' = [pc EXCEPT ![s] = "idle"]
             /\ part' = [part EXCEPT ![s] = None]
             /\ payload' = [payload EXCEPT ![s] = None]
             /\ seen' = [seen EXCEPT ![s] = <<>>]
             /\ UNCHANGED outputs

Skip(s) ==
    /\ pc[s] = "loaded"
    /\ Unchanged(seen[s], payload[s])
    /\ kept' = [kept EXCEPT ![part[s]] = payload[s]]
    /\ Return(s)
    /\ UNCHANGED <<objects, loads, faults, written, log, raced, shared, cut,
                   stored, current>>

\* Variant: the data of the other format is removed.
OnlyFormat(p, c) ==
    data' = [data EXCEPT ![p] = [f \in Format |-> IF f = FormatOf(c) THEN c ELSE None]]

\* Data of another format stays where it is.
Overwrite(p, c) == data' = [data EXCEPT ![p][FormatOf(c)] = c]

PutData(s) ==
    /\ pc[s] = "loaded"
    /\ ~Unchanged(seen[s], payload[s])
    /\ Overwrite(part[s], payload[s])
    /\ pc' = [pc EXCEPT ![s] = "data"]
    /\ written' = written \cup {<<part[s], payload[s]>>}
    /\ current' = IF load = "idle" THEN current
                  ELSE current \cup {<<part[s], payload[s]>>}
    /\ UNCHANGED <<sidecar, manifest, part, payload, seen, outputs, loads, faults,
                   kept, log, raced, shared, cut, stored>>

PutSidecar(s) ==
    /\ pc[s] = "data"
    /\ sidecar' = [sidecar EXCEPT ![part[s]] = payload[s]]
    /\ pc' = [pc EXCEPT ![s] = "sidecar"]
    /\ UNCHANGED <<data, manifest, part, payload, seen, outputs, loads, faults,
                   history, stored, current>>

\* Variant: there is no cap.
Uncapped(m) == m

\* Variant: the oldest records are the ones that stay.
KeepFirst(m) == IF Len(m) > MaxEntries THEN SubSeq(m, 1, MaxEntries) ELSE m

\* The newest records stay.
Capped(m) == IF Len(m) > MaxEntries
             THEN SubSeq(m, Len(m) - MaxEntries + 1, Len(m)) ELSE m

\* The manifest that was loaded at the start is put back with a new record.
PutManifest(s) ==
    /\ pc[s] = "sidecar"
    /\ LET record == [partition |-> part[s], payload |-> payload[s]] IN
          /\ manifest' = Capped(Append(seen[s], record))
          /\ log' = Append(log, record)
    /\ kept' = [kept EXCEPT ![part[s]] = payload[s]]
    /\ Return(s)
    /\ UNCHANGED <<data, sidecar, loads, faults, written, raced, shared, cut,
                   stored, current>>

\* A put raises, or the step is killed: the objects stay as they are.
StepFails(s) ==
    /\ pc[s] # "idle"
    /\ Fault
    /\ cut' = IF pc[s] = "loaded" THEN cut ELSE cut \cup {part[s]}
    /\ Return(s)
    /\ UNCHANGED <<objects, loads, kept, written, log, raced, shared, stored,
                   current>>

-----------------------------------------------------------------------------
(* load_input                                                              *)

\* What the sidecar of a partition leads to.
Stored(p) == IF sidecar[p] = None THEN None ELSE data[p][FormatOf(sidecar[p])]

\* The partitions asked for need not have been materialized.
LoadBegin ==
    /\ load = "idle"
    /\ \E manager \in {"minio", "optional"}, S \in SUBSET Partition \ {{}} :
          /\ load' = manager
          /\ keys' = S
          /\ todo' = S
    /\ stored' = {p \in Partition : sidecar[p] # None}
    /\ current' = {<<p, Stored(p)>> : p \in {q \in Partition : sidecar[q] # None}}
                  \cup {<<part[s], data[part[s]][FormatOf(payload[s])]>> :
                           s \in {t \in Step : pc[t] = "data"}}
    /\ UNCHANGED <<objects, steps, at, format, got, faults, history>>

\* The next partition, the sidecar of the last one forgotten.
Onward(p) == /\ todo' = todo \ {p}
             /\ at' = None
             /\ format' = None

\* A partition that is missing is skipped by the optional manager; the other
\* one lets the exception out.
Missing(p) ==
    /\ load' = IF load = "optional" THEN load ELSE "raised"
    /\ Onward(p)
    /\ UNCHANGED got

LoadSidecar(p) ==
    /\ load \in {"minio", "optional"}
    /\ at = None
    /\ p \in todo
    /\ \/ sidecar[p] = None /\ Missing(p)
       \/ /\ sidecar[p] # None
          /\ at' = p
          /\ format' = FormatOf(sidecar[p])
          /\ UNCHANGED <<load, todo, got>>
    /\ UNCHANGED <<objects, steps, keys, faults, history, stored, current>>

\* Variant: the jsonl file is taken when there is one.
PreferJsonl(p, f) == IF data[p]["jsonl"] # None THEN data[p]["jsonl"] ELSE data[p][f]

\* The data of the format the sidecar has named.
Found(p, f) == data[p][f]

LoadData ==
    /\ load \in {"minio", "optional"}
    /\ at # None
    /\ IF Found(at, format) = None
       THEN Missing(at)
       ELSE /\ got' = [got EXCEPT ![at] = Found(at, format)]
            /\ Onward(at)
            /\ UNCHANGED load
    /\ UNCHANGED <<objects, steps, keys, faults, history, stored, current>>

\* The load is over, with a value, without one, or with an exception, which may
\* also come from a request that failed.
LoadEnd ==
    /\ load # "idle"
    /\ \/ (todo = {} \/ load = "raised") /\ UNCHANGED faults
       \/ todo # {} /\ load # "raised" /\ Fault
    /\ load' = "idle" /\ keys' = {} /\ todo' = {}
    /\ at' = None /\ format' = None /\ got' = NoObject
    /\ stored' = {} /\ current' = {}
    /\ UNCHANGED <<objects, steps, history>>

Next ==
    \/ \E s \in Step :
          \/ \E p \in Partition, c \in Payload : Begin(s, p, c)
          \/ Skip(s) \/ PutData(s) \/ PutSidecar(s) \/ PutManifest(s)
          \/ StepFails(s)
    \/ LoadBegin \/ (\E p \in Partition : LoadSidecar(p)) \/ LoadData \/ LoadEnd

Spec == Init /\ [][Next]_vars

-----------------------------------------------------------------------------
(* Properties                                                              *)

TypeOK ==
    /\ data \in [Partition -> [Format -> Payload \cup {None}]]
    /\ sidecar \in [Partition -> Payload \cup {None}]
    /\ manifest \in Seq(Record) /\ Len(manifest) <= MaxEntries
    /\ pc \in [Step -> {"idle", "loaded", "data", "sidecar"}]
    /\ part \in [Step -> Partition \cup {None}]
    /\ payload \in [Step -> Payload \cup {None}]
    /\ \A s \in Step : /\ pc[s] = "idle" <=> part[s] = None
                       /\ pc[s] = "idle" <=> payload[s] = None
    /\ seen \in [Step -> Seq(Record)]
    /\ outputs \in 0..MaxOutputs
    /\ load \in {"idle", "minio", "optional", "raised"}
    /\ todo \subseteq keys /\ keys \subseteq Partition
    /\ at \in todo \cup {None} /\ (load \in {"idle", "raised"} => at = None)
    /\ format \in Format \cup {None} /\ (at = None <=> format = None)
    /\ got \in [Partition -> Payload \cup {None}]
    /\ faults \in 0..MaxFaults

\* A sidecar never leads nowhere: whatever steps are doing and wherever they
\* were killed, the data object it names is there.
SidecarLeads == \A p \in Partition : sidecar[p] # None => Stored(p) # None

\* The steps that write a partition.
Writing(p) == \E s \in Step : part[s] = p

\* The output a step has handed over is what a load finds, as long as no two
\* steps have written the partition at once, none was cut off after its first
\* put, and no other partition of the asset was given the same payload.
OutputKept ==
    \A p \in Partition :
        /\ kept[p] # None /\ ~Writing(p)
        /\ p \notin raced \cup cut
        /\ \A q \in Partition \ {p} : <<q, kept[p]>> \notin written
        => Stored(p) = kept[p]

\* Without failures and with one step at a time the manifest has the newest
\* outputs that were written, in their order.
ManifestIsHistory ==
    ~shared /\ faults = 0 =>
        /\ Len(manifest) = IF Len(log) < MaxEntries THEN Len(log) ELSE MaxEntries
        /\ \A i \in DOMAIN manifest :
              manifest[i] = log[Len(log) - Len(manifest) + i]

\* A load never goes back in time: it finds what was stored when it began, what
\* a step was about to make the stored payload, or what has been put since, and
\* never an older payload of either format.
LoadIsCurrent ==
    \A p \in Partition : got[p] # None => <<p, got[p]>> \in current

\* A fan-in misses no partition that was there when it began: such a partition
\* is in the result, and only one that was not makes the strict manager raise.
FanInComplete ==
    /\ load # "idle" => \A p \in (keys \cap stored) \ todo : got[p] # None
    /\ load = "raised" => ~(keys \subseteq stored)

\* What the comment on the skipped write says of it: the "payload" is
\* "unchanged from last materialization".
SkippedIfUnchanged ==
    [][\A s \in Step : Skip(s) => Stored(part[s]) = payload[s]]_vars
=============================================================================
