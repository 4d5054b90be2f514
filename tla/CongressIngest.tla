--------------------------- MODULE CongressIngest ---------------------------
(***************************************************************************)
(* The incremental ingest of bills in congress-data: a scheduled job lists *)
(* the bills updated since a watermark and merges them into a manifest in  *)
(* S3; a sensor compares the manifest with the registered partitions and a *)
(* cursor and requests a run of the tail pipeline for each new or updated  *)
(* bill.  Members go the same way with the same code.                      *)
(*                                                                         *)
(* Every hand-over is a file in S3 written in its own step, so each failure *)
(* is a place where an update can be forgotten.                            *)
(***************************************************************************)
EXTENDS Naturals, FiniteSets, FiniteSetsExt

CONSTANTS
    Bill,       \* the bills, numbered in the order the API breaks ties
    Job,        \* executions of bills_discovery_job that may overlap
    PageSize,   \* the page size of paginate
    MaxRuns,    \* _MAX_BILL_RUNS_PER_TICK
    MaxDate,    \* bound on the update dates
    MaxFaults   \* bound on failed reads, jobs, ticks and runs

ASSUME BillAssumption == Bill \subseteq Nat /\ IsFiniteSet(Bill)
ASSUME BoundAssumption == /\ PageSize \in Nat \ {0} /\ MaxRuns \in Nat \ {0}
                          /\ MaxDate \in Nat /\ MaxFaults \in Nat

VARIABLES
    date,       \* what the API knows of each bill
    watermark,  \* last_update_date of bills_watermark.json
    phase,      \* where each job is
    from,       \* the watermark each job has loaded
    offset,     \* the offset of its next page
    entries,    \* what it has listed
    base,       \* the manifest it has loaded to merge into
    manifest,   \* bills_manifest.jsonl
    partitions, \* the registered dynamic partitions
    cursor,     \* bill_sensor_cursor.json
    tick,       \* where the sensor is in a tick
    loaded,     \* the cursor that tick has loaded
    batch,      \* the bills it requests, with the dates it saw
    runKeys,    \* the run keys Dagster has seen
    queue,      \* the runs not yet executed
    processed,  \* the date of the content the tail last materialised
    faults,     \* failures so far
    dropped,    \* history: updates that a failure or another job has taken out of
                \* a hand-over
    astray,     \* history: jobs that do not know all of what they will replace: their
                \* read of the manifest failed, or another job has put it meanwhile
    shifted     \* history: the API changed between two pages of a listing

apiVars    == <<date, shifted>>
jobVars    == <<phase, from, offset, entries, base>>
sensorVars == <<partitions, cursor, tick, loaded, batch>>
runVars    == <<runKeys, queue, processed>>

vars == <<apiVars, watermark, jobVars, manifest, sensorVars, runVars, faults,
          dropped, astray>>

\* Dates are numbers: Absent is no bill, no entry, no cursor, no watermark, and
\* Undated is Python's None, which the code stores like any other date.
Absent  == 0
Undated == 1
Date    == 0..MaxDate
Known(d) == d > Undated

Dates == [Bill -> Date]
Nothing == [b \in Bill |-> Absent]

\* The entries of f, with those of g in the place of what f has of them.
MergedWith(f, g) == [b \in Bill |-> IF g[b] # Absent THEN g[b] ELSE f[b]]

\* The entries of a file as pairs of bill and date.
Updates(f) == {<<b, f[b]>> : b \in {c \in Bill : f[c] # Absent}}

Init ==
    /\ date = Nothing
    /\ watermark = Absent
    /\ phase = [j \in Job |-> "off"]
    /\ from = [j \in Job |-> Absent]
    /\ offset = [j \in Job |-> 0]
    /\ entries = [j \in Job |-> Nothing]
    /\ base = [j \in Job |-> Nothing]
    /\ manifest = Nothing
    /\ partitions = {}
    /\ cursor = Nothing
    /\ tick = "idle"
    /\ loaded = Nothing
    /\ batch = Nothing
    /\ runKeys = {}
    /\ queue = {}
    /\ processed = Nothing
    /\ faults = 0
    /\ dropped = {}
    /\ astray = {}
    /\ shifted = FALSE

Fault == faults < MaxFaults /\ faults' = faults + 1

\* A read of S3 yields the file, or fails and the code goes on as if there were
\* no such file.
Read(file, none, result) == \/ result = file /\ UNCHANGED faults
                            \/ file # none /\ result = none /\ Fault

-----------------------------------------------------------------------------
(* The congress.gov API                                                    *)

\* A bill is published, at first perhaps without a date, or updated.
Publish(b) ==
    /\ \E d \in Date : /\ d > date[b]
                       /\ d = Undated \/ \A c \in Bill : d >= date[c]
                       /\ date' = [date EXCEPT ![b] = d]
    /\ shifted' = (shifted \/ \E j \in Job : phase[j] = "listing" /\ offset[j] > 0)
    /\ UNCHANGED <<watermark, jobVars, manifest, sensorVars, runVars, faults,
                   dropped, astray>>

\* The bills listed for fromDateTime, and the rank of each of them in the order
\* of updateDate.
Listed(since) == {b \in Bill : date[b] # Absent /\ (since = Absent \/ date[b] >= since)}

Rank(b, since) ==
    Cardinality({c \in Listed(since) :
                    date[c] < date[b] \/ (date[c] = date[b] /\ c < b)})

-----------------------------------------------------------------------------
(* bills_list_incremental                                                  *)

\* The variables of a job are gone with it.
EndJob(j) == /\ phase' = [phase EXCEPT ![j] = "off"]
             /\ from' = [from EXCEPT ![j] = Absent]
             /\ offset' = [offset EXCEPT ![j] = 0]
             /\ entries' = [entries EXCEPT ![j] = Nothing]
             /\ base' = [base EXCEPT ![j] = Nothing]

StartJob(j) ==
    /\ phase[j] = "off"
    /\ \E wm \in Date : /\ Read(watermark, Absent, wm)
                        /\ from' = [from EXCEPT ![j] = wm]
    /\ phase' = [phase EXCEPT ![j] = "listing"]
    /\ UNCHANGED <<apiVars, watermark, offset, entries, base, manifest, sensorVars,
                   runVars, dropped, astray>>

\* One page; the last one is the page the API gives no successor of.
FetchPage(j) ==
    /\ phase[j] = "listing"
    /\ LET all == Listed(from[j])
           page == {b \in all : Rank(b, from[j]) \in offset[j]..offset[j] + PageSize - 1}
       IN  /\ entries' = [entries EXCEPT ![j] =
                             [b \in Bill |-> IF b \in page THEN date[b] ELSE @[b]]]
           /\ IF Cardinality(all) > offset[j] + PageSize
              THEN /\ offset' = [offset EXCEPT ![j] = @ + PageSize]
                   /\ UNCHANGED phase
              ELSE /\ offset' = [offset EXCEPT ![j] = 0]
                   /\ phase' = [phase EXCEPT ![j] = "listed"]
    /\ UNCHANGED <<apiVars, watermark, from, base, manifest, sensorVars, runVars,
                   faults, dropped, astray>>

\* Variant: a bill without a date counts as well.
LatestOfAll(j) == LET all == {entries[j][b] : b \in Bill} \ {Absent}
                  IN  IF all = {} THEN from[j] ELSE Max(all)

Latest(j) == LET known == {d \in {entries[j][b] : b \in Bill} : Known(d)}
             IN  IF known = {} THEN from[j] ELSE Max(known)

\* Variant: the watermark is moved past the last date seen.
PastLatest(j) == watermark' = IF Latest(j) < MaxDate THEN Latest(j) + 1 ELSE MaxDate

\* The watermark is the latest date listed, or stays when no bill had one.
MoveWatermark(j) == watermark' = Latest(j)

\* The watermark is saved, and only then is the list handed on.
SaveWatermark(j) ==
    /\ phase[j] = "listed"
    /\ phase' = [phase EXCEPT ![j] = "output"]
    /\ IF entries[j] = Nothing THEN UNCHANGED watermark ELSE MoveWatermark(j)
    /\ from' = [from EXCEPT ![j] = Absent]
    /\ UNCHANGED <<apiVars, offset, entries, base, manifest, sensorVars,
                   runVars, faults, dropped, astray>>

-----------------------------------------------------------------------------
(* bills_manifest                                                          *)

LoadManifest(j) ==
    /\ phase[j] = "output"
    /\ \E file \in {manifest, Nothing} :
          /\ Read(manifest, Nothing, file)
          /\ base' = [base EXCEPT ![j] = file]
          /\ astray' = IF file = manifest THEN astray ELSE astray \cup {j}
    /\ phase' = [phase EXCEPT ![j] = "loaded"]
    /\ UNCHANGED <<apiVars, watermark, from, offset, entries, manifest, sensorVars,
                   runVars, dropped>>

\* Variant: only the new entries are written.
NewOnly(old, new) == new

\* New entries win over existing ones.
Merge(old, new) == MergedWith(old, new)

\* The updates that the manifest has and a job has not: it has listed an older date, or
\* has loaded no such date to merge into.
Behind(j) == {u \in Updates(manifest) :
                 /\ entries[j][u[1]] < u[2]
                 /\ entries[j][u[1]] # Absent \/ base[j][u[1]] < u[2]}

\* The manifest is replaced as a whole, whatever others have put since it was loaded.
PutManifest(j) ==
    /\ phase[j] = "loaded"
    /\ manifest' = Merge(base[j], entries[j])
    /\ dropped' = dropped \cup Behind(j)
    /\ astray' = (astray \cup {i \in Job : entries[i] # Nothing \/ phase[i] = "loaded"})
                     \ {j}
    /\ EndJob(j)
    /\ UNCHANGED <<apiVars, watermark, sensorVars, runVars, faults>>

\* A job fails in one of its assets.  What the watermark it has saved leaves behind
\* and the manifest does not have will not be listed again.
JobFails(j) ==
    /\ phase[j] # "off"
    /\ Fault
    /\ dropped' = IF phase[j] \in {"output", "loaded"}
                  THEN dropped \cup {u \in Updates(entries[j]) :
                                        /\ \E c \in Bill : u[2] < entries[j][c]
                                        /\ manifest[u[1]] # u[2]}
                  ELSE dropped
    /\ astray' = astray \ {j}
    /\ EndJob(j)
    /\ UNCHANGED <<apiVars, watermark, manifest, sensorVars, runVars>>

JobStep(j) == FetchPage(j) \/ SaveWatermark(j) \/ LoadManifest(j) \/ PutManifest(j)

-----------------------------------------------------------------------------
(* congress_bill_sensor                                                    *)

New == {b \in Bill : manifest[b] # Absent /\ b \notin partitions}

\* update_date and update_date > cursor.get(pk, "").
Updated(seen) == {b \in partitions : Known(manifest[b]) /\ manifest[b] > seen[b]}

\* The comparison of a date with None raises.
Incomparable(seen) == \E b \in partitions : Known(manifest[b]) /\ seen[b] = Undated

\* New bills first, then updated ones, MaxRuns of them at most.
Batches(seen) ==
    {S \in SUBSET (New \cup Updated(seen)) :
        /\ Cardinality(S) = LET n == Cardinality(New \cup Updated(seen))
                            IN  IF n < MaxRuns THEN n ELSE MaxRuns
        /\ New \subseteq S \/ S \subseteq New}

\* Manifest, cursor and partitions are read and the new partitions registered.
TickBegin ==
    /\ tick = "idle"
    /\ manifest # Nothing
    /\ \E seen \in {cursor, Nothing} :
          /\ Read(cursor, Nothing, seen)
          /\ ~Incomparable(seen)
          /\ loaded' = seen
          /\ New \cup Updated(seen) # {}
          /\ \E S \in Batches(seen) :
                /\ batch' = [b \in Bill |-> IF b \in S THEN manifest[b] ELSE Absent]
                /\ partitions' = partitions \cup (S \cap New)
    /\ tick' = "registered"
    /\ UNCHANGED <<apiVars, watermark, jobVars, manifest, cursor, runVars, dropped,
                   astray>>

\* Variant: the cursor is set for all that the manifest has.
SeenAll(seen, requested) == MergedWith(seen, manifest)

\* The cursor takes over the dates of the bills requested.
Seen(seen, requested) == MergedWith(seen, requested)

SaveCursor ==
    /\ tick = "registered"
    /\ cursor' = Seen(loaded, batch)
    /\ tick' = "saved"
    /\ loaded' = Nothing
    /\ UNCHANGED <<apiVars, watermark, jobVars, manifest, partitions, batch,
                   runVars, faults, dropped, astray>>

EndTick == tick' = "idle" /\ loaded' = Nothing /\ batch' = Nothing

\* The tick has ended: the runs whose key is new are queued.
Submit ==
    /\ tick = "saved"
    /\ runKeys' = runKeys \cup Updates(batch)
    /\ queue' = queue \cup (Updates(batch) \ runKeys)
    /\ EndTick
    /\ UNCHANGED <<apiVars, watermark, jobVars, manifest, partitions, cursor,
                   processed, faults, dropped, astray>>

\* The tick fails or the process dies in it: no run is launched.  A bill whose
\* cursor was not saved yet is found again, if it has a date.
TickFails ==
    /\ tick # "idle"
    /\ Fault
    /\ dropped' = dropped \cup (IF tick = "saved" THEN Updates(batch) \ runKeys
                                ELSE {u \in Updates(batch) : u[2] = Undated})
    /\ EndTick
    /\ UNCHANGED <<apiVars, watermark, jobVars, manifest, partitions, cursor,
                   runVars, astray>>

-----------------------------------------------------------------------------
(* The tail pipeline: a run fetches what the API has of the bill by then    *)

RunTail ==
    /\ \E u \in queue : /\ queue' = queue \ {u}
                        /\ processed' = [processed EXCEPT ![u[1]] = date[u[1]]]
    /\ UNCHANGED <<apiVars, watermark, jobVars, manifest, sensorVars, runKeys,
                   faults, dropped, astray>>

\* A run that fails keeps its run key: the request is not repeated.
RunFails ==
    /\ Fault
    /\ \E u \in queue : /\ queue' = queue \ {u}
                        /\ dropped' = dropped \cup {u}
    /\ UNCHANGED <<apiVars, watermark, jobVars, manifest, sensorVars, runKeys,
                   processed, astray>>

Next ==
    \/ \E b \in Bill : Publish(b)
    \/ \E j \in Job : StartJob(j) \/ JobStep(j) \/ JobFails(j)
    \/ TickBegin \/ SaveCursor \/ Submit \/ TickFails
    \/ RunTail \/ RunFails

Spec == Init /\ [][Next]_vars

\* The schedules run by default and the sensor, which is off by default, has been
\* switched on; what Dagster has started it carries on.
Fairness == /\ \A j \in Job : WF_vars(StartJob(j) \/ JobStep(j))
            /\ WF_vars(TickBegin \/ SaveCursor \/ Submit)
            /\ WF_vars(RunTail)

FairSpec == Spec /\ Fairness

-----------------------------------------------------------------------------
(* Properties                                                              *)

TypeOK ==
    /\ date \in Dates /\ manifest \in Dates /\ cursor \in Dates
    /\ loaded \in Dates /\ batch \in Dates /\ processed \in Dates
    /\ watermark \in Date \ {Undated}
    /\ phase \in [Job -> {"off", "listing", "listed", "output", "loaded"}]
    /\ from \in [Job -> Date] /\ offset \in [Job -> Nat]
    /\ entries \in [Job -> Dates] /\ base \in [Job -> Dates]
    /\ partitions \subseteq Bill
    /\ tick \in {"idle", "registered", "saved"}
    /\ queue \subseteq runKeys /\ runKeys \subseteq Bill \X Date
    /\ faults \in 0..MaxFaults
    /\ dropped \subseteq Bill \X Date /\ astray \subseteq Job
    /\ shifted \in BOOLEAN

\* What lies before the watermark is never listed again, so it must be in the
\* manifest or in the list of a job that has yet to put it there.  However many jobs
\* overlap: unless the pages of a listing shifted, only a failure, or a job that put
\* less than the manifest had, takes such a bill out of the hand-over.
WatermarkCovers ==
    ~shifted =>
        \A b \in Bill :
            Known(date[b]) /\ date[b] < watermark =>
                \/ manifest[b] = date[b]
                \/ <<b, date[b]>> \in dropped
                \/ \E j \in Job : /\ phase[j] \in {"output", "loaded"}
                                 /\ entries[j][b] = date[b]

\* A cursor is ahead only of what has been requested: a bill is not taken as
\* seen unless a run was launched for that date, is about to be, or was lost.
CursorHonest ==
    \A b \in Bill :
        cursor[b] # Absent =>
            \/ <<b, cursor[b]>> \in runKeys \cup dropped
            \/ tick = "saved" /\ batch[b] = cursor[b]

\* No entry of the manifest is removed or replaced by an older one, whatever fails and
\* whichever jobs overlap, but by a job whose own read of the manifest failed or that
\* another job's put has overtaken.
NoUpdateUndone ==
    [][\A b \in Bill :
          manifest'[b] < manifest[b] =>
              \E j \in astray : phase[j] = "loaded" /\ phase'[j] = "off"]_vars

\* The tail has what the API has of a bill, or that was taken away from it.
UpToDate(b) == \/ Known(date[b]) => processed[b] = date[b]
               \/ <<b, date[b]>> \in dropped

\* Once the API leaves a bill alone, its last date reaches the tail or was dropped
\* by a failure or an overtaken job, as long as no listing shifted and no bill with a
\* cursor of None has come to have a date.
UpdatesReachTail ==
    []<>(shifted \/ Incomparable(cursor) \/ \A b \in Bill : UpToDate(b))

\* What the watermark manager asks of its callers: to save "only on successful
\* completion".  A bill before the watermark of a finished job is in the manifest.
SavedOnSuccess ==
    (\A j \in Job : phase[j] = "off") /\ ~shifted =>
        \A b \in Bill :
            Known(date[b]) /\ date[b] < watermark => manifest[b] = date[b]
=============================================================================
