----------------------------- MODULE RunStatus -----------------------------
(***************************************************************************)
(* The sensor that tells of finished runs (dagster_io/run_status_sensor.py *)
(* _emit_run_metrics and _emit_asset_materialization_events).  Dagster     *)
(* runs the body once for a run that has ended and then remembers that it  *)
(* has; a daemon that dies in between runs it again.  The body counts the  *)
(* run, marks the assets of a successful run as fresh, and appends events  *)
(* to the audit log: one for the run, one for each entry of the run's      *)
(* event log, one for each asset that was planned and is missing.          *)
(*                                                                         *)
(* Dagster and its event log are external, and the event store is the      *)
(* module EventStore's.  What a run has told is kept for each run.         *)
(***************************************************************************)
EXTENDS Naturals, FiniteSets

CONSTANTS Job,           \* the runs
          Product,       \* the assets
          Slot,          \* the partitions of an asset
          MaxRestarts, MaxDrifts   \* bounds

ASSUME RunStatusAssumption == MaxRestarts \in Nat /\ MaxDrifts \in Nat

VARIABLES
    job,       \* each run: its state, whether it was launched with a selection of assets,
               \* what it planned and the partitions it has materialized
    sensor,    \* how far the sensor is with each run
    counter,   \* DAGSTER_RUN_STATUS_TOTAL: the times each run was counted
    fresh,     \* the runs that have set ASSET_LAST_MATERIALIZED_TIMESTAMP_SECONDS
    told,      \* the events of each run in the audit log
    configured,   \* event_store.is_configured()
    restarts,  \* daemons that died before they saved their cursor
    drifts     \* emissions that an error of Dagster's interface has cut short

statusVars == <<job, sensor, counter, fresh, told, configured, restarts, drifts>>

_STATUS_LABELS == {"success", "failure", "canceled"}

Planned(a)         == [event |-> "asset_planned", asset |-> a, slot |-> "none"]
Materialized(a, s) == [event |-> "asset_materialized", asset |-> a, slot |-> s]
Missing(a)         == [event |-> "asset_missing", asset |-> a, slot |-> "none"]

StatusInit ==
    /\ job \in [Job -> [state : {"running"}, selected : BOOLEAN,
                        planned : SUBSET Product, done : {{}}]]
    /\ sensor = [r \in Job |-> "waits"] /\ counter = [r \in Job |-> 0]
    /\ fresh = [a \in Product |-> {}] /\ told = [r \in Job |-> {}]
    /\ configured \in BOOLEAN /\ restarts = 0 /\ drifts = 0

-----------------------------------------------------------------------------
(* The runs                                                                *)

Materialize(r, a, s) ==
    /\ job[r].state = "running" /\ a \in job[r].planned
    /\ job' = [job EXCEPT ![r].done = @ \union {<<a, s>>}]
    /\ UNCHANGED <<sensor, counter, fresh, told, configured, restarts, drifts>>

\* A run may succeed without a materialization of all it has planned: an output can be
\* skipped.
End(r) ==
    /\ job[r].state = "running"
    /\ \E s \in _STATUS_LABELS : job' = [job EXCEPT ![r].state = s]
    /\ UNCHANGED <<sensor, counter, fresh, told, configured, restarts, drifts>>

-----------------------------------------------------------------------------
(* The sensor                                                              *)

Selection(r) == IF job[r].selected THEN job[r].planned ELSE {}

\* _emit_run_metrics, up to the event log: the counter, and the gauges of what was
\* selected, whether it was materialized or not.
Count(r) ==
    /\ job[r].state \in _STATUS_LABELS /\ sensor[r] = "waits"
    /\ counter' = [counter EXCEPT ![r] = @ + 1]
    /\ fresh' = IF job[r].state = "success"
                THEN [a \in Product |-> fresh[a] \union (IF a \in Selection(r) THEN {r} ELSE {})]
                ELSE fresh
    /\ sensor' = [sensor EXCEPT ![r] = IF configured THEN "tells" ELSE "counted"]
    /\ UNCHANGED <<job, told, configured, restarts, drifts>>

MaterializedKeys(r) == {d[1] : d \in job[r].done}

FromLog(r) == {Planned(a) : a \in job[r].planned} \union {Materialized(d[1], d[2]) : d \in job[r].done}

\* An asset of which one partition was stored is not missing.
FromGaps(r) == {Missing(a) : a \in job[r].planned \ MaterializedKeys(r)}

\* _emit_asset_materialization_events; an exception ends it where it is.
Tell(r) ==
    /\ sensor[r] = "tells"
    /\ \/ /\ told' = [told EXCEPT ![r] = @ \union FromLog(r) \union FromGaps(r)]
          /\ UNCHANGED drifts
       \/ /\ drifts < MaxDrifts /\ drifts' = drifts + 1
          /\ \E some \in SUBSET FromLog(r) : told' = [told EXCEPT ![r] = @ \union some]
    /\ sensor' = [sensor EXCEPT ![r] = "counted"]
    /\ UNCHANGED <<job, counter, fresh, configured, restarts>>

\* Dagster saves that the run was seen.
Remember(r) ==
    /\ sensor[r] = "counted"
    /\ sensor' = [sensor EXCEPT ![r] = "seen"]
    /\ UNCHANGED <<job, counter, fresh, told, configured, restarts, drifts>>

\* The daemon dies: the body runs again at its next tick.
Restart ==
    /\ restarts < MaxRestarts /\ restarts' = restarts + 1
    /\ \E r \in Job : sensor[r] \in {"tells", "counted"}
    /\ sensor' = [r \in Job |-> IF sensor[r] = "seen" THEN "seen" ELSE "waits"]
    /\ UNCHANGED <<job, counter, fresh, told, configured, drifts>>

StatusNext ==
    \/ \E r \in Job : \/ \E a \in Product, s \in Slot : Materialize(r, a, s)
                      \/ End(r) \/ Count(r) \/ Tell(r) \/ Remember(r)
    \/ Restart

-----------------------------------------------------------------------------
StatusTypeOK ==
    /\ \A r \in Job : /\ job[r].state \in {"running"} \union _STATUS_LABELS
                      /\ job[r].done \subseteq job[r].planned \X Slot
    /\ sensor \in [Job -> {"waits", "tells", "counted", "seen"}]
    /\ counter \in [Job -> 0..(MaxRestarts + 1)]
    /\ fresh \in [Product -> SUBSET Job]
    /\ restarts \in 0..MaxRestarts /\ drifts \in 0..MaxDrifts

\* A run that has been seen was counted, and once unless a daemon died; the log has all
\* that it stored and, of what it planned, names as missing what it has nothing of, unless
\* an emission was cut short; and no run that failed makes an asset fresh.
RunsTold ==
    \A r \in Job :
        /\ sensor[r] = "seen" => counter[r] >= 1 /\ (restarts = 0 => counter[r] = 1)
        /\ sensor[r] = "seen" /\ configured /\ drifts = 0 =>
              /\ \A d \in job[r].done : Materialized(d[1], d[2]) \in told[r]
              /\ \A a \in job[r].planned :
                    Missing(a) \in told[r] <=> \A s \in Slot : <<a, s>> \notin job[r].done
        /\ \A a \in Product : r \in fresh[a] => job[r].state = "success" /\ counter[r] >= 1
=============================================================================
