------------------------------ MODULE Callers ------------------------------
(***************************************************************************)
(* Who uses the shared caches of dagster_io: threads of Dagster steps, each *)
(* step a process of its own.  A lock is a threading.Lock, which only the  *)
(* threads of one process share; a process that is killed loses its locks  *)
(* and leaves what it has stored.                                          *)
(***************************************************************************)
EXTENDS Naturals, FiniteSets, Python

CONSTANTS
    Process,    \* the processes (step pods) that are running
    Caller,     \* their threads
    ProcessOf,  \* the process of each thread
    MaxCalls,   \* bound on the calls made
    MaxFaults   \* bound on failed requests, raised exceptions and kills

ASSUME CallerAssumption == /\ ProcessOf \in [Caller -> Process]
                           /\ None \notin Caller
ASSUME CallBoundAssumption == MaxCalls \in Nat /\ MaxFaults \in Nat

VARIABLES
    calls,      \* calls made so far
    faults      \* failures so far

counters == <<calls, faults>>

CallersInit == calls = 0 /\ faults = 0

OneCall == calls < MaxCalls /\ calls' = calls + 1 /\ UNCHANGED faults

Fault == faults < MaxFaults /\ faults' = faults + 1 /\ UNCHANGED calls

CountersOK == calls \in 0..MaxCalls /\ faults \in 0..MaxFaults
=============================================================================
