-------------------------- MODULE MCCongressIngest --------------------------
(***************************************************************************)
(* Instances of CongressIngest for TLC.  With two jobs, the second one is  *)
(* bounded to runs that overlap a run of the first.                        *)
(***************************************************************************)
EXTENDS CongressIngest, TLC

CONSTANTS j1, j2

Starts(j) == phase[j] = "off" /\ phase'[j] # "off"

\* j2 overlaps the run of j1 that makes the first manifest: it starts when j1 has
\* listed what there was, before the first tick of the sensor, and j1 waits for it to
\* end before it starts again.
OneOverlap == /\ Starts(j2) => phase[j1] = "listed" /\ manifest = Nothing /\ faults = 0
              /\ Starts(j1) => phase[j2] = "off"
              /\ phase'[j2] # "off" => partitions' = {}

\* Only bill 2 is ever without a date, and not while jobs overlap; nothing fails once an
\* update was dropped.
Bound == /\ OneOverlap
         /\ date'[1] # Undated
         /\ phase'[j2] # "off" => date'[2] # Undated
         /\ faults' > faults => dropped = {}

BoundedSpec == /\ Init /\ [][Next /\ Bound]_vars
               /\ \A j \in Job : WF_vars((StartJob(j) \/ JobStep(j)) /\ Bound)
               /\ WF_vars((TickBegin \/ SaveCursor \/ Submit) /\ Bound)
               /\ WF_vars(RunTail /\ Bound)
=============================================================================
