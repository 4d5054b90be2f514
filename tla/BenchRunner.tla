---------------------------- MODULE BenchRunner ----------------------------
(***************************************************************************)
(* The benchmark runner of the viewer (services/bench_runner.py and its    *)
(* routes): saved configurations, one JSON file each, and runs of the      *)
(* harness as child processes of which the viewer keeps handles in memory. *)
(* FastAPI runs these routes in a thread pool, so requests interleave; a   *)
(* viewer that restarts forgets its handles, and the harness goes on.      *)
(***************************************************************************)
EXTENDS Naturals, FiniteSets

CONSTANTS
    Request,    \* the threads that serve requests
    Run,        \* run ids, each used once
    Config,     \* ids of saved configurations
    MaxActive,  \* _MAX_CONCURRENT
    Nil,        \* no run, no configuration
    MaxServed,  \* bound on the requests served
    MaxBroken   \* bound on failed spawns and restarts of the viewer

ASSUME NilAssumption == Nil \notin Run \cup Config
ASSUME RunnerBoundAssumption == /\ MaxActive \in Nat \ {0}
                                /\ MaxServed \in Nat /\ MaxBroken \in Nat

VARIABLES
    proc,       \* the harness of each run, as the operating system knows it
    signalled,  \* the runs whose process group was sent SIGTERM
    runs,       \* _runs: the status of each handle
    at,         \* what each request is in the middle of
    subject,    \* the run or configuration it is about
    text,       \* the text it is to write to that configuration
    file,       \* the file of each configuration
    served,     \* requests so far
    broken,     \* failures so far
    together,   \* history: two starts have been under way at once
    restarted,  \* history: the viewer was restarted
    doubled     \* history: configurations two requests have written at once

processVars == <<proc, signalled>>
requestVars == <<at, subject, text>>
history     == <<together, restarted, doubled>>

runnerVars == <<processVars, runs, requestVars, file, served, broken, history>>

\* Texts of two lengths: what a shorter one is written over sticks out behind it.
Text == {"short", "long"}

RunnerInit ==
    /\ proc = [r \in Run |-> "none"]
    /\ signalled = {}
    /\ runs = [r \in Run |-> "none"]
    /\ at = [q \in Request |-> "idle"]
    /\ subject = [q \in Request |-> Nil]
    /\ text = [q \in Request |-> "none"]
    /\ file = [i \in Config |-> "absent"]
    /\ served = 0 /\ broken = 0
    /\ together = FALSE /\ restarted = FALSE /\ doubled = {}

Arrives(q) == at[q] = "idle" /\ served < MaxServed /\ served' = served + 1

Breaks == broken < MaxBroken /\ broken' = broken + 1

Goes(q, to, x) == /\ at' = [at EXCEPT ![q] = to]
                  /\ subject' = [subject EXCEPT ![q] = x]

Replies(q) == Goes(q, "idle", Nil) /\ text' = [text EXCEPT ![q] = "none"]

Alive(r) == proc[r] = "running"

-----------------------------------------------------------------------------
(* Runs                                                                    *)

\* Variant: the comparison lets one more pass.
RoomForOneMore == Cardinality({r \in Run : runs[r] # "none" /\ Alive(r)}) <= MaxActive

\* The handles whose process poll() finds alive are counted.
Room == Cardinality({r \in Run : runs[r] # "none" /\ Alive(r)}) < MaxActive

Starting == {q \in Request : at[q] \in {"start", "spawned"}}

\* start_run, under the lock: with no room the request is refused (409).
StartRun(q) ==
    /\ Arrives(q)
    /\ \/ Room /\ Goes(q, "start", Nil) /\ together' = (together \/ Starting # {})
       \/ ~Room /\ UNCHANGED <<at, subject, together>>
    /\ UNCHANGED <<processVars, runs, text, file, broken, restarted, doubled>>

\* Without the lock: the harness is spawned in a process group of its own.
Spawn(q, r) ==
    /\ at[q] = "start"
    /\ proc[r] = "none"
    /\ \/ /\ proc' = [proc EXCEPT ![r] = "running"]
          /\ Goes(q, "spawned", r)
          /\ UNCHANGED <<text, broken>>
       \/ Breaks /\ Replies(q) /\ UNCHANGED proc
    /\ UNCHANGED <<signalled, runs, file, served, history>>

\* Under the lock again: the handle becomes known.
Register(q) ==
    /\ at[q] = "spawned"
    /\ runs' = [runs EXCEPT ![subject[q]] = "running"]
    /\ Replies(q)
    /\ UNCHANGED <<processVars, file, served, broken, history>>

\* The harness ends by itself or by the signal.
HarnessEnds(r) ==
    /\ Alive(r)
    /\ \E code \in {"ok", "error"} :
          /\ r \in signalled => code = "error"
          /\ proc' = [proc EXCEPT ![r] = code]
    /\ UNCHANGED <<signalled, runs, requestVars, file, served, broken, history>>

\* Variant: a process that is over has gone well.
EndedIsOk(r) == IF runs[r] = "running" /\ ~Alive(r) THEN "ok" ELSE runs[r]

\* What a poll makes of a handle.
Polled(r) == IF runs[r] = "running" /\ ~Alive(r) THEN proc[r] ELSE runs[r]

\* list_runs polls every handle, get_run one of them.
ListRuns(q, R) ==
    /\ Arrives(q)
    /\ R = Run \/ Cardinality(R) = 1
    /\ runs' = [r \in Run |-> IF r \in R THEN Polled(r) ELSE runs[r]]
    /\ UNCHANGED <<processVars, requestVars, file, broken, history>>

\* stop_run looks the handle up under the lock; an unknown run is refused.
StopRun(q, r) ==
    /\ Arrives(q)
    /\ IF runs[r] = "none" THEN UNCHANGED <<at, subject>> ELSE Goes(q, "stop", r)
    /\ UNCHANGED <<processVars, runs, text, file, broken, history>>

\* The process group is signalled if the process is still there.
ToSignal(r) == IF Alive(r) THEN {r} ELSE {}

Signal(q) ==
    /\ at[q] = "stop"
    /\ signalled' = signalled \cup ToSignal(subject[q])
    /\ Replies(q)
    /\ UNCHANGED <<proc, runs, file, served, broken, history>>

-----------------------------------------------------------------------------
(* Configurations                                                          *)

Readable(i) == file[i] \in Text

Writers(i) == {q \in Request : at[q] \in {"save", "write"} /\ subject[q] = i}

\* save_config of an id that exists reads the file first, and raises when it
\* cannot be parsed; of a new id it reads nothing.
SaveConfig(q, i, t) ==
    /\ Arrives(q)
    /\ file[i] = "absent" \/ Readable(i)
    /\ Goes(q, "save", i)
    /\ text' = [text EXCEPT ![q] = t]
    /\ doubled' = IF Writers(i) = {} THEN doubled ELSE doubled \cup {i}
    /\ UNCHANGED <<processVars, runs, file, broken, together, restarted>>

\* Variant: the file is opened without being emptied.
KeepOld(i) == IF file[i] = "absent" THEN "empty" ELSE file[i]

Opened(i) == "empty"

\* write_text opens the file, which empties it,
OpenFile(q) ==
    /\ at[q] = "save"
    /\ file' = [file EXCEPT ![subject[q]] = Opened(subject[q])]
    /\ Goes(q, "write", subject[q])
    /\ UNCHANGED <<processVars, runs, text, served, broken, history>>

\* What writing a text from the start of a file leaves in it.
Over(old, t) == IF t = "long" \/ old \in {"empty", "short"} THEN t ELSE "mixed"

\* and then writes; the file may have been written or deleted in between.
WriteFile(q) ==
    /\ at[q] = "write"
    /\ file' = [file EXCEPT ![subject[q]] =
                   IF @ = "absent" THEN "absent" ELSE Over(@, text[q])]
    /\ Replies(q)
    /\ UNCHANGED <<processVars, runs, served, broken, history>>

DeleteConfig(q, i) ==
    /\ Arrives(q)
    /\ file' = [file EXCEPT ![i] = "absent"]
    /\ UNCHANGED <<processVars, runs, requestVars, broken, history>>

-----------------------------------------------------------------------------
\* The viewer restarts: its threads and handles are gone, the harness stays.
RestartViewer ==
    /\ Breaks
    /\ runs' = [r \in Run |-> "none"]
    /\ at' = [q \in Request |-> "idle"]
    /\ subject' = [q \in Request |-> Nil]
    /\ text' = [q \in Request |-> "none"]
    /\ restarted' = TRUE
    /\ UNCHANGED <<processVars, file, served, together, doubled>>

Handler(q) ==
    \/ \E r \in Run : Spawn(q, r)
    \/ Register(q) \/ Signal(q) \/ OpenFile(q) \/ WriteFile(q)

RunnerNext ==
    \/ \E q \in Request :
          \/ StartRun(q)
          \/ \E r \in Run : StopRun(q, r)
          \/ \E R \in SUBSET Run : ListRuns(q, R)
          \/ \E i \in Config : DeleteConfig(q, i) \/ \E t \in Text : SaveConfig(q, i, t)
          \/ Handler(q)
    \/ \E r \in Run : HarnessEnds(r)
    \/ RestartViewer

RunnerSpec == RunnerInit /\ [][RunnerNext]_runnerVars

-----------------------------------------------------------------------------
(* Properties                                                              *)

RunnerTypeOK ==
    /\ proc \in [Run -> {"none", "running", "ok", "error"}]
    /\ signalled \subseteq Run
    /\ runs \in [Run -> {"none", "running", "ok", "error"}]
    /\ \A r \in Run : runs[r] # "none" =>
          proc[r] # "none" /\ runs[r] \in {"running", proc[r]}
    /\ at \in [Request -> {"idle", "start", "spawned", "stop", "save", "write"}]
    /\ subject \in [Request -> Run \cup Config \cup {Nil}]
    /\ \A q \in Request :
          /\ at[q] \in {"spawned", "stop"} => subject[q] \in Run
          /\ at[q] \in {"save", "write"} => subject[q] \in Config /\ text[q] \in Text
    /\ text \in [Request -> Text \cup {"none"}]
    /\ file \in [Config -> Text \cup {"absent", "empty", "mixed"}]
    /\ served \in 0..MaxServed /\ broken \in 0..MaxBroken
    /\ together \in BOOLEAN /\ restarted \in BOOLEAN /\ doubled \subseteq Config

AliveRuns == {r \in Run : Alive(r)}

\* What the module says of itself: "We cap concurrent runs at 1".
AtMostOne == Cardinality(AliveRuns) <= MaxActive

\* The cap holds as long as no start has come between the check and the
\* registration of another and the viewer was not restarted.
CapKept == ~together /\ ~restarted => AtMostOne

\* A saved configuration can be read whenever nobody is writing it, unless two
\* requests have written it at once or the viewer was restarted in the middle.
ConfigReadable ==
    \A i \in Config \ doubled :
        Writers(i) = {} /\ ~restarted => file[i] = "absent" \/ Readable(i)
=============================================================================
