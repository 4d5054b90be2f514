----------------------------- MODULE AppendStore -----------------------------
(***************************************************************************)
(* AppendIOManager (dagster_io/append_io_manager.py) and its twin on the   *)
(* file system, LocalAppendIOManager (local_io_manager.py): the events of  *)
(* one asset partition, one file per Dagster run.  A load reads all files  *)
(* one by one; the S3 manager keeps the first event of each id.            *)
(***************************************************************************)
EXTENDS Callers, Sequences, SequencesExt, FiniteSetsExt

CONSTANTS
    RunId,      \* ids of Dagster runs, ordered as their names sort
    Event,      \* events; each has an id of its own content
    Manager     \* the managers the code location may be configured with

ASSUME RunIdAssumption == /\ RunId \subseteq Nat /\ IsFiniteSet(RunId)
                          /\ \A R \in SUBSET RunId : R # None

VARIABLES
    manager,    \* "s3", "local"
    files,      \* what is in the file of each run: the events, none, or torn
    writing,    \* runs whose file is being written, with the events
    appended,   \* history: the events of the outputs that succeeded
    again,      \* history: runs that have written their file more than once
    reading,    \* the files a load has still to read, or None
    readAll,    \* the events it has so far
    expected,   \* history: events it must find
    passedOver  \* history: it has left a file out

appendVars == <<manager, files, writing, appended, again, reading, readAll,
                expected, passedOver>>

NoFile == [state |-> "absent", events |-> <<>>]

AppendInit ==
    /\ manager \in Manager
    /\ files = [r \in RunId |-> NoFile]
    /\ writing = [r \in RunId |-> None]
    /\ appended = {}
    /\ again = {}
    /\ reading = None
    /\ readAll = <<>>
    /\ expected = {}
    /\ passedOver = FALSE

\* handle_output begins.  A step that is retried has the run id it had before.
AppendBegin(r, events) ==
    /\ writing[r] = None
    /\ OneCall
    /\ writing' = [writing EXCEPT ![r] = events]
    /\ again' = IF files[r] = NoFile THEN again ELSE again \cup {r}
    /\ UNCHANGED <<manager, files, appended, reading, readAll, expected, passedOver>>

\* On the file system the file is truncated and then written.
Truncate(r) ==
    /\ manager = "local"
    /\ writing[r] # None
    /\ files[r].state # "torn"
    /\ files' = [files EXCEPT ![r] = [state |-> "torn", events |-> <<>>]]
    /\ UNCHANGED <<manager, writing, appended, again, reading, readAll, expected,
                   passedOver, counters>>

\* Variant: one file for all runs.
OneFile(r) == Min(RunId)

FileOf(r) == r

\* The file is whole: a put, or the end of the writes.
WriteEvents(r) ==
    /\ writing[r] # None
    /\ manager = "local" => files[FileOf(r)].state = "torn"
    /\ files' = [files EXCEPT ![FileOf(r)] = [state |-> "whole", events |-> writing[r]]]
    /\ appended' = appended \cup ToSet(writing[r])
    /\ writing' = [writing EXCEPT ![r] = None]
    /\ UNCHANGED <<manager, again, reading, readAll, expected, passedOver, counters>>

\* The step fails before that.
AppendFails(r) ==
    /\ writing[r] # None
    /\ Fault
    /\ writing' = [writing EXCEPT ![r] = None]
    /\ UNCHANGED <<manager, files, appended, again, reading, readAll, expected,
                   passedOver>>

\* load_input lists the files there are.
ListFiles ==
    /\ reading = None
    /\ reading' = {r \in RunId : files[r].state # "absent"}
    /\ expected' = appended
    /\ passedOver' = FALSE
    /\ UNCHANGED <<manager, files, writing, appended, again, readAll, counters>>

\* The first event of each id stays.
FirstOfEach(events, more) ==
    FoldLeft(LAMBDA have, e : IF e \in ToSet(have) THEN have ELSE Append(have, e),
             events, more)

Combined(events, more) ==
    IF manager = "s3" THEN FirstOfEach(events, more) ELSE events \o more

\* The files are read in the order of their names.  A file that cannot be read
\* is left out by the S3 manager; a torn local file ends early without an error.
ReadFile(r) ==
    /\ reading # None
    /\ r \in reading /\ \A q \in reading : r <= q
    /\ reading' = reading \ {r}
    /\ \/ /\ readAll' = Combined(readAll, files[r].events)
          /\ passedOver' = (passedOver \/ files[r].state = "torn")
          /\ UNCHANGED counters
       \/ manager = "s3" /\ passedOver' = TRUE /\ Fault /\ UNCHANGED readAll
    /\ UNCHANGED <<manager, files, writing, appended, again, expected>>

LoadDone ==
    /\ reading = {}
    /\ reading' = None
    /\ readAll' = <<>>
    /\ expected' = {}
    /\ UNCHANGED <<manager, files, writing, appended, again, passedOver, counters>>

AppendNext ==
    \/ \E r \in RunId :
          \/ \E e, f \in Event : AppendBegin(r, <<e, f>>)
          \/ Truncate(r) \/ WriteEvents(r) \/ AppendFails(r) \/ ReadFile(r)
    \/ ListFiles \/ LoadDone

AppendSpec == CallersInit /\ AppendInit /\ [][AppendNext]_<<appendVars, counters>>

-----------------------------------------------------------------------------
(* Properties                                                              *)

AppendTypeOK ==
    /\ CountersOK
    /\ manager \in Manager
    /\ \A r \in RunId : /\ files[r].state \in {"absent", "torn", "whole"}
                        /\ writing[r] # None => ToSet(writing[r]) \subseteq Event
    /\ appended \subseteq Event /\ again \subseteq RunId
    /\ reading # None => reading \subseteq RunId
    /\ ToSet(readAll) \subseteq Event /\ passedOver \in BOOLEAN

\* A load has every event an output has stored before it began, whatever other
\* runs write meanwhile, unless a step was retried or a file could not be read;
\* and the S3 manager has no event twice.
EventsLoaded ==
    /\ reading = {} /\ ~passedOver /\ again = {} => expected \subseteq ToSet(readAll)
    /\ manager = "s3" => \A i, j \in DOMAIN readAll : readAll[i] = readAll[j] => i = j
=============================================================================
