----------------------------- MODULE ModelCache -----------------------------
(***************************************************************************)
(* cached_model_path of dagster_io/model_cache.py: step pods on one node   *)
(* share a directory of copies of models that are kept on NFS.  A copy is  *)
(* made file by file, and whoever finds the directory takes it for the     *)
(* whole model.                                                            *)
(***************************************************************************)
EXTENDS Callers

CONSTANT File   \* the files of the model

ASSUME ModelAssumption == None \notin {"local", "nfs"}

VARIABLES
    isDir,      \* the local directory exists
    local,      \* the files in it
    modelAt,    \* where each caller is in cached_model_path, or loading
    toDo,       \* the files it has still to copy, or to remove
    copyFailed, \* a file could not be copied
    path,       \* what cached_model_path has returned
    overlap,    \* history: two callers were in there at once
    cutShort    \* history: a caller was killed in there, or could not clean up

modelVars == <<isDir, local, modelAt, toDo, copyFailed, path, overlap, cutShort>>

ModelInit ==
    /\ isDir = FALSE
    /\ local = {}
    /\ modelAt = [c \in Caller |-> "idle"]
    /\ toDo = [c \in Caller |-> {}]
    /\ copyFailed = [c \in Caller |-> FALSE]
    /\ path = [c \in Caller |-> None]
    /\ overlap = FALSE
    /\ cutShort = FALSE

To(c, at) == modelAt' = [modelAt EXCEPT ![c] = at]

Answer(c, dir) == path' = [path EXCEPT ![c] = dir] /\ To(c, "returned")

\* The callers that work on the directory or are about to read it.
Inside == {c \in Caller : modelAt[c] # "idle"}

\* The first checks: there may be no model on NFS, or no cache mounted; a local
\* directory is a hit; the others start to copy.
ModelCall(c) ==
    /\ modelAt[c] = "idle"
    /\ OneCall
    /\ overlap' = (overlap \/ Inside # {})
    /\ \/ Answer(c, "nfs")
       \/ isDir /\ Answer(c, "local")
       \/ ~isDir /\ To(c, "mkdir") /\ UNCHANGED path
    /\ UNCHANGED <<isDir, local, toDo, copyFailed, cutShort>>

\* Variant: what a failed copy has left stays.
KeepPartial(c) == Answer(c, "nfs")

\* The except branch.
CleanUp(c) == To(c, "except") /\ UNCHANGED path

\* copytree makes the directory, and raises when somebody else has by now.
MakeDir(c) ==
    /\ modelAt[c] = "mkdir"
    /\ \/ /\ ~isDir
          /\ isDir' = TRUE
          /\ To(c, "copy")
          /\ toDo' = [toDo EXCEPT ![c] = File]
          /\ UNCHANGED <<path, counters>>
       \/ isDir /\ CleanUp(c) /\ UNCHANGED <<isDir, toDo, counters>>
       \/ ~isDir /\ Fault /\ Answer(c, "nfs") /\ UNCHANGED <<isDir, toDo>>
    /\ UNCHANGED <<local, copyFailed, overlap, cutShort>>

\* A file is copied, or not: the disk is full, or the directory is gone.
\* copytree goes on with the next one.
CopyFile(c, f) ==
    /\ modelAt[c] = "copy"
    /\ f \in toDo[c]
    /\ toDo' = [toDo EXCEPT ![c] = @ \ {f}]
    /\ \/ isDir /\ local' = local \cup {f} /\ UNCHANGED <<copyFailed, counters>>
       \/ /\ UNCHANGED local
          /\ copyFailed' = [copyFailed EXCEPT ![c] = TRUE]
          /\ IF isDir THEN Fault ELSE UNCHANGED counters
    /\ UNCHANGED <<isDir, modelAt, path, overlap, cutShort>>

\* copytree returns, or raises the errors it has collected.
CopyEnd(c) ==
    /\ modelAt[c] = "copy"
    /\ toDo[c] = {}
    /\ IF copyFailed[c] THEN CleanUp(c) ELSE Answer(c, "local")
    /\ copyFailed' = [copyFailed EXCEPT ![c] = FALSE]
    /\ UNCHANGED <<isDir, local, toDo, overlap, cutShort, counters>>

\* What is in the directory by now, whoever has put it there, is to be removed.
ListDir(c) ==
    /\ modelAt[c] = "except"
    /\ \/ isDir /\ To(c, "remove") /\ toDo' = [toDo EXCEPT ![c] = local] /\ UNCHANGED path
       \/ ~isDir /\ Answer(c, "nfs") /\ UNCHANGED toDo
    /\ UNCHANGED <<isDir, local, copyFailed, overlap, cutShort, counters>>

\* rmtree removes the files it has listed; its errors are ignored.
RemoveFile(c, f) ==
    /\ modelAt[c] = "remove"
    /\ f \in toDo[c]
    /\ toDo' = [toDo EXCEPT ![c] = @ \ {f}]
    /\ \/ local' = local \ {f} /\ UNCHANGED <<cutShort, counters>>
       \/ UNCHANGED local /\ cutShort' = TRUE /\ Fault
    /\ UNCHANGED <<isDir, modelAt, copyFailed, path, overlap>>

\* The directory goes if it is empty, and with it whatever others would still
\* remove from it.
RemoveEnd(c) ==
    /\ modelAt[c] = "remove"
    /\ toDo[c] = {}
    /\ isDir' = (isDir /\ local # {})
    /\ toDo' = [d \in Caller |->
                   IF modelAt[d] = "remove" /\ local = {} THEN {} ELSE toDo[d]]
    /\ Answer(c, "nfs")
    /\ UNCHANGED <<local, copyFailed, overlap, cutShort, counters>>

\* The step has read the model from the path it was given.
ModelLoaded(c) ==
    /\ modelAt[c] = "returned"
    /\ To(c, "idle")
    /\ path' = [path EXCEPT ![c] = None]
    /\ UNCHANGED <<isDir, local, toDo, copyFailed, overlap, cutShort, counters>>

KillModel(c) ==
    /\ modelAt[c] # "idle"
    /\ Fault
    /\ cutShort' = TRUE
    /\ To(c, "idle")
    /\ path' = [path EXCEPT ![c] = None]
    /\ toDo' = [toDo EXCEPT ![c] = {}]
    /\ copyFailed' = [copyFailed EXCEPT ![c] = FALSE]
    /\ UNCHANGED <<isDir, local, overlap>>

ModelNext ==
    \E c \in Caller :
       \/ ModelCall(c) \/ MakeDir(c) \/ CopyEnd(c) \/ ListDir(c) \/ RemoveEnd(c)
       \/ \E f \in File : CopyFile(c, f) \/ RemoveFile(c, f)
       \/ ModelLoaded(c) \/ KillModel(c)

ModelSpec == CallersInit /\ ModelInit
             /\ [][ModelNext]_<<modelVars, counters>>

-----------------------------------------------------------------------------
(* Properties                                                              *)

ModelTypeOK ==
    /\ CountersOK
    /\ isDir \in BOOLEAN /\ local \subseteq File
    /\ modelAt \in [Caller -> {"idle", "mkdir", "copy", "except", "remove", "returned"}]
    /\ toDo \in [Caller -> SUBSET File]
    /\ copyFailed \in [Caller -> BOOLEAN]
    /\ path \in [Caller -> {"local", "nfs", None}]
    /\ overlap \in BOOLEAN /\ cutShort \in BOOLEAN

\* A step that is sent to the local directory finds the whole model there.
LocalIsWhole == \A c \in Caller : path[c] = "local" => local = File

\* It does, whatever copies have failed before, as long as no two steps of the
\* node were at the directory at once and none was killed there or could not
\* clean up.
AloneIsWhole == ~overlap /\ ~cutShort => LocalIsWhole
=============================================================================
