---------------------------- MODULE MediaServing ----------------------------
(***************************************************************************)
(* The media files that the viewer serves (viewer/routes/media.py):        *)
(* stream_media measures a file, answers with the range of it that was     *)
(* asked for, and reads the file only when the response is sent;           *)
(* get_thumbnail makes a picture of a video once and keeps it in the       *)
(* object store, under a name made of the path alone.                      *)
(*                                                                         *)
(* Files are replaced meanwhile (the transcoder does) or removed.  A file  *)
(* that is open stays what it was.  ffmpeg and the disk are external.      *)
(***************************************************************************)
EXTENDS Integers, Python

CONSTANTS Source,         \* _MEDIA_ROOTS
          Clip,           \* the paths under a root
          Viewer,         \* the requests under way at a time
          RangeAsked,          \* the ranges asked for: None, or a start and an end, or one of them
          MaxSize, MaxReplaced, MaxAsks   \* bounds

ASSUME ServingAssumption ==
    /\ MaxSize \in Nat /\ MaxReplaced \in Nat /\ MaxAsks \in Nat
    /\ \A r \in RangeAsked : r # None => {r.start, r.end} \subseteq Nat \union {None}

VARIABLES onDisk,   \* each file of each source: its version and size, or None
          view,     \* each request: where it is, what it measured and what it has sent
          thumbs,   \* the thumbnail of each path: the file and version it is of, or None
          replaced, \* versions so far
          asks      \* requests so far

servingVars == <<onDisk, view, thumbs, replaced, asks>>

Smallest(a, b) == IF a < b THEN a ELSE b

NoView == [at |-> "idle"]

ServingInit ==
    /\ onDisk = [f \in Source \X Clip |-> None]
    /\ view = [v \in Viewer |-> NoView]
    /\ thumbs = [c \in Clip |-> None] /\ replaced = 0 /\ asks = 0

Replace(f) ==
    /\ replaced < MaxReplaced /\ replaced' = replaced + 1
    /\ \/ \E n \in 0..MaxSize : onDisk' = [onDisk EXCEPT ![f] = [version |-> replaced', size |-> n]]
       \/ onDisk[f] # None /\ onDisk' = [onDisk EXCEPT ![f] = None]
    /\ UNCHANGED <<view, thumbs, asks>>

-----------------------------------------------------------------------------
(* stream_media                                                            *)

Turns(v, to) == view' = [view EXCEPT ![v] = to]

\* A start that is left out is 0, also where an end alone asks for the last bytes.
From(r)     == IF r = None \/ r.start = None THEN 0 ELSE r.start
To(r, size) == IF r = None \/ r.end = None THEN size - 1 ELSE Smallest(r.end, size - 1)

\* Unknown files are refused, and ranges that the file does not have; the measure taken
\* here is what the headers promise.  An empty file is served whole, without a range.
Measure(v, f, r) ==
    /\ view[v].at = "idle" /\ asks < MaxAsks /\ asks' = asks + 1
    /\ LET n == onDisk[f].size IN
       Turns(v, IF onDisk[f] = None THEN NoView
               ELSE IF r # None /\ (From(r) > To(r, n) \/ From(r) >= n) THEN NoView
               ELSE [at |-> "answered", file |-> f, version |-> onDisk[f].version,
                     start |-> From(r), length |-> To(r, n) - From(r) + 1])
    /\ UNCHANGED <<onDisk, thumbs, replaced>>

\* _range_stream opens the file again; one that is gone breaks the response off.
OpenClip(v) ==
    /\ view[v].at = "answered"
    /\ LET now == onDisk[view[v].file] IN
       Turns(v, IF now = None THEN NoView
               ELSE [at |-> "sending", version |-> view[v].version, start |-> view[v].start,
                     length |-> view[v].length, opened |-> now, sent |-> 0])
    /\ UNCHANGED <<onDisk, thumbs, replaced, asks>>

\* One read after the other, until what was promised is sent or the file ends.
Send(v) ==
    /\ view[v].at = "sending"
    /\ LET w == view[v] IN
       Turns(v, IF w.sent < w.length /\ w.start + w.sent < w.opened.size
               THEN [w EXCEPT !.sent = @ + 1] ELSE [w EXCEPT !.at = "sent"])
    /\ UNCHANGED <<onDisk, thumbs, replaced, asks>>

Close(v) ==
    /\ view[v].at = "sent"
    /\ Turns(v, NoView)
    /\ UNCHANGED <<onDisk, thumbs, replaced, asks>>

-----------------------------------------------------------------------------
(* get_thumbnail                                                           *)

\* The thumbnail there is, or one of the file as it is when it is made.
Thumbnail(v, f) ==
    /\ view[v].at = "idle" /\ asks < MaxAsks /\ asks' = asks + 1
    /\ onDisk[f] # None
    /\ Turns(v, IF thumbs[f[2]] = None
               THEN [at |-> "making", path |-> f[2], of |-> <<f[1], onDisk[f].version>>]
               ELSE NoView)
    /\ UNCHANGED <<onDisk, thumbs, replaced>>

\* ffmpeg may fail, and then nothing is stored.
StoreThumbnail(v) ==
    /\ view[v].at = "making"
    /\ \/ thumbs' = [thumbs EXCEPT ![view[v].path] = view[v].of]
       \/ UNCHANGED thumbs
    /\ Turns(v, NoView)
    /\ UNCHANGED <<onDisk, replaced, asks>>

ServingNext ==
    \/ \E f \in Source \X Clip :
          \/ Replace(f)
          \/ \E v \in Viewer : Thumbnail(v, f) \/ \E r \in RangeAsked : Measure(v, f, r)
    \/ \E v \in Viewer : OpenClip(v) \/ Send(v) \/ Close(v) \/ StoreThumbnail(v)

-----------------------------------------------------------------------------
ServingTypeOK ==
    /\ \A f \in Source \X Clip :
          onDisk[f] # None => onDisk[f].version \in 1..MaxReplaced /\ onDisk[f].size \in 0..MaxSize
    /\ \A v \in Viewer : view[v].at \in {"idle", "answered", "sending", "sent", "making"}
    /\ \A c \in Clip : thumbs[c] # None => thumbs[c] \in Source \X (1..MaxReplaced)
    /\ replaced \in 0..MaxReplaced /\ asks \in 0..MaxAsks

\* No response has more than it promised, and one that has ended has all of it unless the
\* file was replaced by a shorter one after it was measured.
SendsWhatItPromised ==
    \A v \in Viewer : view[v].at \in {"sending", "sent"} =>
        /\ view[v].sent <= view[v].length
        /\ view[v].at = "sent" /\ view[v].sent < view[v].length =>
              /\ view[v].opened.version # view[v].version
              /\ view[v].opened.size < view[v].start + view[v].length
=============================================================================
