---------------------------- MODULE LeakDownloads ----------------------------
(***************************************************************************)
(* How open-leaks gets its sources (assets/extraction.py): two bulk files, *)
(* streamed to a cache directory with retries, resumed where they broke off,*)
(* and parsed.                                                             *)
(*                                                                         *)
(* A file is a sequence of blocks: of the archive of offshore entities a   *)
(* row each, of the cables a line each.  Two assets use the archive, and   *)
(* two runs of the code location share the cache directory.  A process may *)
(* be killed while it streams; the next one finds what it left.            *)
(***************************************************************************)
EXTENDS Naturals, Sequences, SequencesExt, FiniteSets

CONSTANTS
    Job,            \* the extractions: "cables" and those of the archive
    Contents,       \* path -> the contents of the file, by version
    MAX_RETRIES,    \* _MAX_RETRIES
    MaxRecords,     \* config.max_cables and its like; 0 is no limit
    MaxInterruptions,      \* bound on failures
    Hole            \* what was never written

\* The lines of a file that begin a cable.
Firsts(lines) == {k \in DOMAIN lines : lines[k].first}

\* There are these two files, no block of them is a hole, and a file of cables has each
\* cable once.
ASSUME LeakDownloadsAssumption ==
    /\ MAX_RETRIES \in Nat \ {0}
    /\ MaxRecords \in Nat /\ MaxInterruptions \in Nat
    /\ "cables" \in Job /\ DOMAIN Contents = {"cables.csv", "icij-offshoreleaks.zip"}
    /\ \A p \in DOMAIN Contents :
          /\ Contents[p] \in Seq(Seq(UNION {ToSet(file) : file \in ToSet(Contents[p])}))
          /\ Contents[p] # <<>>
          /\ \A file \in ToSet(Contents[p]) : Hole \notin ToSet(file)
    /\ \A lines \in ToSet(Contents["cables.csv"]) :
          /\ \A k \in DOMAIN lines : lines[k].first \in BOOLEAN
          /\ \A k, m \in Firsts(lines) : lines[k].id = lines[m].id => k = m

VARIABLES
    version,    \* what the server has for each path
    disk,       \* the cached files
    job,        \* the extractions: [pc, attempt, mode, of, next]
    extracted,     \* what they have returned: the file as it was parsed
    harmed,     \* history: paths changed on the server, used after a HEAD that
                \* failed, or written by two at once
    interruptions

leakVars == <<version, disk, job, extracted, harmed, interruptions>>

Path(j) == IF j = "cables" THEN "cables.csv" ELSE "icij-offshoreleaks.zip"
Server(j) == Contents[Path(j)][version[Path(j)]]

NoJob == [pc |-> "idle", attempt |-> 1, mode |-> "wb", of |-> 1, next |-> 1]

LeakInit ==
    /\ version = [p \in DOMAIN Contents |-> 1]
    /\ disk = [p \in DOMAIN Contents |-> <<>>]
    /\ job = [j \in Job |-> NoJob]
    /\ extracted = [j \in Job |-> <<>>]
    /\ harmed = {}
    /\ interruptions = 0

Interrupted == interruptions < MaxInterruptions /\ interruptions' = interruptions + 1

Moves(j, pc) == job' = [job EXCEPT ![j].pc = pc]

-----------------------------------------------------------------------------
(* _download_file                                                          *)

\* Variant: any file that is there will do.
AnySize(actual, expected) == TRUE

Enough(actual, expected) == actual >= expected

BeginDownload(j) ==
    /\ job[j].pc = "idle"
    /\ Moves(j, IF disk[Path(j)] # <<>> THEN "head" ELSE "get")
    /\ UNCHANGED <<version, disk, extracted, harmed, interruptions>>

AskSize(j) ==
    /\ job[j].pc = "head"
    /\ Moves(j, IF Enough(Len(disk[Path(j)]), Len(Server(j))) THEN "parse" ELSE "get")
    /\ UNCHANGED <<version, disk, extracted, harmed, interruptions>>

\* The HEAD fails and the file is used as it is.
HeadFails(j) ==
    /\ job[j].pc = "head"
    /\ Interrupted
    /\ Moves(j, "parse")
    /\ harmed' = harmed \cup {Path(j)}
    /\ UNCHANGED <<version, disk, extracted>>

\* Variant: the file is always appended to.
AlwaysAppend(partial) == "ab"

Mode(partial) == IF partial THEN "ab" ELSE "wb"

\* Others that have the file open.
Sharing(j) == {i \in Job \ {j} : Path(i) = Path(j) /\ job[i].pc = "stream"}

\* _do_download asks for what is behind the end of the file.  The server sends that
\* (206), everything (200), or refuses when there is nothing behind it (416).
OpenStream(j) ==
    /\ job[j].pc = "get"
    /\ LET offset == Len(disk[Path(j)]) IN
       \E partial \in IF offset = 0 THEN {FALSE} ELSE {TRUE, FALSE} :
          IF partial /\ offset >= Len(Server(j))
          THEN Moves(j, "failed") /\ UNCHANGED <<disk, harmed>>
          ELSE /\ job' = [job EXCEPT ![j] =
                    [pc |-> "stream", attempt |-> job[j].attempt, mode |-> Mode(partial),
                     of |-> version[Path(j)],
                     next |-> IF partial THEN offset + 1 ELSE 1]]
               /\ disk' = IF Mode(partial) = "wb" THEN [disk EXCEPT ![Path(j)] = <<>>]
                          ELSE disk
               /\ harmed' = IF Sharing(j) # {} THEN harmed \cup {Path(j)} ELSE harmed
    /\ UNCHANGED <<version, extracted, interruptions>>

\* A block goes to the end of a file opened with "ab", else to the place of the handle.
Put(file, place, block) ==
    [k \in 1 .. (IF place > Len(file) THEN place ELSE Len(file)) |->
        CASE k = place -> block
          [] k # place /\ k <= Len(file) -> file[k]
          [] OTHER -> Hole]

WriteBlock(j) ==
    LET s == job[j]
        content == Contents[Path(j)][s.of]
        file == disk[Path(j)]
    IN  /\ s.pc = "stream" /\ s.next <= Len(content)
        /\ disk' = [disk EXCEPT ![Path(j)] =
              Put(file, IF s.mode = "ab" THEN Len(file) + 1 ELSE s.next, content[s.next])]
        /\ job' = [job EXCEPT ![j].next = @ + 1]
        /\ UNCHANGED <<version, extracted, harmed, interruptions>>

StreamEnds(j) ==
    /\ job[j].pc = "stream" /\ job[j].next > Len(Contents[Path(j)][job[j].of])
    /\ Moves(j, IF disk[Path(j)] = <<>> THEN "failed" ELSE "parse")
    /\ UNCHANGED <<version, disk, extracted, harmed, interruptions>>

\* _retry_on_network_error: the next attempt resumes, the last one raises.
StreamBreaks(j) ==
    /\ job[j].pc = "stream"
    /\ Interrupted
    /\ LET s == job[j] IN
       job' = [job EXCEPT ![j] =
                    [s EXCEPT !.pc = IF s.attempt = MAX_RETRIES THEN "failed" ELSE "get",
                              !.attempt = s.attempt + 1]]
    /\ UNCHANGED <<version, disk, extracted, harmed>>

\* The process dies, or the asset is materialized again.
Killed(j) ==
    /\ job[j].pc \notin {"idle", "done", "failed"}
    /\ Interrupted
    /\ job' = [job EXCEPT ![j] = NoJob]
    /\ UNCHANGED <<version, disk, extracted, harmed>>

Rematerialize(j) ==
    /\ job[j].pc = "failed"
    /\ job' = [job EXCEPT ![j] = NoJob]
    /\ UNCHANGED <<version, disk, extracted, harmed, interruptions>>

\* The server has the next version of a file.
NewVersion(p) ==
    /\ version[p] < Len(Contents[p])
    /\ version' = [version EXCEPT ![p] = @ + 1]
    /\ harmed' = IF disk[p] = <<>> /\ \A j \in Job : Path(j) = p => job[j].pc # "stream"
                  THEN harmed ELSE harmed \cup {p}
    /\ UNCHANGED <<disk, job, extracted, interruptions>>

-----------------------------------------------------------------------------
(* The parsers                                                             *)

\* The test of max_count.
Limited(n) == MaxRecords > 0 /\ n >= MaxRecords

\* _parse_icij_..._from_zip: an archive that is not whole raises.  Its rows are records
\* [kind, id], those of the other kind are in other files of it.
ParseArchive(j, rows) ==
    LET mine == SelectSeq(rows, LAMBDA r : r.kind = j)
    IN  IF Limited(Len(mine)) THEN SubSeq(mine, 1, MaxRecords) ELSE mine

\* Variant: what is left at the end is not flushed.
LeftOut(acc) == acc.cables

\* _flush: the lines of a cable are one cable if the first one begins it.
Flush(acc) ==
    IF acc.current = <<>> THEN acc.cables
    ELSE IF Head(acc.current).first
         THEN Append(acc.cables, [id |-> Head(acc.current).id, lines |-> Len(acc.current)])
         ELSE acc.cables

AtEnd(acc) == Flush(acc)

\* _parse_cables_csv: lines [id, first]; a cable lasts until the first line of the next.
\* What was never written is no line.
TakeLine(acc, line) ==
    IF acc.stop \/ line = Hole THEN acc
    ELSE IF line.first /\ acc.current # <<>>
         THEN [cables |-> Flush(acc), current |-> <<line>>, stop |-> Limited(Len(Flush(acc)))]
         ELSE [cables |-> acc.cables, current |-> Append(acc.current, line), stop |-> FALSE]

ParseCables(lines) ==
    LET all == FoldLeft(TakeLine, [cables |-> <<>>, current |-> <<>>, stop |-> FALSE], lines)
    IN  IF Limited(Len(all.cables)) THEN all.cables ELSE AtEnd(all)

AVersion(p, file) == \E v \in DOMAIN Contents[p] : file = Contents[p][v]

Parse(j) ==
    /\ job[j].pc = "parse"
    /\ LET file == disk[Path(j)] IN
           IF j # "cables" /\ ~AVersion(Path(j), file)
           THEN Moves(j, "failed") /\ UNCHANGED extracted
           ELSE /\ Moves(j, "done")
                /\ extracted' = [extracted EXCEPT ![j] = IF j = "cables" THEN ParseCables(file)
                                                   ELSE ParseArchive(j, file)]
    /\ UNCHANGED <<version, disk, harmed, interruptions>>

-----------------------------------------------------------------------------
JobStep(j) ==
    \/ BeginDownload(j) \/ AskSize(j) \/ HeadFails(j) \/ OpenStream(j) \/ WriteBlock(j)
    \/ StreamEnds(j) \/ StreamBreaks(j) \/ Killed(j) \/ Rematerialize(j) \/ Parse(j)

LeakNext ==
    \/ \E j \in Job : JobStep(j)
    \/ \E p \in DOMAIN Contents : NewVersion(p)

LeakSpec == LeakInit /\ [][LeakNext]_leakVars

-----------------------------------------------------------------------------
(* Properties                                                              *)

LeakTypeOK ==
    /\ \A p \in DOMAIN Contents : version[p] \in DOMAIN Contents[p]
    /\ \A j \in Job : /\ job[j].pc \in {"idle", "head", "get", "stream", "parse",
                                        "done", "failed"}
                      /\ job[j].attempt \in 1 .. MAX_RETRIES + 1
                      /\ job[j].of \in DOMAIN Contents[Path(j)]
                      /\ job[j].next \in 1 .. Len(Contents[Path(j)][job[j].of]) + 1
    /\ interruptions \in 0 .. MaxInterruptions

\* The cables of a file, as one would find them by their first lines.
CablesOf(lines) ==
    LET last(k) == LET later == {m \in Firsts(lines) : m > k}
                   IN  IF later = {} THEN Len(lines)
                       ELSE (CHOOSE m \in later : \A n \in later : m <= n) - 1
    IN  {[id |-> lines[k].id, lines |-> last(k) - k + 1] : k \in Firsts(lines)}

\* However often a download breaks off, is killed and resumed, an extraction returns
\* what a whole file of the server has, every cable once and with all of its lines, up to
\* the limit.  This holds of files that did not change on the server meanwhile, were not
\* streamed by two at once, and were not used after a HEAD that failed (extraction.py).
SourcesWhole ==
    \A j \in Job :
          job[j].pc = "done" /\ Path(j) \notin harmed =>
             \E file \in ToSet(Contents[Path(j)]) :
                 IF j = "cables"
                 THEN /\ ToSet(extracted[j]) \subseteq CablesOf(file)
                      /\ Cardinality(ToSet(extracted[j])) = Len(extracted[j])
                      /\ Limited(Len(extracted[j])) \/ ToSet(extracted[j]) = CablesOf(file)
                 ELSE extracted[j] = ParseArchive(j, file)
=============================================================================
