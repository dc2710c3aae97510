------------------------------- MODULE Windows -------------------------------
(***************************************************************************)
(* What a client sees of a process that asks for one time window after the *)
(* other, each from the end of the one before: the events and the usage    *)
(* records (api/events.go, api/stats.go) and the logs (api/logs.go).  A    *)
(* row carries the time at which its transaction began, and the client's   *)
(* query sees it once that has committed.                                  *)
(***************************************************************************)
EXTENDS Integers, Sequences, FiniteSets

CONSTANTS
  MaxClk,        \* bound: the time that passes
  MaxEntries,    \* bound: events and records
  MaxLogs,       \* bound: logs
  MaxLogLines,   \* bound: lines in a log
  MaxPolls,      \* bound: windows that are asked for
  MaxFrame,      \* MaxProcessStatsTimeFrame
  Limits         \* the limits that requests for events may carry

ASSUME WindowsAssumption == {MaxClk, MaxEntries, MaxLogs, MaxLogLines, MaxPolls, MaxFrame}
                              \cup Limits \subseteq Nat /\ 0 \notin Limits

VARIABLES
  clk,           \* the time
  entries,       \* the rows: when made, and when committed or -1
  logFiles,      \* logs: when begun, committed and ended (-1: not yet), lines, closed?
  edges,         \* the ends of the windows of entries that were asked for, in order
  returned,      \* the entries that each of them returned
  logEdges,      \* the ends of the windows of logs
  fetched        \* how many lines of each log the client got last

entryVars == <<entries, edges, returned>>
fileVars == <<logFiles, logEdges, fetched>>
windowVars == <<clk, entryVars, fileVars>>

Never == -1
From(ends) == IF ends = <<>> THEN 0 ELSE ends[Len(ends)]

WindowsInit == /\ clk = 0 /\ entries = <<>> /\ logFiles = <<>>
               /\ edges = <<>> /\ returned = <<>>
               /\ logEdges = <<>> /\ fetched = <<>>

Passes == clk < MaxClk /\ clk' = clk + 1
          /\ UNCHANGED <<entryVars, fileVars>>

-----------------------------------------------------------------------------
(* The runner writes.                                                       *)

\* InsertProcessEvent, InsertProcessStats: CURRENT_TIMESTAMP is taken when they begin.
BeginEntry ==
  /\ Len(entries) < MaxEntries
  /\ entries' = Append(entries, [at |-> clk, seen |-> Never])
  /\ UNCHANGED <<clk, edges, returned, fileVars>>
CommitEntry(i) ==
  /\ entries[i].seen = Never
  /\ entries' = [entries EXCEPT ![i].seen = clk]
  /\ UNCHANGED <<clk, edges, returned, fileVars>>

LogStep(l, changed) ==
  /\ logFiles' = [logFiles EXCEPT ![l] = changed]
  /\ UNCHANGED <<clk, entryVars, logEdges, fetched>>

\* A log as ProcLog keeps it: its row appears, lines are written, the file is closed,
\* and the row gets the time of that.
BeginLog ==
  /\ Len(logFiles) < MaxLogs
  /\ logFiles' = Append(logFiles, [start |-> clk, seen |-> Never, closed |-> Never,
                                   end |-> Never, lines |-> 0])
  /\ fetched' = Append(fetched, 0)
  /\ UNCHANGED <<clk, entryVars, logEdges>>
WriteLog(l) == LET log == logFiles[l] IN
  \/ log.seen = Never /\ LogStep(l, [log EXCEPT !.seen = clk])
  \/ /\ log.closed = Never /\ log.lines < MaxLogLines
     /\ LogStep(l, [log EXCEPT !.lines = @ + 1])
  \/ log.seen # Never /\ log.closed = Never /\ LogStep(l, [log EXCEPT !.closed = clk])
  \/ log.closed # Never /\ log.end = Never /\ LogStep(l, [log EXCEPT !.end = log.closed])

-----------------------------------------------------------------------------
(* The client asks.                                                         *)

\* Queries that leave out the first moment of the window.
EntriesAfter(from, to) ==
  {i \in 1..Len(entries) : entries[i].seen # Never /\ entries[i].at \in from + 1..to}
LogsAfter(from, to) ==
  {l \in 1..Len(logFiles) : /\ logFiles[l].seen # Never /\ logFiles[l].start > from
                            /\ logFiles[l].end = Never \/ logFiles[l].end <= to}

\* GetProcessEventsFromTo and GetProcessStatsFromTo, without their LIMIT.
EntriesFromTo(from, to) ==
  {i \in 1..Len(entries) : entries[i].seen # Never /\ entries[i].at \in from..to}

\* GetLogFilesFromTo.
LogsFromTo(from, to) ==
  {l \in 1..Len(logFiles) : /\ logFiles[l].seen # Never /\ logFiles[l].start >= from
                            /\ logFiles[l].end = Never \/ logFiles[l].end <= to}

\* ORDER BY id DESC LIMIT: those with the greatest ids.
NewestOf(ids, limit) == {i \in ids : Cardinality({j \in ids : j > i}) < limit}

Asks(ends, to) == Len(ends) < MaxPolls /\ to \in From(ends)..clk

AsksEntries(to, found) ==
  /\ Asks(edges, to) /\ edges' = Append(edges, to)
  /\ returned' = Append(returned, found)
  /\ UNCHANGED <<clk, entries, fileVars>>
GetEvents(to, limit) == AsksEntries(to, NewestOf(EntriesFromTo(From(edges), to), limit))
\* A window that is too large is refused.
GetStats(to) == /\ to - From(edges) <= MaxFrame
                /\ AsksEntries(to, EntriesFromTo(From(edges), to))

\* The files of the rows that were found are read when the query is over.
ReadsLogs(to) ==
  /\ Asks(logEdges, to) /\ logEdges' = Append(logEdges, to)
  /\ fetched' = [l \in 1..Len(logFiles) |->
                   IF l \in LogsFromTo(From(logEdges), to) THEN logFiles[l].lines
                   ELSE fetched[l]]
  /\ UNCHANGED <<clk, entryVars, logFiles>>
\* GetProcessLogs and ExportLogsAsZip, of which the client uses now one and now the other.
GetLogs(to) == ReadsLogs(to)
ExportLogs(to) == ReadsLogs(to)

EntriesNext ==
  \/ Passes \/ BeginEntry
  \/ \E i \in 1..Len(entries) : CommitEntry(i)
  \/ \E to \in 0..MaxClk : GetStats(to) \/ \E limit \in Limits : GetEvents(to, limit)
LogsNext ==
  \/ Passes \/ BeginLog
  \/ \E l \in 1..Len(logFiles) : WriteLog(l)
  \/ \E to \in 0..MaxClk : GetLogs(to) \/ ExportLogs(to)

WindowsNext == EntriesNext \/ LogsNext
WindowsSpec == WindowsInit /\ [][WindowsNext]_windowVars

-----------------------------------------------------------------------------

\* An entry older than the last window's end that no window has returned was still in
\* flight when the window it belongs to ended, or was crowded out by newer ones of its
\* window: windows that meet leave no gap.
NoGap ==
  \A i \in 1..Len(entries) :
    entries[i].seen # Never /\ entries[i].at < From(edges) =>
      \/ \E k \in 1..Len(edges) : i \in returned[k]
      \/ \E k \in 1..Len(edges) : entries[i].at < edges[k] /\ edges[k] <= entries[i].seen
      \/ \E k \in 1..Len(edges) : /\ entries[i].at \in From(SubSeq(edges, 1, k - 1))..edges[k]
                                  /\ returned[k] # {} /\ \A j \in returned[k] : j > i

\* The client gets all lines of a log that has ended, unless the end of a window cut it:
\* then it may have got none of them or the first ones, and never gets the others.
UncutLogsComplete ==
  \A l \in 1..Len(logFiles) : LET log == logFiles[l] IN
    log.end # Never /\ log.end < From(logEdges) =>
      \/ fetched[l] = log.lines
      \/ \E k \in 1..Len(logEdges) : log.start < logEdges[k] /\ logEdges[k] <= log.end
=============================================================================
