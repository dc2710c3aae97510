------------------------------- MODULE ProcLog -------------------------------
(***************************************************************************)
(* The ProcessLogger of one runner (procsmanager/runner.go): its file, the *)
(* rows of the table "logs", and the goroutines that use both: Work, which *)
(* cycles the log, and the copiers of os/exec, which call Write with what  *)
(* a child prints.  Only cycle takes the logger's mutex, so the mutex      *)
(* orders nothing.  A rotation uses two transactions: the outer one ends   *)
(* the old row, the inner one inserts the new row and commits first.       *)
(***************************************************************************)
EXTENDS Integers, Sequences, FiniteSets

CONSTANTS
  Work,          \* the goroutine Work
  Copiers,       \* the goroutines that copy a child's output
  Span,          \* LogFileTimespan, in seconds
  MaxClock,      \* bound: seconds that pass
  MaxLines,      \* bound: lines the children print
  MaxOverlaps,   \* bound: up to where overlaps are counted
  MaxFaults      \* bound: failing database calls, crashes, files removed by others

Threads == {Work} \cup Copiers
Paths == 0..MaxClock    \* a path is the second in which it was made up

\* One overlap at least is counted, so that "overlaps = 0" says there was none.
ASSUME ProcLogAssumption == /\ Work \notin Copiers
                            /\ {Span, MaxClock, MaxLines, MaxOverlaps, MaxFaults} \subseteq Nat
                            /\ MaxOverlaps # 0

\* A runner has few children, and one copier for the output of each.
ASSUME CopiersFinite == IsFiniteSet(Copiers)

VARIABLES
  rows,          \* table logs, by id: "pending", "open", "ended" or "gone"
  files,         \* the lines in each file that exists, by path
  writer,        \* pl.FileWriter: a path, or -1 for nil
  currentLog,    \* pl.CurrentLog: an id, or 0 for nil
  now,           \* the clock, in seconds
  lpc,           \* where each thread is
  seen,          \* the id in lastLog of each thread's retrieveCurrentLog
  ending,        \* the row that each thread's outer transaction has ended, or 0
  line,          \* the line that each copier has to write
  sent,          \* how many lines were printed
  lost,          \* the lines for which Write returned an error
  deleting,      \* "no", "told" (the signal Deleted is in the channel) or "gone"
  faults,        \* how many faults there were
  overlaps,      \* history: how many uses of the logger began during another one
  late           \* history: did something keep Work from a complete deletion?

logVars == <<rows, files, writer, currentLog, now, lpc, seen, ending, line, sent,
             lost, deleting, faults, overlaps, late>>

Resting == {"idle", "broken", "done"}
LogPoints == Resting \cup {"end", "lastEnd", "select", "endOld", "open", "new",
               "create", "commitNew", "commit", "append", "remove", "return"}
RowType == [path : Paths, start : Paths, state : {"pending", "open", "ended", "gone"}]

LogInit ==
  /\ rows = <<>> /\ files = [p \in {} |-> {}]
  /\ writer = -1 /\ currentLog = 0 /\ now = 0
  /\ lpc = [t \in Threads |-> "idle"]
  /\ seen = [t \in Threads |-> 0] /\ ending = [t \in Threads |-> 0]
  /\ line = [t \in Threads |-> 0]
  /\ sent = 0 /\ lost = {} /\ deleting = "no" /\ faults = 0 /\ overlaps = 0 /\ late = FALSE

-----------------------------------------------------------------------------
(* Helpers.                                                                 *)

Goes(t, from, to) == lpc[t] = from /\ lpc' = [lpc EXCEPT ![t] = to]
Starts(t, to) == /\ Goes(t, "idle", to)
                 /\ overlaps' = overlaps +
                      IF /\ deleting # "gone" /\ overlaps < MaxOverlaps
                         /\ \E u \in Threads \ {t} : lpc[u] \notin Resting
                      THEN 1 ELSE 0
Fault == faults < MaxFaults /\ faults' = faults + 1

\* A row whose UPDATE has to wait for another transaction.
Locked(id) == id # 0 /\ \E t \in Threads : ending[t] = id
Committed == {i \in 1..Len(rows) : rows[i].state \in {"open", "ended"}}
Newest == IF Committed = {} THEN 0
          ELSE CHOOSE i \in Committed : \A j \in Committed : j <= i
\* A SetLogEndTime that is not committed.
SetEndLost(id) == rows
SetEnd(id) == IF id \in 1..Len(rows) /\ rows[id].state = "open"
              THEN [rows EXCEPT ![id].state = "ended"] ELSE rows
\* A log that is rotated when it is exactly Span old.
RotatesEarly(id) == rows[id].start <= now - Span
IsOld(id) == rows[id].start < now - Span

\* retrieveCurrentLog returns: cycle ignores an error, Write returns it, and then
\* the copier of os/exec stops and closes the pipe.
Returns(t, from, ok) ==
  /\ Goes(t, from, IF t = Work THEN "idle" ELSE IF ok THEN "append" ELSE "broken")
  /\ lost' = IF ~ok /\ t # Work THEN lost \cup {line[t]} ELSE lost
  /\ ending' = [ending EXCEPT ![t] = 0] /\ seen' = [seen EXCEPT ![t] = 0]
  /\ line' = IF ok THEN line ELSE [line EXCEPT ![t] = 0]

-----------------------------------------------------------------------------
(* cycle and FinishLog, by Work.                                            *)

\* shouldBeClosed.
ShouldBeClosed(id) == IsOld(id)

CycleRetrieves ==
  /\ currentLog = 0
  /\ Starts(Work, "select")
  /\ UNCHANGED <<rows, files, writer, currentLog, now, seen, ending, line, sent, lost,
                 deleting, faults, late>>

\* closeFile sets FileWriter to nil; without a file FinishLog does nothing more.
CycleFinishes ==
  /\ currentLog # 0 /\ ShouldBeClosed(currentLog)
  /\ Starts(Work, IF writer = -1 THEN "select" ELSE "end")
  /\ writer' = -1
  /\ UNCHANGED <<rows, files, currentLog, now, seen, ending, line, sent, lost,
                 deleting, faults, late>>

\* The rest of FinishLog: SetLogEndTime of CurrentLog in a transaction of its own,
\* or an error without a CurrentLog or when the database fails.
EndsCurrent(from, to, failed) ==
  /\ \/ /\ currentLog # 0 /\ ~Locked(currentLog)
        /\ Goes(Work, from, to)
        /\ rows' = SetEnd(currentLog)
        /\ UNCHANGED faults
     \/ /\ currentLog = 0 /\ Goes(Work, from, failed)
        /\ UNCHANGED <<rows, faults>>
     \/ Fault /\ Goes(Work, from, failed) /\ UNCHANGED rows
  /\ UNCHANGED <<files, writer, currentLog, now, seen, ending, line, sent, lost,
                 deleting, overlaps, late>>

Finishes == EndsCurrent("end", "select", "idle")

\* A FinishLogOnDelete that is the end of Work.
DeletesQuietly ==
  /\ deleting # "no"
  /\ Starts(Work, "return")
  /\ UNCHANGED <<rows, files, writer, currentLog, now, seen, ending, line, sent, lost,
                 deleting, faults, late>>
\* FinishLogOnDelete, when Work has received Deleted.
DeletesFolder ==
  /\ deleting # "no"
  /\ Starts(Work, "remove")
  /\ IF currentLog = 0 THEN UNCHANGED <<writer, files>>
     ELSE writer' = -1 /\ files' = [p \in {} |-> {}]
  /\ UNCHANGED <<rows, currentLog, now, seen, ending, line, sent, lost, deleting, faults, late>>

\* os.RemoveAll of the folder by Work itself.
RemovesFolder ==
  /\ Goes(Work, "remove", "return")
  /\ files' = [p \in {} |-> {}]
  /\ UNCHANGED <<rows, writer, currentLog, now, seen, ending, line, sent, lost, deleting,
                 faults, overlaps, late>>

\* A Refresh that does not find the row, or not the database.
RefreshFails ==
  /\ Starts(Work, "return")
  /\ IF deleting = "gone" THEN UNCHANGED faults ELSE Fault
  /\ UNCHANGED <<rows, files, writer, currentLog, now, seen, ending, line, sent, lost,
                 deleting>>
  /\ late' = TRUE

\* The deferred FinishLog of Work.
WorkReturns ==
  /\ Goes(Work, "return", IF writer = -1 THEN "done" ELSE "lastEnd")
  /\ writer' = -1
  /\ UNCHANGED <<rows, files, currentLog, now, seen, ending, line, sent, lost,
                 deleting, faults, overlaps, late>>
LastEnds == EndsCurrent("lastEnd", "done", "done")

-----------------------------------------------------------------------------
(* retrieveCurrentLog and newLog, by Work or a copier.                      *)

\* A retrieveCurrentLog that opens the last log however old it is.
SelectLast(t) ==
  /\ Goes(t, "select", IF Newest = 0 THEN "new" ELSE "open")
  /\ seen' = [seen EXCEPT ![t] = Newest]
  /\ currentLog' = Newest
  /\ UNCHANGED <<rows, files, writer, now, ending, line, sent, lost, deleting, faults,
                 overlaps, late>>
\* LastProcessLogFile, and what is done with its result.
Select(t) ==
  /\ Goes(t, "select", IF Newest = 0 THEN "new"
                       ELSE IF IsOld(Newest)
                            THEN IF rows[Newest].state = "open" THEN "endOld" ELSE "new"
                            ELSE "open")
  /\ seen' = [seen EXCEPT ![t] = Newest]
  /\ currentLog' = IF Newest # 0 /\ IsOld(Newest) /\ rows[Newest].state = "open"
                   THEN currentLog ELSE Newest
  /\ UNCHANGED <<rows, files, writer, now, ending, line, sent, lost, deleting, faults,
                 overlaps, late>>

\* SetLogEndTime in the outer transaction: it keeps the row locked.
EndOld(t) ==
  /\ ~Locked(seen[t])
  /\ Goes(t, "endOld", "new")
  /\ ending' = [ending EXCEPT ![t] = seen[t]]
  /\ currentLog' = seen[t]
  /\ UNCHANGED <<rows, files, writer, now, seen, line, sent, lost, deleting, faults,
                 overlaps, late>>

\* Without its file FileWriter becomes nil, so that FinishLog, called to end the row,
\* returns at once.
Open(t) ==
  LET path == rows[seen[t]].path IN
  /\ Goes(t, "open", IF path \in DOMAIN files THEN "commit" ELSE "new")
  /\ writer' = IF path \in DOMAIN files THEN path ELSE -1
  /\ currentLog' = seen[t]
  /\ UNCHANGED <<rows, files, now, seen, ending, line, sent, lost, deleting, faults,
                 overlaps, late>>

New(t) ==
  /\ Goes(t, "new", "create")
  /\ writer' = -1
  /\ UNCHANGED <<rows, files, currentLog, now, seen, ending, line, sent, lost, deleting,
                 faults, overlaps, late>>

\* newLog: the row of the inner transaction, CurrentLog, and os.Create, which empties
\* a file that exists. The foreign key refuses the row of a deleted process.
Create(t) ==
  /\ deleting # "gone"
  /\ Goes(t, "create", "commitNew")
  /\ rows' = Append(rows, [path |-> now, start |-> now, state |-> "pending"])
  /\ currentLog' = Len(rows')
  /\ seen' = [seen EXCEPT ![t] = Len(rows')]
  /\ files' = [p \in DOMAIN files \cup {now} |-> IF p = now THEN {} ELSE files[p]]
  /\ writer' = now
  /\ UNCHANGED <<now, ending, line, sent, lost, deleting, faults, overlaps, late>>

CommitNew(t) ==
  /\ Goes(t, "commitNew", "commit")
  /\ rows' = [rows EXCEPT ![seen[t]].state = "open"]
  /\ UNCHANGED <<files, writer, currentLog, now, seen, ending, line, sent, lost, deleting,
                 faults, overlaps, late>>

Commit(t) ==
  /\ Returns(t, "commit", TRUE)
  /\ rows' = SetEnd(ending[t])
  /\ UNCHANGED <<files, writer, currentLog, now, sent, deleting, faults, overlaps, late>>

\* A statement or a commit fails: what is not committed is rolled back, the fields of
\* the logger stay as they are.
DbFails(t) ==
  /\ \E from \in {"select", "endOld", "create", "commitNew", "commit"} :
       /\ Returns(t, from, FALSE)
       /\ IF from = "create" /\ deleting = "gone" THEN UNCHANGED faults ELSE Fault
       /\ rows' = IF from = "commitNew" THEN [rows EXCEPT ![seen[t]].state = "gone"]
                  ELSE rows
  /\ UNCHANGED <<files, writer, currentLog, now, sent, deleting, overlaps, late>>

Retrieve(t) == Select(t) \/ EndOld(t) \/ Open(t) \/ New(t) \/ Create(t) \/ CommitNew(t)
                 \/ Commit(t) \/ DbFails(t)

-----------------------------------------------------------------------------
(* Write, by a copier, and the world around the logger.                     *)

\* A Write that relies on the logger to have a file.
WriteOnly(c) ==
  /\ sent < MaxLines
  /\ sent' = sent + 1
  /\ line' = [line EXCEPT ![c] = sent']
  /\ Starts(c, "append")
  /\ UNCHANGED <<rows, files, writer, currentLog, now, seen, ending, lost, deleting, faults>>
  /\ late' = (late \/ deleting # "no")
Write(c) ==
  /\ sent < MaxLines
  /\ sent' = sent + 1
  /\ line' = [line EXCEPT ![c] = sent']
  /\ Starts(c, IF writer = -1 THEN "select" ELSE "append")
  /\ UNCHANGED <<rows, files, writer, currentLog, now, seen, ending, lost, deleting, faults>>
  /\ late' = (late \/ deleting # "no")

\* FileWriter.Write: an error without a file, and no trace in a file that was removed.
Appends(c) ==
  /\ Goes(c, "append", IF writer = -1 THEN "broken" ELSE "idle")
  /\ lost' = IF writer = -1 THEN lost \cup {line[c]} ELSE lost
  /\ files' = IF writer \in DOMAIN files
              THEN [files EXCEPT ![writer] = @ \cup {line[c]}] ELSE files
  /\ line' = [line EXCEPT ![c] = 0]
  /\ UNCHANGED <<rows, writer, currentLog, now, seen, ending, sent, deleting, faults,
                 overlaps, late>>

\* Work starts another child, whose output has a copier again.
NewChild(c) ==
  /\ lpc[Work] = "idle"
  /\ Goes(c, "broken", "idle")
  /\ UNCHANGED <<rows, files, writer, currentLog, now, seen, ending, line, sent, lost,
                 deleting, faults, overlaps, late>>

Tick == /\ now < MaxClock /\ now' = now + 1
        /\ UNCHANGED <<rows, files, writer, currentLog, lpc, seen, ending, line, sent, lost,
                       deleting, faults, overlaps, late>>

\* DeleteProcess sends Deleted, and then deletes the row of the process and with it
\* those of its logs; the DELETE waits for the transactions that use them.
TellsDeleted ==
  /\ deleting = "no" /\ deleting' = "told"
  /\ UNCHANGED <<rows, files, writer, currentLog, now, lpc, seen, ending, line, sent, lost,
                 faults, overlaps>>
  /\ late' = (late \/ \E c \in Copiers : lpc[c] \notin Resting)
\* A DELETE that waits for nobody.
DeletesRowsAtOnce ==
  /\ deleting = "told" /\ deleting' = "gone"
  /\ rows' = [i \in 1..Len(rows) |-> [rows[i] EXCEPT !.state = "gone"]]
  /\ UNCHANGED <<files, writer, currentLog, now, lpc, seen, ending, line, sent, lost,
                 faults, overlaps, late>>
DeletesRows ==
  /\ deleting = "told" /\ deleting' = "gone"
  /\ \A i \in 1..Len(rows) : rows[i].state # "pending"
  /\ \A t \in Threads : ending[t] = 0
  /\ rows' = [i \in 1..Len(rows) |-> [rows[i] EXCEPT !.state = "gone"]]
  /\ UNCHANGED <<files, writer, currentLog, now, lpc, seen, ending, line, sent, lost,
                 faults, overlaps, late>>

\* Somebody removes a file that is not open.
FileRemoved ==
  /\ Fault
  /\ \E p \in DOMAIN files \ {writer} :
       files' = [q \in DOMAIN files \ {p} |-> files[q]]
  /\ UNCHANGED <<rows, writer, currentLog, now, lpc, seen, ending, line, sent, lost,
                 deleting, overlaps, late>>

\* The manager is killed and started again: open transactions are rolled back, the
\* logger is a new one, a process whose row is gone has no runner.
Crash ==
  /\ Fault
  /\ rows' = [i \in 1..Len(rows) |->
       IF rows[i].state = "pending" THEN [rows[i] EXCEPT !.state = "gone"] ELSE rows[i]]
  /\ writer' = -1 /\ currentLog' = 0
  /\ lpc' = [t \in Threads |-> IF deleting = "gone" THEN "done" ELSE "idle"]
  /\ ending' = [t \in Threads |-> 0] /\ seen' = ending' /\ line' = ending'
  /\ lost' = lost \cup {line[c] : c \in {c \in Copiers : lpc[c] \notin Resting}}
  /\ deleting' = IF deleting = "told" THEN "no" ELSE deleting
  /\ UNCHANGED <<files, now, sent, overlaps, late>>

WorkLogs == CycleRetrieves \/ CycleFinishes \/ Finishes \/ RemovesFolder \/ WorkReturns
              \/ LastEnds \/ Retrieve(Work)
CopierWrites(c) == Appends(c) \/ Retrieve(c)
LogWorld == \/ DeletesFolder \/ RefreshFails \/ Tick \/ TellsDeleted \/ DeletesRows
            \/ FileRemoved \/ Crash \/ \E c \in Copiers : Write(c) \/ NewChild(c)

LogNext == WorkLogs \/ LogWorld \/ \E c \in Copiers : CopierWrites(c)
LogSpec == LogInit /\ [][LogNext]_logVars

\* Goroutines that are not blocked go on.
LogFairness == WF_logVars(WorkLogs) /\ \A c \in Copiers : WF_logVars(CopierWrites(c))
FairLogSpec == LogSpec /\ LogFairness

-----------------------------------------------------------------------------
(* Properties.                                                              *)

\* Every variable has its type, and a row whose insertion is about to be committed is
\* still pending.
LogTypeOK ==
  /\ rows \in Seq(RowType) /\ DOMAIN files \subseteq Paths
  /\ \A p \in DOMAIN files : files[p] \subseteq 1..MaxLines
  /\ writer \in Paths \cup {-1} /\ currentLog \in 0..Len(rows) /\ now \in Paths
  /\ lpc \in [Threads -> LogPoints]
  /\ {seen, ending} \subseteq [Threads -> 0..Len(rows)]
  /\ line \in [Threads -> 0..MaxLines] /\ sent \in 0..MaxLines /\ lost \subseteq 1..MaxLines
  /\ deleting \in {"no", "told", "gone"} /\ faults \in 0..MaxFaults /\ overlaps \in 0..MaxOverlaps
  /\ late \in BOOLEAN
  /\ \A t \in Threads : lpc[t] = "commitNew" => rows[seen[t]].state = "pending"

\* A row that nobody will end: it is open, it is not the newest, and no outer
\* transaction is about to end it.
Leaked == {i \in Committed : rows[i].state = "open" /\ i # Newest /\ ~Locked(i)}

\* Rows of finished logs do not stay open: each one that does is the trace of a fault,
\* or of a Write and a cycle (or two Writes) that rotated the log at the same time.
RowsAreEnded ==
  deleting = "no" /\ overlaps < MaxOverlaps => Cardinality(Leaked) <= faults + overlaps

\* A line handed to Write is in a file, unless a use of the logger overlapped with
\* another, or something failed, or the process is being deleted.
Stored == UNION {files[p] : p \in DOMAIN files}
LinesAreKept ==
  overlaps = 0 /\ faults = 0 /\ deleting = "no" =>
    \A n \in 1..sent : n \in Stored \/ \E c \in Copiers : line[c] = n

\* Two logs of a process share no file while they are written one after the other.
PathsDiffer == overlaps = 0 /\ faults = 0 /\ deleting = "no" =>
  \A i, j \in Committed : rows[i].path = rows[j].path => i = j

\* A log that is older than its time span is replaced.
OldLogsEnd ==
  lpc[Work] = "idle" /\ currentLog # 0 /\ IsOld(currentLog) ~>
    lpc[Work] = "done" \/ currentLog = 0 \/ ~IsOld(currentLog)

\* A deletion that Work carries out removes every file, unless a child still printed
\* after Deleted was sent, or a Refresh that no longer found the row came first.
DeletionRemovesFiles ==
  deleting = "gone" /\ lpc[Work] = "done" /\ faults = 0 /\ ~late => DOMAIN files = {}

\* runner.go:145: once FinishLog has ended a row its file gets no more lines, as long as
\* Work runs and no use of the logger overlapped with another.
EndedLogsStay ==
  [][\A i \in Committed : rows[i].state = "ended" /\ rows[i].path \in DOMAIN files
       /\ lpc[Work] # "done" /\ overlaps' = 0 /\ faults' = 0 /\ deleting = "no" =>
         files'[rows[i].path] = files[rows[i].path]]_logVars
=============================================================================
