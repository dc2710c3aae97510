------------------------------- MODULE Process -------------------------------
(***************************************************************************)
(* What the goroutines that serve one managed process share: the channel   *)
(* SignalIn of its ProcessRunner, its row of the database table "process", *)
(* the lock a transaction holds on that row, and the STOP and CRASH rows   *)
(* of "process_event" that are young enough to count against the restart   *)
(* budget.  Runner.tla and Handlers.tla extend this module.                *)
(***************************************************************************)
EXTENDS Integers, Sequences, FiniteSets

CONSTANTS
  Handlers,      \* the goroutines of the HTTP server that may serve a request
  NoHandler,     \* "nobody holds the row lock"
  Configs,       \* the configurations a request may store
  Requests,      \* the signals the clients of this instance ask for
  InitialRows,   \* how the runner came to be: subset of {"inserted", "present"}
  MaxStarts,     \* bound: how many child processes the model may start
  DbMayFail      \* may a call of the database return an error?

\* process_status, process_event_type and Signal.
Statuses == {"RUNNING", "STOPPED", "CRASHED", "STARTING", "STOPPING",
             "STOPPED_WILL_RESTART", "CRASHED_WILL_RESTART", "UNKNOWN"}
Signals == {"Start", "Stop", "Restart", "Deleted", "Refresh"}
WillRestart == {"STOPPED_WILL_RESTART", "CRASHED_WILL_RESTART"}
Transitional == {"STARTING", "STOPPING"}

\* The fields of a row that the runner's control depends on: enabled,
\* auto_restart_on_stop, auto_restart_on_crash, the budget's time frame (only
\* zero or not matters) and auto_restart_max_retries.
ConfigType == [enabled : BOOLEAN, onStop : BOOLEAN, onCrash : BOOLEAN,
               frame : Nat, maxRetries : Int]

ASSUME ProcessAssumption ==
  /\ NoHandler \notin Handlers
  /\ Configs \subseteq ConfigType
  /\ Requests \subseteq Signals
  /\ InitialRows \subseteq {"inserted", "present"}
  /\ MaxStarts \in Nat
  /\ DbMayFail \in BOOLEAN

VARIABLES
  signalIn,      \* the buffer of the channel SignalIn
  rowState,      \* "inserted" (not committed yet), "present" or "gone"
  rowStatus,     \* column status, as committed
  rowConfig,     \* enabled and configuration, as committed
  rowLock,       \* the handler whose open transaction updated the row
  recent         \* STOP and CRASH events within the budget's time frame

rowVars == <<rowState, rowStatus, rowConfig, rowLock>>
processVars == <<signalIn, rowVars, recent>>

-----------------------------------------------------------------------------

\* make(chan Signal, 2): a send blocks while two signals are buffered.
SignalCap == 2
SendAlways(s) == signalIn' = Append(signalIn, s)   \* a channel without a bound
Send(s) == /\ Len(signalIn) < SignalCap
           /\ signalIn' = Append(signalIn, s)

\* UPDATE process SET status: it waits for the row lock, and it changes nothing
\* (without an error) while the row is not committed or once it is deleted.
UpdateRowStatus(new) ==
  /\ rowLock = NoHandler
  /\ rowStatus' = IF rowState = "present" THEN new ELSE rowStatus
  /\ UNCHANGED <<rowState, rowConfig, rowLock>>

\* INSERT INTO process_event: the foreign key refuses it while the row is not
\* there; LogEvent's callers ignore the error.
HasBudget == \E c \in Configs : c.frame # 0   \* without one, nobody counts events
InsertCountedEvent ==
  \/ rowState = "present" /\ recent' = IF HasBudget THEN recent + 1 ELSE recent
  \/ (rowState # "present" \/ DbMayFail) /\ UNCHANGED recent

\* An event leaves the time frame that StopRestartFrameSatisfied looks at.
EventAges == /\ recent > 0
             /\ recent' = recent - 1
             /\ UNCHANGED <<signalIn, rowVars>>

\* A row that a restarted manager loads has any status; one that AddProcess
\* has just inserted has the column's default and is not committed yet.
ProcessInit ==
  /\ signalIn = <<>>
  /\ rowState \in InitialRows
  /\ rowStatus \in IF rowState = "present" THEN Statuses ELSE {"UNKNOWN"}
  /\ rowConfig \in Configs
  /\ rowLock = NoHandler
  /\ recent = 0

ProcessTypeOK ==
  /\ signalIn \in Seq(Signals) /\ Len(signalIn) <= SignalCap
  /\ rowState \in {"inserted", "present", "gone"}
  /\ rowStatus \in Statuses
  /\ rowConfig \in Configs
  /\ rowLock \in Handlers \cup {NoHandler}
  /\ recent \in Nat
=============================================================================
