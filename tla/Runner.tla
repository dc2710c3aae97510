------------------------------- MODULE Runner --------------------------------
(***************************************************************************)
(* One ProcessRunner (procsmanager/runner.go): the goroutine Work, which   *)
(* reads SignalIn and starts and kills child processes, and, for each      *)
(* child it started, the goroutine waitForProcessExit that waits for the   *)
(* child's end and decides whether it is restarted.  The goroutines share  *)
(* status, stoppedByUser and Process without a lock, so each read and each *)
(* write of them is a step of its own here.                                *)
(*                                                                         *)
(* Children are numbered by their start: child g is the g-th one.          *)
(***************************************************************************)
EXTENDS Process

VARIABLES
  wpc,           \* where Work is
  written,       \* has Work's SetStatus updated the row, but not yet pr.status?
  status,        \* pr.status
  stoppedByUser, \* pr.stoppedByUser
  config,        \* pr.Process: Enabled and Configuration
  subprocess,    \* Work's local variable: a child, or 0 for nil
  starts,        \* how many children were started
  child,         \* what the operating system knows of each child
  released,      \* the children that Cleanup killed and released
  xpc,           \* where each child's waitForProcessExit is
  verdict        \* how Wait ended, and later the status the waiter writes

workVars == <<wpc, written, config, subprocess, starts, released>>
waiterVars == <<xpc, verdict>>
runnerVars == <<workVars, status, stoppedByUser, child, waiterVars>>

Gens == 1..MaxStarts
Outcomes == {"clean", "crash", "syscall"}

\* The points of Work at which SetStatus is called, the status each one sets ...
SetPoints == {"unknown", "starting", "running", "failed", "stopping", "stopped",
              "rStopping", "rStarting"}
SetsAt == [unknown |-> "UNKNOWN", starting |-> "STARTING", running |-> "RUNNING",
           failed |-> "CRASHED", stopping |-> "STOPPING", stopped |-> "STOPPED",
           rStopping |-> "STOPPING", rStarting |-> "STARTING"]
\* ... and the point after it.
Then == [unknown |-> "select", starting |-> "startKill", running |-> "select",
         failed |-> "select", stopping |-> "stopKill", stopped |-> "select",
         rStopping |-> "rKill", rStarting |-> "spawn"]
WorkPoints == SetPoints \cup {"boot", "select", "startKill", "spawn", "stopKill",
                "stopFlag", "delKill", "delFlag", "rKill", "load", "selfSend", "exited"}
WaiterPoints == {"none", "wait", "woke", "flag", "clear", "budget", "update",
                 "assign", "event", "done"}

RunnerInit ==
  /\ wpc = "boot" /\ written = FALSE
  /\ status = rowStatus /\ config = rowConfig
  /\ stoppedByUser = FALSE
  /\ subprocess = 0 /\ starts = 0 /\ released = {}
  /\ child = [g \in Gens |-> "none"]
  /\ xpc = [g \in Gens |-> "none"]
  /\ verdict = [g \in Gens |-> "none"]

-----------------------------------------------------------------------------
(* SetStatus as Work calls it: the row first, then pr.status; when the      *)
(* UPDATE fails pr.status keeps its value, and the callers go on.           *)

WorkUpdatesRow ==
  /\ wpc \in SetPoints /\ ~written
  /\ UpdateRowStatus(SetsAt[wpc])
  /\ written' = TRUE
  /\ UNCHANGED <<signalIn, recent, wpc, config, subprocess, starts, released,
                 status, stoppedByUser, child, waiterVars>>

WorkAssignsStatus ==
  /\ wpc \in SetPoints /\ written
  /\ status' = SetsAt[wpc]
  /\ written' = FALSE /\ wpc' = Then[wpc]
  /\ UNCHANGED <<processVars, config, subprocess, starts, released,
                 stoppedByUser, child, waiterVars>>

WorkSetStatusFails ==
  /\ wpc \in SetPoints /\ ~written /\ DbMayFail
  /\ wpc' = Then[wpc]
  /\ UNCHANGED <<processVars, written, config, subprocess, starts, released,
                 status, stoppedByUser, child, waiterVars>>

-----------------------------------------------------------------------------
(* The loop of Work.                                                        *)

Boot ==
  /\ wpc = "boot"
  /\ IF config.enabled THEN Send("Start") ELSE UNCHANGED signalIn
  /\ wpc' = "unknown"
  /\ UNCHANGED <<rowVars, recent, written, config, subprocess, starts, released,
                 status, stoppedByUser, child, waiterVars>>

\* A Start of a running process that orders a restart through the channel.
StartOrdersRestart(s) ==
  CASE s = "Start"   -> IF status \in {"RUNNING", "STARTING"} THEN "selfSend" ELSE "starting"
    [] s = "Stop"    -> "stopping"
    [] s = "Deleted" -> "delKill"
    [] s = "Restart" -> "rStopping"
    [] s = "Refresh" -> "load"

\* A Deleted that falls through to what Stop does.
DeletedStops(s) ==
  CASE s = "Start"   -> IF status \in {"RUNNING", "STARTING"} THEN "select" ELSE "starting"
    [] s \in {"Stop", "Deleted"} -> "stopping"
    [] s = "Restart" -> "rStopping"
    [] s = "Refresh" -> "load"

\* A Restart that is guarded by the status, as Start is.
RestartIfRunning(s) ==
  CASE s = "Start"   -> IF status \in {"RUNNING", "STARTING"} THEN "select" ELSE "starting"
    [] s = "Stop"    -> "stopping"
    [] s = "Deleted" -> "delKill"
    [] s = "Restart" -> IF status = "RUNNING" THEN "rStopping" ELSE "select"
    [] s = "Refresh" -> "load"

\* Where Work goes with a signal it has received.
OnSignal(s) ==
  CASE s = "Start"   -> IF status \in {"RUNNING", "STARTING"} THEN "select" ELSE "starting"
    [] s = "Stop"    -> "stopping"
    [] s = "Deleted" -> "delKill"
    [] s = "Restart" -> "rStopping"
    [] s = "Refresh" -> "load"

Receive ==
  /\ wpc = "select" /\ signalIn # <<>>
  /\ signalIn' = Tail(signalIn)
  /\ wpc' = OnSignal(Head(signalIn))
  /\ stoppedByUser' = (stoppedByUser \/ Head(signalIn) = "Refresh")
  /\ UNCHANGED <<rowVars, recent, written, config, subprocess, starts, released,
                 status, child, waiterVars>>

\* A default branch that looks at the row instead of pr.status.
SeesWillRestartInRow ==
  /\ wpc = "select" /\ signalIn = <<>>
  /\ rowStatus \in WillRestart
  /\ wpc' = "selfSend"
  /\ UNCHANGED <<processVars, written, config, subprocess, starts, released,
                 status, stoppedByUser, child, waiterVars>>

\* The default branch of the select, when there is a restart to order.
SeesWillRestart ==
  /\ wpc = "select" /\ signalIn = <<>>
  /\ status \in WillRestart
  /\ wpc' = "selfSend"
  /\ UNCHANGED <<processVars, written, config, subprocess, starts, released,
                 status, stoppedByUser, child, waiterVars>>

\* pr.SignalIn <- Restart, by the goroutine that receives from SignalIn.
SelfSend ==
  /\ wpc = "selfSend"
  /\ Send("Restart")
  /\ wpc' = "select"
  /\ UNCHANGED <<rowVars, recent, written, config, subprocess, starts, released,
                 status, stoppedByUser, child, waiterVars>>

\* SubProcess.Cleanup: SIGKILL to the child and its descendants, then Release.
Cleanup ==
  /\ child' = [g \in Gens |-> IF g = subprocess /\ child[g] = "alive"
                              THEN "crash" ELSE child[g]]
  /\ released' = released \cup ({subprocess} \ {0})

StartKills ==
  /\ wpc = "startKill"
  /\ Cleanup
  /\ wpc' = "spawn"
  /\ UNCHANGED <<processVars, written, config, subprocess, starts, status,
                 stoppedByUser, waiterVars>>

RestartKills ==
  /\ wpc = "rKill"
  /\ Cleanup
  /\ stoppedByUser' = TRUE
  /\ wpc' = "rStarting"
  /\ UNCHANGED <<processVars, written, config, subprocess, starts, status, waiterVars>>

\* A stop that does not forget the child it has killed.
StopKeepsChild ==
  /\ wpc \in {"stopKill", "delKill"}
  /\ Cleanup
  /\ wpc' = IF wpc = "stopKill"
            THEN IF subprocess = 0 THEN "stopped" ELSE "stopFlag"
            ELSE IF subprocess = 0 THEN "exited" ELSE "delFlag"
  /\ UNCHANGED <<processVars, written, config, subprocess, starts, status,
                 stoppedByUser, waiterVars>>

\* A stop that reports STOPPED only if there was a child to stop.
StopReportsChildOnly ==
  /\ wpc \in {"stopKill", "delKill"}
  /\ Cleanup
  /\ subprocess' = 0
  /\ wpc' = IF wpc = "stopKill"
            THEN IF subprocess = 0 THEN "select" ELSE "stopFlag"
            ELSE IF subprocess = 0 THEN "exited" ELSE "delFlag"
  /\ UNCHANGED <<processVars, written, config, starts, status, stoppedByUser, waiterVars>>

StopKills ==
  /\ wpc \in {"stopKill", "delKill"}
  /\ Cleanup
  /\ subprocess' = 0
  /\ wpc' = IF wpc = "stopKill"
            THEN IF subprocess = 0 THEN "stopped" ELSE "stopFlag"
            ELSE IF subprocess = 0 THEN "exited" ELSE "delFlag"
  /\ UNCHANGED <<processVars, written, config, starts, status, stoppedByUser, waiterVars>>

StopFlags ==
  /\ wpc \in {"stopFlag", "delFlag"}
  /\ stoppedByUser' = TRUE
  /\ wpc' = IF wpc = "stopFlag" THEN "stopped" ELSE "exited"
  /\ UNCHANGED <<processVars, written, config, subprocess, starts, released,
                 status, child, waiterVars>>

\* A startProcess that leaves stoppedByUser alone.
SpawnKeepsFlag ==
  /\ wpc = "spawn" /\ starts < MaxStarts
  /\ starts' = starts + 1
  /\ subprocess' = starts'
  /\ child' = [child EXCEPT ![starts'] = "alive"]
  /\ xpc' = [xpc EXCEPT ![starts'] = "wait"]
  /\ wpc' = "running"
  /\ UNCHANGED <<processVars, written, config, released, status, stoppedByUser, verdict>>

\* A startProcess that starts no waitForProcessExit.
SpawnUnwatched ==
  /\ wpc = "spawn" /\ starts < MaxStarts
  /\ starts' = starts + 1
  /\ stoppedByUser' = FALSE
  /\ subprocess' = starts'
  /\ child' = [child EXCEPT ![starts'] = "alive"]
  /\ wpc' = "running"
  /\ UNCHANGED <<processVars, written, config, released, status, waiterVars>>

\* startProcess; MaxStarts bounds the children of the model.
SpawnOk ==
  /\ wpc = "spawn" /\ starts < MaxStarts
  /\ starts' = starts + 1
  /\ stoppedByUser' = FALSE
  /\ subprocess' = starts'
  /\ child' = [child EXCEPT ![starts'] = "alive"]
  /\ xpc' = [xpc EXCEPT ![starts'] = "wait"]
  /\ wpc' = "running"
  /\ UNCHANGED <<processVars, written, config, released, status, verdict>>

\* A failed start that does not report CRASHED.
SpawnFailsSilently ==
  /\ wpc = "spawn"
  /\ stoppedByUser' = FALSE
  /\ subprocess' = 0
  /\ wpc' = "select"
  /\ UNCHANGED <<processVars, written, config, starts, released, status, child, waiterVars>>

SpawnFails ==
  /\ wpc = "spawn"
  /\ stoppedByUser' = FALSE
  /\ subprocess' = 0
  /\ wpc' = "failed"
  /\ UNCHANGED <<processVars, written, config, starts, released, status, child, waiterVars>>

\* Refresh: GetProcess, then pr.Process = &proc.
Load ==
  /\ wpc = "load" /\ rowState = "present"
  /\ config' = rowConfig
  /\ wpc' = IF rowConfig.enabled THEN "selfSend" ELSE "select"
  /\ UNCHANGED <<processVars, written, subprocess, starts, released, status,
                 stoppedByUser, child, waiterVars>>

\* A Work that returns without its deferred function.
LoadFailsLeavesChild ==
  /\ wpc = "load" /\ (rowState # "present" \/ DbMayFail)
  /\ wpc' = "exited"
  /\ UNCHANGED <<processVars, written, config, subprocess, starts, released, status,
                 stoppedByUser, child, waiterVars>>

\* Without the row, Work returns; its deferred function cleans up.
LoadFails ==
  /\ wpc = "load" /\ (rowState # "present" \/ DbMayFail)
  /\ Cleanup
  /\ wpc' = "exited"
  /\ UNCHANGED <<processVars, written, config, subprocess, starts, status,
                 stoppedByUser, waiterVars>>

Work == \/ WorkUpdatesRow \/ WorkAssignsStatus \/ WorkSetStatusFails
        \/ Boot \/ Receive \/ SeesWillRestart \/ SelfSend
        \/ StartKills \/ RestartKills \/ StopKills \/ StopFlags
        \/ SpawnOk \/ SpawnFails \/ Load \/ LoadFails

-----------------------------------------------------------------------------
(* Child g and its waitForProcessExit.                                      *)

ChildExits(g) ==
  /\ child[g] = "alive"
  /\ \E how \in {"clean", "crash"} : child' = [child EXCEPT ![g] = how]
  /\ UNCHANGED <<processVars, workVars, status, stoppedByUser, waiterVars>>

WaiterAt(g, from, to) == xpc[g] = from /\ xpc' = [xpc EXCEPT ![g] = to]

\* Wait reports the child's end, or the error of copying its output ("crash"),
\* or, the status reaped by another Wait, an *os.SyscallError: Release sets the
\* Pid to -1 under a Wait that is still running, whose wait4(-1) takes any child.
WaitReturns(g) ==
  /\ child[g] \in {"clean", "crash"}
  /\ WaiterAt(g, "wait", "woke")
  /\ \E how \in IF g \in released THEN Outcomes ELSE {child[g], "crash", "syscall"} :
       verdict' = [verdict EXCEPT ![g] = how]
  /\ child' = [child EXCEPT ![g] = "reaped"]
  /\ UNCHANGED <<processVars, workVars, status, stoppedByUser>>

\* A child that dies while the status is STOPPING is not looked at.
ChecksStopping(g) ==
  /\ WaiterAt(g, "woke", IF status = "STOPPING" THEN "done" ELSE "flag")
  /\ verdict' = [verdict EXCEPT ![g] = IF status = "STOPPING" THEN "none" ELSE @]
  /\ UNCHANGED <<processVars, workVars, status, stoppedByUser, child>>

ReadsFlag(g) ==
  /\ WaiterAt(g, "flag", "clear")
  /\ verdict' = [verdict EXCEPT ![g] = IF stoppedByUser THEN "byUser" ELSE @]
  /\ UNCHANGED <<processVars, workVars, status, stoppedByUser, child>>

ClearsFlag(g) ==
  /\ stoppedByUser' = FALSE
  /\ WaiterAt(g, "clear", IF verdict[g] \in {"byUser", "syscall"} THEN "update" ELSE "budget")
  /\ verdict' = [verdict EXCEPT ![g] = IF @ \in {"byUser", "syscall"} THEN "STOPPED" ELSE @]
  /\ UNCHANGED <<processVars, workVars, status, child>>

\* StopRestartFrameSatisfied.
BudgetLeft == config.frame = 0 \/ recent < config.maxRetries

\* The status that "finish" gives to a child that ended on its own.
RestartStatus(how) == IF how = "clean" THEN "STOPPED_WILL_RESTART" ELSE "CRASHED_WILL_RESTART"
EndStatus(how) == IF how = "clean" THEN "STOPPED" ELSE "CRASHED"
MayRestart(how) == /\ IF how = "clean" THEN config.onStop ELSE config.onCrash
                   /\ BudgetLeft

ChecksBudget(g) ==
  /\ WaiterAt(g, "budget", "update")
  /\ \/ /\ MayRestart(verdict[g])
        /\ verdict' = [verdict EXCEPT ![g] = RestartStatus(@)]
     \/ /\ ~MayRestart(verdict[g]) \/ (DbMayFail /\ config.frame # 0)
        /\ verdict' = [verdict EXCEPT ![g] = EndStatus(@)]
  /\ UNCHANGED <<processVars, workVars, status, stoppedByUser, child>>

WaiterUpdatesRow(g) ==
  /\ WaiterAt(g, "update", "assign")
  /\ UpdateRowStatus(verdict[g])
  /\ UNCHANGED <<signalIn, recent, workVars, status, stoppedByUser, child, verdict>>

WaiterAssignsStatus(g) ==
  /\ WaiterAt(g, "assign", "event")
  /\ status' = verdict[g]
  /\ UNCHANGED <<processVars, workVars, stoppedByUser, child, verdict>>

WaiterSetStatusFails(g) ==
  /\ DbMayFail
  /\ WaiterAt(g, "update", "event")
  /\ UNCHANGED <<processVars, workVars, status, stoppedByUser, child, verdict>>

\* LogEvent: STOP and CRASH count against the budget, FULL_STOP and FULL_CRASH do not.
WaiterLogsEvent(g) ==
  /\ WaiterAt(g, "event", "done")
  /\ IF verdict[g] \in WillRestart THEN InsertCountedEvent ELSE UNCHANGED recent
  /\ verdict' = [verdict EXCEPT ![g] = "none"]
  /\ UNCHANGED <<signalIn, rowVars, workVars, status, stoppedByUser, child>>

Waiter(g) == \/ WaitReturns(g) \/ ChecksStopping(g) \/ ReadsFlag(g) \/ ClearsFlag(g)
             \/ ChecksBudget(g) \/ WaiterUpdatesRow(g) \/ WaiterAssignsStatus(g)
             \/ WaiterSetStatusFails(g) \/ WaiterLogsEvent(g)

-----------------------------------------------------------------------------

Live == {g \in Gens : child[g] = "alive"}

\* What the verdict of a waiter may be at each of its points.
Ends == {"STOPPED", "CRASHED"} \cup WillRestart
Verdicts == Outcomes \cup Ends \cup {"byUser", "none"}
VerdictsAt(pc) == CASE pc \in {"woke", "flag"}             -> Outcomes
                    [] pc = "clear"                      -> Outcomes \cup {"byUser"}
                    [] pc = "budget"                     -> {"clean", "crash"}
                    [] pc \in {"update", "assign", "event"} -> Ends
                    [] OTHER                             -> {"none"}

RunnerTypeOK ==
  /\ wpc \in WorkPoints /\ written \in BOOLEAN
  /\ status \in Statuses /\ stoppedByUser \in BOOLEAN
  /\ config \in Configs
  /\ starts \in 0..MaxStarts /\ subprocess \in 0..starts
  /\ released \subseteq 1..starts
  /\ child \in [Gens -> {"none", "alive", "clean", "crash", "reaped"}]
  /\ xpc \in [Gens -> WaiterPoints] /\ verdict \in [Gens -> Verdicts]
  /\ \A g \in Gens : verdict[g] \in VerdictsAt(xpc[g])
  /\ \A g \in Gens : g > starts => child[g] = "none" /\ xpc[g] = "none"
=============================================================================
