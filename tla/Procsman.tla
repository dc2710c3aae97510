------------------------------ MODULE Procsman -------------------------------
(***************************************************************************)
(* One managed process of procsman: the runner's goroutines (Runner), the  *)
(* HTTP handlers that serve it (Handlers), and the channel and the row     *)
(* they share (Process).                                                   *)
(***************************************************************************)
EXTENDS Runner, Handlers

vars == <<processVars, runnerVars, handlerVars>>

Init == ProcessInit /\ RunnerInit /\ HandlersInit

\* Steps of the runner, of the handlers, and of the world around them.
WorkStep == Work /\ UNCHANGED handlerVars
WaiterStep(g) == Waiter(g) /\ UNCHANGED handlerVars
HandlerStep(h) == Handle(h) /\ UNCHANGED runnerVars
AddStep == AddCommits /\ UNCHANGED runnerVars
WorldStep == \/ (\E g \in Gens : ChildExits(g)) /\ UNCHANGED handlerVars
             \/ EventAges /\ UNCHANGED <<runnerVars, handlerVars>>

Next == \/ WorkStep
        \/ \E g \in Gens : WaiterStep(g)
        \/ \E h \in Handlers : HandlerStep(h)
        \/ AddStep
        \/ WorldStep

Spec == Init /\ [][Next]_vars

\* Go runs every goroutine that is not blocked; senders on a full channel and
\* transactions on a locked row are served in the order they came, so a blocked
\* goroutine whose turn comes again and again is served. Nothing makes a client
\* send a request or a child end by itself.
Fairness == /\ SF_vars(WorkStep)
            /\ \A g \in Gens : SF_vars(WaiterStep(g))
            /\ \A h \in Handlers : SF_vars(Serve(h) /\ UNCHANGED runnerVars)
            /\ WF_vars(AddStep)

FairSpec == Spec /\ Fairness

-----------------------------------------------------------------------------
(* Safety.                                                                  *)

\* Every variable has its type; the channel never holds more signals than its
\* capacity, and each waiter's verdict is one that it may have at its point.
TypeOK == ProcessTypeOK /\ RunnerTypeOK /\ HandlersTypeOK

\* Cleanup is never called on a child that it has already released: the Pid of
\* such a child is -1, so neither it nor its descendants could be signalled.
CleanupOnce == wpc \in {"startKill", "stopKill", "delKill", "rKill"} =>
                 subprocess \notin released

\* While the database answers, Work never goes back to its channel, and never
\* returns, with a status that says it is in the middle of something.
IdleSettled == ~DbMayFail /\ wpc \in {"select", "exited"} => status \notin Transitional

\* A signal that Work has not received yet.
Coming(s) == \E i \in 1..Len(signalIn) : signalIn[i] = s

\* A crash of a child that nobody stopped is treated as one: while Work waits
\* for signals, a child is alive and stoppedByUser is set, either a Restart is on
\* its way or the process has been disabled.
CrashNotSwallowed ==
  wpc = "select" /\ stoppedByUser /\ Live # {} =>
    ~config.enabled \/ Coming("Restart")

\* While the database answers, a runner never works for a deleted process: when
\* the row is gone, Work has returned, is returning, or will receive Deleted.
Told == wpc \in {"delKill", "delFlag", "exited"} \/ Coming("Deleted")
NoOrphanRunner == ~DbMayFail /\ rowState = "gone" => Told

\* The runner starts and ends its children as Supervisor says.
Abstract == INSTANCE Supervisor WITH
              live <- Live, born <- starts, ended <- (wpc = "exited")
SupervisesChildren == Abstract!SupervisorSpec

\* No two waiters are about to change the status at the same time. It is true
\* only while no client interferes with the automatic restarts.
SoleVerdict == \A g1, g2 \in Gens :
  {xpc[g1], xpc[g2]} \cap {"none", "wait", "event", "done"} = {} => g1 = g2

\* While Work waits for signals, a status that says the child has ended is not
\* shown of a child that is alive. True as long as no client interferes.
EndedMeansNotRunning == wpc = "select" /\ status \in Ends => Live = {}

-----------------------------------------------------------------------------
(* The parts of the inductive invariant that the safety properties rest on.  *)

\* No child but the one Work remembers is alive, and none after its Cleanup.
LiveIsSubprocess == \A g \in Gens : child[g] = "alive" => g = subprocess
KilledByNow ==
  wpc \in {"rStarting", "spawn", "failed", "stopFlag", "delFlag", "stopped", "exited"}
    => Live = {}

\* Work forgets or replaces a released child before it can clean up again.
ReleasedForgotten == wpc \notin {"rStarting", "spawn", "exited"} => subprocess \notin released

\* Where Work leaves no STARTING or STOPPING behind.
SettledPoints == {"select", "load", "selfSend", "starting", "stopping", "rStopping",
                  "delKill", "delFlag", "exited"}
SettledStatus == ~DbMayFail /\ wpc \in SettledPoints => status \notin Transitional

\* Why a stoppedByUser that is set of a live child swallows no crash.
FlagMeansRestart ==
  stoppedByUser /\ Live # {} /\ config.enabled =>
    Coming("Restart") \/ wpc \in {"load", "selfSend", "rStopping", "rKill"}

\* Before the row goes, its runner has been told.
ToldBeforeGone ==
  ~DbMayFail /\ (rowState = "gone" \/ \E h \in Handlers : hpc[h] = "remove") => Told

ChildrenInv == TypeOK /\ LiveIsSubprocess /\ KilledByNow /\ ReleasedForgotten

-----------------------------------------------------------------------------
(* Liveness, under FairSpec.                                                *)

\* Every request is answered while Work has not returned: no handler blocks for ever on
\* SignalIn, a lock or the commit. (Once it has, nobody empties SignalIn any more.)
RequestsServed == \A h \in Handlers : hpc[h] # "idle" ~> hpc[h] = "idle" \/ wpc = "exited"

\* No process stays in STOPPING.
StoppingEnds == status = "STOPPING" ~> status # "STOPPING"

\* A child that has died is waited for, and its waiter reaches its decision.
ChildrenReaped == \A g \in Gens : child[g] \in {"clean", "crash"} ~> xpc[g] = "done"

\* A deletion that reached the channel ends Work.
DeletionEndsWork == Coming("Deleted") ~> wpc = "exited"

\* A restart that Work has seen ordered is carried out.
SeenRestartHappens == wpc = "select" /\ status \in WillRestart ~> wpc = "spawn"

-----------------------------------------------------------------------------
(* What comments of the repository say, and the code does not do.           *)

\* runner.go:704: "It contains a loop, that does not lock up thanks to timers,
\* channels, etc.": Work never blocks on the channel that only Work reads.
LoopDoesNotLockUp == wpc = "selfSend" => Len(signalIn) < SignalCap

\* runner.go:325: "Stop ... Status will be set to STOPPING -> STOPPED".
StopReachesStopped == wpc = "stopping" ~> wpc = "select"

\* runner.go:356: "CRASHED: The process has crashed and is not running."
CrashedMeansNotRunning == wpc = "select" /\ status = "CRASHED" => Live = {}

\* runner.go:358: "CRASHED_WILL_RESTART: The process has crashed and will be
\* restarted."
CrashedWillRestart == status = "CRASHED_WILL_RESTART" ~> wpc = "spawn"

\* runner.go:329: "Refresh re-fetches process configuration from the database and
\* updates the process runner": at rest the runner has the row's configuration.
RefreshLoadsUpdate ==
  wpc = "select" /\ signalIn = <<>> /\ (\A h \in Handlers : hpc[h] = "idle")
    /\ rowState = "present" => config = rowConfig

\* db/types.go:31: "if AutoRestartMaxRetries happens within
\* AutoRestartMaxRetriesFrame, the process will not be restarted".
BudgetKept == config.frame # 0 /\ config.maxRetries >= 0 => recent <= config.maxRetries
=============================================================================
