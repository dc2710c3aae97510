--------------------------- MODULE ProcsmanProofs ----------------------------
(***************************************************************************)
(* Theorems about Procsman and their proofs.                               *)
(***************************************************************************)
EXTENDS Procsman, TLAPS

(* Typing.                                                                  *)

\* What SetStatus sets is a status, and Work goes on at one of its points.
LEMMA SetPointsTyped ==
  ASSUME NEW p \in SetPoints
  PROVE  SetsAt[p] \in Statuses /\ Then[p] \in WorkPoints
  BY DEF SetPoints, SetsAt, Then, Statuses, WorkPoints

\* Sending and receiving keep the channel within its type and its capacity.
LEMMA SendTyped ==
  ASSUME signalIn \in Seq(Signals), Len(signalIn) <= SignalCap,
         NEW s \in Signals, Send(s)
  PROVE  signalIn' \in Seq(Signals) /\ Len(signalIn') <= SignalCap
  BY DEF Send, SignalCap

\* Taking the first signal leaves a channel of the right type.
LEMMA ReceiveTyped ==
  ASSUME signalIn \in Seq(Signals), Len(signalIn) <= SignalCap,
         signalIn # <<>>, signalIn' = Tail(signalIn)
  PROVE  /\ signalIn' \in Seq(Signals) /\ Len(signalIn') <= SignalCap
         /\ Head(signalIn) \in Signals
  BY DEF SignalCap

\* The initial states are well typed.
LEMMA InitTyped == Init => TypeOK
  <1> SUFFICES ASSUME Init PROVE TypeOK
    OBVIOUS
  <1> USE ProcessAssumption DEF Init, ProcessInit, RunnerInit, HandlersInit
  <1>1. ProcessTypeOK
    BY DEF ProcessTypeOK, SignalCap, Statuses
  <1>2. RunnerTypeOK
    <2>1. \A g \in Gens : verdict[g] \in VerdictsAt(xpc[g])
      BY DEF VerdictsAt
    <2>2. verdict \in [Gens -> Verdicts] /\ xpc \in [Gens -> WaiterPoints]
      BY DEF Verdicts, WaiterPoints
    <2>3. wpc \in WorkPoints /\ written \in BOOLEAN /\ status \in Statuses
          /\ stoppedByUser \in BOOLEAN /\ config \in Configs
      BY <1>1 DEF ProcessTypeOK, WorkPoints
    <2>4. starts \in 0..MaxStarts /\ subprocess \in 0..starts /\ released \subseteq 1..starts
      OBVIOUS
    <2> QED
      BY <2>1, <2>2, <2>3, <2>4 DEF RunnerTypeOK
  <1>3. HandlersTypeOK
    BY DEF HandlersTypeOK
  <1> QED
    BY <1>1, <1>2, <1>3 DEF TypeOK

\* A step of Work keeps every variable in its type.
LEMMA WorkTyped == TypeOK /\ WorkStep => TypeOK'
  <1> SUFFICES ASSUME TypeOK, WorkStep PROVE TypeOK'
    OBVIOUS
  <1> USE DEF TypeOK, ProcessTypeOK, RunnerTypeOK
  <1>0. HandlersTypeOK'
    BY DEF HandlersTypeOK, WorkStep, handlerVars
  <1>1. CASE WorkUpdatesRow
    BY <1>0, <1>1, SetPointsTyped DEF WorkUpdatesRow, UpdateRowStatus, waiterVars
  <1>2. CASE WorkAssignsStatus
    BY <1>0, <1>2, SetPointsTyped DEF WorkAssignsStatus, processVars, rowVars, waiterVars
  <1>3. CASE WorkSetStatusFails
    BY <1>0, <1>3, SetPointsTyped DEF WorkSetStatusFails, processVars, rowVars, waiterVars
  <1>4. CASE Boot
    BY <1>0, <1>4, SendTyped DEF Boot, rowVars, waiterVars, WorkPoints, SetPoints, Signals
  <1>5. CASE Receive
    BY <1>0, <1>5, ReceiveTyped DEF Receive, OnSignal, rowVars, waiterVars, WorkPoints, SetPoints, Signals
  <1>6. CASE SeesWillRestart
    BY <1>0, <1>6 DEF SeesWillRestart, processVars, rowVars, waiterVars, WorkPoints
  <1>7. CASE SelfSend
    BY <1>0, <1>7, SendTyped DEF SelfSend, rowVars, waiterVars, WorkPoints, Signals
  <1>8. CASE StartKills
    BY <1>0, <1>8 DEF StartKills, Cleanup, processVars, rowVars, waiterVars, WorkPoints
  <1>9. CASE RestartKills
    BY <1>0, <1>9 DEF RestartKills, Cleanup, processVars, rowVars, waiterVars, WorkPoints, SetPoints
  <1>10. CASE StopKills
    BY <1>0, <1>10 DEF StopKills, Cleanup, processVars, rowVars, waiterVars, WorkPoints, SetPoints
  <1>11. CASE StopFlags
    BY <1>0, <1>11 DEF StopFlags, processVars, rowVars, waiterVars, WorkPoints, SetPoints
  <1>12. CASE SpawnOk
    <2>1. /\ starts' \in 0..MaxStarts /\ subprocess' \in 0..starts'
          /\ starts' \in Gens /\ released' \subseteq 1..starts'
      BY <1>12, ProcessAssumption DEF SpawnOk, Gens
    <2>2. /\ child' \in [Gens -> {"none", "alive", "clean", "crash", "reaped"}]
          /\ xpc' \in [Gens -> WaiterPoints] /\ verdict' \in [Gens -> Verdicts]
      BY <1>12, <2>1 DEF SpawnOk, WaiterPoints
    <2>3. ASSUME NEW g \in Gens PROVE verdict'[g] \in VerdictsAt(xpc'[g])
      <3>1. CASE g = starts'
        BY <1>12, <2>1, <3>1 DEF SpawnOk, VerdictsAt
      <3> QED
        BY <1>12, <2>1, <3>1 DEF SpawnOk
    <2>4. \A g \in Gens : g > starts' => child'[g] = "none" /\ xpc'[g] = "none"
      BY <1>12, <2>1 DEF SpawnOk, Gens
    <2> QED
      BY <1>0, <1>12, <2>1, <2>2, <2>3, <2>4 DEF SpawnOk, processVars, rowVars, WorkPoints, SetPoints
  <1>13. CASE SpawnFails
    <2>1. subprocess' \in 0..starts' /\ starts' = starts /\ wpc' \in WorkPoints
      BY <1>13, ProcessAssumption DEF SpawnFails, WorkPoints, SetPoints
    <2> QED
      BY <1>0, <1>13, <2>1 DEF SpawnFails, processVars, rowVars, waiterVars, WorkPoints, SetPoints
  <1>14. CASE Load
    BY <1>0, <1>14 DEF Load, processVars, rowVars, waiterVars, WorkPoints
  <1>15. CASE LoadFails
    BY <1>0, <1>15 DEF LoadFails, Cleanup, processVars, rowVars, waiterVars, WorkPoints
  <1> QED
    BY <1>1, <1>2, <1>3, <1>4, <1>5, <1>6, <1>7, <1>8, <1>9, <1>10, <1>11, <1>12,
       <1>13, <1>14, <1>15 DEF WorkStep, Work

\* A waiter of a child that was started goes on to another of its points, with a
\* verdict that fits it.
LEMMA WaiterMoves ==
  ASSUME RunnerTypeOK, NEW g \in Gens, NEW from \in WaiterPoints \ {"none"},
         NEW to \in WaiterPoints, WaiterAt(g, from, to),
         NEW v \in VerdictsAt(to), v \in Verdicts, verdict' = [verdict EXCEPT ![g] = v],
         UNCHANGED starts,
         child' \in [Gens -> {"none", "alive", "clean", "crash", "reaped"}],
         \A i \in Gens : child[i] = "none" => child'[i] = "none"
  PROVE  /\ xpc' \in [Gens -> WaiterPoints] /\ verdict' \in [Gens -> Verdicts]
         /\ \A i \in Gens : verdict'[i] \in VerdictsAt(xpc'[i])
         /\ \A i \in Gens : i > starts' => child'[i] = "none" /\ xpc'[i] = "none"
  <1>1. xpc' \in [Gens -> WaiterPoints] /\ xpc'[g] = to /\ g <= starts
        /\ \A i \in Gens \ {g} : xpc'[i] = xpc[i]
    BY ProcessAssumption DEF RunnerTypeOK, WaiterAt, Gens
  <1>2. verdict' \in [Gens -> Verdicts] /\ verdict'[g] = v
        /\ \A i \in Gens \ {g} : verdict'[i] = verdict[i]
    BY DEF RunnerTypeOK
  <1>3. \A i \in Gens : verdict[i] \in VerdictsAt(xpc[i])
    BY DEF RunnerTypeOK
  <1>4. ASSUME NEW i \in Gens, i > starts' PROVE child'[i] = "none" /\ xpc'[i] = "none"
    <2>1. child[i] = "none" /\ xpc[i] = "none"
      BY <1>4 DEF RunnerTypeOK
    <2> QED
      BY <2>1, <1>1 DEF WaiterAt
  <1> QED
    BY <1>1, <1>2, <1>3, <1>4

\* A step of a waiter keeps every variable in its type.
LEMMA WaiterTyped == ASSUME NEW g \in Gens PROVE TypeOK /\ WaiterStep(g) => TypeOK'
  <1> SUFFICES ASSUME TypeOK, WaiterStep(g) PROVE TypeOK'
    OBVIOUS
  <1>a. HandlersTypeOK'
    BY DEF TypeOK, HandlersTypeOK, WaiterStep, handlerVars
  <1>b. /\ RunnerTypeOK /\ ProcessTypeOK /\ verdict[g] \in Verdicts
        /\ verdict = [verdict EXCEPT ![g] = verdict[g]]
        /\ verdict[g] \in VerdictsAt(xpc[g])
        /\ child \in [Gens -> {"none", "alive", "clean", "crash", "reaped"}]
    BY DEF TypeOK, RunnerTypeOK
  <1> USE DEF WaiterPoints
  <1>1. CASE WaitReturns(g)
    <2>1. child' \in [Gens -> {"none", "alive", "clean", "crash", "reaped"}]
          /\ \A i \in Gens : child[i] = "none" => child'[i] = "none"
      BY <1>1, <1>b DEF WaitReturns
    <2>2. PICK how \in Outcomes : verdict' = [verdict EXCEPT ![g] = how]
      BY <1>1 DEF WaitReturns, Outcomes
    <2>3. how \in VerdictsAt("woke") /\ how \in Verdicts
      BY DEF VerdictsAt, Verdicts
    <2> QED
      BY <1>1, <1>a, <1>b, <2>1, <2>2, <2>3, WaiterMoves
      DEF WaitReturns, TypeOK, RunnerTypeOK, ProcessTypeOK, processVars, rowVars, workVars
  <1>2. CASE ChecksStopping(g)
    <2>1. /\ xpc' \in [Gens -> WaiterPoints] /\ verdict' \in [Gens -> Verdicts]
          /\ \A i \in Gens : verdict'[i] \in VerdictsAt(xpc'[i])
          /\ \A i \in Gens : i > starts' => child'[i] = "none" /\ xpc'[i] = "none"
      <3>1. CASE status = "STOPPING"
        <4>1. "none" \in VerdictsAt("done") /\ "none" \in Verdicts
          BY <3>1, <1>2, <1>b DEF ChecksStopping, WaiterAt, VerdictsAt, Verdicts, Outcomes, Ends
        <4> QED
          BY <3>1, <4>1, <1>2, <1>b, WaiterMoves DEF ChecksStopping, workVars
      <3>2. CASE ~(status = "STOPPING")
        <4>1. verdict[g] \in VerdictsAt("flag") /\ verdict[g] \in Verdicts
          BY <3>2, <1>2, <1>b DEF ChecksStopping, WaiterAt, VerdictsAt, Verdicts, Outcomes, Ends
        <4> QED
          BY <3>2, <4>1, <1>2, <1>b, WaiterMoves DEF ChecksStopping, workVars
      <3> QED
        BY <3>1, <3>2
    <2> QED
      BY <1>2, <1>a, <1>b, <2>1
      DEF ChecksStopping, TypeOK, RunnerTypeOK, ProcessTypeOK, processVars, rowVars, workVars
  <1>3. CASE ReadsFlag(g)
    <2> DEFINE v == IF stoppedByUser THEN "byUser" ELSE verdict[g]
    <2>1. v \in VerdictsAt("clear") /\ v \in Verdicts /\ verdict' = [verdict EXCEPT ![g] = v]
      BY <1>3, <1>b DEF ReadsFlag, WaiterAt, VerdictsAt, Verdicts
    <2> HIDE DEF v
    <2> QED
      BY <1>3, <1>a, <1>b, <2>1, WaiterMoves
      DEF ReadsFlag, TypeOK, RunnerTypeOK, ProcessTypeOK, processVars, rowVars, workVars
  <1>4. CASE ClearsFlag(g)
    <2>1. /\ xpc' \in [Gens -> WaiterPoints] /\ verdict' \in [Gens -> Verdicts]
          /\ \A i \in Gens : verdict'[i] \in VerdictsAt(xpc'[i])
          /\ \A i \in Gens : i > starts' => child'[i] = "none" /\ xpc'[i] = "none"
      <3>1. CASE verdict[g] \in {"byUser", "syscall"}
        <4>1. "STOPPED" \in VerdictsAt("update") /\ "STOPPED" \in Verdicts
          BY <3>1, <1>4, <1>b DEF ClearsFlag, WaiterAt, VerdictsAt, Verdicts, Outcomes, Ends
        <4> QED
          BY <3>1, <4>1, <1>4, <1>b, WaiterMoves DEF ClearsFlag, workVars
      <3>2. CASE ~(verdict[g] \in {"byUser", "syscall"})
        <4>1. verdict[g] \in VerdictsAt("budget") /\ verdict[g] \in Verdicts
          BY <3>2, <1>4, <1>b DEF ClearsFlag, WaiterAt, VerdictsAt, Verdicts, Outcomes, Ends
        <4> QED
          BY <3>2, <4>1, <1>4, <1>b, WaiterMoves DEF ClearsFlag, workVars
      <3> QED
        BY <3>1, <3>2
    <2> QED
      BY <1>4, <1>a, <1>b, <2>1
      DEF ClearsFlag, TypeOK, RunnerTypeOK, ProcessTypeOK, processVars, rowVars, workVars
  <1>5. CASE ChecksBudget(g)
    <2>1. PICK v \in Ends : verdict' = [verdict EXCEPT ![g] = v]
      BY <1>5 DEF ChecksBudget, RestartStatus, EndStatus, Ends, WillRestart
    <2>2. v \in VerdictsAt("update") /\ v \in Verdicts
      BY DEF VerdictsAt, Verdicts
    <2> QED
      BY <1>5, <1>a, <1>b, <2>1, <2>2, WaiterMoves
      DEF ChecksBudget, TypeOK, RunnerTypeOK, ProcessTypeOK, processVars, rowVars, workVars
  <1>6. CASE WaiterUpdatesRow(g)
    <2>1. verdict[g] \in VerdictsAt("assign") /\ verdict[g] \in Statuses
      BY <1>6, <1>b DEF WaiterUpdatesRow, WaiterAt, VerdictsAt, Ends, WillRestart, Statuses
    <2> QED
      BY <1>6, <1>a, <1>b, <2>1, WaiterMoves
      DEF WaiterUpdatesRow, UpdateRowStatus, TypeOK, RunnerTypeOK, ProcessTypeOK, workVars
  <1>7. CASE WaiterAssignsStatus(g)
    <2>1. verdict[g] \in VerdictsAt("event") /\ verdict[g] \in Statuses
      BY <1>7, <1>b DEF WaiterAssignsStatus, WaiterAt, VerdictsAt, Ends, WillRestart, Statuses
    <2> QED
      BY <1>7, <1>a, <1>b, <2>1, WaiterMoves
      DEF WaiterAssignsStatus, TypeOK, RunnerTypeOK, ProcessTypeOK, processVars, rowVars, workVars
  <1>8. CASE WaiterSetStatusFails(g)
    <2>1. verdict[g] \in VerdictsAt("event")
      BY <1>8, <1>b DEF WaiterSetStatusFails, WaiterAt, VerdictsAt
    <2> QED
      BY <1>8, <1>a, <1>b, <2>1, WaiterMoves
      DEF WaiterSetStatusFails, TypeOK, RunnerTypeOK, ProcessTypeOK, processVars, rowVars, workVars
  <1>9. CASE WaiterLogsEvent(g)
    <2>1. "none" \in VerdictsAt("done") /\ "none" \in Verdicts
      BY DEF VerdictsAt, Verdicts
    <2>2. recent' \in Nat
      BY <1>9, <1>b DEF WaiterLogsEvent, InsertCountedEvent, ProcessTypeOK
    <2> QED
      BY <1>9, <1>a, <1>b, <2>1, <2>2, WaiterMoves
      DEF WaiterLogsEvent, TypeOK, RunnerTypeOK, ProcessTypeOK, rowVars, workVars
  <1> QED
    BY <1>1, <1>2, <1>3, <1>4, <1>5, <1>6, <1>7, <1>8, <1>9 DEF WaiterStep, Waiter

\* A step of a handler keeps every variable in its type.
LEMMA HandlerTyped == ASSUME NEW h \in Handlers PROVE TypeOK /\ HandlerStep(h) => TypeOK'
  <1> SUFFICES ASSUME TypeOK, HandlerStep(h) PROVE TypeOK'
    OBVIOUS
  <1> USE ProcessAssumption DEF TypeOK, ProcessTypeOK, HandlersTypeOK, HandlerAt
  <1>0. RunnerTypeOK'
    BY DEF RunnerTypeOK, HandlerStep, runnerVars, workVars, waiterVars
  <1>1. ASSUME NEW s \in Requests, RequestSignal(h, s) PROVE TypeOK'
    BY <1>0, <1>1 DEF RequestSignal, processVars, rowVars
  <1>2. ASSUME NEW c \in Configs, RequestUpdate(h, c) PROVE TypeOK'
    BY <1>0, <1>2 DEF RequestUpdate, processVars, rowVars, Signals
  <1>3. CASE UpdateRow(h)
    BY <1>0, <1>3 DEF UpdateRow, Signals
  <1>4. CASE UpdateFails(h)
    BY <1>0, <1>4 DEF UpdateFails, Forget, processVars, rowVars
  <1>5. CASE Deliver(h)
    <2>1. signalIn' \in Seq(Signals) /\ Len(signalIn') <= SignalCap
      BY <1>5, SendTyped DEF Deliver
    <2> QED
      BY <1>0, <1>5, <2>1 DEF Deliver, Forget, rowVars
  <1>6. CASE Commit(h)
    BY <1>0, <1>6 DEF Commit, Forget
  <1>7. CASE Remove(h)
    BY <1>0, <1>7 DEF Remove
  <1> QED
    BY <1>1, <1>2, <1>3, <1>4, <1>5, <1>6, <1>7 DEF HandlerStep, Handle, Serve

\* Any step keeps every variable in its type.
LEMMA NextTyped == TypeOK /\ [Next]_vars => TypeOK'
  <1> SUFFICES ASSUME TypeOK, [Next]_vars PROVE TypeOK'
    OBVIOUS
  <1>1. CASE AddStep
    BY <1>1 DEF AddStep, AddCommits, TypeOK, ProcessTypeOK, RunnerTypeOK, HandlersTypeOK,
                runnerVars, workVars, waiterVars, handlerVars
  <1>2. ASSUME NEW g \in Gens, ChildExits(g), UNCHANGED handlerVars PROVE TypeOK'
    BY <1>2 DEF ChildExits, TypeOK, ProcessTypeOK, RunnerTypeOK, HandlersTypeOK,
                processVars, rowVars, workVars, waiterVars, handlerVars
  <1>3. CASE EventAges /\ UNCHANGED <<runnerVars, handlerVars>>
    BY <1>3 DEF EventAges, TypeOK, ProcessTypeOK, RunnerTypeOK, HandlersTypeOK,
                rowVars, runnerVars, workVars, waiterVars, handlerVars
  <1>4. CASE UNCHANGED vars
    BY <1>4 DEF vars, processVars, TypeOK, ProcessTypeOK, RunnerTypeOK, HandlersTypeOK,
                rowVars, runnerVars, workVars, waiterVars, handlerVars
  <1> QED
    BY <1>1, <1>2, <1>3, <1>4, WorkTyped, WaiterTyped, HandlerTyped DEF Next, WorldStep

\* Every reachable state is well typed: in particular SignalIn never holds more
\* than its two signals, and no waiter reaches SetStatus with anything but one of
\* the four statuses that "finish" sets.
THEOREM TypeCorrect == Spec => []TypeOK
  BY InitTyped, NextTyped, PTL DEF Spec

-----------------------------------------------------------------------------
(* The children.                                                            *)

\* Whatever is not a step of Work leaves Work's variables alone and starts no child.
LEMMA OthersSpareWork ==
  TypeOK /\ [Next]_vars => WorkStep \/ (UNCHANGED workVars /\ Live' \subseteq Live)
  <1> SUFFICES ASSUME TypeOK, [Next]_vars, ~WorkStep
               PROVE  UNCHANGED workVars /\ Live' \subseteq Live
    OBVIOUS
  <1>0. child \in [Gens -> {"none", "alive", "clean", "crash", "reaped"}]
    BY DEF TypeOK, RunnerTypeOK
  <1>1. CASE UNCHANGED runnerVars
    BY <1>1 DEF runnerVars, Live
  <1>2. ASSUME NEW g \in Gens, WaiterStep(g) PROVE UNCHANGED workVars /\ Live' \subseteq Live
    BY <1>0, <1>2 DEF WaiterStep, Waiter, WaitReturns, ChecksStopping, ReadsFlag, ClearsFlag,
       ChecksBudget, WaiterUpdatesRow, WaiterAssignsStatus, WaiterSetStatusFails,
       WaiterLogsEvent, Live
  <1>3. ASSUME NEW g \in Gens, ChildExits(g) PROVE UNCHANGED workVars /\ Live' \subseteq Live
    BY <1>0, <1>3 DEF ChildExits, Live
  <1> QED
    BY <1>1, <1>2, <1>3 DEF Next, WorldStep, HandlerStep, AddStep, vars

\* Under LiveIsSubprocess, Cleanup leaves no child alive.
LEMMA CleanupKills ==
  ASSUME TypeOK, LiveIsSubprocess, Cleanup
  PROVE  /\ Live' = {} /\ \A g \in Gens : child'[g] # "alive"
         /\ released' = released \cup ({subprocess} \ {0})
  BY DEF Cleanup, Live, LiveIsSubprocess

\* Only the child that Work remembers is alive, it is dead once Work has cleaned up,
\* and Work forgets a released child before it can clean up again.
LEMMA ChildrenStep == ChildrenInv /\ [Next]_vars => ChildrenInv'
  <1> SUFFICES ASSUME ChildrenInv, [Next]_vars PROVE ChildrenInv'
    OBVIOUS
  <1>a. TypeOK /\ TypeOK' /\ LiveIsSubprocess /\ KilledByNow /\ ReleasedForgotten
    BY NextTyped DEF ChildrenInv
  <1>b. /\ child \in [Gens -> {"none", "alive", "clean", "crash", "reaped"}]
        /\ starts \in Nat /\ subprocess \in 0..starts /\ released \subseteq 1..starts
    BY <1>a, ProcessAssumption DEF TypeOK, RunnerTypeOK
  <1> USE DEF LiveIsSubprocess, KilledByNow, ReleasedForgotten
  <1> SUFFICES LiveIsSubprocess' /\ KilledByNow' /\ ReleasedForgotten'
    BY <1>a DEF ChildrenInv
  <1>c. CASE UNCHANGED workVars /\ Live' \subseteq Live
    BY <1>a, <1>c DEF workVars, Live
  <1>1. CASE WorkUpdatesRow \/ WorkAssignsStatus \/ WorkSetStatusFails
    BY <1>a, <1>1 DEF WorkUpdatesRow, WorkAssignsStatus, WorkSetStatusFails, SetPoints, Then, Live
  <1>2. CASE Boot \/ Receive \/ SeesWillRestart \/ SelfSend
    BY <1>a, <1>2, ReceiveTyped DEF Boot, Receive, OnSignal, SeesWillRestart, SelfSend, Live,
       Signals, TypeOK, ProcessTypeOK
  <1>3. CASE StartKills \/ RestartKills \/ LoadFails
    BY <1>a, <1>3, CleanupKills DEF StartKills, RestartKills, LoadFails
  <1>4. CASE StopKills
    BY <1>a, <1>b, <1>4, CleanupKills DEF StopKills
  <1>5. CASE StopFlags
    BY <1>a, <1>5 DEF StopFlags, Live
  <1>6. CASE SpawnOk
    <2>1. \A g \in Gens : child[g] # "alive"
      BY <1>a, <1>6 DEF SpawnOk, Live
    <2>2. starts' \notin released /\ subprocess' = starts' /\ released' = released
      BY <1>b, <1>6 DEF SpawnOk
    <2>3. \A g \in Gens : child'[g] = "alive" => g = starts'
      BY <1>b, <1>6, <2>1 DEF SpawnOk
    <2> QED
      BY <1>6, <2>2, <2>3 DEF SpawnOk
  <1>7. CASE SpawnFails
    BY <1>a, <1>b, <1>7 DEF SpawnFails, Live
  <1>8. CASE Load
    BY <1>a, <1>8 DEF Load, Live
  <1> QED
    BY <1>a, <1>c, <1>1, <1>2, <1>3, <1>4, <1>5, <1>6, <1>7, <1>8, OthersSpareWork
    DEF WorkStep, Work

\* No child has been started in an initial state.
LEMMA ChildrenInit == Init => ChildrenInv
  BY InitTyped DEF Init, RunnerInit, ChildrenInv, LiveIsSubprocess, KilledByNow,
     ReleasedForgotten, Live

\* In every reachable state only the child that Work remembers may be alive, none is
\* once Work has cleaned up, and a released child is forgotten before the next Cleanup.
THEOREM ChildrenSafe == Spec => []ChildrenInv
  BY ChildrenInit, ChildrenStep, PTL DEF Spec

\* No child is cleaned up twice.
THEOREM CleansUpOnce == Spec => []CleanupOnce
  <1>1. ChildrenInv => CleanupOnce
    BY DEF ChildrenInv, ReleasedForgotten, CleanupOnce
  <1> QED
    BY <1>1, ChildrenSafe, PTL

\* Work starts a child only in SpawnOk, and does nothing once it has returned.
LEMMA WorkStarts ==
  ASSUME TypeOK, WorkStep
  PROVE  /\ wpc # "exited"
         /\ SpawnOk \/ (UNCHANGED starts /\ Live' \subseteq Live)
  <1>0. child \in [Gens -> {"none", "alive", "clean", "crash", "reaped"}]
    BY DEF TypeOK, RunnerTypeOK
  <1>1. CASE WorkUpdatesRow \/ WorkAssignsStatus \/ WorkSetStatusFails
    BY <1>1 DEF WorkUpdatesRow, WorkAssignsStatus, WorkSetStatusFails, SetPoints, Live
  <1>2. CASE Boot \/ Receive \/ SeesWillRestart \/ SelfSend \/ StopFlags \/ SpawnFails \/ Load
    BY <1>2 DEF Boot, Receive, SeesWillRestart, SelfSend, StopFlags, SpawnFails, Load, Live
  <1>3. CASE StartKills \/ RestartKills \/ StopKills \/ LoadFails
    BY <1>0, <1>3 DEF StartKills, RestartKills, StopKills, LoadFails, Cleanup, Live
  <1>4. CASE SpawnOk
    BY <1>4 DEF SpawnOk
  <1> QED
    BY <1>1, <1>2, <1>3, <1>4 DEF WorkStep, Work

\* A step of Procsman is a step of Supervisor or changes nothing that it sees.
LEMMA SupervisorStep ==
  ChildrenInv /\ ChildrenInv' /\ [Next]_vars
    => [Abstract!SupervisorNext]_<<Live, starts, wpc = "exited">>
  <1> SUFFICES ASSUME ChildrenInv, ChildrenInv', [Next]_vars
               PROVE  \/ Abstract!SupervisorNext
                      \/ UNCHANGED Live /\ UNCHANGED starts /\ UNCHANGED (wpc = "exited")
    OBVIOUS
  <1> USE DEF Abstract!SupervisorNext
  <1>0. TypeOK /\ LiveIsSubprocess /\ KilledByNow /\ KilledByNow'
    BY DEF ChildrenInv
  <1>1. CASE WorkStep /\ SpawnOk
    <2>1. Live = {} /\ wpc # "exited" /\ wpc' # "exited" /\ starts' = starts + 1
      BY <1>0, <1>1 DEF SpawnOk, KilledByNow
    <2>2. starts' \in Gens /\ child \in [Gens -> {"none", "alive", "clean", "crash", "reaped"}]
      BY <1>0, <1>1, ProcessAssumption DEF SpawnOk, Gens, TypeOK, RunnerTypeOK
    <2>3. Live' = {starts'}
      BY <2>1, <2>2, <1>1 DEF SpawnOk, Live
    <2> QED
      BY <2>1, <2>3 DEF Abstract!StartChild
  <1>2. ASSUME UNCHANGED starts, Live' \subseteq Live, UNCHANGED (wpc = "exited")
        PROVE  Abstract!ChildEnds \/ UNCHANGED Live
    BY <1>0, <1>2 DEF LiveIsSubprocess, Live, Abstract!ChildEnds
  <1>3. CASE WorkStep /\ ~SpawnOk /\ wpc' = "exited"
    BY <1>0, <1>3, WorkStarts DEF KilledByNow, Abstract!RunnerEnds
  <1>4. CASE WorkStep /\ ~SpawnOk /\ wpc' # "exited"
    BY <1>0, <1>2, <1>4, WorkStarts
  <1>5. CASE UNCHANGED workVars /\ Live' \subseteq Live
    BY <1>2, <1>5 DEF workVars
  <1> QED
    BY <1>0, <1>1, <1>3, <1>4, <1>5, OthersSpareWork

\* The runner implements Supervisor: it starts a child only when no other one is
\* alive, and once Work has returned no child is alive and none is started. This
\* holds with failing database calls, too.
THEOREM Supervision == Spec => SupervisesChildren
  <1>1. Init => Abstract!SupervisorInit
    BY DEF Init, RunnerInit, Live, Abstract!SupervisorInit
  <1>2. ChildrenInv /\ ChildrenInv' /\ [Next]_vars
          => [Abstract!SupervisorNext]_<<Live, starts, wpc = "exited">>
    BY SupervisorStep
  <1> QED
    BY <1>1, <1>2, ChildrenSafe, PTL DEF Spec, SupervisesChildren, Abstract!SupervisorSpec

-----------------------------------------------------------------------------
(* What stays behind when Work goes back to its channel.                    *)

\* Only SetStatus changes pr.status: Work's, or a waiter's with its verdict.
LEMMA OthersSetEnds ==
  ASSUME TypeOK, [Next]_vars, ~WorkStep
  PROVE  wpc' = wpc /\ (UNCHANGED status \/ status' \in Ends)
  <1>1. CASE UNCHANGED runnerVars
    BY <1>1 DEF runnerVars, workVars
  <1>2. ASSUME NEW g \in Gens, WaiterAssignsStatus(g) PROVE wpc' = wpc /\ status' \in Ends
    BY <1>2 DEF WaiterAssignsStatus, WaiterAt, workVars, TypeOK, RunnerTypeOK, VerdictsAt
  <1>3. ASSUME NEW g \in Gens, WaiterStep(g), ~WaiterAssignsStatus(g)
        PROVE wpc' = wpc /\ status' = status
    BY <1>3 DEF WaiterStep, Waiter, WaitReturns, ChecksStopping, ReadsFlag, ClearsFlag,
       ChecksBudget, WaiterUpdatesRow, WaiterSetStatusFails, WaiterLogsEvent, workVars
  <1>4. ASSUME NEW g \in Gens, ChildExits(g) PROVE wpc' = wpc /\ status' = status
    BY <1>4 DEF ChildExits, workVars
  <1> QED
    BY <1>1, <1>2, <1>3, <1>4 DEF Next, WorldStep, HandlerStep, AddStep, vars

\* While the database answers, Work reaches SettledPoints only after a SetStatus of
\* a status that is neither STARTING nor STOPPING.
LEMMA SettledStep == TypeOK /\ SettledStatus /\ [Next]_vars => SettledStatus'
  <1> SUFFICES ASSUME TypeOK, SettledStatus, [Next]_vars, ~DbMayFail, wpc' \in SettledPoints
               PROVE  status' \notin Transitional
    BY DEF SettledStatus
  <1> USE DEF SettledStatus, SettledPoints, Transitional
  <1>1. CASE ~WorkStep
    BY <1>1, OthersSetEnds DEF Ends, WillRestart
  <1>2. CASE WorkUpdatesRow \/ WorkAssignsStatus \/ WorkSetStatusFails
    BY <1>2 DEF WorkUpdatesRow, WorkAssignsStatus, WorkSetStatusFails, SetPoints, SetsAt, Then
  <1>3. CASE Boot \/ Receive \/ SeesWillRestart \/ SelfSend
    BY <1>3 DEF Boot, Receive, SeesWillRestart, SelfSend
  <1>4. CASE StartKills \/ RestartKills \/ SpawnOk \/ SpawnFails
    BY <1>4 DEF StartKills, RestartKills, SpawnOk, SpawnFails
  <1>5. CASE StopKills \/ StopFlags
    BY <1>5 DEF StopKills, StopFlags
  <1>6. CASE Load \/ LoadFails
    BY <1>6 DEF Load, LoadFails
  <1> QED
    BY <1>1, <1>2, <1>3, <1>4, <1>5, <1>6 DEF WorkStep, Work

\* While the database answers, no signal leaves the process STARTING or STOPPING:
\* each way through Work's loop ends with another status, a failed start included.
THEOREM SettlesWhenIdle == Spec => []IdleSettled
  <1>1. Init => SettledStatus
    BY DEF Init, RunnerInit, SettledStatus, SettledPoints
  <1>2. SettledStatus => IdleSettled
    BY DEF SettledStatus, SettledPoints, IdleSettled
  <1> QED
    BY <1>1, <1>2, SettledStep, TypeCorrect, PTL DEF Spec

-----------------------------------------------------------------------------
(* What is in the channel.                                                  *)

\* A step leaves the channel alone, receives from it or sends to it.
LEMMA ChannelStep ==
  ASSUME TypeOK, [Next]_vars
  PROVE  UNCHANGED signalIn \/ (WorkStep /\ Receive) \/ \E s \in Signals : Send(s)
  <1>1. CASE WorkStep
    BY <1>1 DEF WorkStep, Work, WorkUpdatesRow, WorkAssignsStatus, WorkSetStatusFails, Boot,
       SeesWillRestart, SelfSend, StartKills, RestartKills, StopKills, StopFlags, SpawnOk,
       SpawnFails, Load, LoadFails, processVars, Signals
  <1>2. ASSUME NEW g \in Gens, WaiterStep(g) PROVE UNCHANGED signalIn
    BY <1>2 DEF WaiterStep, Waiter, WaitReturns, ChecksStopping, ReadsFlag, ClearsFlag,
       ChecksBudget, WaiterUpdatesRow, WaiterAssignsStatus, WaiterSetStatusFails,
       WaiterLogsEvent, processVars
  <1>3. ASSUME NEW h \in Handlers, HandlerStep(h)
        PROVE  UNCHANGED signalIn \/ \E s \in Signals : Send(s)
    BY <1>3 DEF HandlerStep, Handle, Serve, RequestSignal, RequestUpdate, UpdateRow,
       UpdateFails, Deliver, Commit, Remove, HandlerAt, processVars, TypeOK, HandlersTypeOK
  <1>4. CASE AddStep \/ WorldStep \/ UNCHANGED vars
    BY <1>4 DEF AddStep, AddCommits, WorldStep, ChildExits, EventAges, vars, processVars
  <1> QED
    BY <1>1, <1>2, <1>3, <1>4 DEF Next

\* A signal in the channel stays there until Work receives it.
LEMMA ComingStays ==
  ASSUME TypeOK, [Next]_vars, NEW s \in Signals, Coming(s)
  PROVE  Coming(s)' \/ (WorkStep /\ Receive /\ Head(signalIn) = s)
  <1>1. PICK i \in 1..Len(signalIn) : signalIn[i] = s
    BY DEF Coming
  <1>2. signalIn \in Seq(Signals)
    BY DEF TypeOK, ProcessTypeOK
  <1>3. CASE UNCHANGED signalIn
    BY <1>1, <1>3 DEF Coming
  <1>4. CASE \E x \in Signals : Send(x)
    <2>1. PICK x \in Signals : signalIn' = Append(signalIn, x)
      BY <1>4 DEF Send
    <2>2. i \in 1..Len(signalIn') /\ signalIn'[i] = s
      BY <1>1, <1>2, <2>1
    <2> QED
      BY <2>2 DEF Coming
  <1>5. CASE WorkStep /\ Receive /\ i # 1
    <2>1. signalIn' = Tail(signalIn)
      BY <1>5 DEF Receive
    <2>2. i - 1 \in 1..Len(signalIn') /\ signalIn'[i - 1] = s
      BY <1>1, <1>2, <1>5, <2>1
    <2> QED
      BY <2>2 DEF Coming
  <1>6. CASE WorkStep /\ Receive /\ i = 1
    BY <1>1, <1>2, <1>6
  <1> QED
    BY <1>3, <1>4, <1>5, <1>6, ChannelStep

\* A signal that is sent is in the channel.
LEMMA SentComes ==
  ASSUME TypeOK, NEW s \in Signals, Send(s)
  PROVE  Coming(s)'
  <1>1. Len(signalIn') \in 1..Len(signalIn') /\ signalIn'[Len(signalIn')] = s
    BY DEF Send, TypeOK, ProcessTypeOK
  <1> QED
    BY <1>1 DEF Coming

\* Once Deleted is in the channel, Work receives it or has returned, for good.
LEMMA ToldStays == TypeOK /\ Told /\ [Next]_vars => Told'
  <1> SUFFICES ASSUME TypeOK, Told, [Next]_vars, ~Coming("Deleted")' PROVE Told'
    BY DEF Told
  <1>1. CASE Coming("Deleted")
    <2>1. Receive /\ Head(signalIn) = "Deleted"
      BY <1>1, ComingStays DEF Signals
    <2> QED
      BY <2>1 DEF Receive, OnSignal, Told
  <1>2. CASE wpc \in {"delKill", "delFlag", "exited"} /\ WorkStep
    BY <1>2 DEF Told, WorkStep, Work, WorkUpdatesRow, WorkAssignsStatus, WorkSetStatusFails,
       Boot, Receive, SeesWillRestart, SelfSend, StartKills, RestartKills, StopKills, StopFlags,
       SpawnOk, SpawnFails, Load, LoadFails, SetPoints
  <1>3. CASE wpc \in {"delKill", "delFlag", "exited"} /\ ~WorkStep
    BY <1>3, OthersSetEnds DEF Told
  <1> QED
    BY <1>1, <1>2, <1>3 DEF Told

\* While the database answers, a row is deleted only after its runner was told.
LEMMA ToldStep == TypeOK /\ ToldBeforeGone /\ [Next]_vars => ToldBeforeGone'
  <1> SUFFICES ASSUME TypeOK, ToldBeforeGone, [Next]_vars, ~DbMayFail,
                      rowState' = "gone" \/ \E h \in Handlers : hpc'[h] = "remove"
               PROVE  Told'
    BY DEF ToldBeforeGone
  <1> USE DEF ToldBeforeGone
  <1>0. hpc \in [Handlers -> {"idle", "send", "remove", "update", "commit"}]
    BY DEF TypeOK, HandlersTypeOK
  <1>1. CASE Told
    BY <1>1, ToldStays
  <1>2. CASE UNCHANGED <<rowState, hpc>>
    BY <1>1, <1>2
  <1>3. CASE AddStep
    BY <1>1, <1>3 DEF AddStep, AddCommits, handlerVars
  <1>4. ASSUME NEW h \in Handlers, HandlerStep(h), ~Told PROVE Told'
    <2>1. CASE Deliver(h)
      <3>1. CASE hsignal[h] = "Deleted"
        BY <2>1, <3>1, SentComes DEF Deliver, Told, Signals
      <3>2. CASE hsignal[h] # "Deleted"
        BY <1>0, <1>4, <2>1, <3>2 DEF Deliver, HandlerAt, rowVars
      <3> QED
        BY <3>1, <3>2
    <2>2. CASE Remove(h)
      BY <1>4, <2>2 DEF Remove, HandlerAt
    <2>3. CASE UpdateRow(h) \/ UpdateFails(h) \/ Commit(h)
      BY <1>0, <1>4, <2>3 DEF UpdateRow, UpdateFails, Commit, HandlerAt, processVars, rowVars
    <2>4. ASSUME \/ \E s \in Requests : RequestSignal(h, s)
                 \/ \E c \in Configs : RequestUpdate(h, c)
          PROVE  Told'
      BY <1>0, <1>4, <2>4 DEF RequestSignal, RequestUpdate, HandlerAt, processVars, rowVars
    <2> QED
      BY <1>4, <2>1, <2>2, <2>3, <2>4 DEF HandlerStep, Handle, Serve
  <1>5. CASE WorkStep
    <2>1. UNCHANGED rowState
      BY <1>5 DEF WorkStep, Work, WorkUpdatesRow, UpdateRowStatus, WorkAssignsStatus,
         WorkSetStatusFails, Boot, Receive, SeesWillRestart, SelfSend, StartKills,
         RestartKills, StopKills, StopFlags, SpawnOk, SpawnFails, Load, LoadFails,
         processVars, rowVars
    <2> QED
      BY <1>2, <1>5, <2>1 DEF WorkStep, handlerVars
  <1>6. ASSUME NEW g \in Gens, WaiterStep(g) PROVE UNCHANGED <<rowState, hpc>>
    BY <1>6 DEF WaiterStep, Waiter, WaitReturns, ChecksStopping, ReadsFlag, ClearsFlag,
       ChecksBudget, WaiterUpdatesRow, UpdateRowStatus, WaiterAssignsStatus,
       WaiterSetStatusFails, WaiterLogsEvent, processVars, rowVars, handlerVars
  <1>7. CASE WorldStep \/ UNCHANGED vars
    BY <1>2, <1>7 DEF WorldStep, ChildExits, EventAges, vars, processVars, rowVars, handlerVars
  <1> QED
    BY <1>1, <1>2, <1>3, <1>4, <1>5, <1>6, <1>7 DEF Next

\* While the database answers, a runner whose row is gone has returned, is returning
\* or will receive Deleted: none goes on restarting a process that was deleted.
THEOREM RunnersFollowRows == Spec => []NoOrphanRunner
  <1>1. Init => ToldBeforeGone
    BY ProcessAssumption DEF Init, ProcessInit, HandlersInit, ToldBeforeGone
  <1>2. ToldBeforeGone => NoOrphanRunner
    BY DEF ToldBeforeGone, NoOrphanRunner
  <1> QED
    BY <1>1, <1>2, ToldStep, TypeCorrect, PTL DEF Spec

-----------------------------------------------------------------------------
(* The flag stoppedByUser.                                                  *)

\* Only Work sets stoppedByUser; a waiter only clears it.
LEMMA OthersClearFlag ==
  ASSUME [Next]_vars, ~WorkStep, stoppedByUser'
  PROVE  stoppedByUser
  <1>1. CASE UNCHANGED runnerVars
    BY <1>1 DEF runnerVars
  <1>2. ASSUME NEW g \in Gens, WaiterStep(g) PROVE stoppedByUser
    BY <1>2 DEF WaiterStep, Waiter, WaitReturns, ChecksStopping, ReadsFlag, ClearsFlag,
       ChecksBudget, WaiterUpdatesRow, WaiterAssignsStatus, WaiterSetStatusFails,
       WaiterLogsEvent
  <1>3. ASSUME NEW g \in Gens, ChildExits(g) PROVE stoppedByUser
    BY <1>3 DEF ChildExits
  <1> QED
    BY <1>1, <1>2, <1>3 DEF Next, WorldStep, HandlerStep, AddStep, vars

\* Where stoppedByUser is set of a live child of an enabled process, Work is about
\* to restart it, or a Restart is in its channel.
LEMMA FlagStep ==
  ChildrenInv /\ FlagMeansRestart /\ [Next]_vars => FlagMeansRestart'
  <1> SUFFICES ASSUME ChildrenInv, FlagMeansRestart, [Next]_vars,
                      stoppedByUser', Live' # {}, config'.enabled,
                      wpc' \notin {"load", "selfSend", "rStopping", "rKill"}
               PROVE  Coming("Restart")'
    BY DEF FlagMeansRestart
  <1> USE DEF FlagMeansRestart
  <1>0. TypeOK /\ LiveIsSubprocess /\ KilledByNow
    BY DEF ChildrenInv
  <1>1. CASE Coming("Restart") /\ ~Receive
    BY <1>0, <1>1, ComingStays DEF Signals
  <1>2. CASE ~WorkStep
    <2>1. wpc' = wpc /\ config' = config /\ Live' \subseteq Live /\ stoppedByUser
      BY <1>0, <1>2, OthersSpareWork, OthersClearFlag DEF workVars
    <2> QED
      BY <1>0, <1>2, <2>1, ComingStays DEF Signals
  <1>3. CASE WorkUpdatesRow \/ WorkAssignsStatus \/ WorkSetStatusFails
    <2>1. wpc \in SetPoints /\ wpc' \in {wpc, Then[wpc]}
          /\ UNCHANGED <<stoppedByUser, child, config>>
      BY <1>3 DEF WorkUpdatesRow, WorkAssignsStatus, WorkSetStatusFails
    <2>2. wpc \notin {"load", "selfSend", "rStopping", "rKill"}
      BY <2>1 DEF SetPoints, Then
    <2>3. ~Receive
      BY <2>1 DEF Receive, SetPoints
    <2> QED
      BY <1>1, <2>1, <2>2, <2>3 DEF Live
  <1>4. CASE Boot \/ SeesWillRestart
    BY <1>1, <1>4 DEF Boot, SeesWillRestart, Receive, Live
  <1>5. CASE Receive
    <2>1. Head(signalIn) \in Signals \ {"Restart", "Refresh"}
      BY <1>0, <1>5, ReceiveTyped DEF Receive, OnSignal, TypeOK, ProcessTypeOK, Signals
    <2>2. stoppedByUser /\ Live' = Live /\ config' = config /\ wpc = "select"
      BY <1>5, <2>1 DEF Receive, Live
    <2> QED
      BY <1>0, <1>5, <2>1, <2>2, ComingStays DEF Signals
  <1>6. CASE SelfSend
    BY <1>0, <1>6, SentComes DEF SelfSend, Signals
  <1>7. CASE StartKills \/ RestartKills \/ StopKills \/ LoadFails
    BY <1>0, <1>7, CleanupKills DEF StartKills, RestartKills, StopKills, LoadFails
  <1>8. CASE StopFlags
    BY <1>0, <1>8 DEF StopFlags, KilledByNow, Live
  <1>9. CASE SpawnOk \/ SpawnFails
    BY <1>9 DEF SpawnOk, SpawnFails
  <1>10. CASE Load
    BY <1>10 DEF Load
  <1> QED
    BY <1>2, <1>3, <1>4, <1>5, <1>6, <1>7, <1>8, <1>9, <1>10 DEF WorkStep, Work

\* A crash of a child of an enabled process is not taken for a stop by the user:
\* stoppedByUser is set of a live child only while a Restart is on its way, with
\* failing database calls, too.
THEOREM CrashesAreSeen == Spec => []CrashNotSwallowed
  <1>1. Init => FlagMeansRestart
    BY DEF Init, RunnerInit, FlagMeansRestart
  <1>2. FlagMeansRestart => CrashNotSwallowed
    BY DEF FlagMeansRestart, CrashNotSwallowed
  <1> QED
    BY <1>1, <1>2, FlagStep, ChildrenSafe, PTL DEF Spec
-----------------------------------------------------------------------------
(* A runner to which nobody sends a signal but itself: no handlers, and a   *)
(* database that answers.  It is a client's Restart that makes these        *)
(* properties false (run stale), so the theorems say where the trouble      *)
(* comes from.                                                              *)

\* The points that Work passes without Stop, Deleted and Refresh.
Boots == {"boot", "unknown"}
Restarts == {"starting", "startKill", "spawn", "failed", "selfSend", "rStopping", "rKill",
             "rStarting"}
AutoPoints == Boots \cup Restarts \cup {"select", "running"}

\* The waiter of every child that was started has written its verdict.
Past(g) == xpc[g] \in {"event", "done"}
AllPast == \A g \in Gens : g <= starts => Past(g)

\* The channel holds one signal at most, and only while Work can receive it.
OneSignal == /\ signalIn \in {<<>>, <<"Start">>, <<"Restart">>}
             /\ wpc \notin {"unknown", "select"} => signalIn = <<>>

\* A waiter that has woken has reaped its child.
WokenReaped == \A g \in Gens : xpc[g] \notin {"none", "wait"} => child[g] = "reaped"

\* Only the last child's waiter can still be about to decide, and not even that one
\* while a restart is ordered or carried out.
DecidedBefore ==
  /\ wpc \in Boots => starts = 0
  /\ \A g \in Gens : g < starts => Past(g)
  /\ wpc \in Restarts \/ signalIn # <<>> => AllPast

\* What the status tells while nobody interferes.
StatusTells ==
  /\ wpc \notin Boots /\ status \in WillRestart => AllPast
  /\ wpc \notin Boots /\ status \in Ends => Live = {}
  /\ wpc \in {"startKill", "spawn"} => status = "STARTING"

\* The inductive invariant.
AutoInv == /\ TypeOK /\ wpc \in AutoPoints /\ OneSignal /\ WokenReaped
           /\ DecidedBefore /\ StatusTells

-----------------------------------------------------------------------------

\* When all waiters have written their verdicts no child is alive.
LEMMA NobodyLeft == ASSUME TypeOK, WokenReaped, AllPast PROVE Live = {}
  <1> SUFFICES ASSUME NEW g \in Gens PROVE child[g] # "alive"
    BY DEF Live
  <1>1. CASE g > starts
    BY <1>1 DEF TypeOK, RunnerTypeOK
  <1>2. CASE g <= starts
    BY <1>2 DEF WokenReaped, AllPast, Past
  <1>3. g \in Int /\ starts \in Int
    BY ProcessAssumption DEF Gens, TypeOK, RunnerTypeOK
  <1> QED
    BY <1>1, <1>2, <1>3

\* The initial states satisfy the invariant.
LEMMA AutoInit == Init => AutoInv
  <1> SUFFICES ASSUME Init PROVE AutoInv
    OBVIOUS
  <1>1. /\ wpc = "boot" /\ starts = 0 /\ signalIn = <<>>
        /\ \A g \in Gens : xpc[g] = "none" /\ child[g] = "none"
    BY DEF Init, RunnerInit, ProcessInit
  <1>2. TypeOK
    BY InitTyped
  <1>3. OneSignal /\ WokenReaped
    BY <1>1 DEF OneSignal, WokenReaped
  <1>4. DecidedBefore
    BY <1>1 DEF DecidedBefore, Restarts, Gens
  <1>5. wpc \in AutoPoints /\ StatusTells
    BY <1>1 DEF AutoPoints, StatusTells, Boots
  <1> QED
    BY <1>2, <1>3, <1>4, <1>5 DEF AutoInv

\* Killing and setting the status do not disturb what the waiters have done.
LEMMA AutoKept ==
  ASSUME AutoInv, TypeOK', UNCHANGED <<signalIn, starts, xpc>>, wpc' \in AutoPoints,
         wpc' \in Boots => wpc \in Boots,
         wpc' \in Restarts => wpc \in Restarts \/ AllPast,
         wpc' \notin {"unknown", "select"} => signalIn = <<>>,
         Live' \subseteq Live,
         \A g \in Gens : child[g] = "reaped" => child'[g] = "reaped",
         status' \in Ends => status' = status \/ AllPast,
         wpc \in Boots /\ wpc' \notin Boots => status' \notin Ends,
         wpc' \in {"startKill", "spawn"} => status' = "STARTING"
  PROVE  AutoInv'
  <1>1. OneSignal' /\ WokenReaped'
    BY DEF AutoInv, OneSignal, WokenReaped
  <1>2. AllPast' <=> AllPast
    BY DEF AllPast, Past
  <1>3. DecidedBefore'
    BY <1>2 DEF AutoInv, DecidedBefore, Past
  <1>4. AllPast => Live = {}
    BY NobodyLeft DEF AutoInv
  <1>5. StatusTells'
    BY <1>2, <1>4 DEF AutoInv, StatusTells, Ends
  <1> QED
    BY <1>1, <1>3, <1>5 DEF AutoInv

\* The steps of Work, while the database answers and the process is not deleted.
LEMMA AutoWork == AutoInv /\ ~DbMayFail /\ WorkStep => AutoInv'
  <1> SUFFICES ASSUME AutoInv, ~DbMayFail, WorkStep PROVE AutoInv'
    OBVIOUS
  <1>0. /\ TypeOK /\ TypeOK' /\ wpc \in AutoPoints /\ OneSignal /\ WokenReaped
        /\ DecidedBefore /\ StatusTells
    BY WorkTyped DEF AutoInv
  <1>1. CASE WorkUpdatesRow
    BY <1>0, <1>1, AutoKept
       DEF WorkUpdatesRow, waiterVars, OneSignal, StatusTells, Live
  <1>2. CASE WorkAssignsStatus
    <2>1. /\ UNCHANGED <<signalIn, starts, xpc, child>>
          /\ wpc \in {"unknown", "starting", "running", "failed", "rStopping", "rStarting"}
          /\ status' = SetsAt[wpc] /\ wpc' = Then[wpc]
      BY <1>0, <1>2 DEF WorkAssignsStatus, processVars, waiterVars, SetPoints, AutoPoints,
                        Boots, Restarts
    <2>2. /\ wpc' \in {"select", "startKill", "rKill", "spawn"}
          /\ wpc' # "select" => wpc \in Restarts
          /\ wpc' \in {"startKill", "spawn"} => status' = "STARTING"
          /\ status' \in Ends => wpc = "failed"
      BY <2>1 DEF SetsAt, Then, Restarts, Ends, WillRestart
    <2>3. wpc \in Restarts => AllPast
      BY <1>0 DEF DecidedBefore
    <2> QED
      BY <1>0, <2>1, <2>2, <2>3, AutoKept DEF AutoPoints, Boots, Restarts, OneSignal, Live
  <1>3. CASE Boot
    <2>1. /\ wpc = "boot" /\ wpc' = "unknown" /\ UNCHANGED <<starts, xpc, child, status>>
          /\ starts = 0 /\ signalIn = <<>>
      BY <1>0, <1>3 DEF Boot, waiterVars, DecidedBefore, Boots, OneSignal
    <2>2. signalIn' \in {<<>>, <<"Start">>}
      BY <1>3, <2>1 DEF Boot, Send
    <2>3. OneSignal' /\ WokenReaped' /\ StatusTells'
      BY <1>0, <2>1, <2>2 DEF OneSignal, WokenReaped, StatusTells, Boots
    <2>4. DecidedBefore' /\ wpc' \in AutoPoints
      BY <2>1 DEF DecidedBefore, AllPast, Restarts, AutoPoints, Boots, Gens
    <2> QED
      BY <1>0, <2>3, <2>4 DEF AutoInv
  <1>4. CASE Receive
    <2>0. /\ signalIn \in {<<"Start">>, <<"Restart">>}
          /\ Head(signalIn) \in {"Start", "Restart"} /\ Tail(signalIn) = <<>>
      BY <1>0, <1>4 DEF Receive, OneSignal
    <2>1. /\ wpc = "select" /\ signalIn # <<>> /\ signalIn' = <<>>
          /\ UNCHANGED <<starts, xpc, child, status>>
          /\ wpc' \in {"select", "starting", "rStopping"}
      BY <2>0, <1>4 DEF Receive, OnSignal, waiterVars
    <2>2. AllPast
      BY <1>0, <2>1 DEF DecidedBefore
    <2>3. OneSignal' /\ WokenReaped'
      BY <1>0, <2>1 DEF OneSignal, WokenReaped
    <2>4. DecidedBefore' /\ wpc' \in AutoPoints
      BY <1>0, <2>1, <2>2 DEF DecidedBefore, AllPast, Past, Restarts, AutoPoints, Boots
    <2>5. StatusTells'
      BY <1>0, <2>1, <2>2 DEF StatusTells, AllPast, Past, Boots, Live
    <2> QED
      BY <1>0, <2>3, <2>4, <2>5 DEF AutoInv
  <1>5. CASE SeesWillRestart
    <2>1. /\ wpc = "select" /\ wpc' = "selfSend" /\ status \in WillRestart /\ signalIn = <<>>
          /\ UNCHANGED <<signalIn, starts, xpc, child, status>>
      BY <1>5 DEF SeesWillRestart, processVars, waiterVars
    <2>2. AllPast
      BY <1>0, <2>1 DEF StatusTells, Boots
    <2> QED
      BY <1>0, <2>1, <2>2, AutoKept DEF AutoPoints, Boots, Restarts, Live
  <1>6. CASE SelfSend
    <2>1. /\ wpc = "selfSend" /\ wpc' = "select" /\ UNCHANGED <<starts, xpc, child, status>>
          /\ signalIn = <<>>
      BY <1>0, <1>6 DEF SelfSend, waiterVars, OneSignal
    <2>2. signalIn' = <<"Restart">> /\ AllPast
      BY <1>0, <1>6, <2>1 DEF SelfSend, Send, DecidedBefore, Restarts
    <2>3. OneSignal' /\ WokenReaped' /\ DecidedBefore'
      BY <1>0, <2>1, <2>2 DEF OneSignal, WokenReaped, DecidedBefore, AllPast, Past, Restarts, Boots
    <2>4. StatusTells' /\ wpc' \in AutoPoints
      BY <1>0, <2>1, <2>2 DEF StatusTells, AllPast, Past, Boots, Live, AutoPoints
    <2> QED
      BY <1>0, <2>3, <2>4 DEF AutoInv
  <1>7. ASSUME StartKills \/ RestartKills PROVE AutoInv'
    <2>1. /\ wpc \in {"startKill", "rKill"} /\ wpc' = IF wpc = "startKill" THEN "spawn" ELSE "rStarting"
          /\ UNCHANGED <<signalIn, starts, xpc, status>> /\ Cleanup
      BY <1>7 DEF StartKills, RestartKills, processVars, waiterVars
    <2>2. Live' \subseteq Live /\ \A g \in Gens : child[g] = "reaped" => child'[g] = "reaped"
      BY <2>1 DEF Cleanup, Live
    <2>3. wpc' = "spawn" => status' = "STARTING"
      BY <1>0, <2>1 DEF StatusTells
    <2> QED
      BY <1>0, <2>1, <2>2, <2>3, AutoKept DEF AutoPoints, Boots, Restarts, OneSignal
  <1>8. CASE SpawnOk
    <2>1. /\ wpc = "spawn" /\ wpc' = "running" /\ starts' = starts + 1 /\ signalIn' = signalIn
          /\ status' = status /\ starts' \in Gens /\ starts \in Nat
          /\ child' = [child EXCEPT ![starts'] = "alive"]
          /\ xpc' = [xpc EXCEPT ![starts'] = "wait"]
      BY <1>0, <1>8, ProcessAssumption DEF SpawnOk, processVars, Gens, TypeOK, RunnerTypeOK
    <2>2. AllPast /\ signalIn = <<>> /\ status = "STARTING"
      BY <1>0, <2>1 DEF DecidedBefore, OneSignal, StatusTells, Restarts
    <2>3. /\ xpc'[starts'] = "wait"
          /\ \A g \in Gens \ {starts'} : xpc'[g] = xpc[g] /\ child'[g] = child[g]
      BY <1>0, <2>1 DEF TypeOK, RunnerTypeOK
    <2>4. OneSignal' /\ WokenReaped'
      BY <1>0, <2>1, <2>2, <2>3 DEF OneSignal, WokenReaped
    <2>5. DecidedBefore' /\ wpc' \in AutoPoints
      BY <2>1, <2>2, <2>3 DEF DecidedBefore, AllPast, Past, Restarts, Boots, AutoPoints, Gens
    <2>6. StatusTells'
      BY <2>1, <2>2 DEF StatusTells, WillRestart, Ends
    <2> QED
      BY <1>0, <2>4, <2>5, <2>6 DEF AutoInv
  <1>9. CASE SpawnFails
    BY <1>0, <1>9, AutoKept
       DEF SpawnFails, processVars, waiterVars, AutoPoints, Boots, Restarts, OneSignal,
           StatusTells, Live
  <1>10. ~(WorkSetStatusFails \/ StopKills \/ StopFlags \/ Load \/ LoadFails)
    BY <1>0 DEF WorkSetStatusFails, StopKills, StopFlags, Load, LoadFails, AutoPoints, Boots,
                Restarts
  <1> QED
    BY <1>1, <1>2, <1>3, <1>4, <1>5, <1>6, <1>7, <1>8, <1>9, <1>10 DEF WorkStep, Work

\* A step of a waiter: it has woken, and the status it writes is an end.
LEMMA AutoWaits ==
  ASSUME AutoInv, TypeOK', NEW g \in Gens, NEW from \in WaiterPoints \ {"none"},
         NEW to \in WaiterPoints \ {"none", "wait"}, WaiterAt(g, from, to),
         from \in {"event", "done"} => to = "done",
         UNCHANGED <<wpc, starts, signalIn>>,
         child'[g] = "reaped", \A i \in Gens \ {g} : child'[i] = child[i],
         status' = status \/ (status' \in Ends /\ from = "assign" /\ to = "event")
  PROVE  AutoInv'
  <1>0. /\ TypeOK /\ wpc \in AutoPoints /\ OneSignal /\ WokenReaped
        /\ DecidedBefore /\ StatusTells
    BY DEF AutoInv
  <1>1. /\ xpc[g] = from /\ xpc'[g] = to /\ \A i \in Gens \ {g} : xpc'[i] = xpc[i]
    BY <1>0 DEF WaiterAt, TypeOK, RunnerTypeOK
  <1>2. /\ starts \in Int /\ \A i \in Gens : i \in Int
        /\ \A i \in Gens : i > starts => child[i] = "none" /\ xpc[i] = "none"
    BY <1>0, ProcessAssumption DEF Gens, TypeOK, RunnerTypeOK
  <1>3. g <= starts /\ wpc \notin Boots
    BY <1>0, <1>1, <1>2 DEF DecidedBefore, Gens
  <1>4. \A i \in Gens : Past(i) => Past(i)'
    BY <1>1 DEF Past
  <1>5. OneSignal' /\ WokenReaped'
    BY <1>0, <1>1 DEF OneSignal, WokenReaped
  <1>6. DecidedBefore'
    BY <1>0, <1>3, <1>4 DEF DecidedBefore, AllPast
  <1>7. Live' \subseteq Live
    BY DEF Live
  <1>8. CASE status' = status
    <2>1. StatusTells'
      BY <1>0, <1>4, <1>7, <1>8 DEF StatusTells, AllPast
    <2> QED
      BY <1>0, <1>5, <1>6, <2>1 DEF AutoInv
  <1>9. CASE status' \in Ends /\ from = "assign" /\ to = "event"
    <2>1. ~Past(g) /\ Past(g)'
      BY <1>1, <1>9 DEF Past
    <2>2. wpc \notin Restarts
      BY <1>0, <1>3, <2>1 DEF DecidedBefore, AllPast
    <2>3. g = starts
      BY <1>0, <1>2, <1>3, <2>1 DEF DecidedBefore
    <2>4. AllPast'
      <3> SUFFICES ASSUME NEW i \in Gens, i <= starts PROVE Past(i)'
        BY DEF AllPast
      <3>1. i = g \/ i < starts
        BY <1>2, <2>3
      <3> QED
        BY <3>1, <2>1, <1>0, <1>4 DEF DecidedBefore
    <2>5. ASSUME NEW i \in Gens PROVE child'[i] # "alive"
      <3>1. i = g \/ i < starts \/ i > starts
        BY <1>2, <2>3
      <3>2. CASE i = g
        BY <3>2
      <3>3. CASE i < starts /\ i # g
        BY <3>3, <1>0 DEF DecidedBefore, Past, WokenReaped
      <3>4. CASE i > starts /\ i # g
        BY <3>4, <1>2
      <3> QED
        BY <3>1, <3>2, <3>3, <3>4
    <2>6. StatusTells'
      BY <1>3, <2>2, <2>4, <2>5 DEF StatusTells, Live, Restarts
    <2> QED
      BY <1>0, <1>5, <1>6, <2>6 DEF AutoInv
  <1> QED
    BY <1>8, <1>9

\* The steps of the waiters.
LEMMA AutoWaiter ==
  ASSUME NEW g \in Gens PROVE AutoInv /\ ~DbMayFail /\ WaiterStep(g) => AutoInv'
  <1> SUFFICES ASSUME AutoInv, ~DbMayFail, WaiterStep(g) PROVE AutoInv'
    OBVIOUS
  <1>0. TypeOK /\ TypeOK' /\ WokenReaped
    BY WaiterTyped DEF AutoInv
  <1>a. child \in [Gens -> {"none", "alive", "clean", "crash", "reaped"}]
    BY <1>0 DEF TypeOK, RunnerTypeOK
  <1> USE DEF WaiterPoints
  <1>1. CASE WaitReturns(g)
    <2>1. /\ WaiterAt(g, "wait", "woke") /\ UNCHANGED <<wpc, starts, signalIn, status>>
          /\ child' = [child EXCEPT ![g] = "reaped"]
      BY <1>1 DEF WaitReturns, processVars, workVars
    <2>2. child'[g] = "reaped" /\ \A i \in Gens \ {g} : child'[i] = child[i]
      BY <1>a, <2>1
    <2> QED
      BY <1>0, <2>1, <2>2, AutoWaits
  <1>2. CASE ChecksStopping(g)
    BY <1>0, <1>2, AutoWaits DEF ChecksStopping, WaiterAt, processVars, workVars, WokenReaped
  <1>3. CASE ReadsFlag(g)
    BY <1>0, <1>3, AutoWaits DEF ReadsFlag, WaiterAt, processVars, workVars, WokenReaped
  <1>4. CASE ClearsFlag(g)
    BY <1>0, <1>4, AutoWaits DEF ClearsFlag, WaiterAt, processVars, workVars, WokenReaped
  <1>5. CASE ChecksBudget(g)
    BY <1>0, <1>5, AutoWaits DEF ChecksBudget, WaiterAt, processVars, workVars, WokenReaped
  <1>6. CASE WaiterUpdatesRow(g)
    BY <1>0, <1>6, AutoWaits DEF WaiterUpdatesRow, WaiterAt, workVars, WokenReaped
  <1>7. CASE WaiterAssignsStatus(g)
    <2>1. verdict[g] \in Ends
      BY <1>0, <1>7 DEF WaiterAssignsStatus, WaiterAt, TypeOK, RunnerTypeOK, VerdictsAt
    <2> QED
      BY <1>0, <1>7, <2>1, AutoWaits
         DEF WaiterAssignsStatus, WaiterAt, processVars, workVars, WokenReaped
  <1>8. CASE WaiterLogsEvent(g)
    BY <1>0, <1>8, AutoWaits DEF WaiterLogsEvent, WaiterAt, workVars, WokenReaped
  <1>9. ~WaiterSetStatusFails(g)
    BY DEF WaiterSetStatusFails
  <1> QED
    BY <1>1, <1>2, <1>3, <1>4, <1>5, <1>6, <1>7, <1>8, <1>9 DEF WaiterStep, Waiter

\* Every step preserves the invariant when there are no handlers.
LEMMA AutoStep == ASSUME Handlers = {}, ~DbMayFail PROVE AutoInv /\ [Next]_vars => AutoInv'
  <1> SUFFICES ASSUME AutoInv, [Next]_vars PROVE AutoInv'
    OBVIOUS
  <1>0. /\ TypeOK' /\ wpc \in AutoPoints /\ OneSignal /\ StatusTells /\ TypeOK
    BY NextTyped DEF AutoInv
  <1>1. CASE WorkStep
    BY <1>1, AutoWork
  <1>2. ASSUME NEW g \in Gens, WaiterStep(g) PROVE AutoInv'
    BY <1>2, AutoWaiter
  <1>3. ASSUME UNCHANGED <<signalIn, starts, xpc, wpc, status>>, Live' \subseteq Live,
               \A g \in Gens : child[g] = "reaped" => child'[g] = "reaped"
        PROVE  AutoInv'
    BY <1>0, <1>3, AutoKept DEF OneSignal, StatusTells
  <1>4. ASSUME NEW g \in Gens, ChildExits(g) PROVE AutoInv'
    <2>1. /\ child[g] = "alive" /\ UNCHANGED <<signalIn, starts, xpc, wpc, status>>
          /\ \E how \in {"clean", "crash"} : child' = [child EXCEPT ![g] = how]
      BY <1>4 DEF ChildExits, processVars, workVars, waiterVars
    <2>2. child \in [Gens -> {"none", "alive", "clean", "crash", "reaped"}]
      BY <1>0 DEF TypeOK, RunnerTypeOK
    <2>3. Live' \subseteq Live /\ \A i \in Gens : child[i] = "reaped" => child'[i] = "reaped"
      BY <2>1, <2>2 DEF Live
    <2> QED
      BY <1>3, <2>1, <2>3
  <1>5. CASE EventAges /\ UNCHANGED runnerVars
    BY <1>3, <1>5 DEF EventAges, runnerVars, workVars, waiterVars, Live
  <1>6. CASE AddStep
    BY <1>3, <1>6 DEF AddStep, AddCommits, runnerVars, workVars, waiterVars, Live
  <1>7. CASE UNCHANGED vars
    BY <1>3, <1>7 DEF vars, processVars, runnerVars, workVars, waiterVars, Live
  <1> QED
    BY <1>1, <1>2, <1>4, <1>5, <1>6, <1>7 DEF Next, WorldStep

-----------------------------------------------------------------------------

\* Without clients' requests and with a database that answers, two children's waiters
\* are never about to write a status at the same time (waitForProcessExit).
THEOREM VerdictsAlone == ASSUME Handlers = {}, ~DbMayFail PROVE Spec => []SoleVerdict
  <1>1. AutoInv => SoleVerdict
    <2> SUFFICES ASSUME AutoInv, NEW g1 \in Gens, NEW g2 \in Gens, g1 # g2,
                        {xpc[g1], xpc[g2]} \cap {"none", "wait", "event", "done"} = {}
                 PROVE  FALSE
      BY DEF SoleVerdict
    <2>1. {xpc[g1], xpc[g2]} \cap {"none", "event", "done"} = {}
      OBVIOUS
    <2>2. starts \in Int /\ g1 \in Int /\ g2 \in Int
      BY ProcessAssumption DEF AutoInv, TypeOK, RunnerTypeOK, Gens
    <2>3. ~(g1 > starts) /\ ~(g2 > starts)
      BY <2>1 DEF AutoInv, TypeOK, RunnerTypeOK
    <2>4. ~(g1 < starts) /\ ~(g2 < starts)
      BY <2>1 DEF AutoInv, DecidedBefore, Past
    <2> QED
      BY <2>2, <2>3, <2>4
  <1>2. AutoInv /\ [Next]_vars => AutoInv'
    BY AutoStep
  <1> QED
    BY <1>1, <1>2, AutoInit, PTL DEF Spec

\* Under the same conditions a status that says the child has ended is not shown, while
\* Work waits for signals, of a child that is alive.
THEOREM EndsShownOfEnded ==
  ASSUME Handlers = {}, ~DbMayFail PROVE Spec => []EndedMeansNotRunning
  <1>1. AutoInv => EndedMeansNotRunning
    BY DEF AutoInv, StatusTells, EndedMeansNotRunning, Boots
  <1>2. AutoInv /\ [Next]_vars => AutoInv'
    BY AutoStep
  <1> QED
    BY <1>1, <1>2, AutoInit, PTL DEF Spec
=============================================================================
