-------------------------------- MODULE Tree ---------------------------------
(***************************************************************************)
(* A child and its descendants, and the two walks over them that Work      *)
(* makes, one at a time (specific_unix.go): killProcessTree kills them     *)
(* from the leaves up, and getUsageInfoUnixRecursive sums their CPU time,  *)
(* from which getUsageRecording (runner.go) makes the records of           *)
(* process_stats.  Both ask pgrep for the children of one process at a     *)
(* time, while the processes go on forking and ending.                     *)
(***************************************************************************)
EXTENDS Integers, Sequences, FiniteSets

CONSTANTS
  Pids,          \* process ids; none is used again
  Root,          \* the child that startProcess started
  MaxCpu,        \* bound: CPU time that each process uses
  MaxWalks,      \* bound: readings of the usage
  ToolsMayFail   \* may pgrep or the database fail?

ASSUME TreeAssumption == /\ Root \in Pids /\ IsFiniteSet(Pids) /\ {MaxCpu, MaxWalks} \subseteq Nat
                         /\ ToolsMayFail \in BOOLEAN

VARIABLES
  alive,         \* the processes that live
  parent,        \* the parent of each process that was forked; an orphan is its own
  cpu,           \* the CPU time each one has used
  walk,          \* what Work does: "none", "usage", "kill" or "killed"
  frames,        \* the calls of the recursion: a process, its children still to visit
  total,         \* UsageInfo.TotalCpuUsage of this reading
  lastUsage,     \* LastUsage.TotalCpuUsage, or -1 for nil
  walks,         \* how many readings were begun
  recorded,      \* the sum of the records in process_stats
  moved,         \* history: did the tree change in a way that a kill may miss?
  shrunk         \* history: over how many readings a process that ended is missed

treeVars == <<alive, parent, cpu, walk, frames, total, lastUsage, walks, recorded, moved,
              shrunk>>
usageVars == <<total, lastUsage, walks, recorded>>

TreeInit ==
  /\ alive = {Root} /\ parent = [p \in {Root} |-> Root] /\ cpu = [p \in Pids |-> 0]
  /\ walk = "none" /\ frames = <<>> /\ total = 0
  /\ lastUsage = -1 /\ walks = 0 /\ recorded = 0 /\ moved = FALSE /\ shrunk = 0

\* getChildPids.
Pgrep(p) == {q \in alive \ {p} : parent[q] = p}
Top == frames[Len(frames)]
Below == SubSeq(frames, 1, Len(frames) - 1)

\* A walk that looks no deeper than the root's children.
CallShallow(p) == [pid |-> p, todo |-> IF p = Root THEN Pgrep(p) ELSE {}]
\* The recursive call for p, after its pgrep.
Call(p) == [pid |-> p, todo |-> Pgrep(p)]

-----------------------------------------------------------------------------
(* The processes.                                                           *)

Fork(p, q) ==
  /\ p \in alive /\ q \notin DOMAIN parent
  /\ alive' = alive \cup {q}
  /\ parent' = [r \in DOMAIN parent \cup {q} |-> IF r = q THEN p ELSE parent[r]]
  /\ moved' = (moved \/ walk = "kill")
  /\ UNCHANGED <<cpu, walk, frames, usageVars, shrunk>>

\* The children of a process that ends become children of init: their own here.
Ends(p) ==
  /\ alive' = alive \ {p}
  /\ parent' = [r \in DOMAIN parent |-> IF parent[r] = p THEN r ELSE parent[r]]

Exit(p) ==
  /\ p \in alive /\ Ends(p)
  /\ moved' = (moved \/ Pgrep(p) # {})
  /\ shrunk' = IF walk = "usage" THEN 2 ELSE 1
  /\ UNCHANGED <<cpu, walk, frames, usageVars>>

Compute(p) ==
  /\ p \in alive /\ cpu[p] < MaxCpu
  /\ cpu' = [cpu EXCEPT ![p] = @ + 1]
  /\ UNCHANGED <<alive, parent, walk, frames, usageVars, moved, shrunk>>

-----------------------------------------------------------------------------
(* The recursion, the same for both walks.                                  *)

BeginWalk(w) ==
  /\ walk = "none" /\ walk' = w
  /\ frames' = <<Call(Root)>>
  /\ total' = 0
  /\ walks' = IF w = "usage" THEN walks + 1 ELSE walks
  /\ UNCHANGED <<alive, parent, cpu, lastUsage, recorded, moved, shrunk>>

Descend(p) ==
  /\ walk \in {"usage", "kill"} /\ p \in Top.todo
  /\ frames' = Below \o <<[Top EXCEPT !.todo = @ \ {p}], Call(p)>>
  /\ UNCHANGED <<alive, parent, cpu, walk, usageVars, moved, shrunk>>

At(w, p) == walk = w /\ Top.pid = p /\ Top.todo = {}

-----------------------------------------------------------------------------
(* killProcessTree, called by Cleanup.                                      *)

\* SIGKILL, when the recursion has come back from the children. A pgrep that fails
\* spares the process, but Cleanup kills the root in any case.
Kill(p) ==
  /\ At("kill", p)
  /\ \/ Ends(p) /\ UNCHANGED moved
     \/ ToolsMayFail /\ p # Root /\ moved' = TRUE /\ UNCHANGED <<alive, parent>>
  /\ frames' = Below
  /\ walk' = IF p = Root THEN "killed" ELSE walk
  /\ UNCHANGED <<cpu, usageVars, shrunk>>

-----------------------------------------------------------------------------
(* getUsageRecording, called by RecordUsage.                                *)

\* A reading that records all that was used so far.
RecordTotal(sum) ==
  /\ lastUsage' = sum
  /\ recorded' = IF lastUsage = -1 THEN recorded ELSE recorded + sum
  /\ shrunk' = IF shrunk = 0 THEN 0 ELSE shrunk - 1
  /\ walk' = "none" /\ frames' = <<>>
\* The reading is over: the first one only sets LastUsage; the next ones are recorded,
\* unless the INSERT fails.
Record(sum) ==
  /\ lastUsage' = sum
  /\ IF lastUsage = -1 THEN UNCHANGED recorded
     ELSE \/ recorded' = recorded + sum - lastUsage
          \/ ToolsMayFail /\ UNCHANGED recorded
  /\ shrunk' = IF shrunk = 0 THEN 0 ELSE shrunk - 1
  /\ walk' = "none" /\ frames' = <<>>

ReadStat(p) ==
  /\ At("usage", p) /\ p \in alive
  /\ total' = total + cpu[p]
  /\ IF p = Root THEN Record(total')
     ELSE frames' = Below /\ UNCHANGED <<walk, lastUsage, recorded, shrunk>>
  /\ UNCHANGED <<alive, parent, cpu, walks, moved>>

\* A reading that is given up, and recorded all the same.
ReadFailsRecords ==
  /\ walk = "usage"
  /\ (Top.todo = {} /\ Top.pid \notin alive) \/ ToolsMayFail
  /\ Record(total)
  /\ UNCHANGED <<alive, parent, cpu, total, walks, moved>>
\* A process has gone since it was listed, or pgrep fails: the reading is given up.
\* The first one leaves what it has summed in LastUsage, a later one changes nothing.
ReadFails ==
  /\ walk = "usage"
  /\ (Top.todo = {} /\ Top.pid \notin alive) \/ ToolsMayFail
  /\ walk' = "none" /\ frames' = <<>>
  /\ lastUsage' = IF lastUsage = -1 THEN total ELSE lastUsage
  /\ shrunk' = IF shrunk = 2 THEN 1 ELSE shrunk
  /\ UNCHANGED <<alive, parent, cpu, total, walks, recorded, moved>>

Walk == \/ walks < MaxWalks /\ BeginWalk("usage")
        \/ BeginWalk("kill")
        \/ \E p \in Pids : Descend(p) \/ Kill(p) \/ ReadStat(p)
        \/ ReadFails
Processes == \E p \in Pids : Exit(p) \/ Compute(p) \/ \E q \in Pids : Fork(p, q)

TreeNext == Walk \/ Processes
TreeSpec == TreeInit /\ [][TreeNext]_treeVars

-----------------------------------------------------------------------------

\* Cleanup leaves no process of the tree alive, unless one was forked while it looked for
\* them, or had lost its parent, or pgrep failed; the child itself is dead in any case.
KillLeavesNobody == walk = "killed" => Root \notin alive /\ (~moved => alive = {})

\* The CPU time that processes have used, tick by tick, and how much it is for all.
Ticks(used, procs) == {t \in procs \X (1..MaxCpu) : t[2] <= used[t[1]]}
Spent == Cardinality(Ticks(cpu, Pids))

\* All the records together never claim more CPU time than the processes have used,
\* whatever readings and inserts fail.
RecordsWithinUse == recorded <= Spent

\* A record is negative only when a process of the tree has ended since the reading
\* before, or during it.
NegativeMeansEnded == [][recorded' < recorded => shrunk > 0]_treeVars
=============================================================================
