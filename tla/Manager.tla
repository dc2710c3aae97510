------------------------------- MODULE Manager -------------------------------
(***************************************************************************)
(* The program as a whole (main.go, procsmanager.go, notifications_config, *)
(* notification_settings): it starts, loads the settings of the            *)
(* notifications and the processes, serves requests, and is killed; it has *)
(* no orderly end.  The children of a manager that was killed live on, and *)
(* the next manager knows nothing of them.                                 *)
(***************************************************************************)
EXTENDS Integers, Sequences

CONSTANTS
  Procs,         \* ids of processes
  Updaters,      \* the handlers that change the settings of the notifications
  Settings,      \* the settings a request may ask for
  MaxCrashes     \* bound: how often the manager is killed

Default == [enabled |-> FALSE, chats |-> 0]
ASSUME ManagerAssumption == MaxCrashes \in Nat /\ Settings \subseteq [enabled : BOOLEAN, chats : Nat]

VARIABLES
  up,            \* "down", "creating" (the first settings file), "loading" or "up"
  row,           \* of each process: "none", "inserted" or "committed"
  runners,       \* the keys of pm.runners
  adding,        \* the processes whose AddProcess has still to commit
  answering,     \* the processes for which a handler has found the row and wants the runner
  ours,          \* the processes that have a child of this manager
  orphans,       \* how many children of earlier managers each process has
  fileExists,    \* is there a notifications.json?
  settingsFile,  \* the settings in it: a sequence of one, or of none while it is empty
  settings,      \* pm.Notifications
  updating,      \* where each updater is, with the settings it asks for
  encoded,       \* what each updater is about to write
  crashes,       \* how often the manager was killed
  cut,           \* history: was the manager killed while it created the file?
  muddled        \* history: did two updates overlap, or did one fail to save?

managerVars == <<up, row, runners, adding, answering, ours, orphans, fileExists, settingsFile,
                 settings, updating, encoded, crashes, cut, muddled>>
processTable == <<row, runners, adding, answering, ours, orphans>>
settingsState == <<fileExists, settingsFile, settings, updating, encoded, cut, muddled>>

Rest == [at |-> "idle", want |-> Default]
ManagerInit ==
  /\ up = "down" /\ row = [p \in Procs |-> "none"]
  /\ runners = {} /\ adding = {} /\ answering = {} /\ ours = {}
  /\ orphans = [p \in Procs |-> 0]
  /\ fileExists = FALSE /\ settingsFile = <<>> /\ settings = Default
  /\ updating = [u \in Updaters |-> Rest] /\ encoded = [u \in Updaters |-> Default]
  /\ crashes = 0 /\ cut = FALSE /\ muddled = FALSE

-----------------------------------------------------------------------------
(* Starting and being killed.                                               *)

\* LoadOrCreateNotificationsConfig; a file without settings ends the program.
LoadSettings ==
  /\ up = "down"
  /\ \/ /\ ~fileExists
        /\ up' = "creating" /\ fileExists' = TRUE /\ settings' = Default
     \/ /\ fileExists /\ settingsFile # <<>>
        /\ up' = "loading" /\ settings' = settingsFile[1] /\ UNCHANGED fileExists
  /\ UNCHANGED <<processTable, settingsFile, updating, encoded, crashes, cut, muddled>>
FirstSave ==
  /\ up = "creating"
  /\ up' = "loading" /\ settingsFile' = <<Default>>
  /\ UNCHANGED <<processTable, fileExists, settings, updating, encoded, crashes, cut, muddled>>

\* NewProcessManager gives every process a runner before the server listens.
LoadProcesses ==
  /\ up = "loading"
  /\ up' = "up" /\ runners' = {p \in Procs : row[p] = "committed"}
  /\ UNCHANGED <<row, adding, answering, ours, orphans, settingsState, crashes>>

Crash ==
  /\ up # "down" /\ crashes < MaxCrashes
  /\ up' = "down" /\ crashes' = crashes + 1
  /\ cut' = (cut \/ up = "creating")
  /\ row' \in [Procs -> {"none", "committed"}]
  /\ \A p \in Procs : row[p] # "inserted" => row'[p] = row[p]
  /\ runners' = {} /\ adding' = {} /\ answering' = {} /\ ours' = {}
  /\ orphans' = [p \in Procs |-> IF p \in ours THEN orphans[p] + 1 ELSE orphans[p]]
  /\ updating' = [u \in Updaters |-> Rest] /\ encoded' = [u \in Updaters |-> Default]
  /\ muddled' = FALSE
  /\ UNCHANGED <<fileExists, settingsFile, settings>>

-----------------------------------------------------------------------------
(* Processes and their runners.                                             *)

\* An AddProcess that commits before it registers the runner.
AddCommittedFirst(p) ==
  /\ up = "up" /\ row[p] = "none"
  /\ row' = [row EXCEPT ![p] = "committed"]
  /\ adding' = adding \cup {p}
  /\ UNCHANGED <<up, runners, answering, ours, orphans, settingsState, crashes>>

\* AddProcess: the INSERT, AddRunner, and the deferred commit, which may fail.
Add(p) ==
  /\ up = "up" /\ row[p] = "none" /\ p \notin runners
  /\ row' = [row EXCEPT ![p] = "inserted"]
  /\ runners' = runners \cup {p} /\ adding' = adding \cup {p}
  /\ UNCHANGED <<up, answering, ours, orphans, settingsState, crashes>>
CommitAdd(p) ==
  /\ p \in adding
  /\ \E s \in {"committed", "none"} : row' = [row EXCEPT ![p] = s]
  /\ adding' = adding \ {p}
  /\ UNCHANGED <<up, runners, answering, ours, orphans, settingsState, crashes>>

\* A handler that has found the row asks for the runner and uses what it gets.
FindRow(p) ==
  /\ up = "up" /\ row[p] = "committed" /\ p \notin answering
  /\ answering' = answering \cup {p}
  /\ UNCHANGED <<up, row, runners, adding, ours, orphans, settingsState, crashes>>
UseRunner(p, deletes) ==
  /\ p \in answering /\ p \in runners
  /\ answering' = answering \ {p}
  /\ row' = IF deletes THEN [row EXCEPT ![p] = "none"] ELSE row
  /\ UNCHANGED <<up, runners, adding, ours, orphans, settingsState, crashes>>

\* A runner that forgets that it has a child when it starts the next one.
ChildStartsAgain(p) ==
  /\ p \in runners
  /\ ours' = ours \cup {p}
  /\ orphans' = IF p \in ours THEN [orphans EXCEPT ![p] = @ + 1] ELSE orphans
  /\ UNCHANGED <<up, row, runners, adding, answering, settingsState, crashes>>
\* A runner starts a child, and its child ends, as in Supervisor.
ChildStarts(p) ==
  /\ p \in runners
  /\ ours' = ours \cup {p}
  /\ UNCHANGED <<up, row, runners, adding, answering, orphans, settingsState, crashes>>
ChildStops(p) ==
  /\ ours' = ours \ {p} /\ p \in ours
  /\ UNCHANGED <<up, row, runners, adding, answering, orphans, settingsState, crashes>>
OrphanEnds(p) ==
  /\ orphans[p] > 0 /\ orphans' = [orphans EXCEPT ![p] = @ - 1]
  /\ UNCHANGED <<up, row, runners, adding, answering, ours, settingsState, crashes>>

-----------------------------------------------------------------------------
(* UpdateNotificationSettings.                                              *)

UpdaterAt(u, from, to) == updating[u].at = from /\ updating' = [updating EXCEPT ![u].at = to]

SetEnabled(u, want) ==
  /\ up = "up" /\ updating[u].at = "idle"
  /\ updating' = [updating EXCEPT ![u] = [at |-> "chats", want |-> want]]
  /\ settings' = [settings EXCEPT !.enabled = want.enabled]
  /\ muddled' = (muddled \/ \E v \in Updaters : updating[v].at # "idle")
  /\ UNCHANGED <<up, processTable, fileExists, settingsFile, encoded, crashes, cut>>
SetChats(u) ==
  /\ UpdaterAt(u, "chats", "encode")
  /\ settings' = [settings EXCEPT !.chats = updating[u].want.chats]
  /\ UNCHANGED <<up, processTable, fileExists, settingsFile, encoded, crashes, cut, muddled>>

\* A Save that empties the file when it opens it.
EncodeTruncates(u) ==
  /\ UpdaterAt(u, "encode", "write")
  /\ encoded' = [encoded EXCEPT ![u] = settings]
  /\ settingsFile' = <<>>
  /\ UNCHANGED <<up, processTable, fileExists, settings, crashes, cut, muddled>>
\* Save encodes the settings as they are now, which another update may have changed.
Encode(u) ==
  /\ UpdaterAt(u, "encode", "write")
  /\ encoded' = [encoded EXCEPT ![u] = settings]
  /\ UNCHANGED <<up, processTable, fileExists, settingsFile, settings, crashes, cut, muddled>>

\* A Save that writes the settings only if notifications are enabled.
WriteEnabledOnly(u) ==
  /\ UpdaterAt(u, "write", "idle")
  /\ settingsFile' = IF encoded[u].enabled THEN <<encoded[u]>> ELSE settingsFile
  /\ UNCHANGED <<up, processTable, fileExists, settings, encoded, crashes, cut, muddled>>
\* The JSON goes over the start of the file, which is not truncated: what is left behind
\* it of a longer one is not read by Decode. The write may fail.
WriteFile(u) ==
  /\ UpdaterAt(u, "write", "idle")
  /\ \/ settingsFile' = <<encoded[u]>> /\ UNCHANGED muddled
     \/ muddled' = TRUE /\ UNCHANGED settingsFile
  /\ UNCHANGED <<up, processTable, fileExists, settings, encoded, crashes, cut>>

ManagerNext ==
  \/ LoadSettings \/ FirstSave \/ LoadProcesses \/ Crash
  \/ \E p \in Procs : \/ Add(p) \/ CommitAdd(p) \/ FindRow(p)
                      \/ (\E deletes \in BOOLEAN : UseRunner(p, deletes))
                      \/ ChildStarts(p) \/ ChildStops(p) \/ OrphanEnds(p)
  \/ \E u \in Updaters : \/ \E want \in Settings : SetEnabled(u, want)
                         \/ SetChats(u) \/ Encode(u) \/ WriteFile(u)
ManagerSpec == ManagerInit /\ [][ManagerNext]_managerVars

-----------------------------------------------------------------------------

\* Every handler that has found a process finds its runner: GetRunner never returns nil
\* for a row that other transactions can see, nor for one that was seen.
RunnerForRow == up = "up" =>
  answering \cup {p \in Procs : row[p] = "committed"} \subseteq runners

\* A process has at most one child of every manager that ran, so more than one only if a
\* manager was killed.
Copies(p) == orphans[p] + (IF p \in ours THEN 1 ELSE 0)
CopiesComeFromCrashes == \A p \in Procs : Copies(p) <= crashes + (IF up = "up" THEN 1 ELSE 0)

\* The settings file is never without settings when the manager starts, unless the manager
\* was killed while it created the file: an update cannot spoil it.
SettingsReadable == up = "down" /\ fileExists /\ settingsFile = <<>> => cut

\* What the notifications use is what a restart will load, once the handlers are done and
\* if updates did not overlap and every write succeeded.
SettingsSaved ==
  up = "up" /\ ~muddled /\ (\A u \in Updaters : updating[u].at = "idle") =>
    settingsFile = <<settings>>
=============================================================================
