----------------------------- MODULE ManagerProofs -----------------------------
(***************************************************************************)
(* Theorems about Manager and their proofs, for any number of processes,   *)
(* handlers and crashes.                                                   *)
(***************************************************************************)
EXTENDS Manager, TLAPS

\* Runners, handlers and children are there only while the manager serves requests, and
\* then each process that somebody knows of has its runner.
Known == adding \cup answering \cup {p \in Procs : row[p] = "committed"}
ServingInv ==
  /\ row \in [Procs -> {"none", "inserted", "committed"}]
  /\ IF up = "up" THEN Known \subseteq runners ELSE runners = {} /\ adding = {} /\ answering = {}
  /\ ours \subseteq runners

\* No process has more orphans than there were crashes.
OrphansInv ==
  /\ crashes \in Nat /\ orphans \in [Procs -> Nat]
  /\ \A p \in Procs : orphans[p] <= crashes

\* The file is without settings only while it is created, or since that was cut short.
FileInv ==
  /\ fileExists /\ settingsFile = <<>> => up = "creating" \/ cut
  /\ settingsFile # <<>> => settingsFile = <<settingsFile[1]>>

\* An updater alone keeps the settings, and what it writes are the settings.
Busy == {u \in Updaters : updating[u].at # "idle"}
Serving == up \in {"loading", "up"} /\ ~muddled
AloneInv ==
  /\ updating \in [Updaters -> [at : {"idle", "chats", "encode", "write"},
                                want : Settings \cup {Default}]]
  /\ DOMAIN encoded = Updaters /\ encoded = [u \in Updaters |-> encoded[u]]
  /\ up # "up" => Busy = {}
  /\ up = "creating" => settings = Default
  /\ Serving => /\ \A u, v \in Busy : u = v
                /\ Busy = {} => settingsFile = <<settings>>
                /\ \A u \in Busy : updating[u].at = "write" => encoded[u] = settings

-----------------------------------------------------------------------------
(* Processes and their runners.                                             *)

\* Every step keeps runners for the processes that somebody knows of.
LEMMA ServingStep == ServingInv /\ [ManagerNext]_managerVars => ServingInv'
  <1> SUFFICES ASSUME ServingInv, [ManagerNext]_managerVars PROVE ServingInv'
    OBVIOUS
  <1> USE DEF ServingInv, Known
  <1>1. CASE LoadSettings
    BY <1>1 DEF LoadSettings, processTable
  <1>2. CASE FirstSave
    BY <1>2 DEF FirstSave, processTable
  <1>3. CASE LoadProcesses
    BY <1>3 DEF LoadProcesses
  <1>4. CASE Crash
    BY <1>4 DEF Crash
  <1>5. ASSUME NEW p \in Procs, Add(p) PROVE ServingInv'
    BY <1>5 DEF Add
  <1>6. ASSUME NEW p \in Procs, CommitAdd(p) PROVE ServingInv'
    BY <1>6 DEF CommitAdd
  <1>7. ASSUME NEW p \in Procs, FindRow(p) PROVE ServingInv'
    BY <1>7 DEF FindRow
  <1>8. ASSUME NEW p \in Procs, NEW deletes \in BOOLEAN, UseRunner(p, deletes) PROVE ServingInv'
    <2>1. /\ up' = up /\ runners' = runners /\ adding' = adding /\ ours' = ours
          /\ answering' \subseteq answering
          /\ row' \in [Procs -> {"none", "inserted", "committed"}]
          /\ \A q \in Procs : row'[q] = "committed" => row[q] = "committed"
      BY <1>8 DEF UseRunner
    <2> QED
      BY <2>1
  <1>9. ASSUME NEW p \in Procs, ChildStarts(p) \/ ChildStops(p) \/ OrphanEnds(p)
        PROVE  ServingInv'
    BY <1>9 DEF ChildStarts, ChildStops, OrphanEnds
  <1>10. ASSUME UNCHANGED processTable, up' = up PROVE ServingInv'
    BY <1>10 DEF processTable
  <1> QED
    BY <1>1, <1>2, <1>3, <1>4, <1>5, <1>6, <1>7, <1>8, <1>9, <1>10
       DEF ManagerNext, SetEnabled, SetChats, Encode, WriteFile, managerVars, processTable

\* Only a crash makes orphans, one of each process at most.
LEMMA OrphansStep == OrphansInv /\ [ManagerNext]_managerVars => OrphansInv'
  <1> SUFFICES ASSUME OrphansInv, [ManagerNext]_managerVars PROVE OrphansInv'
    OBVIOUS
  <1> USE DEF OrphansInv
  <1>1. CASE Crash
    BY <1>1 DEF Crash
  <1>2. ASSUME NEW p \in Procs, OrphanEnds(p) PROVE OrphansInv'
    BY <1>2 DEF OrphanEnds
  <1>3. ASSUME orphans' = orphans, crashes' = crashes PROVE OrphansInv'
    BY <1>3
  <1> QED
    BY <1>1, <1>2, <1>3 DEF ManagerNext, LoadSettings, FirstSave, LoadProcesses, Add, CommitAdd,
       FindRow, UseRunner, ChildStarts, ChildStops, SetEnabled, SetChats, Encode, WriteFile,
       managerVars, processTable

\* A handler that has found a process always gets its runner.
THEOREM RunnersThere == ManagerSpec => []RunnerForRow
  <1>1. ManagerInit => ServingInv
    BY DEF ManagerInit, ServingInv, Known
  <1>2. ServingInv => RunnerForRow
    BY DEF ServingInv, Known, RunnerForRow
  <1> QED
    BY <1>1, <1>2, ServingStep, PTL DEF ManagerSpec

\* However often the manager is killed, a process has at most one child more than that.
THEOREM CopiesBounded == ManagerSpec => []CopiesComeFromCrashes
  <1>1. ManagerInit => ServingInv /\ OrphansInv
    BY DEF ManagerInit, ServingInv, Known, OrphansInv
  <1>2. ServingInv /\ OrphansInv => CopiesComeFromCrashes
    <2> SUFFICES ASSUME ServingInv, OrphansInv, NEW p \in Procs
                 PROVE  Copies(p) <= crashes + (IF up = "up" THEN 1 ELSE 0)
      BY DEF CopiesComeFromCrashes
    <2>1. orphans[p] \in Nat /\ crashes \in Nat /\ orphans[p] <= crashes
      BY DEF OrphansInv
    <2>2. p \in ours => up = "up"
      BY DEF ServingInv
    <2> QED
      BY <2>1, <2>2 DEF Copies
  <1> QED
    BY <1>1, <1>2, ServingStep, OrphansStep, PTL DEF ManagerSpec

-----------------------------------------------------------------------------
(* The settings.                                                            *)

\* Every step leaves a file with settings, or one that is being created.
LEMMA FileStep == FileInv /\ [ManagerNext]_managerVars => FileInv'
  <1> SUFFICES ASSUME FileInv, [ManagerNext]_managerVars PROVE FileInv'
    OBVIOUS
  <1> USE DEF FileInv
  <1>1. CASE LoadSettings
    BY <1>1 DEF LoadSettings
  <1>2. CASE FirstSave
    BY <1>2 DEF FirstSave
  <1>3. CASE Crash
    BY <1>3 DEF Crash
  <1>4. ASSUME NEW u \in Updaters, WriteFile(u) PROVE FileInv'
    BY <1>4 DEF WriteFile
  <1>5. CASE LoadProcesses
    BY <1>5 DEF LoadProcesses, settingsState
  <1>6. ASSUME up' = up, UNCHANGED <<fileExists, settingsFile, cut>> PROVE FileInv'
    BY <1>6
  <1> QED
    BY <1>1, <1>2, <1>3, <1>4, <1>5, <1>6 DEF ManagerNext, Add, CommitAdd, FindRow, UseRunner,
       ChildStarts, ChildStops, OrphanEnds, SetEnabled, SetChats, Encode, managerVars,
       settingsState

\* Only a crash during the very first start leaves a file that stops the next ones.
THEOREM SettingsStayReadable == ManagerSpec => []SettingsReadable
  <1>1. ManagerInit => FileInv
    BY DEF ManagerInit, FileInv
  <1>2. FileInv => SettingsReadable
    BY DEF FileInv, SettingsReadable
  <1> QED
    BY <1>1, <1>2, FileStep, PTL DEF ManagerSpec

\* Every step keeps the invariant about updaters.
LEMMA AloneStep == AloneInv /\ FileInv /\ [ManagerNext]_managerVars => AloneInv'
  <1> SUFFICES ASSUME AloneInv, FileInv, [ManagerNext]_managerVars PROVE AloneInv'
    OBVIOUS
  <1> DEFINE Places == {"idle", "chats", "encode", "write"}
             Wanted == Settings \cup {Default}
  <1>0. /\ Rest \in [at : Places, want : Wanted] /\ Rest.at = "idle"
        /\ updating \in [Updaters -> [at : Places, want : Wanted]]
    BY DEF Rest, AloneInv
  <1>1. CASE LoadSettings
    <2>1. up' = "loading" => settingsFile' = <<settings'>>
      BY <1>1 DEF LoadSettings, FileInv
    <2> QED
      BY <1>1, <2>1 DEF LoadSettings, AloneInv, Busy, Serving
  <1>2. CASE FirstSave
    BY <1>2 DEF FirstSave, AloneInv, Busy, Serving
  <1>3. CASE LoadProcesses
    BY <1>3 DEF LoadProcesses, settingsState, AloneInv, Busy, Serving
  <1>4. CASE Crash
    <2>1. /\ updating' = [u \in Updaters |-> Rest] /\ encoded' = [u \in Updaters |-> Default]
          /\ up' = "down"
      BY <1>4 DEF Crash
    <2>2. Busy' = {} /\ updating' \in [Updaters -> [at : Places, want : Wanted]]
      BY <1>0, <2>1 DEF Busy
    <2> QED
      BY <2>1, <2>2 DEF AloneInv, Serving
  <1>5. ASSUME NEW u \in Updaters, NEW want \in Settings, SetEnabled(u, want) PROVE AloneInv'
    <2>1. /\ up' = "up" /\ up = "up" /\ encoded' = encoded
          /\ updating' = [updating EXCEPT ![u] = [at |-> "chats", want |-> want]]
          /\ muddled' = (muddled \/ \E v \in Updaters : updating[v].at # "idle")
      BY <1>5 DEF SetEnabled
    <2>2. [at |-> "chats", want |-> want] \in [at : Places, want : Wanted]
      OBVIOUS
    <2>3. updating' \in [Updaters -> [at : Places, want : Wanted]] /\ updating'[u].at = "chats"
          /\ \A v \in Updaters \ {u} : updating'[v] = updating[v]
      BY <1>0, <2>1, <2>2
    <2>4. ~muddled' => Busy = {}
      BY <2>1 DEF Busy
    <2>5. ~muddled' => Busy' = {u}
      BY <2>3, <2>4 DEF Busy
    <2> QED
      BY <2>1, <2>3, <2>5 DEF AloneInv, Serving
  <1>6. ASSUME NEW u \in Updaters, NEW from \in Places \ {"idle"}, NEW to \in Places,
               UpdaterAt(u, from, to)
        PROVE  /\ updating' \in [Updaters -> [at : Places, want : Wanted]]
               /\ updating'[u].at = to /\ updating[u].at = from /\ u \in Busy
               /\ \A v \in Updaters \ {u} : updating'[v] = updating[v]
    BY <1>0, <1>6 DEF UpdaterAt, Busy
  <1>7. ASSUME NEW u \in Updaters, SetChats(u) PROVE AloneInv'
    <2>1. /\ UpdaterAt(u, "chats", "encode") /\ up' = up /\ encoded' = encoded
          /\ muddled' = muddled
      BY <1>7 DEF SetChats
    <2>2. /\ updating' \in [Updaters -> [at : Places, want : Wanted]]
          /\ updating'[u].at = "encode" /\ u \in Busy
          /\ \A v \in Updaters \ {u} : updating'[v] = updating[v]
      BY <1>6, <2>1
    <2>3. Busy' = Busy /\ (Serving => Busy = {u})
      BY <2>1, <2>2 DEF AloneInv, Busy
    <2> QED
      BY <2>1, <2>2, <2>3 DEF AloneInv, Serving
  <1>8. ASSUME NEW u \in Updaters, Encode(u) PROVE AloneInv'
    <2>1. /\ UpdaterAt(u, "encode", "write") /\ up' = up /\ settings' = settings
          /\ muddled' = muddled /\ encoded' = [encoded EXCEPT ![u] = settings]
      BY <1>8 DEF Encode
    <2>2. /\ updating' \in [Updaters -> [at : Places, want : Wanted]]
          /\ updating'[u].at = "write" /\ u \in Busy
          /\ \A v \in Updaters \ {u} : updating'[v] = updating[v]
      BY <1>6, <2>1
    <2>3. Busy' = Busy /\ (Serving => Busy = {u})
      BY <2>1, <2>2 DEF AloneInv, Busy
    <2>4. /\ encoded'[u] = settings' /\ DOMAIN encoded' = Updaters
          /\ encoded' = [v \in Updaters |-> encoded'[v]]
      BY <2>1 DEF AloneInv
    <2> QED
      BY <2>1, <2>2, <2>3, <2>4 DEF AloneInv, Serving
  <1>9. ASSUME NEW u \in Updaters, WriteFile(u) PROVE AloneInv'
    <2>1. /\ UpdaterAt(u, "write", "idle") /\ up' = up /\ settings' = settings
          /\ encoded' = encoded
          /\ \/ settingsFile' = <<encoded[u]>> /\ muddled' = muddled
             \/ muddled'
      BY <1>9 DEF WriteFile
    <2>2. /\ updating' \in [Updaters -> [at : Places, want : Wanted]]
          /\ updating'[u].at = "idle" /\ updating[u].at = "write" /\ u \in Busy
          /\ \A v \in Updaters \ {u} : updating'[v] = updating[v]
      BY <1>6, <2>1
    <2>3. Busy' = Busy \ {u} /\ (Serving => Busy = {u})
      BY <2>1, <2>2 DEF AloneInv, Busy
    <2>4. Serving' => settingsFile' = <<settings'>>
      <3>1. Serving' => settingsFile' = <<encoded[u]>> /\ Serving
        BY <2>1, Zenon DEF Serving
      <3>2. Serving => encoded[u] = settings
        BY <2>2 DEF AloneInv
      <3> QED
        BY <2>1, <3>1, <3>2
    <2> QED
      BY <2>1, <2>2, <2>3, <2>4 DEF AloneInv, Serving
  <1>10. ASSUME up' = up, UNCHANGED <<settingsFile, settings, updating, encoded, muddled>>
         PROVE  AloneInv'
    BY <1>10 DEF AloneInv, Busy, Serving
  <1> QED
    BY <1>1, <1>2, <1>3, <1>4, <1>5, <1>7, <1>8, <1>9, <1>10 DEF ManagerNext, Add, CommitAdd,
       FindRow, UseRunner, ChildStarts, ChildStops, OrphanEnds, managerVars, settingsState

\* What the notifications use is what the next manager loads, when updates come one at a
\* time and are written, whenever the manager was killed.
THEOREM SettingsAreSaved == ManagerSpec => []SettingsSaved
  <1>1. ManagerInit => FileInv
    BY DEF ManagerInit, FileInv
  <1>2. ManagerInit => AloneInv
    <2> SUFFICES ASSUME ManagerInit PROVE AloneInv
      OBVIOUS
    <2>1. /\ up = "down" /\ updating = [u \in Updaters |-> Rest]
          /\ encoded = [u \in Updaters |-> Default]
      BY DEF ManagerInit
    <2>2. Rest \in [at : {"idle", "chats", "encode", "write"}, want : Settings \cup {Default}]
      BY DEF Rest
    <2>3. Busy = {}
      BY <2>1 DEF Busy, Rest
    <2>4. updating \in [Updaters -> [at : {"idle", "chats", "encode", "write"},
                                     want : Settings \cup {Default}]]
      BY <2>1, <2>2
    <2>5. DOMAIN encoded = Updaters /\ encoded = [u \in Updaters |-> encoded[u]]
      <3>1. \A u \in Updaters : encoded[u] = Default
        BY <2>1
      <3> QED
        BY <2>1, <3>1 DEF Default
    <2>6. up # "creating" /\ ~Serving
      BY <2>1 DEF Serving
    <2> QED
      BY <2>3, <2>4, <2>5, <2>6 DEF AloneInv
  <1>3. AloneInv => SettingsSaved
    BY DEF AloneInv, Serving, Busy, SettingsSaved
  <1> QED
    BY <1>1, <1>2, <1>3, FileStep, AloneStep, PTL DEF ManagerSpec
=============================================================================
