------------------------------- MODULE Groups --------------------------------
(***************************************************************************)
(* The groups of processes (api/groups.go, and Validate, AddProcess and    *)
(* UpdateProcess of api/processes.go).  The table process_group has no     *)
(* constraint on the name: handlers look for the name, and write later.    *)
(* A request that adds or changes a process may make a group for it, in    *)
(* the transaction of the process.                                         *)
(***************************************************************************)
EXTENDS Integers

CONSTANTS
  Clerks,        \* the handlers of requests about groups and processes
  Names,         \* names of groups
  Members,       \* the processes that are or may be added
  MaxGroups      \* bound: ids that the sequence of process_group gives out

ASSUME GroupsAssumption == MaxGroups \in Nat

VARIABLES
  groups,        \* the name of each group that other transactions can see
  inserted,      \* of each clerk: the id of the group its transaction has inserted, or 0
  member,        \* the group of each process: -1 without a row, 0 for NULL
  hold,          \* of each clerk: the group its transaction has locked by reference, or 0
  job,           \* what each clerk does
  lastGroup,     \* the last id that was given out
  madeFor,       \* history: the process for which each group was made, if any
  raced          \* history: the names that were written after two clerks had checked them

groupVars == <<groups, inserted, member, hold, job, lastGroup, madeFor, raced>>

Ids == 1..MaxGroups
Idle == [does |-> "nothing", id |-> 0, name |-> "none", proc |-> "none"]
Writers == {"create", "rename", "addGroup", "addProcess", "commitBoth"}

GroupsInit ==
  /\ groups = [i \in {} |-> "none"] /\ inserted = [h \in Clerks |-> 0]
  /\ member \in [Members -> {-1}] /\ hold = [h \in Clerks |-> 0]
  /\ job = [h \in Clerks |-> Idle] /\ lastGroup = 0
  /\ madeFor = [i \in {} |-> "none"] /\ raced = {}

Takes(h, j) == job[h] = Idle /\ job' = [job EXCEPT ![h] = j]
With(id, name) == [i \in DOMAIN groups \cup {id} |-> IF i = id THEN name ELSE groups[i]]
Without(id) == [i \in DOMAIN groups \ {id} |-> groups[i]]

\* The clerks that have checked the name and whose write others cannot see yet.
Between(n) == {h \in Clerks : job[h].does \in Writers /\ job[h].name = n}
\* A name that is checked while another clerk is between its check and its write.
Races(n) == raced' = IF Between(n) = {} THEN raced ELSE raced \cup {n}

-----------------------------------------------------------------------------
(* Groups of their own.                                                     *)

\* A Validate that finds the name only in a group with members.
NameIsFreeOfMembers(n) ==
  \A i \in DOMAIN groups : groups[i] = n => \A p \in Members : member[p] # i
\* GroupExistsByName.
NameIsFree(n) == \A i \in DOMAIN groups : groups[i] # n

\* CreateProcessGroupRequest.Validate, for CreateGroup and for a new group of a process.
Checks(h, does, n, p) ==
  /\ NameIsFree(n) /\ Races(n)
  /\ Takes(h, [does |-> does, id |-> 0, name |-> n, proc |-> p])
  /\ UNCHANGED <<groups, inserted, member, hold, lastGroup, madeFor>>

CreateGroup(h) ==
  /\ job[h].does = "create" /\ lastGroup < MaxGroups
  /\ lastGroup' = lastGroup + 1
  /\ groups' = With(lastGroup', job[h].name)
  /\ job' = [job EXCEPT ![h] = Idle]
  /\ UNCHANGED <<inserted, member, hold, madeFor, raced>>

\* UpdateGroup: GetProcessGroupByName may return this group itself.
ChecksOthers(h, id, n) ==
  /\ \A i \in DOMAIN groups : groups[i] = n => i = id
  /\ Races(n)
  /\ Takes(h, [does |-> "rename", id |-> id, name |-> n, proc |-> "none"])
  /\ UNCHANGED <<groups, inserted, member, hold, lastGroup, madeFor>>
\* GetProcessGroup and UpdateProcessGroup both fail when the group is gone.
UpdateGroup(h) ==
  /\ job[h].does = "rename"
  /\ groups' = IF job[h].id \in DOMAIN groups THEN With(job[h].id, job[h].name) ELSE groups
  /\ job' = [job EXCEPT ![h] = Idle]
  /\ UNCHANGED <<inserted, member, hold, lastGroup, madeFor, raced>>

\* A table process without ON DELETE SET NULL.
DeleteGroupOnly(id) ==
  /\ id \in DOMAIN groups /\ \A h \in Clerks : hold[h] # id
  /\ groups' = Without(id) /\ UNCHANGED member
  /\ UNCHANGED <<inserted, hold, job, lastGroup, madeFor, raced>>
\* The DELETE waits for the transactions that refer to the group.
DeleteGroup(id) ==
  /\ id \in DOMAIN groups /\ \A h \in Clerks : hold[h] # id
  /\ groups' = Without(id)
  /\ member' = [p \in Members |-> IF member[p] = id THEN 0 ELSE member[p]]
  /\ UNCHANGED <<inserted, hold, job, lastGroup, madeFor, raced>>

-----------------------------------------------------------------------------
(* AddProcess and UpdateProcess.                                            *)

\* CreateProcessGroup in the transaction of the process.
InsertsGroup(h) ==
  /\ job[h].does = "addGroup" /\ lastGroup < MaxGroups
  /\ lastGroup' = lastGroup + 1
  /\ inserted' = [inserted EXCEPT ![h] = lastGroup']
  /\ job' = [job EXCEPT ![h].does = "addProcess", ![h].id = lastGroup']
  /\ UNCHANGED <<groups, member, hold, madeFor, raced>>

\* Validate finds the group of the request, or the request names none.
ChecksGroup(h, id, p) ==
  /\ id \in DOMAIN groups \cup {0}
  /\ Takes(h, [does |-> "useGroup", id |-> id, name |-> "none", proc |-> p])
  /\ UNCHANGED <<groups, inserted, member, hold, lastGroup, madeFor, raced>>

\* A transaction that has written the row of a process locks it.
Locks(p) == \E h \in Clerks : job[h].does \in {"commitBoth", "commitProcess"} /\ job[h].proc = p

\* CreateProcess or UpdateProcess: the foreign key locks the group, or refuses it.
WritesProcess(h) ==
  /\ job[h].does \in {"addProcess", "useGroup"} /\ hold[h] = 0
  /\ job[h].id \in DOMAIN groups \cup {0, inserted[h]}
  /\ ~Locks(job[h].proc)
  /\ job' = [job EXCEPT ![h].does =
       IF @ = "addProcess" THEN "commitBoth" ELSE "commitProcess"]
  /\ hold' = [hold EXCEPT ![h] = job[h].id]
  /\ UNCHANGED <<groups, inserted, member, lastGroup, madeFor, raced>>

JobEnds(h) == /\ job' = [job EXCEPT ![h] = Idle]
            /\ hold' = [hold EXCEPT ![h] = 0]
            /\ inserted' = [inserted EXCEPT ![h] = 0]
            /\ UNCHANGED <<lastGroup, raced>>

Commits(h) ==
  /\ job[h].does \in {"commitBoth", "commitProcess"}
  /\ member' = [member EXCEPT ![job[h].proc] = job[h].id]
  /\ IF inserted[h] # 0
     THEN /\ groups' = With(inserted[h], job[h].name)
          /\ madeFor' = [i \in DOMAIN madeFor \cup {inserted[h]} |->
                           IF i = inserted[h] THEN job[h].proc ELSE madeFor[i]]
     ELSE UNCHANGED <<groups, madeFor>>
  /\ JobEnds(h)

\* A statement or the commit fails, and everything is rolled back.
RollsBack(h) ==
  /\ job[h] # Idle
  /\ UNCHANGED <<groups, member, madeFor>>
  /\ JobEnds(h)

GroupsNext ==
  \/ \E h \in Clerks :
       \/ \E n \in Names : \/ Checks(h, "create", n, "none")
                           \/ \E p \in Members : Checks(h, "addGroup", n, p)
                           \/ \E id \in DOMAIN groups : ChecksOthers(h, id, n)
       \/ \E p \in Members, id \in Ids \cup {0} : ChecksGroup(h, id, p)
       \/ CreateGroup(h) \/ UpdateGroup(h) \/ InsertsGroup(h) \/ WritesProcess(h)
       \/ Commits(h) \/ RollsBack(h)
  \/ \E id \in Ids : DeleteGroup(id)
GroupsSpec == GroupsInit /\ [][GroupsNext]_groupVars

-----------------------------------------------------------------------------

Jobs == [does : Writers \cup {"nothing", "useGroup", "commitProcess"}, id : Ids \cup {0},
         name : Names \cup {"none"}, proc : Members \cup {"none"}]

\* The variables have their types, and the group of a process is one that exists: none
\* is left behind by a deletion, whatever was being added to the group.
GroupsTypeOK ==
  /\ lastGroup \in Ids \cup {0}
  /\ DOMAIN groups \subseteq 1..lastGroup /\ groups \in [DOMAIN groups -> Names]
  /\ inserted \in [Clerks -> 0..lastGroup] /\ hold \in [Clerks -> 0..lastGroup]
  /\ member \in [Members -> DOMAIN groups \cup {-1, 0}]
  /\ job \in [Clerks -> Jobs] /\ raced \subseteq Names

\* Two groups have the same name only if two requests checked that name at once: nobody
\* who comes after a group was made can make or rename another one to its name.
NamesUnique ==
  \A i, j \in DOMAIN groups : i # j /\ groups[i] = groups[j] => groups[i] \in raced

\* A group that a request made for its process is there only if the process was added
\* with it. (Processes are not deleted here; a deletion leaves the group alone.)
GroupComesWithProcess == \A i \in DOMAIN madeFor : member[madeFor[i]] # -1
=============================================================================
