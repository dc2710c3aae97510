----------------------------- MODULE GroupsProofs -----------------------------
(***************************************************************************)
(* Theorems about Groups and their proofs, for any number of clerks,       *)
(* names, processes and groups.                                            *)
(***************************************************************************)
EXTENDS Groups, TLAPS

\* The points between the insertion of a group and its commit, those at which a
\* transaction can only commit or be rolled back, and those of requests about a process.
Inserters == {"addProcess", "commitBoth"}
Committers == {"commitBoth", "commitProcess"}
OfProcess == Inserters \cup Committers \cup {"addGroup", "useGroup"}

\* What a clerk is doing fits what its transaction has inserted and locked: the group
\* of a process that is about to be committed is there, or comes with it.
JobFits(h) ==
  /\ job[h].id \in 0..lastGroup
  /\ job[h].does \in Writers => job[h].name \in Names
  /\ job[h].does \in OfProcess => job[h].proc \in Members
  /\ IF job[h].does \in Inserters THEN inserted[h] = job[h].id /\ inserted[h] # 0
     ELSE inserted[h] = 0
  /\ job[h].does \in Committers =>
       hold[h] = job[h].id /\ job[h].id \in DOMAIN groups \cup {0, inserted[h]}
JobsFit == \A h \in Clerks : JobFits(h)

\* Of the clerks that have checked a name for which nobody raced there is one at most,
\* and no group has the name yet, but for the one that the clerk renames to it.
OneBetween ==
  \A n \in Names \ raced : \A h \in Between(n) :
    /\ \A k \in Between(n) : k = h
    /\ \A i \in DOMAIN groups :
         groups[i] = n => job[h].does = "rename" /\ job[h].id = i

MadeForMembers == madeFor \in [DOMAIN madeFor -> Members]

\* The parts of the inductive invariant.
TypedInv == GroupsTypeOK /\ JobsFit
NamesInv == OneBetween /\ NamesUnique
MadeInv == MadeForMembers /\ GroupComesWithProcess

-----------------------------------------------------------------------------
(* Typing.                                                                  *)

\* A group that is written has its name, and the others keep theirs.
LEMMA WithTyped ==
  ASSUME GroupsTypeOK, NEW id, NEW n \in Names
  PROVE  /\ DOMAIN With(id, n) = DOMAIN groups \cup {id}
         /\ With(id, n) \in [DOMAIN groups \cup {id} -> Names]
         /\ With(id, n)[id] = n
         /\ \A i \in DOMAIN groups \ {id} : With(id, n)[i] = groups[i]
  BY DEF With, GroupsTypeOK

\* No process loses its group when others are written.
LEMMA MemberStays ==
  ASSUME TypedInv, member' = member, DOMAIN groups \subseteq DOMAIN groups'
  PROVE  member' \in [Members -> DOMAIN groups' \cup {-1, 0}]
  BY DEF TypedInv, GroupsTypeOK

\* Before the first request every variable is well typed.
LEMMA TypedInit == GroupsInit => TypedInv
  <1> SUFFICES ASSUME GroupsInit PROVE TypedInv
    OBVIOUS
  <1>1. /\ DOMAIN groups = {} /\ groups \in [DOMAIN groups -> Names]
        /\ inserted \in [Clerks -> 0..lastGroup] /\ hold \in [Clerks -> 0..lastGroup]
        /\ lastGroup = 0 /\ raced = {}
    BY DEF GroupsInit
  <1>2. member \in [Members -> DOMAIN groups \cup {-1, 0}]
    BY DEF GroupsInit
  <1>3. \A h \in Clerks : job[h] = Idle
    BY DEF GroupsInit
  <1>4. Idle \in Jobs
    BY DEF Idle, Jobs
  <1>5. job \in [Clerks -> Jobs]
    BY <1>4 DEF GroupsInit
  <1>6. GroupsTypeOK
    BY <1>1, <1>2, <1>5 DEF GroupsTypeOK
  <1>7. JobsFit
    BY <1>1, <1>3 DEF JobsFit, JobFits, Idle, Writers, OfProcess, Inserters, Committers,
                      GroupsInit
  <1> QED
    BY <1>6, <1>7 DEF TypedInv

\* A clerk that takes a job which fits it.
LEMMA TypedTakes ==
  ASSUME TypedInv, NEW h \in Clerks, NEW j \in Jobs, Takes(h, j),
         j.id \in 0..lastGroup,
         j.does \in {"create", "rename", "addGroup", "useGroup"},
         j.does # "useGroup" => j.name \in Names,
         j.does \in {"addGroup", "useGroup"} => j.proc \in Members,
         UNCHANGED <<groups, inserted, member, hold, lastGroup>>, raced' \subseteq Names
  PROVE  TypedInv'
  <1>1. /\ job' \in [Clerks -> Jobs] /\ job[h].does = "nothing" /\ job'[h] = j
        /\ \A k \in Clerks \ {h} : job'[k] = job[k]
    <2>1. job \in [Clerks -> Jobs] /\ job' = [job EXCEPT ![h] = j]
      BY DEF TypedInv, GroupsTypeOK, Takes
    <2>2. job[h] = Idle
      BY DEF Takes
    <2>3. job[h].does = "nothing"
      BY <2>2 DEF Idle
    <2> QED
      BY <2>1, <2>3
  <1>2. GroupsTypeOK'
    <2>1. lastGroup' \in Ids \cup {0} /\ raced' \subseteq Names /\ job' \in [Clerks -> Jobs]
      BY <1>1 DEF TypedInv, GroupsTypeOK
    <2>2. DOMAIN groups' \subseteq 1..lastGroup' /\ groups' \in [DOMAIN groups' -> Names]
      BY DEF TypedInv, GroupsTypeOK
    <2>3. inserted' \in [Clerks -> 0..lastGroup'] /\ hold' \in [Clerks -> 0..lastGroup']
      BY DEF TypedInv, GroupsTypeOK
    <2>4. member' \in [Members -> DOMAIN groups' \cup {-1, 0}]
      BY DEF TypedInv, GroupsTypeOK
    <2> QED
      BY <2>1, <2>2, <2>3, <2>4 DEF GroupsTypeOK
  <1>3. inserted[h] = 0
    BY <1>1 DEF TypedInv, JobsFit, JobFits, Inserters
  <1>4. JobFits(h)'
    BY <1>1, <1>3 DEF JobFits, Writers, OfProcess, Inserters, Committers
  <1>5. ASSUME NEW k \in Clerks \ {h} PROVE JobFits(k)'
    BY <1>1, <1>5 DEF TypedInv, JobsFit, JobFits
  <1> QED
    BY <1>2, <1>4, <1>5 DEF TypedInv, JobsFit

\* A clerk that is done, when the groups that other clerks hold are still there.
LEMMA TypedEnds ==
  ASSUME TypedInv, NEW h \in Clerks, lastGroup' \in Ids \cup {0}, lastGroup' >= lastGroup,
         job' = [job EXCEPT ![h] = Idle], hold' = [hold EXCEPT ![h] = 0],
         inserted' = [inserted EXCEPT ![h] = 0],
         DOMAIN groups \subseteq DOMAIN groups', DOMAIN groups' \subseteq 1..lastGroup',
         groups' \in [DOMAIN groups' -> Names],
         member' \in [Members -> DOMAIN groups' \cup {-1, 0}], UNCHANGED raced
  PROVE  TypedInv'
  <1>0. lastGroup \in Nat /\ lastGroup' \in Nat
    BY DEF TypedInv, GroupsTypeOK, Ids
  <1>1. /\ job'[h] = Idle /\ inserted'[h] = 0
        /\ \A k \in Clerks \ {h} : /\ job'[k] = job[k] /\ inserted'[k] = inserted[k]
                                   /\ hold'[k] = hold[k]
    BY DEF TypedInv, GroupsTypeOK
  <1>2. Idle \in Jobs
    BY DEF Idle, Jobs
  <1>3. /\ job' \in [Clerks -> Jobs] /\ inserted' \in [Clerks -> 0..lastGroup']
        /\ hold' \in [Clerks -> 0..lastGroup']
    BY <1>0, <1>2 DEF TypedInv, GroupsTypeOK
  <1>4. GroupsTypeOK'
    <2>1. raced' \subseteq Names
      BY DEF TypedInv, GroupsTypeOK
    <2> QED
      BY <1>3, <2>1 DEF GroupsTypeOK
  <1>5. JobFits(h)'
    BY <1>0, <1>1 DEF JobFits, Idle, Writers, OfProcess, Inserters, Committers
  <1>6. ASSUME NEW k \in Clerks \ {h} PROVE JobFits(k)'
    BY <1>0, <1>1, <1>6 DEF TypedInv, JobsFit, JobFits
  <1> QED
    BY <1>4, <1>5, <1>6 DEF TypedInv, JobsFit

\* A clerk that is done with a group of its own: it has inserted and locked nothing.
LEMMA TypedFrees ==
  ASSUME TypedInv, NEW h \in Clerks, job[h].does \in {"create", "rename"},
         lastGroup' \in Ids \cup {0}, lastGroup' >= lastGroup,
         job' = [job EXCEPT ![h] = Idle], UNCHANGED <<inserted, hold, raced>>,
         DOMAIN groups \subseteq DOMAIN groups', DOMAIN groups' \subseteq 1..lastGroup',
         groups' \in [DOMAIN groups' -> Names],
         member' \in [Members -> DOMAIN groups' \cup {-1, 0}]
  PROVE  TypedInv'
  <1>0. lastGroup \in Nat /\ lastGroup' \in Nat
    BY DEF TypedInv, GroupsTypeOK, Ids
  <1>1. /\ job'[h] = Idle /\ inserted'[h] = 0
        /\ \A k \in Clerks \ {h} : job'[k] = job[k]
    BY DEF TypedInv, GroupsTypeOK, JobsFit, JobFits, Inserters
  <1>2. Idle \in Jobs
    BY DEF Idle, Jobs
  <1>3. /\ job' \in [Clerks -> Jobs] /\ inserted' \in [Clerks -> 0..lastGroup']
        /\ hold' \in [Clerks -> 0..lastGroup']
    BY <1>0, <1>2 DEF TypedInv, GroupsTypeOK
  <1>4. GroupsTypeOK'
    <2>1. raced' \subseteq Names
      BY DEF TypedInv, GroupsTypeOK
    <2> QED
      BY <1>3, <2>1 DEF GroupsTypeOK
  <1>5. JobFits(h)'
    BY <1>0, <1>1 DEF JobFits, Idle, Writers, OfProcess, Inserters, Committers
  <1>6. ASSUME NEW k \in Clerks \ {h} PROVE JobFits(k)'
    BY <1>0, <1>1, <1>6 DEF TypedInv, JobsFit, JobFits
  <1> QED
    BY <1>4, <1>5, <1>6 DEF TypedInv, JobsFit

\* The steps of a request about a group.
LEMMA TypedGroupJobs ==
  ASSUME TypedInv, NEW h \in Clerks
  PROVE  /\ \A n \in Names : Checks(h, "create", n, "none") => TypedInv'
         /\ \A n \in Names, p \in Members : Checks(h, "addGroup", n, p) => TypedInv'
         /\ \A n \in Names, id \in DOMAIN groups : ChecksOthers(h, id, n) => TypedInv'
         /\ CreateGroup(h) => TypedInv'
         /\ UpdateGroup(h) => TypedInv'
         /\ RollsBack(h) => TypedInv'
  <1>0. /\ lastGroup \in Nat /\ DOMAIN groups \subseteq 1..lastGroup /\ lastGroup <= MaxGroups
        /\ MaxGroups \in Nat /\ raced \subseteq Names /\ JobFits(h)
        /\ inserted[h] \in 0..lastGroup /\ hold[h] \in 0..lastGroup
    BY GroupsAssumption DEF TypedInv, GroupsTypeOK, Ids, JobsFit
  <1>1. ASSUME NEW n \in Names, Checks(h, "create", n, "none") PROVE TypedInv'
    <2> DEFINE j == [does |-> "create", id |-> 0, name |-> n, proc |-> "none"]
    <2>1. j \in Jobs /\ j.id = 0 /\ j.does = "create" /\ j.name = n
      BY DEF Jobs, Writers
    <2>2. Takes(h, j) /\ UNCHANGED <<groups, inserted, member, hold, lastGroup>>
          /\ raced' \subseteq Names
      BY <1>0, <1>1 DEF Checks, Races
    <2> HIDE DEF j
    <2> QED
      BY <1>0, <2>1, <2>2, TypedTakes
  <1>2. ASSUME NEW n \in Names, NEW p \in Members, Checks(h, "addGroup", n, p)
        PROVE  TypedInv'
    <2> DEFINE j == [does |-> "addGroup", id |-> 0, name |-> n, proc |-> p]
    <2>1. j \in Jobs /\ j.id = 0 /\ j.does = "addGroup" /\ j.name = n /\ j.proc = p
      BY DEF Jobs, Writers
    <2>2. Takes(h, j) /\ UNCHANGED <<groups, inserted, member, hold, lastGroup>>
          /\ raced' \subseteq Names
      BY <1>0, <1>2 DEF Checks, Races
    <2> HIDE DEF j
    <2> QED
      BY <1>0, <2>1, <2>2, TypedTakes
  <1>3. ASSUME NEW n \in Names, NEW id \in DOMAIN groups, ChecksOthers(h, id, n)
        PROVE  TypedInv'
    <2> DEFINE j == [does |-> "rename", id |-> id, name |-> n, proc |-> "none"]
    <2>1. j \in Jobs /\ j.id = id /\ j.does = "rename" /\ j.name = n
      BY <1>0 DEF Jobs, Writers, Ids
    <2>2. Takes(h, j) /\ UNCHANGED <<groups, inserted, member, hold, lastGroup>>
          /\ raced' \subseteq Names
      BY <1>0, <1>3 DEF ChecksOthers, Races
    <2> HIDE DEF j
    <2> QED
      BY <1>0, <2>1, <2>2, TypedTakes
  <1>5. ASSUME CreateGroup(h) PROVE TypedInv'
    <2>1. job[h].name \in Names /\ lastGroup' = lastGroup + 1 /\ lastGroup' \in Ids
      BY <1>0, <1>5 DEF CreateGroup, JobFits, Writers, Ids
    <2>2. /\ DOMAIN groups' = DOMAIN groups \cup {lastGroup'}
          /\ groups' \in [DOMAIN groups' -> Names]
      <3>1. groups' = With(lastGroup', job[h].name)
        BY <1>5 DEF CreateGroup
      <3>2. GroupsTypeOK
        BY DEF TypedInv
      <3> QED
        <4>1. PICK id, n : id = lastGroup' /\ n = job[h].name /\ n \in Names
          BY <2>1
        <4>2. groups' = With(id, n)
          BY ONLY <3>1, <4>1
        <4> QED
          BY ONLY <3>2, <4>1, <4>2, WithTyped
    <2>3. /\ job[h].does = "create" /\ job' = [job EXCEPT ![h] = Idle]
          /\ UNCHANGED <<inserted, hold, raced>> /\ member' = member
      BY <1>5 DEF CreateGroup
    <2>4. member' \in [Members -> DOMAIN groups' \cup {-1, 0}]
      BY <2>2, <2>3, MemberStays
    <2>5. /\ lastGroup' \in Ids \cup {0} /\ lastGroup' >= lastGroup
          /\ DOMAIN groups' \subseteq 1..lastGroup'
      BY <1>0, <2>1, <2>2
    <2> QED
      BY <2>2, <2>3, <2>4, <2>5, TypedFrees
  <1>6. ASSUME UpdateGroup(h) PROVE TypedInv'
    <2>1. job[h].name \in Names
      BY <1>0, <1>6 DEF UpdateGroup, JobFits, Writers
    <2>2. DOMAIN groups' = DOMAIN groups /\ groups' \in [DOMAIN groups' -> Names]
      <3>1. GroupsTypeOK /\ groups \in [DOMAIN groups -> Names]
        BY DEF TypedInv, GroupsTypeOK
      <3>2. CASE job[h].id \in DOMAIN groups
        <4>1. /\ groups' = With(job[h].id, job[h].name)
              /\ DOMAIN groups \cup {job[h].id} = DOMAIN groups
          BY <1>6, <3>2 DEF UpdateGroup
        <4> QED
          BY <2>1, <3>1, <4>1, WithTyped
      <3>3. CASE job[h].id \notin DOMAIN groups
        BY <1>6, <3>1, <3>3 DEF UpdateGroup
      <3> QED
        BY <3>2, <3>3
    <2>3. /\ job[h].does = "rename" /\ job' = [job EXCEPT ![h] = Idle]
          /\ UNCHANGED <<inserted, hold, raced>> /\ member' = member /\ lastGroup' = lastGroup
      BY <1>6 DEF UpdateGroup
    <2>4. member' \in [Members -> DOMAIN groups' \cup {-1, 0}]
      BY <2>2, <2>3, MemberStays
    <2>5. /\ lastGroup' \in Ids \cup {0} /\ lastGroup' >= lastGroup
          /\ DOMAIN groups' \subseteq 1..lastGroup'
      BY <1>0, <2>2, <2>3 DEF TypedInv, GroupsTypeOK
    <2> QED
      BY <2>2, <2>3, <2>4, <2>5, TypedFrees
  <1>7. ASSUME RollsBack(h) PROVE TypedInv'
    <2>1. /\ job' = [job EXCEPT ![h] = Idle] /\ hold' = [hold EXCEPT ![h] = 0]
          /\ inserted' = [inserted EXCEPT ![h] = 0] /\ lastGroup' = lastGroup
          /\ UNCHANGED raced /\ groups' = groups /\ member' = member
      BY <1>7 DEF RollsBack, JobEnds
    <2>2. member' \in [Members -> DOMAIN groups' \cup {-1, 0}]
      BY <2>1, MemberStays
    <2>3. /\ lastGroup' \in Ids \cup {0} /\ lastGroup' >= lastGroup
          /\ DOMAIN groups' \subseteq 1..lastGroup' /\ groups' \in [DOMAIN groups' -> Names]
      BY <1>0, <2>1 DEF TypedInv, GroupsTypeOK
    <2> QED
      BY <2>1, <2>2, <2>3, TypedEnds
  <1> QED
    BY <1>1, <1>2, <1>3, <1>5, <1>6, <1>7

\* A clerk whose transaction goes on disturbs no other.
LEMMA TypedMoves ==
  ASSUME TypedInv, NEW h \in Clerks, job'[h] \in Jobs, job' = [job EXCEPT ![h] = job'[h]],
         lastGroup' \in Ids \cup {0}, lastGroup' >= lastGroup,
         inserted'[h] \in 0..lastGroup', inserted' = [inserted EXCEPT ![h] = inserted'[h]],
         hold'[h] \in 0..lastGroup', hold' = [hold EXCEPT ![h] = hold'[h]],
         groups' = groups, member' = member, raced' = raced
  PROVE  GroupsTypeOK' /\ \A k \in Clerks \ {h} : JobFits(k)'
  <1>0. lastGroup \in Nat /\ lastGroup' \in Nat
    BY DEF TypedInv, GroupsTypeOK, Ids
  <1>1. \A k \in Clerks \ {h} : /\ job'[k] = job[k] /\ inserted'[k] = inserted[k]
                                /\ hold'[k] = hold[k]
    BY DEF TypedInv, GroupsTypeOK
  <1>2. GroupsTypeOK'
    <2>1. job' \in [Clerks -> Jobs] /\ raced' \subseteq Names
      BY DEF TypedInv, GroupsTypeOK
    <2>2. DOMAIN groups' \subseteq 1..lastGroup' /\ groups' \in [DOMAIN groups' -> Names]
      BY <1>0 DEF TypedInv, GroupsTypeOK
    <2>3. inserted' \in [Clerks -> 0..lastGroup'] /\ hold' \in [Clerks -> 0..lastGroup']
      BY <1>0 DEF TypedInv, GroupsTypeOK
    <2>4. member' \in [Members -> DOMAIN groups' \cup {-1, 0}]
      BY MemberStays
    <2> QED
      BY <2>1, <2>2, <2>3, <2>4 DEF GroupsTypeOK
  <1>3. ASSUME NEW k \in Clerks \ {h} PROVE JobFits(k)'
    BY <1>0, <1>1, <1>3 DEF TypedInv, JobsFit, JobFits
  <1> QED
    BY <1>2, <1>3

\* The steps of a request about a process, and the deletion of a group.
LEMMA TypedProcessJobs ==
  ASSUME TypedInv, NEW h \in Clerks
  PROVE  /\ \A p \in Members, id \in Ids \cup {0} : ChecksGroup(h, id, p) => TypedInv'
         /\ InsertsGroup(h) => TypedInv'
         /\ WritesProcess(h) => TypedInv'
         /\ Commits(h) => TypedInv'
  <1>0. /\ lastGroup \in Nat /\ DOMAIN groups \subseteq 1..lastGroup /\ lastGroup \in Ids \cup {0}
        /\ MaxGroups \in Nat /\ raced \subseteq Names /\ JobFits(h) /\ GroupsTypeOK
        /\ inserted[h] \in 0..lastGroup /\ hold[h] \in 0..lastGroup /\ job[h] \in Jobs
        /\ job \in [Clerks -> Jobs] /\ groups \in [DOMAIN groups -> Names]
    BY GroupsAssumption DEF TypedInv, GroupsTypeOK, Ids, JobsFit
  <1>1. ASSUME NEW p \in Members, NEW id \in Ids \cup {0}, ChecksGroup(h, id, p)
        PROVE  TypedInv'
    <2> DEFINE j == [does |-> "useGroup", id |-> id, name |-> "none", proc |-> p]
    <2>1. j \in Jobs /\ j.id = id /\ j.does = "useGroup" /\ j.proc = p
      BY DEF Jobs
    <2>2. Takes(h, j) /\ UNCHANGED <<groups, inserted, member, hold, lastGroup>>
          /\ raced' \subseteq Names /\ id \in 0..lastGroup
      BY <1>0, <1>1 DEF ChecksGroup
    <2> HIDE DEF j
    <2> QED
      BY <1>0, <2>1, <2>2, TypedTakes
  <1>2. ASSUME InsertsGroup(h) PROVE TypedInv'
    <2> DEFINE j == [job[h] EXCEPT !.does = "addProcess", !.id = lastGroup']
    <2>1. /\ job[h].does = "addGroup" /\ lastGroup' = lastGroup + 1 /\ lastGroup' \in Ids
          /\ inserted' = [inserted EXCEPT ![h] = lastGroup'] /\ groups' = groups
          /\ member' = member /\ raced' = raced /\ hold' = hold
      BY <1>0, <1>2 DEF InsertsGroup, Ids
    <2>2. job' = [job EXCEPT ![h] = j]
      BY <1>0, <1>2 DEF InsertsGroup
    <2>3. /\ j \in Jobs /\ j.does = "addProcess" /\ j.id = lastGroup'
          /\ j.name = job[h].name /\ j.proc = job[h].proc
      BY <1>0, <2>1 DEF Jobs, Writers
    <2> HIDE DEF j
    <2>4. job[h].name \in Names /\ job[h].proc \in Members
      BY <1>0, <2>1 DEF JobFits, Writers, OfProcess
    <2>5. /\ job'[h] = j /\ inserted'[h] = lastGroup' /\ hold'[h] = hold[h]
          /\ hold' = [hold EXCEPT ![h] = hold[h]]
          /\ lastGroup' \in 0..lastGroup' /\ hold[h] \in 0..lastGroup' /\ lastGroup' >= lastGroup
      BY <1>0, <2>1, <2>2 DEF GroupsTypeOK
    <2>6. JobFits(h)'
      BY <1>0, <2>1, <2>3, <2>4, <2>5 DEF JobFits, Writers, OfProcess, Inserters, Committers
    <2>7. GroupsTypeOK' /\ \A k \in Clerks \ {h} : JobFits(k)'
      BY <2>1, <2>2, <2>3, <2>5, TypedMoves
    <2> QED
      BY <2>6, <2>7 DEF TypedInv, JobsFit
  <1>3. ASSUME WritesProcess(h) PROVE TypedInv'
    <2> DEFINE to == IF job[h].does = "addProcess" THEN "commitBoth" ELSE "commitProcess"
               j == [job[h] EXCEPT !.does = to]
    <2>1. /\ job[h].does \in {"addProcess", "useGroup"} /\ lastGroup' = lastGroup
          /\ job[h].id \in DOMAIN groups \cup {0, inserted[h]}
          /\ hold' = [hold EXCEPT ![h] = job[h].id] /\ groups' = groups
          /\ member' = member /\ raced' = raced /\ inserted' = inserted
      BY <1>3 DEF WritesProcess
    <2>2. job' = [job EXCEPT ![h] = j]
      BY <1>0, <1>3 DEF WritesProcess
    <2>3. /\ j \in Jobs /\ j.does = to /\ j.id = job[h].id
          /\ j.name = job[h].name /\ j.proc = job[h].proc
      BY <1>0, <2>1 DEF Jobs, Writers
    <2>4. to \in Committers /\ (to \in Inserters <=> job[h].does \in Inserters)
          /\ (to \in Writers => job[h].does \in Writers)
      BY <2>1 DEF Inserters, Committers, Writers
    <2> HIDE DEF j, to
    <2>5. job'[h] = j /\ inserted'[h] = inserted[h] /\ hold'[h] = job[h].id
      BY <1>0, <2>1, <2>2 DEF GroupsTypeOK
    <2>6. job[h].proc \in Members /\ job[h].id \in 0..lastGroup
      BY <1>0, <2>1 DEF JobFits, OfProcess, Inserters
    <2>7. JobFits(h)'
      BY <1>0, <2>1, <2>3, <2>4, <2>5, <2>6 DEF JobFits
    <2>8. /\ inserted' = [inserted EXCEPT ![h] = inserted[h]]
          /\ lastGroup' >= lastGroup /\ lastGroup' \in Ids \cup {0}
          /\ inserted[h] \in 0..lastGroup' /\ hold'[h] \in 0..lastGroup'
      BY <1>0, <2>1, <2>5, <2>6 DEF GroupsTypeOK
    <2>9. GroupsTypeOK' /\ \A k \in Clerks \ {h} : JobFits(k)'
      BY <2>1, <2>2, <2>3, <2>5, <2>8, TypedMoves
    <2> QED
      BY <2>7, <2>9 DEF TypedInv, JobsFit
  <1>4. ASSUME Commits(h) PROVE TypedInv'
    <2>1. /\ job' = [job EXCEPT ![h] = Idle] /\ hold' = [hold EXCEPT ![h] = 0]
          /\ inserted' = [inserted EXCEPT ![h] = 0] /\ lastGroup' = lastGroup
          /\ raced' = raced /\ member' = [member EXCEPT ![job[h].proc] = job[h].id]
          /\ job[h].does \in Committers
      BY <1>4 DEF Commits, JobEnds, Committers
    <2>2. /\ DOMAIN groups' = DOMAIN groups \cup ({inserted[h]} \ {0})
          /\ groups' \in [DOMAIN groups' -> Names]
      <3>1. CASE inserted[h] # 0
        <4>1. job[h].name \in Names
          BY <1>0, <3>1 DEF JobFits, Inserters, Writers
        <4>2. groups' = With(inserted[h], job[h].name)
          BY <1>4, <3>1 DEF Commits
        <4>3. {inserted[h]} \ {0} = {inserted[h]}
          BY <3>1
        <4> QED
          BY <1>0, <4>1, <4>2, <4>3, WithTyped
      <3>2. CASE inserted[h] = 0
        BY <1>0, <1>4, <3>2 DEF Commits
      <3> QED
        BY <3>1, <3>2
    <2>3. job[h].id \in DOMAIN groups' \cup {0}
      BY <1>0, <2>1, <2>2 DEF JobFits
    <2>4. member' \in [Members -> DOMAIN groups' \cup {-1, 0}]
      <3>1. member \in [Members -> DOMAIN groups' \cup {-1, 0}]
        BY <1>0, <2>2 DEF GroupsTypeOK
      <3> QED
        BY <2>1, <2>3, <3>1
    <2>5. DOMAIN groups' \subseteq 1..lastGroup'
      BY <1>0, <2>1, <2>2
    <2>6. lastGroup' \in Ids \cup {0} /\ lastGroup' >= lastGroup /\ UNCHANGED raced
      BY <1>0, <2>1
    <2>7. DOMAIN groups \subseteq DOMAIN groups'
      BY <2>2
    <2> QED
      BY <2>1, <2>2, <2>4, <2>5, <2>6, <2>7, TypedEnds
  <1> QED
    BY <1>1, <1>2, <1>3, <1>4

\* A group goes only when no transaction holds it, and its processes lose it.
LEMMA TypedDelete == ASSUME TypedInv, NEW id \in Ids, DeleteGroup(id) PROVE TypedInv'
  <1>1. /\ DOMAIN groups' = DOMAIN groups \ {id} /\ \A i \in DOMAIN groups' : groups'[i] = groups[i]
        /\ groups' = [i \in DOMAIN groups \ {id} |-> groups[i]]
    BY DEF DeleteGroup, Without
  <1>2. groups' \in [DOMAIN groups' -> Names] /\ DOMAIN groups' \subseteq 1..lastGroup
    BY <1>1 DEF TypedInv, GroupsTypeOK
  <1>3. member' \in [Members -> DOMAIN groups' \cup {-1, 0}]
    BY <1>1 DEF DeleteGroup, TypedInv, GroupsTypeOK
  <1>4. /\ inserted' = inserted /\ hold' = hold /\ job' = job /\ lastGroup' = lastGroup
        /\ raced' = raced /\ \A h \in Clerks : hold[h] # id
    BY DEF DeleteGroup
  <1>5. GroupsTypeOK'
    BY <1>2, <1>3, <1>4 DEF TypedInv, GroupsTypeOK
  <1>6. ASSUME NEW h \in Clerks PROVE JobFits(h)'
    BY <1>1, <1>4, <1>6 DEF TypedInv, JobsFit, JobFits
  <1> QED
    BY <1>5, <1>6 DEF TypedInv, JobsFit

\* Every step keeps the types.
LEMMA TypedStep == TypedInv /\ [GroupsNext]_groupVars => TypedInv'
  <1> SUFFICES ASSUME TypedInv, [GroupsNext]_groupVars PROVE TypedInv'
    OBVIOUS
  <1>1. CASE UNCHANGED groupVars
    BY <1>1 DEF groupVars, TypedInv, GroupsTypeOK, JobsFit, JobFits
  <1> QED
    BY <1>1, TypedGroupJobs, TypedProcessJobs, TypedDelete DEF GroupsNext

-----------------------------------------------------------------------------
(* Names.                                                                   *)

\* Steps that write no name: a clerk goes on with the one it has, or is done with it.
LEMMA NamesKept ==
  ASSUME NamesInv, raced' = raced,
         DOMAIN groups' \subseteq DOMAIN groups, \A i \in DOMAIN groups' : groups'[i] = groups[i],
         \A k \in Clerks : \/ job'[k] = job[k]
                           \/ job'[k].does \notin Writers
                           \/ /\ job[k].does \in Writers \ {"rename"}
                              /\ job'[k].name = job[k].name
  PROVE  NamesInv'
  <1>1. NamesUnique'
    BY DEF NamesInv, NamesUnique
  <1>2. ASSUME NEW n \in Names \ raced, NEW h \in Between(n)'
        PROVE  /\ \A k \in Between(n)' : k = h
               /\ \A i \in DOMAIN groups' :
                    groups'[i] = n => job'[h].does = "rename" /\ job'[h].id = i
    <2>1. Between(n)' \subseteq Between(n)
      BY DEF Between
    <2>2. \A i \in DOMAIN groups : groups[i] = n => job[h].does = "rename" /\ job[h].id = i
      BY <2>1 DEF NamesInv, OneBetween
    <2>3. h \in Clerks /\ job'[h].does \in Writers
      BY DEF Between
    <2> QED
      BY <2>1, <2>2, <2>3 DEF NamesInv, OneBetween
  <1> QED
    BY <1>1, <1>2 DEF NamesInv, OneBetween

\* A clerk checks a name that no group has, but for the one it wants to rename.
LEMMA NamesChecked ==
  ASSUME TypedInv, NamesInv, NEW n \in Names, NEW h \in Clerks, NEW j, Takes(h, j),
         j.name = n, Races(n), groups' = groups,
         \A i \in DOMAIN groups : groups[i] = n => j.does = "rename" /\ j.id = i
  PROVE  NamesInv'
  <1>1. /\ job[h].does \notin Writers /\ job'[h] = j
        /\ \A k \in Clerks \ {h} : job'[k] = job[k]
    BY DEF Takes, Idle, Writers, TypedInv, GroupsTypeOK
  <1>2. raced \subseteq raced'
    BY DEF Races
  <1>3. NamesUnique'
    BY <1>2 DEF NamesInv, NamesUnique
  <1>4. ASSUME NEW m \in Names \ raced', NEW k \in Between(m)'
        PROVE  /\ \A l \in Between(m)' : l = k
               /\ \A i \in DOMAIN groups' :
                    groups'[i] = m => job'[k].does = "rename" /\ job'[k].id = i
    <2>1. CASE m = n
      <3>1. Between(n) = {}
        BY <2>1 DEF Races
      <3>2. \A l \in Between(m)' : l = h
        BY <1>1, <2>1, <3>1 DEF Between
      <3> QED
        BY <1>1, <2>1, <3>2
    <2>2. CASE m # n
      <3>1. Between(m)' \subseteq Between(m) \ {h}
        BY <1>1, <2>2 DEF Between
      <3>2. k \in Clerks \ {h} /\ job'[k] = job[k]
        BY <1>1, <3>1 DEF Between
      <3> QED
        BY <1>2, <3>1, <3>2 DEF NamesInv, OneBetween
    <2> QED
      BY <2>1, <2>2
  <1> QED
    BY <1>3, <1>4 DEF NamesInv, OneBetween

\* A clerk writes the name it has checked.
LEMMA NamesWritten ==
  ASSUME TypedInv, NamesInv, NEW n \in Names, NEW h \in Between(n), NEW id,
         job[h].does = "rename" => id = job[h].id,
         groups' = With(id, n), raced' = raced, job' = [job EXCEPT ![h] = Idle]
  PROVE  NamesInv'
  <1>1. /\ h \in Clerks /\ job'[h].does \notin Writers
        /\ \A k \in Clerks \ {h} : job'[k] = job[k]
    BY DEF Between, Idle, Writers, TypedInv, GroupsTypeOK
  <1>2. /\ DOMAIN groups' = DOMAIN groups \cup {id} /\ groups'[id] = n
        /\ \A i \in DOMAIN groups \ {id} : groups'[i] = groups[i]
    <2>1. GroupsTypeOK
      BY DEF TypedInv
    <2>2. /\ DOMAIN With(id, n) = DOMAIN groups \cup {id} /\ With(id, n)[id] = n
          /\ \A i \in DOMAIN groups \ {id} : With(id, n)[i] = groups[i]
      BY <2>1, WithTyped
    <2> QED
      BY <2>2
  <1>3. n \notin raced => \A i \in DOMAIN groups' : groups'[i] = n => i = id
    BY <1>2 DEF NamesInv, OneBetween
  <1>4. NamesUnique'
    BY <1>2, <1>3 DEF NamesInv, NamesUnique
  <1>5. ASSUME NEW m \in Names \ raced', NEW k \in Between(m)'
        PROVE  /\ \A l \in Between(m)' : l = k
               /\ \A i \in DOMAIN groups' :
                    groups'[i] = m => job'[k].does = "rename" /\ job'[k].id = i
    <2>1. Between(m)' \subseteq Between(m) \ {h}
      BY <1>1 DEF Between
    <2>2. k \in Clerks \ {h} /\ job'[k] = job[k]
      BY <1>1, <2>1 DEF Between
    <2>3. m # n
      BY <2>1 DEF NamesInv, OneBetween
    <2> QED
      BY <1>2, <2>1, <2>2, <2>3 DEF NamesInv, OneBetween
  <1> QED
    BY <1>4, <1>5 DEF NamesInv, OneBetween

\* Every step keeps the invariant about names.
LEMMA NamesStep == TypedInv /\ NamesInv /\ [GroupsNext]_groupVars => NamesInv'
  <1> SUFFICES ASSUME TypedInv, NamesInv, [GroupsNext]_groupVars PROVE NamesInv'
    OBVIOUS
  <1>0. job \in [Clerks -> Jobs]
    BY DEF TypedInv, GroupsTypeOK
  <1>1. ASSUME NEW h \in Clerks, NEW n \in Names, Checks(h, "create", n, "none") PROVE NamesInv'
    <2> DEFINE j == [does |-> "create", id |-> 0, name |-> n, proc |-> "none"]
    <2>1. /\ Takes(h, j) /\ Races(n) /\ groups' = groups /\ j.name = n
          /\ \A i \in DOMAIN groups : groups[i] # n
      BY <1>1 DEF Checks, NameIsFree
    <2> HIDE DEF j
    <2> QED
      BY <2>1, NamesChecked
  <1>2. ASSUME NEW h \in Clerks, NEW n \in Names, NEW p \in Members, Checks(h, "addGroup", n, p)
        PROVE  NamesInv'
    <2> DEFINE j == [does |-> "addGroup", id |-> 0, name |-> n, proc |-> p]
    <2>1. /\ Takes(h, j) /\ Races(n) /\ groups' = groups /\ j.name = n
          /\ \A i \in DOMAIN groups : groups[i] # n
      BY <1>2 DEF Checks, NameIsFree
    <2> HIDE DEF j
    <2> QED
      BY <2>1, NamesChecked
  <1>3. ASSUME NEW h \in Clerks, NEW n \in Names, NEW id \in DOMAIN groups,
               ChecksOthers(h, id, n)
        PROVE  NamesInv'
    <2> DEFINE j == [does |-> "rename", id |-> id, name |-> n, proc |-> "none"]
    <2>1. /\ Takes(h, j) /\ Races(n) /\ groups' = groups
          /\ j.name = n /\ j.does = "rename" /\ j.id = id
          /\ \A i \in DOMAIN groups : groups[i] = n => i = id
      BY <1>3 DEF ChecksOthers
    <2> HIDE DEF j
    <2> QED
      BY <2>1, NamesChecked
  <1>4. ASSUME NEW h \in Clerks, NEW p \in Members, NEW id \in Ids \cup {0}, ChecksGroup(h, id, p)
        PROVE  NamesInv'
    <2>1. /\ \A k \in Clerks : job'[k] = job[k] \/ job'[k].does = "useGroup"
          /\ groups' = groups /\ raced' = raced
      BY <1>0, <1>4 DEF ChecksGroup, Takes
    <2> QED
      BY <2>1, NamesKept DEF Writers
  <1>5. ASSUME NEW h \in Clerks, CreateGroup(h) PROVE NamesInv'
    <2>1. h \in Between(job[h].name) /\ job[h].name \in Names /\ job[h].does = "create"
      BY <1>5 DEF CreateGroup, Between, Writers, TypedInv, JobsFit, JobFits
    <2> QED
      BY <1>5, <2>1, NamesWritten DEF CreateGroup
  <1>6. ASSUME NEW h \in Clerks, UpdateGroup(h) PROVE NamesInv'
    <2>1. h \in Between(job[h].name) /\ job[h].name \in Names
      BY <1>6 DEF UpdateGroup, Between, Writers, TypedInv, JobsFit, JobFits
    <2>2. CASE job[h].id \in DOMAIN groups
      BY <1>6, <2>1, <2>2, NamesWritten DEF UpdateGroup
    <2>3. CASE job[h].id \notin DOMAIN groups
      <3>1. /\ groups' = groups /\ raced' = raced
            /\ \A k \in Clerks : job'[k] = job[k] \/ job'[k].does = "nothing"
        BY <1>0, <1>6, <2>3 DEF UpdateGroup, Idle
      <3> QED
        BY <3>1, NamesKept DEF Writers
    <2> QED
      BY <2>2, <2>3
  <1>7. ASSUME NEW h \in Clerks, InsertsGroup(h) PROVE NamesInv'
    <2>1. /\ groups' = groups /\ raced' = raced /\ job[h].does = "addGroup"
          /\ job'[h].name = job[h].name /\ \A k \in Clerks \ {h} : job'[k] = job[k]
      BY <1>0, <1>7 DEF InsertsGroup, Jobs
    <2> QED
      BY <2>1, NamesKept DEF Writers
  <1>8. ASSUME NEW h \in Clerks, WritesProcess(h) PROVE NamesInv'
    <2>1. /\ groups' = groups /\ raced' = raced /\ job[h].does \in {"addProcess", "useGroup"}
          /\ job'[h].name = job[h].name /\ \A k \in Clerks \ {h} : job'[k] = job[k]
          /\ job[h].does = "useGroup" => job'[h].does = "commitProcess"
      BY <1>0, <1>8 DEF WritesProcess, Jobs
    <2> QED
      BY <2>1, NamesKept DEF Writers
  <1>9. ASSUME NEW h \in Clerks, Commits(h) PROVE NamesInv'
    <2>1. /\ raced' = raced /\ job' = [job EXCEPT ![h] = Idle]
          /\ job[h].does \in {"commitBoth", "commitProcess"}
      BY <1>9 DEF Commits, JobEnds
    <2>2. CASE inserted[h] # 0
      <3>1. job[h].does = "commitBoth"
        BY <2>1, <2>2 DEF TypedInv, JobsFit, JobFits, Inserters
      <3>2. h \in Between(job[h].name) /\ job[h].name \in Names
        BY <3>1 DEF Between, Writers, TypedInv, JobsFit, JobFits
      <3>3. groups' = With(inserted[h], job[h].name)
        BY <1>9, <2>2 DEF Commits
      <3> QED
        BY <2>1, <3>1, <3>2, <3>3, NamesWritten
    <2>3. CASE inserted[h] = 0
      <3>1. groups' = groups /\ \A k \in Clerks : job'[k] = job[k] \/ job'[k].does = "nothing"
        BY <1>0, <1>9, <2>1, <2>3 DEF Commits, Idle
      <3> QED
        BY <2>1, <3>1, NamesKept DEF Writers
    <2> QED
      BY <2>2, <2>3
  <1>10. ASSUME NEW h \in Clerks, RollsBack(h) PROVE NamesInv'
    <2>1. /\ groups' = groups /\ raced' = raced
          /\ \A k \in Clerks : job'[k] = job[k] \/ job'[k].does = "nothing"
      BY <1>0, <1>10 DEF RollsBack, JobEnds, Idle
    <2> QED
      BY <2>1, NamesKept DEF Writers
  <1>11. ASSUME NEW id \in Ids, DeleteGroup(id) PROVE NamesInv'
    BY <1>11, NamesKept DEF DeleteGroup, Without
  <1>12. CASE UNCHANGED groupVars
    BY <1>12, NamesKept DEF groupVars
  <1> QED
    BY <1>1, <1>2, <1>3, <1>4, <1>5, <1>6, <1>7, <1>8, <1>9, <1>10, <1>11, <1>12 DEF GroupsNext

-----------------------------------------------------------------------------
(* The groups of processes.                                                 *)

\* No step takes the row of a process away, and a group that is made for a process is
\* committed with the row.
LEMMA MadeStep == TypedInv /\ MadeInv /\ [GroupsNext]_groupVars => MadeInv'
  <1> SUFFICES ASSUME TypedInv, MadeInv, [GroupsNext]_groupVars PROVE MadeInv'
    OBVIOUS
  <1>1. ASSUME madeFor' = madeFor, \A p \in Members : member[p] # -1 => member'[p] # -1
        PROVE  MadeInv'
    BY <1>1 DEF MadeInv, MadeForMembers, GroupComesWithProcess
  <1>2. ASSUME NEW h \in Clerks, Commits(h) PROVE MadeInv'
    <2>1. /\ job[h].proc \in Members /\ job[h].id \in Nat
          /\ member' = [member EXCEPT ![job[h].proc] = job[h].id]
      BY <1>2 DEF Commits, TypedInv, JobsFit, JobFits, OfProcess, Committers, GroupsTypeOK, Ids
    <2>2. /\ member'[job[h].proc] # -1
          /\ \A p \in Members : member[p] # -1 => member'[p] # -1
      BY <2>1 DEF TypedInv, GroupsTypeOK
    <2>3. CASE inserted[h] # 0
      <3>1. madeFor' = [i \in DOMAIN madeFor \cup {inserted[h]} |->
                          IF i = inserted[h] THEN job[h].proc ELSE madeFor[i]]
        BY <1>2, <2>3 DEF Commits
      <3> QED
        BY <2>1, <2>2, <3>1 DEF MadeInv, MadeForMembers, GroupComesWithProcess
    <2>4. CASE inserted[h] = 0
      BY <1>1, <1>2, <2>2, <2>4 DEF Commits
    <2> QED
      BY <2>3, <2>4
  <1>3. ASSUME NEW id \in Ids, DeleteGroup(id) PROVE MadeInv'
    <2>1. madeFor' = madeFor /\ \A p \in Members : member[p] # -1 => member'[p] # -1
      BY <1>3 DEF DeleteGroup
    <2> QED
      BY <1>1, <2>1
  <1>4. ASSUME madeFor' = madeFor, member' = member PROVE MadeInv'
    BY <1>1, <1>4
  <1> QED
    BY <1>2, <1>3, <1>4 DEF GroupsNext, Checks, ChecksOthers, ChecksGroup, CreateGroup,
       UpdateGroup, InsertsGroup, WritesProcess, RollsBack, groupVars

-----------------------------------------------------------------------------
(* The theorems.                                                            *)

\* The invariant holds in every state.
LEMMA GroupsAlways == GroupsSpec => [](TypedInv /\ NamesInv /\ MadeInv)
  <1>1. GroupsInit => NamesInv
    <2> SUFFICES ASSUME GroupsInit PROVE NamesInv
      OBVIOUS
    <2>1. DOMAIN groups = {} /\ \A h \in Clerks : job[h].does = "nothing"
      BY DEF GroupsInit, Idle
    <2> QED
      BY <2>1 DEF NamesInv, OneBetween, NamesUnique, Between, Writers
  <1>2. GroupsInit => MadeInv
    BY DEF GroupsInit, MadeInv, MadeForMembers, GroupComesWithProcess
  <1> QED
    BY <1>1, <1>2, TypedInit, TypedStep, NamesStep, MadeStep, PTL DEF GroupsSpec

\* A process never refers to a group that is gone, for any number of clerks and groups.
THEOREM GroupsTyped == GroupsSpec => []GroupsTypeOK
  <1>1. TypedInv => GroupsTypeOK
    BY DEF TypedInv
  <1> QED
    BY <1>1, GroupsAlways, PTL

\* Only requests that check a name at the same time can give it to two groups.
THEOREM NamesStayUnique == GroupsSpec => []NamesUnique
  <1>1. NamesInv => NamesUnique
    BY DEF NamesInv
  <1> QED
    BY <1>1, GroupsAlways, PTL

\* A group and the process for which it was made come together or not at all.
THEOREM GroupsComeWithProcesses == GroupsSpec => []GroupComesWithProcess
  <1>1. MadeInv => GroupComesWithProcess
    BY DEF MadeInv
  <1> QED
    BY <1>1, GroupsAlways, PTL
=============================================================================
