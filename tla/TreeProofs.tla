----------------------------- MODULE TreeProofs ------------------------------
(***************************************************************************)
(* Theorems about Tree and their proofs: what a kill leaves, and what the  *)
(* records of the usage add up to.                                         *)
(***************************************************************************)
EXTENDS Tree, FiniteSetTheorems, SequenceTheorems, TLAPS

(* Typing.                                                                  *)

Frame == [pid : Pids, todo : SUBSET Pids]

\* The processes are the ones that were forked, and the root is its own parent.
ProcessesTyped ==
  /\ DOMAIN parent \subseteq Pids /\ parent \in [DOMAIN parent -> DOMAIN parent]
  /\ alive \subseteq DOMAIN parent
  /\ Root \in DOMAIN parent /\ parent[Root] = Root
  /\ cpu \in [Pids -> 0..MaxCpu]

\* A walk begins at the root and does not come back to it.
WalkTyped ==
  /\ walk \in {"none", "usage", "kill", "killed"} /\ frames \in Seq(Frame)
  /\ walk \in {"usage", "kill"} => frames # <<>> /\ frames[1].pid = Root
  /\ \A i \in 1..Len(frames) : i # 1 => frames[i].pid # Root
  /\ \A i \in 1..Len(frames) : Root \notin frames[i].todo

NumbersTyped ==
  /\ total \in Nat /\ lastUsage \in Nat \cup {-1} /\ recorded \in Int
  /\ moved \in BOOLEAN /\ shrunk \in 0..2

TreeTyped == ProcessesTyped /\ WalkTyped /\ NumbersTyped

\* A call that returns leaves those below it.
LEMMA Popped ==
  ASSUME NEW F, NEW s \in Seq(F), s # <<>>, NEW t, t = SubSeq(s, 1, Len(s) - 1)
  PROVE  /\ t \in Seq(F) /\ Len(t) = Len(s) - 1 /\ Len(s) \in Nat /\ Len(s) >= 1
         /\ \A i \in 1..Len(s) - 1 : t[i] = s[i]
  <1>1. Len(s) \in Nat /\ Len(s) >= 1
    OBVIOUS
  <1>2. PICK n \in Nat : n = Len(s) - 1
    BY <1>1
  <1>3. \A i \in 1..n : s[i] \in F
    BY <1>1, <1>2
  <1>4. t \in Seq(F) /\ Len(t) = IF 1 <= n THEN n - 1 + 1 ELSE 0
    BY <1>2, <1>3, SubSeqProperties
  <1>5. ASSUME NEW i \in 1..Len(s) - 1 PROVE t[i] = s[i]
    BY <1>1
  <1> QED
    BY <1>1, <1>2, <1>4, <1>5

\* What two calls on top of the others leave as they are.
LEMMA Pushed ==
  ASSUME NEW r \in Seq(Frame), NEW ab \in Seq(Frame), Len(ab) = 2, NEW t, t = r \o ab
  PROVE  /\ t \in Seq(Frame) /\ Len(t) = Len(r) + 2 /\ Len(r) \in Nat
         /\ \A i \in 1..Len(r) : t[i] = r[i]
         /\ t[Len(r) + 1] = ab[1] /\ t[Len(r) + 2] = ab[2]
  <1>1. PICK n \in Nat : n = Len(r)
    OBVIOUS
  <1>2. /\ t \in Seq(Frame) /\ Len(t) = n + 2
        /\ \A i \in 1..n + 2 : t[i] = IF i <= n THEN r[i] ELSE ab[i - n]
    <2>1. /\ t \in Seq(Frame) /\ Len(t) = Len(r) + Len(ab)
          /\ \A i \in 1..Len(r) + Len(ab) : t[i] = IF i <= Len(r) THEN r[i] ELSE ab[i - Len(r)]
      BY ConcatProperties
    <2> QED
      BY <1>1, <2>1
  <1>3. n + 1 \in 1..n + 2 /\ ~(n + 1 <= n) /\ (n + 1) - n = 1
    OBVIOUS
  <1>4. n + 2 \in 1..n + 2 /\ ~(n + 2 <= n) /\ (n + 2) - n = 2
    OBVIOUS
  <1>5. t[n + 1] = ab[1]
    BY <1>2, <1>3
  <1>6. t[n + 2] = ab[2]
    BY <1>2, <1>4
  <1>7. \A i \in 1..n : t[i] = r[i]
    BY <1>2
  <1> QED
    BY <1>1, <1>2, <1>5, <1>6, <1>7

\* The call on top of a walk.
LEMMA TopFrame ==
  ASSUME TreeTyped, walk \in {"usage", "kill"}
  PROVE  /\ Len(frames) \in Nat /\ Len(frames) >= 1 /\ Len(frames) \in 1..Len(frames)
         /\ Top = frames[Len(frames)] /\ Top \in Frame
         /\ Top.pid \in Pids /\ Top.todo \subseteq Pids /\ Root \notin Top.todo
         /\ Top.pid = Root => Len(frames) = 1
  <1>1. frames \in Seq(Frame) /\ frames # <<>>
    BY DEF TreeTyped, WalkTyped
  <1>2. Len(frames) \in Nat /\ Len(frames) >= 1 /\ Len(frames) \in 1..Len(frames)
    BY <1>1
  <1>3. Top \in Frame
    BY <1>1, <1>2 DEF Top
  <1> QED
    BY <1>2, <1>3 DEF TreeTyped, WalkTyped, Top, Frame

\* Every call is for a process, and lists processes.
LEMMA FrameTyped ==
  ASSUME TreeTyped
  PROVE  /\ Len(frames) \in Nat
         /\ \A i \in 1..Len(frames) : frames[i].pid \in Pids /\ frames[i].todo \subseteq Pids
  <1>1. frames \in Seq(Frame)
    BY DEF TreeTyped, WalkTyped
  <1>2. \A i \in 1..Len(frames) : frames[i] \in Frame
    BY <1>1
  <1> QED
    BY <1>1, <1>2 DEF Frame

\* What a call lists are living children, and never the root.
LEMMA CallTyped ==
  ASSUME TreeTyped, NEW p \in Pids
  PROVE  /\ Call(p) \in Frame /\ Call(p).pid = p /\ Call(p).todo = Pgrep(p)
         /\ Pgrep(p) \subseteq alive /\ Root \notin Pgrep(p) /\ p \notin Pgrep(p)
  <1>1. Pgrep(p) \subseteq alive /\ p \notin Pgrep(p)
    BY DEF Pgrep
  <1>2. Root \notin Pgrep(p)
    BY DEF Pgrep, TreeTyped, ProcessesTyped
  <1>3. Pgrep(p) \subseteq Pids
    BY <1>1 DEF TreeTyped, ProcessesTyped
  <1> QED
    BY <1>1, <1>2, <1>3 DEF Call, Frame

\* What the end of a process does: its children are orphans.
LEMMA AfterEnds ==
  ASSUME ProcessesTyped, NEW p \in Pids, Ends(p)
  PROVE  /\ DOMAIN parent' = DOMAIN parent /\ alive' = alive \ {p}
         /\ \A r \in DOMAIN parent : parent'[r] = IF parent[r] = p THEN r ELSE parent[r]
         /\ \A r \in DOMAIN parent : parent'[r] \in {parent[r], r}
         /\ parent'[Root] = Root /\ parent' \in [DOMAIN parent -> DOMAIN parent]
  <1>1. /\ alive' = alive \ {p}
        /\ parent' = [r \in DOMAIN parent |-> IF parent[r] = p THEN r ELSE parent[r]]
    BY DEF Ends
  <1>2. \A r \in DOMAIN parent : parent[r] \in DOMAIN parent
    BY DEF ProcessesTyped
  <1> QED
    BY <1>1, <1>2 DEF ProcessesTyped

\* What a fork does: a process more, whose parent lives.
LEMMA AfterFork ==
  ASSUME ProcessesTyped, NEW p \in Pids, NEW q \in Pids, Fork(p, q)
  PROVE  /\ p \in alive /\ q \notin DOMAIN parent /\ q \notin alive /\ p # q
         /\ DOMAIN parent' = DOMAIN parent \cup {q} /\ alive' = alive \cup {q}
         /\ \A r \in DOMAIN parent : parent'[r] = parent[r]
         /\ parent'[q] = p /\ parent'[Root] = Root /\ q # Root
         /\ parent' \in [DOMAIN parent' -> DOMAIN parent']
  <1>1. /\ p \in alive /\ q \notin DOMAIN parent
        /\ alive' = alive \cup {q}
        /\ parent' = [r \in DOMAIN parent \cup {q} |-> IF r = q THEN p ELSE parent[r]]
    BY DEF Fork
  <1>2. \A r \in DOMAIN parent : parent[r] \in DOMAIN parent
    BY DEF ProcessesTyped
  <1> QED
    BY <1>1, <1>2 DEF ProcessesTyped

LEMMA ProcessesAfterEnds == ASSUME ProcessesTyped, NEW p \in Pids, Ends(p), UNCHANGED cpu
                            PROVE  ProcessesTyped'
  BY AfterEnds DEF ProcessesTyped

LEMMA TreeTypedInit == TreeInit => TreeTyped
  <1> SUFFICES ASSUME TreeInit PROVE TreeTyped
    OBVIOUS
  <1> USE TreeAssumption DEF TreeAssumption
  <1>1. ProcessesTyped
    BY DEF TreeInit, ProcessesTyped
  <1>2. WalkTyped
    BY DEF TreeInit, WalkTyped
  <1>3. NumbersTyped
    <2>1. total = 0 /\ lastUsage = -1 /\ recorded = 0 /\ moved = FALSE /\ shrunk = 0
      BY DEF TreeInit
    <2>2. moved \in BOOLEAN
      BY <2>1
    <2>3. total \in Nat /\ recorded \in Int /\ shrunk \in 0..2 /\ lastUsage \in Nat \cup {-1}
      BY DEF TreeInit
    <2> QED
      BY <2>2, <2>3 DEF NumbersTyped
  <1> QED
    BY <1>1, <1>2, <1>3 DEF TreeTyped

\* The call that Descend makes: the caller has one child less to visit.
LEMMA Descended ==
  ASSUME TreeTyped, NEW p \in Pids, Descend(p)
  PROVE  /\ walk \in {"usage", "kill"} /\ walk' = walk /\ p \in Top.todo /\ p # Root
         /\ Len(frames) \in Nat /\ Len(frames) >= 1
         /\ frames' \in Seq(Frame) /\ Len(frames') = Len(frames) + 1
         /\ \A i \in 1..Len(frames) - 1 : frames'[i] = frames[i]
         /\ frames'[Len(frames)].pid = Top.pid /\ frames'[Len(frames)].todo = Top.todo \ {p}
         /\ frames'[Len(frames) + 1].pid = p /\ frames'[Len(frames) + 1].todo = Pgrep(p)
  <1>1. /\ walk \in {"usage", "kill"} /\ walk' = walk /\ p \in Top.todo
        /\ frames' = Below \o <<[Top EXCEPT !.todo = @ \ {p}], Call(p)>>
    BY DEF Descend
  <1>2. PICK a \in Frame, b \in Frame :
          /\ a = [Top EXCEPT !.todo = @ \ {p}] /\ a.pid = Top.pid /\ a.todo = Top.todo \ {p}
          /\ b = Call(p) /\ b.pid = p /\ b.todo = Pgrep(p)
    <2>1. Top \in Frame /\ Call(p) \in Frame /\ Call(p).pid = p /\ Call(p).todo = Pgrep(p)
      BY <1>1, TopFrame, CallTyped
    <2>2. PICK a : a = [Top EXCEPT !.todo = @ \ {p}]
      OBVIOUS
    <2>3. a \in Frame /\ a.pid = Top.pid /\ a.todo = Top.todo \ {p}
      BY ONLY <2>1, <2>2 DEF Frame
    <2> QED
      BY ONLY <2>1, <2>2, <2>3
  <1>3. /\ frames' \in Seq(Frame) /\ Len(frames') = Len(frames) + 1
        /\ \A i \in 1..Len(frames) - 1 : frames'[i] = frames[i]
        /\ frames'[Len(frames)] = a /\ frames'[Len(frames) + 1] = b
    <2>1. PICK f, g : f = frames' /\ g = frames
      OBVIOUS
    <2>2. g \in Seq(Frame) /\ g # <<>>
      BY <1>1, <2>1 DEF TreeTyped, WalkTyped
    <2>3. f = SubSeq(g, 1, Len(g) - 1) \o <<a, b>>
      BY <1>1, <1>2, <2>1 DEF Below
    <2>4. /\ f \in Seq(Frame) /\ Len(f) = Len(g) + 1
          /\ \A i \in 1..Len(g) - 1 : f[i] = g[i]
          /\ f[Len(g)] = a /\ f[Len(g) + 1] = b
      <3>1. PICK r, ab : r = SubSeq(g, 1, Len(g) - 1) /\ ab = <<a, b>> /\ f = r \o ab
        BY <2>3
      <3>2. a \in Frame /\ b \in Frame
        BY <1>2
      <3>3. ab \in Seq(Frame) /\ Len(ab) = 2 /\ ab[1] = a /\ ab[2] = b
        BY <3>1, <3>2
      <3>4. /\ r \in Seq(Frame) /\ Len(r) = Len(g) - 1 /\ Len(g) \in Nat /\ Len(g) >= 1
            /\ \A i \in 1..Len(g) - 1 : r[i] = g[i]
        BY <2>2, <3>1, Popped
      <3>5. /\ f \in Seq(Frame) /\ Len(f) = Len(r) + 2
            /\ \A i \in 1..Len(r) : f[i] = r[i]
            /\ f[Len(r) + 1] = ab[1] /\ f[Len(r) + 2] = ab[2]
        BY <3>1, <3>3, <3>4, Pushed
      <3>6. Len(r) + 1 = Len(g) /\ Len(r) + 2 = Len(g) + 1
        BY <3>4
      <3> QED
        BY <3>3, <3>4, <3>5, <3>6
    <2> QED
      BY <2>1, <2>4
  <1>4. Len(frames) \in Nat /\ Len(frames) >= 1 /\ p # Root
    BY <1>1, TopFrame
  <1> QED
    BY <1>1, <1>2, <1>3, <1>4

\* The call that returns.
LEMMA Returned ==
  ASSUME TreeTyped, walk \in {"usage", "kill"}, frames' = Below
  PROVE  /\ frames' \in Seq(Frame) /\ Len(frames') = Len(frames) - 1
         /\ Len(frames) \in Nat /\ Len(frames) >= 1
         /\ \A i \in 1..Len(frames) - 1 : frames'[i] = frames[i]
  <1>1. PICK f, g : f = frames' /\ g = frames
    OBVIOUS
  <1>2. g \in Seq(Frame) /\ g # <<>> /\ f = SubSeq(g, 1, Len(g) - 1)
    BY <1>1 DEF TreeTyped, WalkTyped, Below
  <1>3. /\ f \in Seq(Frame) /\ Len(f) = Len(g) - 1 /\ Len(g) \in Nat /\ Len(g) >= 1
        /\ \A i \in 1..Len(g) - 1 : f[i] = g[i]
    BY ONLY <1>2, Popped
  <1> QED
    BY <1>1, <1>3

\* Returning from the call on top keeps the types.
LEMMA PopTyped == ASSUME TreeTyped, walk \in {"usage", "kill"}, frames' = Below, Top.pid # Root
                  PROVE  /\ frames' \in Seq(Frame) /\ frames' # <<>> /\ frames'[1].pid = Root
                         /\ \A i \in 1..Len(frames') : /\ i # 1 => frames'[i].pid # Root
                                                       /\ Root \notin frames'[i].todo
  <1>1. /\ frames' \in Seq(Frame) /\ Len(frames') = Len(frames) - 1
        /\ \A i \in 1..Len(frames) - 1 : frames'[i] = frames[i]
        /\ Len(frames) \in Nat /\ Len(frames) >= 1
    BY Returned
  <1>2. Len(frames) # 1
    BY TopFrame DEF TreeTyped, WalkTyped
  <1>3. 1 \in 1..Len(frames) - 1 /\ frames[1].pid = Root /\ Len(frames') # 0
    <2>1. frames[1].pid = Root
      BY DEF TreeTyped, WalkTyped
    <2>2. 1 \in 1..Len(frames) - 1 /\ Len(frames') # 0
      BY <1>1, <1>2
    <2> QED
      BY <2>1, <2>2
  <1>4. frames' # <<>> /\ frames'[1].pid = Root
    BY <1>1, <1>3
  <1>5. ASSUME NEW i \in 1..Len(frames')
        PROVE  (i # 1 => frames'[i].pid # Root) /\ Root \notin frames'[i].todo
    <2>1. i \in 1..Len(frames) /\ frames'[i] = frames[i]
      BY <1>1
    <2> QED
      BY <2>1 DEF TreeTyped, WalkTyped
  <1> QED
    BY <1>1, <1>4, <1>5

\* Every step keeps the types.
LEMMA TreeTypedStep == TreeTyped /\ [TreeNext]_treeVars => TreeTyped'
  <1> SUFFICES ASSUME TreeTyped, [TreeNext]_treeVars PROVE TreeTyped'
    OBVIOUS
  <1> USE TreeAssumption DEF TreeAssumption
  <1>1. ASSUME NEW w \in {"usage", "kill"}, BeginWalk(w) PROVE TreeTyped'
    <2>1. ProcessesTyped'
      BY <1>1 DEF BeginWalk, TreeTyped, ProcessesTyped
    <2>2. PICK f \in Frame : f = Call(Root) /\ f.pid = Root /\ Root \notin f.todo
      BY CallTyped
    <2>3. frames' = <<f>> /\ walk' \in {"usage", "kill"}
      BY <1>1, <2>2 DEF BeginWalk
    <2>4. WalkTyped'
      BY <2>2, <2>3 DEF WalkTyped
    <2>5. NumbersTyped'
      BY <1>1 DEF BeginWalk, TreeTyped, NumbersTyped
    <2> QED
      BY <2>1, <2>4, <2>5 DEF TreeTyped
  <1>2. ASSUME NEW p \in Pids, Descend(p) PROVE TreeTyped'
    <2>1. ProcessesTyped' /\ NumbersTyped'
      BY <1>2 DEF Descend, TreeTyped, ProcessesTyped, NumbersTyped, usageVars
    <2>2. PICK n \in Nat : n = Len(frames) /\ n >= 1
      BY <1>2, Descended
    <2>3. /\ walk \in {"usage", "kill"} /\ walk' = walk /\ p # Root
          /\ frames' \in Seq(Frame) /\ Len(frames') = n + 1
          /\ \A i \in 1..n - 1 : frames'[i] = frames[i]
          /\ frames'[n].pid = Top.pid /\ frames'[n].todo \subseteq Top.todo
          /\ frames'[n + 1].pid = p /\ frames'[n + 1].todo = Pgrep(p)
      BY <1>2, <2>2, Descended
    <2>4. /\ frames[1].pid = Root
          /\ \A i \in 1..n : (i # 1 => frames[i].pid # Root) /\ Root \notin frames[i].todo
      BY <2>2, <2>3 DEF TreeTyped, WalkTyped
    <2>5. Top = frames[n] /\ Root \notin Pgrep(p)
      BY <2>2, CallTyped DEF Top
    <2>6. ASSUME NEW i \in 1..n + 1
          PROVE  (i # 1 => frames'[i].pid # Root) /\ Root \notin frames'[i].todo
      <3>1. CASE i \in 1..n - 1
        BY <2>2, <2>3, <2>4, <3>1
      <3>2. CASE i = n
        BY <2>2, <2>3, <2>4, <2>5, <3>2
      <3>3. CASE i = n + 1
        BY <2>2, <2>3, <2>5, <3>3
      <3> QED
        BY <2>2, <3>1, <3>2, <3>3
    <2>7. frames' # <<>> /\ frames'[1].pid = Root
      <3>1. frames' # <<>>
        BY <2>2, <2>3
      <3>2. CASE n = 1
        BY <2>3, <2>4, <2>5, <3>1, <3>2
      <3>3. CASE n # 1
        <4>1. 1 \in 1..n - 1
          BY <2>2, <3>3
        <4> QED
          BY <2>3, <2>4, <3>1, <4>1
      <3> QED
        BY <3>2, <3>3
    <2>8. WalkTyped'
      BY <2>3, <2>6, <2>7 DEF WalkTyped
    <2> QED
      BY <2>1, <2>8 DEF TreeTyped
  <1>3. ASSUME NEW p \in Pids, Kill(p) PROVE TreeTyped'
    <2>1. walk = "kill" /\ Top.pid = p /\ frames' = Below
      BY <1>3 DEF Kill, At
    <2>2. ProcessesTyped'
      <3>1. CASE Ends(p)
        BY <1>3, <3>1, ProcessesAfterEnds DEF Kill, TreeTyped
      <3>2. CASE UNCHANGED <<alive, parent>>
        BY <1>3, <3>2 DEF Kill, TreeTyped, ProcessesTyped
      <3> QED
        BY <1>3, <3>1, <3>2 DEF Kill
    <2>3. NumbersTyped'
      BY <1>3 DEF Kill, TreeTyped, NumbersTyped, usageVars
    <2>4. WalkTyped'
      <3>1. CASE p # Root
        BY <1>3, <2>1, <3>1, PopTyped DEF Kill, WalkTyped
      <3>2. CASE p = Root
        <4>1. frames' \in Seq(Frame) /\ Len(frames') = 0
          BY <2>1, <3>2, Popped, TopFrame DEF TreeTyped, WalkTyped, Below
        <4>2. walk' = "killed"
          BY <1>3, <3>2 DEF Kill
        <4> QED
          BY <4>1, <4>2 DEF WalkTyped
      <3> QED
        BY <3>1, <3>2
    <2> QED
      BY <2>2, <2>3, <2>4 DEF TreeTyped
  <1>4. ASSUME NEW p \in Pids, ReadStat(p) PROVE TreeTyped'
    <2>1. ProcessesTyped'
      BY <1>4 DEF ReadStat, TreeTyped, ProcessesTyped
    <2>2. total' \in Nat /\ walk = "usage" /\ Top.pid = p
      <3>1. cpu[p] \in Nat /\ total \in Nat /\ total' = total + cpu[p]
        BY <1>4 DEF ReadStat, TreeTyped, ProcessesTyped, NumbersTyped
      <3> QED
        BY <1>4, <3>1 DEF ReadStat, At
    <2>3. CASE p = Root
      <3>1. WalkTyped'
        BY <1>4, <2>3 DEF ReadStat, Record, WalkTyped
      <3>2. NumbersTyped'
        <4>1. lastUsage' = total' /\ moved' = moved
          BY <1>4, <2>3 DEF ReadStat, Record
        <4>2. recorded' \in {recorded, recorded + total' - lastUsage}
          BY <1>4, <2>3 DEF ReadStat, Record
        <4>3. shrunk' = IF shrunk = 0 THEN 0 ELSE shrunk - 1
          BY <1>4, <2>3 DEF ReadStat, Record
        <4> QED
          BY <1>4, <2>2, <4>1, <4>2, <4>3 DEF TreeTyped, NumbersTyped
      <3> QED
        BY <2>1, <3>1, <3>2 DEF TreeTyped
    <2>4. CASE p # Root
      <3>1. walk' = walk /\ frames' = Below
        BY <1>4, <2>4 DEF ReadStat
      <3>2. WalkTyped'
        BY <2>2, <2>4, <3>1, PopTyped DEF WalkTyped
      <3>3. NumbersTyped'
        BY <1>4, <2>2, <2>4 DEF ReadStat, TreeTyped, NumbersTyped
      <3> QED
        BY <2>1, <3>2, <3>3 DEF TreeTyped
    <2> QED
      BY <2>3, <2>4
  <1>5. CASE ReadFails
    <2>1. ProcessesTyped' /\ NumbersTyped'
      BY <1>5 DEF ReadFails, TreeTyped, ProcessesTyped, NumbersTyped
    <2>2. WalkTyped'
      BY <1>5 DEF ReadFails, WalkTyped
    <2> QED
      BY <2>1, <2>2 DEF TreeTyped
  <1>6. ASSUME NEW p \in Pids, Exit(p) PROVE TreeTyped'
    <2>1. ProcessesTyped'
      BY <1>6, ProcessesAfterEnds DEF Exit, TreeTyped
    <2>2. WalkTyped' /\ NumbersTyped'
      BY <1>6 DEF Exit, TreeTyped, WalkTyped, NumbersTyped, usageVars
    <2> QED
      BY <2>1, <2>2 DEF TreeTyped
  <1>7. ASSUME NEW p \in Pids, Compute(p) PROVE TreeTyped'
    <2>1. ProcessesTyped'
      BY <1>7 DEF Compute, TreeTyped, ProcessesTyped
    <2>2. WalkTyped' /\ NumbersTyped'
      BY <1>7 DEF Compute, TreeTyped, WalkTyped, NumbersTyped, usageVars
    <2> QED
      BY <2>1, <2>2 DEF TreeTyped
  <1>8. ASSUME NEW p \in Pids, NEW q \in Pids, Fork(p, q) PROVE TreeTyped'
    <2>1. ProcessesTyped'
      BY <1>8, AfterFork DEF TreeTyped, ProcessesTyped, Fork
    <2>2. WalkTyped' /\ NumbersTyped'
      BY <1>8 DEF Fork, TreeTyped, WalkTyped, NumbersTyped, usageVars
    <2> QED
      BY <2>1, <2>2 DEF TreeTyped
  <1>9. CASE UNCHANGED treeVars
    BY <1>9 DEF treeVars, usageVars, TreeTyped, ProcessesTyped, WalkTyped, NumbersTyped
  <1> QED
    BY <1>1, <1>2, <1>3, <1>4, <1>5, <1>6, <1>7, <1>8, <1>9 DEF TreeNext, Walk, Processes

\* TreeTyped is the type invariant of Tree.
THEOREM TreeIsTyped == TreeSpec => []TreeTyped
  BY TreeTypedInit, TreeTypedStep, PTL DEF TreeSpec

-----------------------------------------------------------------------------
(* What a kill leaves.                                                      *)

\* From each process of S, its parents lead to the root without leaving S.
RootedBy(par, S) ==
  \A X \in SUBSET (S \ {Root}) : X # {} => \E q \in X : par[q] \in S \ X

\* As long as moved is false, the living processes are the root's descendants, and the
\* living children of a process on the walk's stack are still to visit, or being visited.
ListedChildren ==
  \A i \in 1..Len(frames) :
    Pgrep(frames[i].pid) \subseteq
      frames[i].todo \cup (IF i = Len(frames) THEN {} ELSE {frames[i + 1].pid})

KillInv ==
  /\ ~moved => RootedBy(parent, alive)
  /\ walk = "kill" /\ ~moved => ListedChildren
  /\ KillLeavesNobody

\* Without the root, such a set is empty.
LEMMA RootedNeedsRoot == ASSUME NEW f, NEW S, RootedBy(f, S), Root \notin S PROVE S = {}
  BY DEF RootedBy

LEMMA RootedSame ==
  ASSUME NEW f, NEW g, NEW S, RootedBy(f, S), \A r \in S : g[r] = f[r]
  PROVE  RootedBy(g, S)
  BY DEF RootedBy

\* A child of a process in S joins S.
LEMMA RootedGrows ==
  ASSUME NEW f, NEW g, NEW S, NEW q, RootedBy(f, S), q \notin S, g[q] \in S,
         \A r \in S : g[r] = f[r]
  PROVE  RootedBy(g, S \cup {q})
  <1> SUFFICES ASSUME NEW X \in SUBSET ((S \cup {q}) \ {Root}), X # {}
               PROVE  \E r \in X : g[r] \in (S \cup {q}) \ X
    BY DEF RootedBy
  <1>1. CASE X = {q}
    BY <1>1
  <1>2. CASE X # {q}
    <2>1. X \ {q} \in SUBSET (S \ {Root}) /\ X \ {q} # {}
      BY <1>2
    <2>2. PICK r \in X \ {q} : f[r] \in S \ (X \ {q})
      BY <2>1 DEF RootedBy
    <2>3. r \in S /\ f[r] # q /\ g[r] = f[r]
      BY <2>1, <2>2
    <2> QED
      BY <2>2, <2>3
  <1> QED
    BY <1>1, <1>2

\* A process without children leaves S.
LEMMA RootedShrinks ==
  ASSUME NEW f, NEW g, NEW S, NEW p, RootedBy(f, S),
         \A r \in S \ {Root, p} : f[r] # p /\ g[r] = f[r]
  PROVE  RootedBy(g, S \ {p})
  <1> SUFFICES ASSUME NEW X \in SUBSET ((S \ {p}) \ {Root}), X # {}
               PROVE  \E r \in X : g[r] \in (S \ {p}) \ X
    BY DEF RootedBy
  <1>1. PICK r \in X : f[r] \in S \ X
    BY DEF RootedBy
  <1>2. f[r] # p /\ g[r] = f[r]
    OBVIOUS
  <1> QED
    BY <1>1, <1>2

\* The end of a process gives no other one a child.
LEMMA PgrepAfterEnds ==
  ASSUME ProcessesTyped, NEW p \in Pids, Ends(p)
  PROVE  \A x \in Pids : Pgrep(x)' \subseteq Pgrep(x) \ {p}
  <1> SUFFICES ASSUME NEW x \in Pids, NEW q, q \in Pgrep(x)' PROVE q \in Pgrep(x) \ {p}
    OBVIOUS
  <1>1. q \in alive' /\ q # x /\ parent'[q] = x
    BY DEF Pgrep
  <1>2. q \in alive /\ q # p /\ q \in DOMAIN parent
    BY <1>1, AfterEnds DEF ProcessesTyped
  <1>3. parent[q] = x
    BY <1>1, <1>2, AfterEnds
  <1> QED
    BY <1>1, <1>2, <1>3 DEF Pgrep

\* The end of a process without children leaves the others rooted.
LEMMA RootedAfterEnds ==
  ASSUME ProcessesTyped, NEW p \in Pids, Ends(p), Pgrep(p) = {}, RootedBy(parent, alive)
  PROVE  RootedBy(parent, alive)'
  <1>1. PICK f, g, S : f = parent /\ g = parent' /\ S = alive
    OBVIOUS
  <1>2. \A r \in S \ {Root, p} : f[r] # p /\ g[r] = f[r]
    BY <1>1, AfterEnds DEF Pgrep, ProcessesTyped
  <1>3. RootedBy(f, S)
    BY <1>1
  <1>4. RootedBy(g, S \ {p})
    BY <1>2, <1>3, RootedShrinks
  <1>5. alive' = S \ {p}
    BY <1>1, AfterEnds
  <1> QED
    BY <1>1, <1>4, <1>5

\* What is listed stays listed when a process ends.
LEMMA ListedAfterEnds ==
  ASSUME TreeTyped, NEW p \in Pids, Ends(p), ListedChildren, UNCHANGED frames
  PROVE  ListedChildren'
  <1>1. \A i \in 1..Len(frames) : frames[i].pid \in Pids
    BY FrameTyped
  <1>2. \A x \in Pids : Pgrep(x)' \subseteq Pgrep(x)
    BY PgrepAfterEnds DEF TreeTyped
  <1>3. ASSUME NEW i \in 1..Len(frames)
        PROVE  Pgrep(frames[i].pid)' \subseteq Pgrep(frames[i].pid)
    <2>1. PICK x \in Pids : x = frames[i].pid /\ x = frames'[i].pid
      BY <1>1
    <2>2. Pgrep(x)' \subseteq Pgrep(x)
      BY <1>2
    <2> QED
      BY <2>1, <2>2 DEF Pgrep
  <1> QED
    BY <1>3 DEF ListedChildren

LEMMA KillInvInit == TreeInit => KillInv
  BY DEF TreeInit, KillInv, KillLeavesNobody, RootedBy

\* The end of a process that has no children, or else sets moved.
LEMMA KillInvEnds ==
  ASSUME TreeTyped, KillInv, NEW p \in Pids, Ends(p), walk' = walk, UNCHANGED frames,
         ~moved' => (~moved /\ Pgrep(p) = {})
  PROVE  KillInv'
  <1>1. ASSUME ~moved' PROVE RootedBy(parent, alive)'
    BY <1>1, RootedAfterEnds DEF KillInv, TreeTyped
  <1>2. ASSUME walk' = "kill", ~moved' PROVE ListedChildren'
    BY <1>2, ListedAfterEnds DEF KillInv
  <1>3. KillLeavesNobody'
    <2>1. alive' \subseteq alive
      BY DEF Ends
    <2> QED
      BY <2>1 DEF KillInv, KillLeavesNobody
  <1> QED
    BY <1>1, <1>2, <1>3 DEF KillInv

\* Every step keeps what a kill relies on.
LEMMA KillInvStep == TreeTyped /\ KillInv /\ [TreeNext]_treeVars => KillInv'
  <1> SUFFICES ASSUME TreeTyped, KillInv, [TreeNext]_treeVars PROVE KillInv'
    OBVIOUS
  <1> USE TreeAssumption DEF TreeAssumption
  <1>1. ASSUME NEW w \in {"usage", "kill"}, BeginWalk(w) PROVE KillInv'
    <2>1. PICK f \in Frame : f = Call(Root) /\ f.pid = Root /\ f.todo = Pgrep(Root)
      BY CallTyped
    <2>2. frames' = <<f>> /\ walk' # "killed" /\ UNCHANGED <<alive, parent, moved>>
      BY <1>1, <2>1 DEF BeginWalk
    <2>3. ListedChildren'
      <3>1. Len(frames') = 1 /\ frames'[1] = f
        BY <2>2
      <3>2. Pgrep(Root)' = Pgrep(Root)
        BY <2>2 DEF Pgrep
      <3> QED
        BY <2>1, <3>1, <3>2 DEF ListedChildren
    <2> QED
      BY <2>2, <2>3 DEF KillInv, KillLeavesNobody, RootedBy
  <1>2. ASSUME NEW p \in Pids, Descend(p) PROVE KillInv'
    <2>1. PICK n \in Nat : n = Len(frames) /\ n >= 1
      BY <1>2, Descended
    <2>2. /\ walk' = walk /\ walk # "killed" /\ UNCHANGED <<alive, parent, moved>>
          /\ Len(frames') = n + 1
          /\ \A i \in 1..n - 1 : frames'[i] = frames[i]
          /\ frames'[n].pid = frames[n].pid /\ frames'[n].todo = frames[n].todo \ {p}
          /\ frames'[n + 1].pid = p /\ frames'[n + 1].todo = Pgrep(p)
      BY <1>2, <2>1, Descended DEF Descend, Top
    <2>3. ASSUME ListedChildren PROVE ListedChildren'
      <3> SUFFICES ASSUME NEW i \in 1..n + 1
                   PROVE  Pgrep(frames'[i].pid) \subseteq
                            frames'[i].todo \cup
                              (IF i = n + 1 THEN {} ELSE {frames'[i + 1].pid})
        BY <2>2 DEF ListedChildren, Pgrep
      <3>1. \A j \in 1..n : Pgrep(frames[j].pid) \subseteq
                              frames[j].todo \cup (IF j = n THEN {} ELSE {frames[j + 1].pid})
        BY <2>1, <2>3 DEF ListedChildren
      <3>2. CASE i \in 1..n - 1
        <4>1. frames'[i] = frames[i] /\ i \in 1..n /\ i # n /\ i # n + 1
          BY <2>1, <2>2, <3>2
        <4>2. frames'[i + 1].pid = frames[i + 1].pid
          <5>1. i + 1 \in 1..n - 1 \/ i + 1 = n
            BY <2>1, <3>2
          <5> QED
            BY <2>2, <5>1
        <4> QED
          BY <3>1, <4>1, <4>2
      <3>3. CASE i = n
        <4>1. i \in 1..n /\ i # n + 1 /\ frames'[i + 1].pid = p
          BY <2>1, <2>2, <3>3
        <4>2. Pgrep(frames[n].pid) \subseteq frames[n].todo
          BY <3>1, <3>3, <4>1
        <4> QED
          BY <2>2, <3>3, <4>1, <4>2
      <3>4. CASE i = n + 1
        BY <2>1, <2>2, <3>4
      <3> QED
        BY <2>1, <3>2, <3>3, <3>4
    <2> QED
      BY <2>2, <2>3 DEF KillInv, KillLeavesNobody, RootedBy
  <1>3. ASSUME NEW p \in Pids, Kill(p) PROVE KillInv'
    <2>1. /\ walk = "kill" /\ Top.pid = p /\ Top.todo = {} /\ frames' = Below
          /\ walk' = IF p = Root THEN "killed" ELSE walk
      BY <1>3 DEF Kill, At
    <2>2. CASE moved'
      <3>1. walk' = "killed" => Root \notin alive'
        BY <1>3, <2>1 DEF Kill, Ends
      <3> QED
        BY <2>2, <3>1 DEF KillInv, KillLeavesNobody
    <2>3. CASE ~moved'
      <3>1. Ends(p) /\ ~moved
        BY <1>3, <2>3 DEF Kill
      <3>2. PICK n \in Nat : n = Len(frames) /\ n >= 1
        BY <2>1, Returned
      <3>3. \A j \in 1..n : Pgrep(frames[j].pid) \subseteq
                             frames[j].todo \cup (IF j = n THEN {} ELSE {frames[j + 1].pid})
        BY <2>1, <3>1, <3>2 DEF KillInv, ListedChildren
      <3>4. Pgrep(p) = {} /\ frames[n].pid = p
        <4>1. frames[n].pid = p /\ frames[n].todo = {}
          BY <2>1, <3>2 DEF Top
        <4> QED
          BY ONLY <3>2, <3>3, <4>1
      <3>5. RootedBy(parent, alive)'
        BY <3>1, <3>4, RootedAfterEnds DEF KillInv, TreeTyped
      <3>6. ListedChildren'
        <4>1. /\ Len(frames') = n - 1 /\ \A i \in 1..n - 1 : frames'[i] = frames[i]
          BY <2>1, <3>2, Returned
        <4> SUFFICES ASSUME NEW i \in 1..n - 1
                     PROVE  Pgrep(frames[i].pid)' \subseteq
                              frames'[i].todo \cup
                                (IF i = n - 1 THEN {} ELSE {frames'[i + 1].pid})
          BY <4>1 DEF ListedChildren
        <4>2. PICK x \in Pids : x = frames[i].pid /\ x = frames'[i].pid
          <5>1. i \in 1..Len(frames)
            BY <3>2
          <5> QED
            BY <4>1, <5>1, FrameTyped
        <4>3. Pgrep(x)' \subseteq Pgrep(x) \ {p}
          <5>1. ProcessesTyped
            BY DEF TreeTyped
          <5> QED
            BY ONLY <3>1, <5>1, PgrepAfterEnds
        <4>4. i \in 1..n /\ i # n /\ frames'[i].todo = frames[i].todo
          BY <3>2, <4>1
        <4>5. Pgrep(x) \subseteq frames[i].todo \cup {frames[i + 1].pid}
          BY <3>3, <4>2, <4>4
        <4>6. CASE i = n - 1
          <5>1. frames[i + 1].pid = p
            BY <3>2, <3>4, <4>6
          <5>2. Pgrep(x)' \subseteq frames'[i].todo
            BY <4>3, <4>4, <4>5, <5>1
          <5> QED
            BY <4>2, <5>2 DEF Pgrep
        <4>7. CASE i # n - 1
          <5>1. frames'[i + 1].pid = frames[i + 1].pid
            <6>1. i + 1 \in 1..n - 1
              BY <3>2, <4>7
            <6> QED
              BY <4>1, <6>1
          <5>2. Pgrep(x)' \subseteq frames'[i].todo \cup {frames'[i + 1].pid}
            BY <4>3, <4>4, <4>5, <5>1
          <5> QED
            BY <4>2, <4>7, <5>2 DEF Pgrep
        <4> QED
          BY <4>6, <4>7
      <3>7. KillLeavesNobody'
        <4>1. CASE p = Root
          <5>1. Root \notin alive'
            BY <3>1, <4>1 DEF Ends
          <5> QED
            BY <3>5, <5>1, RootedNeedsRoot DEF KillLeavesNobody
        <4>2. CASE p # Root
          BY <2>1, <4>2 DEF KillLeavesNobody
        <4> QED
          BY <4>1, <4>2
      <3> QED
        BY <3>5, <3>6, <3>7 DEF KillInv
    <2> QED
      BY <2>2, <2>3
  <1>4. ASSUME UNCHANGED <<alive, parent, moved>>, walk # "kill", walk' \notin {"kill", "killed"}
        PROVE  KillInv'
    BY <1>4 DEF KillInv, KillLeavesNobody, RootedBy
  <1>5. ASSUME NEW p \in Pids, ReadStat(p) PROVE KillInv'
    BY <1>4, <1>5 DEF ReadStat, At, Record
  <1>6. CASE ReadFails
    BY <1>4, <1>6 DEF ReadFails
  <1>7. ASSUME NEW p \in Pids, Exit(p) PROVE KillInv'
    <2>1. Ends(p) /\ walk' = walk /\ UNCHANGED frames /\ (~moved' => (~moved /\ Pgrep(p) = {}))
      BY <1>7 DEF Exit
    <2> QED
      BY <2>1, KillInvEnds
  <1>8. ASSUME NEW p \in Pids, Compute(p) PROVE KillInv'
    <2>1. UNCHANGED <<alive, parent, moved, frames, walk>>
      BY <1>8 DEF Compute
    <2>2. ListedChildren' = ListedChildren
      BY <2>1 DEF ListedChildren, Pgrep
    <2> QED
      BY <2>1, <2>2 DEF KillInv, KillLeavesNobody, RootedBy
  <1>9. ASSUME NEW p \in Pids, NEW q \in Pids, Fork(p, q) PROVE KillInv'
    <2>1. /\ walk' = walk /\ moved' = (moved \/ walk = "kill")
          /\ p \in alive /\ q \notin alive /\ alive' = alive \cup {q} /\ parent'[q] = p
          /\ \A r \in alive : parent'[r] = parent[r]
          /\ Root # q
      BY <1>9, AfterFork DEF Fork, TreeTyped, ProcessesTyped
    <2>2. ASSUME ~moved' PROVE RootedBy(parent, alive)'
      <3>1. PICK f, g, S : f = parent /\ g = parent' /\ S = alive
        OBVIOUS
      <3>2. RootedBy(f, S)
        BY <2>1, <2>2, <3>1 DEF KillInv
      <3>3. RootedBy(g, S \cup {q})
        BY <2>1, <3>1, <3>2, RootedGrows
      <3> QED
        BY <2>1, <3>1, <3>3
    <2>3. KillLeavesNobody'
      BY <2>1 DEF KillInv, KillLeavesNobody
    <2> QED
      BY <2>1, <2>2, <2>3 DEF KillInv
  <1>10. CASE UNCHANGED treeVars
    <2>1. UNCHANGED <<alive, parent, moved, frames, walk>>
      BY <1>10 DEF treeVars
    <2>2. ListedChildren' = ListedChildren
      BY <2>1 DEF ListedChildren, Pgrep
    <2> QED
      BY <2>1, <2>2 DEF KillInv, KillLeavesNobody, RootedBy
  <1> QED
    BY <1>1, <1>2, <1>3, <1>5, <1>6, <1>7, <1>8, <1>9, <1>10 DEF TreeNext, Walk, Processes

\* KillLeavesNobody, after the kill in Cleanup (killProcessTree): the root is dead, and so
\* is every descendant unless the tree moved in a way that the walk cannot see.
THEOREM KillReachesAll == TreeSpec => []KillLeavesNobody
  <1>1. KillInv => KillLeavesNobody
    BY DEF KillInv
  <1> QED
    BY <1>1, TreeTypedInit, TreeTypedStep, KillInvInit, KillInvStep, PTL DEF TreeSpec

-----------------------------------------------------------------------------
(* What the records add up to.                                              *)

Uses == [Pids -> 0..MaxCpu]
Sum(used, procs) == Cardinality(Ticks(used, procs))

LEMMA TicksFinite ==
  ASSUME NEW u \in Uses, NEW S \in SUBSET Pids
  PROVE  IsFiniteSet(Ticks(u, S)) /\ Sum(u, S) \in Nat
  <1> USE TreeAssumption DEF TreeAssumption
  <1>1. IsFiniteSet(S) /\ IsFiniteSet(1..MaxCpu)
    BY FS_Subset, FS_Interval
  <1>2. IsFiniteSet(S \X (1..MaxCpu))
    BY <1>1, FS_Product
  <1>3. Ticks(u, S) \subseteq S \X (1..MaxCpu)
    BY DEF Ticks
  <1>4. IsFiniteSet(Ticks(u, S))
    BY <1>2, <1>3, FS_Subset
  <1> QED
    BY <1>4, FS_CardinalityType DEF Sum

\* Who has used more adds up to more.
LEMMA SumGrows ==
  ASSUME NEW u \in Uses, NEW v \in Uses, NEW S \in SUBSET Pids, NEW T \in SUBSET Pids,
         \A q \in S : u[q] > 0 => q \in T /\ u[q] <= v[q]
  PROVE  Sum(u, S) <= Sum(v, T)
  <1> USE TreeAssumption DEF TreeAssumption
  <1>1. ASSUME NEW t \in Ticks(u, S) PROVE t \in Ticks(v, T)
    <2>1. t \in S \X (1..MaxCpu) /\ t[2] <= u[t[1]]
      BY DEF Ticks
    <2>2. PICK q \in S, k \in 1..MaxCpu : t = <<q, k>>
      BY <2>1
    <2>3. k <= u[q] /\ u[q] \in 0..MaxCpu /\ v[q] \in 0..MaxCpu
      BY <2>1, <2>2 DEF Uses
    <2>4. q \in T /\ k <= v[q]
      BY <2>3
    <2> QED
      BY <2>2, <2>4 DEF Ticks
  <1>2. Ticks(u, S) \subseteq Ticks(v, T)
    BY <1>1
  <1> QED
    BY <1>2, TicksFinite, FS_Subset DEF Sum

\* The sum for two groups of processes.
LEMMA SumSplits ==
  ASSUME NEW u \in Uses, NEW S \in SUBSET Pids, NEW T \in SUBSET Pids, S \cap T = {}
  PROVE  Sum(u, S \cup T) = Sum(u, S) + Sum(u, T)
  <1>1. Ticks(u, S \cup T) = Ticks(u, S) \cup Ticks(u, T)
    BY DEF Ticks
  <1>2. Ticks(u, S) \cap Ticks(u, T) = {}
    BY DEF Ticks
  <1>3. PICK A, B : A = Ticks(u, S) /\ B = Ticks(u, T)
    OBVIOUS
  <1>4. IsFiniteSet(A) /\ IsFiniteSet(B) /\ A \cap B = {}
    BY <1>2, <1>3, TicksFinite
  <1>5. Cardinality(A \cup B) = Cardinality(A) + Cardinality(B) - Cardinality(A \cap B)
    BY <1>4, FS_Union
  <1>6. Cardinality(A \cap B) = 0
    BY <1>4, FS_EmptySet
  <1>7. Cardinality(A) \in Nat /\ Cardinality(B) \in Nat
    BY <1>4, FS_CardinalityType
  <1> QED
    <2>1. Cardinality(A \cup B) = Cardinality(A) + Cardinality(B)
      BY <1>5, <1>6, <1>7
    <2>2. Sum(u, S \cup T) = Cardinality(A \cup B)
      BY <1>1, <1>3 DEF Sum
    <2>3. Sum(u, S) = Cardinality(A) /\ Sum(u, T) = Cardinality(B)
      BY <1>3 DEF Sum
    <2> QED
      BY <2>1, <2>2, <2>3

LEMMA SumOfOne ==
  ASSUME NEW u \in Uses, NEW p \in Pids
  PROVE  Sum(u, {p}) = u[p]
  <1> USE TreeAssumption DEF TreeAssumption
  <1>1. u[p] \in 0..MaxCpu /\ MaxCpu \in Nat
    BY DEF Uses
  <1>2. PICK n \in Nat : n = u[p] /\ n <= MaxCpu
    BY <1>1
  <1>3. Ticks(u, {p}) = {p} \X (1..n)
    <2>1. ASSUME NEW t \in {p} \X (1..MaxCpu), t[2] <= u[t[1]] PROVE t \in {p} \X (1..n)
      <3>1. PICK k \in 1..MaxCpu : t = <<p, k>>
        OBVIOUS
      <3>2. k \in 1..n
        BY <1>2, <2>1, <3>1
      <3> QED
        BY <3>1, <3>2
    <2>2. ASSUME NEW t \in {p} \X (1..n)
          PROVE  t \in {p} \X (1..MaxCpu) /\ t[2] <= u[t[1]]
      <3>1. PICK k \in 1..n : t = <<p, k>>
        OBVIOUS
      <3>2. k \in 1..MaxCpu /\ k <= u[p]
        BY <1>1, <1>2
      <3> QED
        BY <3>1, <3>2
    <2> QED
      BY <2>1, <2>2 DEF Ticks
  <1>4. IsFiniteSet({p}) /\ Cardinality({p}) = 1
    BY FS_Singleton
  <1>5. PICK A, B : A = {p} /\ B = 1..n
    OBVIOUS
  <1>6. IsFiniteSet(B) /\ Cardinality(B) = n
    BY <1>5, FS_Interval
  <1>7. Cardinality(A \X B) = Cardinality(A) * Cardinality(B)
    BY <1>4, <1>5, <1>6, FS_Product
  <1> QED
    <2>1. Sum(u, {p}) = Cardinality(A \X B)
      BY <1>3, <1>5 DEF Sum
    <2>2. Cardinality(A) = 1
      BY <1>4, <1>5
    <2> QED
      BY <1>2, <1>6, <1>7, <2>1, <2>2

\* One process has used n, where nothing was counted for it.
LEMMA SumAdds ==
  ASSUME NEW u \in Uses, NEW v \in Uses, NEW p \in Pids,
         u[p] = 0, \A q \in Pids \ {p} : v[q] = u[q]
  PROVE  Sum(v, Pids) = Sum(u, Pids) + v[p]
  <1>1. PICK S, O : /\ S = Pids \ {p} /\ O = {p} /\ S \in SUBSET Pids /\ O \in SUBSET Pids
                    /\ S \cap O = {} /\ S \cup O = Pids
    <2>1. /\ Pids \ {p} \in SUBSET Pids /\ {p} \in SUBSET Pids
          /\ (Pids \ {p}) \cap {p} = {} /\ (Pids \ {p}) \cup {p} = Pids
      OBVIOUS
    <2> QED
      BY <2>1
  <1>2. Sum(v, Pids) = Sum(v, S) + Sum(v, O) /\ Sum(u, Pids) = Sum(u, S) + Sum(u, O)
    BY <1>1, SumSplits
  <1>3. Sum(v, O) = v[p] /\ Sum(u, O) = 0
    BY <1>1, SumOfOne
  <1>4. \A q \in Pids : u[q] \in Int /\ v[q] \in Int
    BY TreeAssumption DEF Uses, TreeAssumption
  <1>5. Sum(u, S) <= Sum(v, S) /\ Sum(v, S) <= Sum(u, S)
    <2>1. \A q \in S : v[q] = u[q] /\ u[q] \in Int
      BY <1>1, <1>4
    <2>2. \A q \in S : (u[q] > 0 => (q \in S /\ u[q] <= v[q])) /\ (v[q] > 0 => (q \in S /\ v[q] <= u[q]))
      BY <2>1
    <2> QED
      BY <1>1, <2>2, SumGrows
  <1>6. Sum(u, S) \in Nat /\ Sum(v, S) \in Nat
    BY <1>1, TicksFinite
  <1>7. v[p] \in Int
    BY <1>4
  <1> QED
    BY <1>2, <1>3, <1>5, <1>6, <1>7

-----------------------------------------------------------------------------
(* The recursion: who is on the stack, and who is still to be visited.      *)

Stack == {frames[i].pid : i \in 1..Len(frames)}
Todo == UNION {frames[i].todo : i \in 1..Len(frames)}
Distinct == \A i, j \in 1..Len(frames) :
              i # j => (frames[i].pid # frames[j].pid /\ frames[i].todo \cap frames[j].todo = {})

LEMMA StackTop ==
  ASSUME TreeTyped, walk \in {"usage", "kill"}
  PROVE  Top.pid \in Stack /\ Top.todo \subseteq Todo
  <1>1. Top = frames[Len(frames)] /\ Len(frames) \in 1..Len(frames)
    BY TopFrame
  <1> QED
    BY <1>1 DEF Stack, Todo

LEMMA StackBegins ==
  ASSUME TreeTyped, NEW w \in {"usage", "kill"}, BeginWalk(w)
  PROVE  Stack' = {Root} /\ Todo' = Pgrep(Root) /\ Distinct'
  <1>1. PICK f \in Frame : f = Call(Root) /\ f.pid = Root /\ f.todo = Pgrep(Root)
    BY CallTyped, TreeAssumption DEF TreeAssumption
  <1>2. frames' = <<f>>
    BY <1>1 DEF BeginWalk
  <1>3. Len(frames') = 1 /\ frames'[1] = f
    BY <1>2
  <1> QED
    BY <1>1, <1>3 DEF Stack, Todo, Distinct

LEMMA StackDescends ==
  ASSUME TreeTyped, NEW p \in Pids, Descend(p), Distinct, p \notin Stack, Pgrep(p) \cap Todo = {}
  PROVE  p \in Todo /\ Stack' = Stack \cup {p} /\ Todo' = (Todo \ {p}) \cup Pgrep(p) /\ Distinct'
  <1>1. PICK n \in Nat : n = Len(frames) /\ n >= 1
    BY Descended
  <1>2. /\ Len(frames') = n + 1 /\ p \in frames[n].todo
        /\ \A i \in 1..n - 1 : frames'[i] = frames[i]
        /\ frames'[n].pid = frames[n].pid /\ frames'[n].todo = frames[n].todo \ {p}
        /\ frames'[n + 1].pid = p /\ frames'[n + 1].todo = Pgrep(p)
    BY <1>1, Descended DEF Top
  <1>3. \A i, j \in 1..n :
          i # j => (frames[i].pid # frames[j].pid /\ frames[i].todo \cap frames[j].todo = {})
    BY <1>1 DEF Distinct
  <1>4. n \in 1..n /\ n + 1 \in 1..n + 1
    BY <1>1
  <1>5. \A i \in 1..n : /\ i \in 1..n + 1 /\ i # n + 1
                        /\ frames'[i].pid = frames[i].pid /\ frames'[i].todo = frames[i].todo \ {p}
    <2> SUFFICES ASSUME NEW i \in 1..n
                 PROVE  /\ i \in 1..n + 1 /\ i # n + 1 /\ frames'[i].pid = frames[i].pid
                        /\ frames'[i].todo = frames[i].todo \ {p}
      OBVIOUS
    <2>1. CASE i = n
      BY <1>1, <1>2, <2>1
    <2>2. CASE i # n
      <3>1. i \in 1..n - 1 /\ i \in 1..n + 1 /\ i # n + 1
        BY <1>1, <2>2
      <3>2. p \notin frames[i].todo
        BY <1>2, <1>3, <1>4, <2>2
      <3> QED
        BY <1>2, <3>1, <3>2
    <2> QED
      BY <2>1, <2>2
  <1>6. \A i \in 1..n + 1 : i \in 1..n \/ i = n + 1
    BY <1>1
  <1>7. /\ \A i \in 1..n : frames[i].pid \in Stack /\ frames[i].todo \subseteq Todo
        /\ \A x \in Stack : \E i \in 1..n : x = frames[i].pid
        /\ \A x \in Todo : \E i \in 1..n : x \in frames[i].todo
    BY <1>1 DEF Stack, Todo
  <1>8. Stack' = {frames'[i].pid : i \in 1..n + 1} /\ Todo' = UNION {frames'[i].todo : i \in 1..n + 1}
    BY <1>2 DEF Stack, Todo
  <1>9. p \in Todo
    BY <1>2, <1>4, <1>7
  <1>10. Stack' = Stack \cup {p}
    <2>1. ASSUME NEW x \in Stack' PROVE x \in Stack \cup {p}
      BY <1>2, <1>5, <1>6, <1>7, <1>8, <2>1
    <2>2. ASSUME NEW x \in Stack \cup {p} PROVE x \in Stack'
      BY <1>2, <1>4, <1>5, <1>7, <1>8, <2>2
    <2> QED
      BY <2>1, <2>2
  <1>11. Todo' = (Todo \ {p}) \cup Pgrep(p)
    <2>1. ASSUME NEW x \in Todo' PROVE x \in (Todo \ {p}) \cup Pgrep(p)
      <3>1. PICK i \in 1..n + 1 : x \in frames'[i].todo
        BY <1>8
      <3> QED
        BY <1>2, <1>5, <1>6, <1>7, <3>1
    <2>2. ASSUME NEW x \in Todo, x # p PROVE x \in Todo'
      <3>1. PICK i \in 1..n : x \in frames[i].todo
        BY <1>7
      <3>2. i \in 1..n + 1 /\ x \in frames'[i].todo
        BY <1>5, <2>2, <3>1
      <3> QED
        BY <1>8, <3>2
    <2>3. ASSUME NEW x \in Pgrep(p) PROVE x \in Todo'
      BY <1>2, <1>4, <1>8
    <2> QED
      BY <2>1, <2>2, <2>3
  <1>12. Distinct'
    <2> SUFFICES ASSUME NEW i \in 1..n + 1, NEW j \in 1..n + 1, i # j
                 PROVE  /\ frames'[i].pid # frames'[j].pid
                        /\ frames'[i].todo \cap frames'[j].todo = {}
      BY <1>2 DEF Distinct
    <2>1. CASE i \in 1..n /\ j \in 1..n
      BY <1>3, <1>5, <2>1
    <2>2. CASE i = n + 1 /\ j \in 1..n
      BY <1>2, <1>5, <1>7, <2>2
    <2>3. CASE i \in 1..n /\ j = n + 1
      BY <1>2, <1>5, <1>7, <2>3
    <2> QED
      BY <1>6, <2>1, <2>2, <2>3
  <1> QED
    BY <1>9, <1>10, <1>11, <1>12

LEMMA StackReturns ==
  ASSUME TreeTyped, walk \in {"usage", "kill"}, frames' = Below, Top.todo = {}, Distinct
  PROVE  Stack' = Stack \ {Top.pid} /\ Todo' = Todo /\ Distinct'
  <1>1. PICK n \in Nat : n = Len(frames) /\ n >= 1
    BY Returned
  <1>2. Len(frames') = n - 1 /\ \A i \in 1..n - 1 : frames'[i] = frames[i]
    BY <1>1, Returned
  <1>3. /\ \A i, j \in 1..n : i # j => (/\ frames[i].pid # frames[j].pid
                                         /\ frames[i].todo \cap frames[j].todo = {})
        /\ Top = frames[n]
    BY <1>1 DEF Distinct, Top
  <1>4. \A i \in 1..n : i \in 1..n - 1 \/ i = n
    BY <1>1
  <1>5. n \in 1..n /\ \A i \in 1..n - 1 : i \in 1..n /\ i # n
    BY <1>1
  <1>6. /\ Stack = {frames[i].pid : i \in 1..n} /\ Todo = UNION {frames[i].todo : i \in 1..n}
        /\ Stack' = {frames'[i].pid : i \in 1..n - 1}
        /\ Todo' = UNION {frames'[i].todo : i \in 1..n - 1}
    BY <1>1, <1>2 DEF Stack, Todo
  <1>7. Stack' = Stack \ {Top.pid}
    <2>1. ASSUME NEW x \in Stack' PROVE x \in Stack \ {Top.pid}
      <3>1. PICK i \in 1..n - 1 : x = frames[i].pid
        BY <1>2, <1>6
      <3> QED
        BY <1>3, <1>5, <1>6, <3>1
    <2>2. ASSUME NEW x \in Stack, x # Top.pid PROVE x \in Stack'
      <3>1. PICK i \in 1..n : x = frames[i].pid
        BY <1>6
      <3>2. i \in 1..n - 1
        BY <1>3, <1>4, <2>2, <3>1
      <3> QED
        BY <1>2, <1>6, <3>1, <3>2
    <2> QED
      BY <2>1, <2>2
  <1>8. Todo' = Todo
    <2>1. ASSUME NEW x \in Todo' PROVE x \in Todo
      <3>1. PICK i \in 1..n - 1 : x \in frames[i].todo
        BY <1>2, <1>6
      <3> QED
        BY <1>5, <1>6, <3>1
    <2>2. ASSUME NEW x \in Todo PROVE x \in Todo'
      <3>1. PICK i \in 1..n : x \in frames[i].todo
        BY <1>6
      <3>2. i \in 1..n - 1
        BY <1>3, <1>4, <3>1
      <3> QED
        BY <1>2, <1>6, <3>1, <3>2
    <2> QED
      BY <2>1, <2>2
  <1>9. Distinct'
    BY <1>2, <1>3, <1>5 DEF Distinct
  <1> QED
    BY <1>7, <1>8, <1>9

\* When the recursion is back at the root, and no child of it is left, all were visited.
LEMMA StackEnds ==
  ASSUME TreeTyped, walk \in {"usage", "kill"}, Top.pid = Root, Top.todo = {}
  PROVE  Stack = {Root} /\ Todo = {}
  <1>1. Len(frames) = 1 /\ Top = frames[1]
    BY TopFrame
  <1> QED
    BY <1>1 DEF Stack, Todo

-----------------------------------------------------------------------------
(* The readings.  cnt is the CPU time that the last readings found for each *)
(* process; cur the processes that LastUsage sums, gone those that an       *)
(* earlier one did; called the processes that this reading has called the   *)
(* recursion for, and rd what it has found for those it has returned from.  *)

\* No more is counted than was used, and only for processes that a reading has met.
Counted(cnt, cur, gone) ==
  /\ cur \subseteq DOMAIN parent /\ gone \subseteq DOMAIN parent
  /\ \A q \in Pids : cnt[q] <= cpu[q] /\ (cnt[q] > 0 => q \in cur \cup gone)

\* LastUsage is the sum over cur; what is recorded beyond it is counted for others.
Recorded(cnt, cur, gone) ==
  /\ lastUsage = -1 => (recorded = 0 /\ cur = {} /\ gone = {})
  /\ lastUsage # -1 => /\ lastUsage = Sum(cnt, cur)
                       /\ recorded - lastUsage <= Sum(cnt, Pids \ cur)

\* Who is gone does not come back to where a reading finds it.
Kinship(cur, gone) ==
  /\ \A q \in cur : q # Root => (parent[q] = q \/ parent[q] \in cur)
  /\ \A q \in gone : q \notin alive \/ (q # Root /\ (parent[q] = q \/ parent[q] \in gone))

Settled(S) == \A q \in S : q # Root => (q \in alive /\ parent[q] # q)

\* While no process of the tree ends, cur is a part of it.
Unshrunk(cur) ==
  (shrunk = 0 /\ walk \in {"none", "usage"}) => (Settled(cur) /\ RootedBy(parent, cur))

Completed(cnt, cur, gone) == /\ Counted(cnt, cur, gone) /\ Recorded(cnt, cur, gone)
                             /\ Kinship(cur, gone) /\ Unshrunk(cur)

\* No process is called or listed twice.
Calls(called) ==
  /\ called \subseteq DOMAIN parent /\ Root \in called
  /\ Distinct /\ Stack \subseteq called /\ Todo \subseteq DOMAIN parent \ called

\* The listed processes are children of called ones; a living child of a called one that
\* an earlier reading has counted is listed; who is gone is not listed.
Listed(cur, gone, called) ==
  /\ \A q \in called \cup Todo : q # Root => (parent[q] = q \/ parent[q] \in called)
  /\ \A q \in cur \cap alive :
       (parent[q] # q /\ parent[q] \in called) => q \in called \cup Todo
  /\ Root \notin gone => (called \cup Todo) \cap gone = {}

\* The total is what the calls that have returned found, each no less than before.
Readings(cnt, called, rd) ==
  /\ \A q \in Pids : /\ rd[q] <= cpu[q]
                     /\ (q \notin called \/ q \in Stack) => rd[q] = 0
                     /\ q \in called \ Stack => cnt[q] <= rd[q]
  /\ total = Sum(rd, Pids)

Unmissed(called) ==
  shrunk < 2 => (Settled(called \cup Todo) /\ RootedBy(parent, called))

Reading(cnt, cur, gone, called, rd) ==
  /\ Calls(called) /\ Listed(cur, gone, called)
  /\ Readings(cnt, called, rd) /\ Unmissed(called)

UsageInv ==
  \E cnt \in Uses, cur \in SUBSET Pids, gone \in SUBSET Pids :
    /\ Completed(cnt, cur, gone)
    /\ walk = "usage" => \E called \in SUBSET Pids, rd \in Uses :
                           Reading(cnt, cur, gone, called, rd)

\* What is recorded is counted, and what is counted was used.
LEMMA RecordedIsUsed ==
  ASSUME TreeTyped, NEW cnt \in Uses, NEW cur \in SUBSET Pids, NEW gone \in SUBSET Pids,
         Completed(cnt, cur, gone)
  PROVE  RecordsWithinUse
  <1>1. cpu \in Uses
    BY DEF TreeTyped, ProcessesTyped, Uses
  <1>2. PICK c \in Uses : c = cpu
    BY <1>1
  <1>3. PICK O \in SUBSET Pids : O = Pids \ cur /\ cur \cap O = {} /\ cur \cup O = Pids
    <2>1. /\ Pids \ cur \in SUBSET Pids /\ cur \cap (Pids \ cur) = {}
          /\ cur \cup (Pids \ cur) = Pids
      OBVIOUS
    <2> QED
      BY <2>1
  <1>4. Sum(cnt, Pids) <= Sum(c, Pids)
    <2>1. \A q \in Pids : cnt[q] <= c[q]
      BY <1>2 DEF Completed, Counted
    <2> QED
      BY <2>1, SumGrows
  <1>5. Sum(cnt, Pids) = Sum(cnt, cur) + Sum(cnt, O)
    BY <1>3, SumSplits
  <1>6. Sum(cnt, cur) \in Nat /\ Sum(cnt, O) \in Nat /\ Sum(c, Pids) \in Nat
    BY <1>3, TicksFinite
  <1>7. recorded \in Int /\ (recorded <= Sum(cnt, Pids) \/ recorded = 0)
    <2>1. CASE lastUsage = -1
      BY <2>1 DEF TreeTyped, NumbersTyped, Completed, Recorded
    <2>2. CASE lastUsage # -1
      <3>1. lastUsage = Sum(cnt, cur) /\ recorded - lastUsage <= Sum(cnt, O)
        BY <1>3, <2>2 DEF Completed, Recorded
      <3>2. recorded \in Int
        BY DEF TreeTyped, NumbersTyped
      <3> QED
        BY <1>5, <1>6, <3>1, <3>2
    <2> QED
      BY <2>1, <2>2
  <1>8. Spent = Sum(c, Pids)
    BY <1>2 DEF Spent, Sum
  <1>9. recorded <= Sum(c, Pids)
    BY <1>4, <1>5, <1>6, <1>7
  <1> QED
    BY <1>8, <1>9 DEF RecordsWithinUse

\* The end of a process makes orphans of its children, and nothing else.
LEMMA EndsKeepsCount ==
  ASSUME TreeTyped, NEW p \in Pids, Ends(p), UNCHANGED cpu,
         NEW cnt \in Uses, NEW cur \in SUBSET Pids, NEW gone \in SUBSET Pids,
         Counted(cnt, cur, gone), Kinship(cur, gone)
  PROVE  Counted(cnt, cur, gone)' /\ Kinship(cur, gone)'
  <1>1. /\ DOMAIN parent' = DOMAIN parent /\ alive' \subseteq alive
        /\ \A r \in DOMAIN parent : parent'[r] \in {parent[r], r}
    BY AfterEnds DEF TreeTyped
  <1>2. Counted(cnt, cur, gone)'
    BY <1>1 DEF Counted
  <1>3. cur \subseteq DOMAIN parent /\ gone \subseteq DOMAIN parent
    BY DEF Counted
  <1>4. Kinship(cur, gone)'
    BY <1>1, <1>3 DEF Kinship
  <1> QED
    BY <1>2, <1>4

LEMMA EndsKeepsListed ==
  ASSUME TreeTyped, NEW p \in Pids, Ends(p), UNCHANGED frames,
         NEW cur \in SUBSET Pids, NEW gone \in SUBSET Pids, NEW called \in SUBSET Pids,
         Calls(called), Listed(cur, gone, called)
  PROVE  Calls(called)' /\ Listed(cur, gone, called)'
  <1>1. /\ DOMAIN parent' = DOMAIN parent /\ alive' \subseteq alive /\ alive \subseteq DOMAIN parent
        /\ \A r \in DOMAIN parent : parent'[r] \in {parent[r], r}
    BY AfterEnds DEF TreeTyped, ProcessesTyped
  <1>2. Stack' = Stack /\ Todo' = Todo /\ Distinct' = Distinct
    BY DEF Stack, Todo, Distinct
  <1>3. Calls(called)'
    BY <1>1, <1>2 DEF Calls
  <1>4. called \cup Todo \subseteq DOMAIN parent
    BY DEF Calls
  <1>5. Listed(cur, gone, called)'
    BY <1>1, <1>2, <1>4 DEF Listed
  <1> QED
    BY <1>3, <1>5

\* A new process is in none of these sets.
LEMMA ForkKeeps ==
  ASSUME TreeTyped, NEW p \in Pids, NEW q \in Pids, Fork(p, q),
         NEW cnt \in Uses, NEW cur \in SUBSET Pids, NEW gone \in SUBSET Pids,
         Completed(cnt, cur, gone)
  PROVE  /\ Completed(cnt, cur, gone)'
         /\ \A called \in SUBSET Pids, rd \in Uses :
              Reading(cnt, cur, gone, called, rd) => Reading(cnt, cur, gone, called, rd)'
  <1>1. /\ DOMAIN parent \subseteq DOMAIN parent' /\ q \notin DOMAIN parent
        /\ alive' = alive \cup {q} /\ alive \subseteq DOMAIN parent
        /\ \A r \in DOMAIN parent : parent'[r] = parent[r]
    <2>1. ProcessesTyped /\ alive \subseteq DOMAIN parent
      BY DEF TreeTyped, ProcessesTyped
    <2> QED
      BY ONLY <2>1, p \in Pids, q \in Pids, Fork(p, q), AfterFork
  <1>2. UNCHANGED <<cpu, walk, frames, total, lastUsage, recorded, shrunk>>
    BY DEF Fork, usageVars
  <1>3. ASSUME NEW S, S \subseteq DOMAIN parent, RootedBy(parent, S) PROVE RootedBy(parent, S)'
    <2>1. PICK f, g : f = parent /\ g = parent'
      OBVIOUS
    <2>2. RootedBy(f, S) /\ \A r \in S : g[r] = f[r]
      BY <1>1, <1>3, <2>1
    <2>3. RootedBy(g, S)
      BY <2>2, RootedSame
    <2> QED
      BY <2>1, <2>3
  <1>4. Completed(cnt, cur, gone)'
    <2>1. cur \subseteq DOMAIN parent /\ gone \subseteq DOMAIN parent
      BY DEF Completed, Counted
    <2>2. Counted(cnt, cur, gone)' /\ Recorded(cnt, cur, gone)'
      BY <1>1, <1>2, <2>1 DEF Completed, Counted, Recorded
    <2>3. Kinship(cur, gone)'
      BY <1>1, <2>1 DEF Completed, Kinship
    <2>4. Unshrunk(cur)'
      BY <1>1, <1>2, <1>3, <2>1 DEF Completed, Unshrunk, Settled
    <2> QED
      BY <2>2, <2>3, <2>4 DEF Completed
  <1>5. ASSUME NEW called \in SUBSET Pids, NEW rd \in Uses, Reading(cnt, cur, gone, called, rd)
        PROVE  Reading(cnt, cur, gone, called, rd)'
    <2>1. Stack' = Stack /\ Todo' = Todo /\ Distinct' = Distinct
      BY <1>2 DEF Stack, Todo, Distinct
    <2>2. /\ called \subseteq DOMAIN parent /\ Todo \subseteq DOMAIN parent
          /\ cur \subseteq DOMAIN parent
      BY <1>5 DEF Reading, Calls, Completed, Counted
    <2>3. Calls(called)' /\ Readings(cnt, called, rd)'
      BY <1>1, <1>2, <1>5, <2>1 DEF Reading, Calls, Readings
    <2>4. Listed(cur, gone, called)'
      BY <1>1, <1>5, <2>1, <2>2 DEF Reading, Listed
    <2>5. Unmissed(called)'
      BY <1>1, <1>2, <1>3, <1>5, <2>1, <2>2 DEF Reading, Unmissed, Settled
    <2> QED
      BY <2>3, <2>4, <2>5 DEF Reading
  <1> QED
    BY <1>4, <1>5

\* Where a reading begins.
LEMMA ReadingBegins ==
  ASSUME TreeTyped, BeginWalk("usage"),
         NEW cnt \in Uses, NEW cur \in SUBSET Pids, NEW gone \in SUBSET Pids,
         Completed(cnt, cur, gone)
  PROVE  /\ Completed(cnt, cur, gone)'
         /\ \E called \in SUBSET Pids, rd \in Uses : Reading(cnt, cur, gone, called, rd)'
  <1> USE TreeAssumption DEF TreeAssumption
  <1>1. /\ walk = "none" /\ walk' = "usage" /\ total' = 0
        /\ UNCHANGED <<alive, parent, cpu, lastUsage, recorded, shrunk>>
    BY DEF BeginWalk
  <1>2. Completed(cnt, cur, gone)'
    BY <1>1 DEF Completed, Counted, Recorded, Kinship, Unshrunk, Settled, RootedBy
  <1>3. PICK called, rd : called = {Root} /\ rd = [q \in Pids |-> 0]
    OBVIOUS
  <1>4. called \in SUBSET Pids /\ rd \in Uses /\ \A q \in Pids : rd[q] = 0
    BY <1>3 DEF Uses
  <1>5. Stack' = called /\ Todo' = Pgrep(Root) /\ Distinct'
    BY <1>3, StackBegins
  <1>6. /\ Pgrep(Root) \subseteq alive /\ Root \notin Pgrep(Root)
        /\ \A q \in Pgrep(Root) : parent[q] = Root
    BY CallTyped DEF Pgrep
  <1>7. alive \subseteq DOMAIN parent /\ Root \in DOMAIN parent /\ parent[Root] = Root
    BY DEF TreeTyped, ProcessesTyped
  <1>8. Calls(called)'
    BY <1>1, <1>3, <1>5, <1>6, <1>7 DEF Calls
  <1>9. Listed(cur, gone, called)'
    <2>1. ASSUME NEW q \in cur \cap alive, parent[q] # q, parent[q] = Root
          PROVE  q \in called \cup Pgrep(Root)
      BY <1>7, <2>1 DEF Pgrep
    <2>2. ASSUME Root \notin gone PROVE (called \cup Pgrep(Root)) \cap gone = {}
      BY <1>3, <1>6, <2>2 DEF Completed, Kinship
    <2> QED
      BY <1>1, <1>3, <1>5, <1>6, <2>1, <2>2 DEF Listed
  <1>10. Readings(cnt, called, rd)'
    <2>1. Sum(rd, Pids) = 0
      <3>1. PICK n \in Nat : n = Sum(rd, Pids)
        BY <1>4, TicksFinite
      <3>2. PICK E \in SUBSET Pids : E = {}
        OBVIOUS
      <3>3. Sum(rd, Pids) <= Sum(rd, E)
        BY <1>4, <3>2, SumGrows
      <3>4. Sum(rd, E) = 0
        <4>1. Ticks(rd, E) = {}
          BY <3>2 DEF Ticks
        <4> QED
          BY <4>1, FS_EmptySet DEF Sum
      <3> QED
        BY <3>1, <3>3, <3>4
    <2>2. \A q \in Pids : rd[q] <= cpu[q]
      BY <1>4 DEF TreeTyped, ProcessesTyped
    <2> QED
      BY <1>1, <1>4, <1>5, <2>1, <2>2 DEF Readings
  <1>11. Unmissed(called)'
    <2>1. Settled(called \cup Pgrep(Root))
      BY <1>3, <1>6 DEF Settled
    <2>2. RootedBy(parent, called)
      BY <1>3 DEF RootedBy
    <2> QED
      BY <1>1, <1>5, <2>1, <2>2 DEF Unmissed, Settled, RootedBy
  <1> QED
    BY <1>2, <1>4, <1>8, <1>9, <1>10, <1>11 DEF Reading

\* A child that the recursion is called for.
LEMMA ReadingDescends ==
  ASSUME TreeTyped, walk = "usage", NEW p \in Pids, Descend(p),
         NEW cnt \in Uses, NEW cur \in SUBSET Pids, NEW gone \in SUBSET Pids,
         Completed(cnt, cur, gone), NEW called \in SUBSET Pids, NEW rd \in Uses,
         Reading(cnt, cur, gone, called, rd), NEW more, more = called \cup {p}
  PROVE  more \in SUBSET Pids /\ Reading(cnt, cur, gone, more, rd)'
  <1>1. UNCHANGED <<alive, parent, cpu, walk, total, shrunk>> /\ p \in Top.todo
    BY DEF Descend, usageVars
  <1>2. /\ called \subseteq DOMAIN parent /\ Root \in called
        /\ Distinct /\ Stack \subseteq called /\ Todo \subseteq DOMAIN parent \ called
    BY DEF Reading, Calls
  <1>3. /\ \A q \in called \cup Todo : q # Root => (parent[q] = q \/ parent[q] \in called)
        /\ \A q \in cur \cap alive :
             (parent[q] # q /\ parent[q] \in called) => q \in called \cup Todo
        /\ Root \notin gone => (called \cup Todo) \cap gone = {}
    BY DEF Reading, Listed
  <1>4. p \in Todo /\ p \notin called /\ p \notin Stack /\ p # Root
    BY <1>1, <1>2, StackTop
  <1>5. /\ Pgrep(p) \subseteq alive /\ Root \notin Pgrep(p) /\ p \notin Pgrep(p)
        /\ \A q \in Pgrep(p) : parent[q] = p /\ q # p
        /\ alive \subseteq DOMAIN parent
    BY CallTyped DEF Pgrep, TreeTyped, ProcessesTyped
  <1>6. Pgrep(p) \cap (called \cup Todo) = {}
    BY <1>2, <1>3, <1>4, <1>5
  <1>7. Stack' = Stack \cup {p} /\ Todo' = (Todo \ {p}) \cup Pgrep(p) /\ Distinct'
    BY <1>2, <1>4, <1>6, StackDescends
  <1>8. Calls(more)'
    BY <1>1, <1>2, <1>4, <1>5, <1>6, <1>7 DEF Calls
  <1>9. Listed(cur, gone, more)'
    <2>1. \A q \in more \cup Todo' : q # Root => (parent[q] = q \/ parent[q] \in more)
      BY <1>3, <1>4, <1>5, <1>7
    <2>2. ASSUME NEW q \in cur \cap alive, parent[q] # q, parent[q] \in more
          PROVE  q \in more \cup Todo'
      <3>1. CASE parent[q] = p
        BY <1>7, <2>2, <3>1 DEF Pgrep
      <3>2. CASE parent[q] # p
        BY <1>3, <1>7, <2>2, <3>2
      <3> QED
        BY <3>1, <3>2
    <2>3. ASSUME Root \notin gone, NEW q \in more \cup Todo' PROVE q \notin gone
      <3>1. CASE q \in Pgrep(p)
        BY <1>3, <1>4, <1>5, <2>3, <3>1 DEF Completed, Kinship
      <3>2. CASE q \notin Pgrep(p)
        BY <1>3, <1>4, <1>7, <2>3, <3>2
      <3> QED
        BY <3>1, <3>2
    <2> QED
      BY <1>1, <2>1, <2>2, <2>3 DEF Listed
  <1>10. Readings(cnt, more, rd)'
    BY <1>1, <1>2, <1>4, <1>7 DEF Reading, Readings
  <1>11. Unmissed(more)'
    <2> SUFFICES ASSUME shrunk < 2 PROVE Settled(more \cup Todo') /\ RootedBy(parent, more)
      BY <1>1 DEF Unmissed, Settled, RootedBy
    <2>1. Settled(called \cup Todo) /\ RootedBy(parent, called)
      BY DEF Reading, Unmissed
    <2>2. Settled(more \cup Todo')
      BY <1>4, <1>5, <1>7, <2>1 DEF Settled
    <2>3. parent[p] \in called
      BY <1>3, <1>4, <2>1 DEF Settled
    <2>4. RootedBy(parent, more)
      <3>1. PICK f : f = parent
        OBVIOUS
      <3>2. RootedBy(f, called) /\ f[p] \in called /\ \A r \in called : f[r] = f[r]
        BY <2>1, <2>3, <3>1
      <3>3. RootedBy(f, called \cup {p})
        BY <1>4, <3>2, RootedGrows
      <3> QED
        BY <3>1, <3>3
    <2> QED
      BY <2>2, <2>4
  <1> QED
    BY <1>8, <1>9, <1>10, <1>11 DEF Reading

\* A process, not the root, whose time is read.
LEMMA ReadingReturns ==
  ASSUME TreeTyped, NEW p \in Pids, ReadStat(p), p # Root,
         NEW cnt \in Uses, NEW cur \in SUBSET Pids, NEW gone \in SUBSET Pids,
         Completed(cnt, cur, gone), NEW called \in SUBSET Pids, NEW rd \in Uses,
         Reading(cnt, cur, gone, called, rd),
         NEW now \in Uses, now[p] = cpu[p], \A q \in Pids \ {p} : now[q] = rd[q]
  PROVE  Reading(cnt, cur, gone, called, now)'
  <1>1. /\ walk = "usage" /\ Top.pid = p /\ Top.todo = {} /\ p \in alive
        /\ frames' = Below /\ total' = total + cpu[p]
        /\ UNCHANGED <<alive, parent, cpu, walk, shrunk>>
    BY DEF ReadStat, At
  <1>2. Distinct /\ p \in Stack
    BY <1>1, StackTop DEF Reading, Calls
  <1>3. Stack' = Stack \ {p} /\ Todo' = Todo /\ Distinct'
    BY <1>1, <1>2, StackReturns
  <1>4. Calls(called)'
    BY <1>1, <1>3 DEF Reading, Calls
  <1>5. Listed(cur, gone, called)'
    BY <1>1, <1>3 DEF Reading, Listed
  <1>6. Readings(cnt, called, now)'
    <2>1. rd[p] = 0 /\ total = Sum(rd, Pids)
      BY <1>2 DEF Reading, Readings
    <2>2. Sum(now, Pids) = Sum(rd, Pids) + now[p]
      BY <2>1, SumAdds
    <2>3. cnt[p] <= cpu[p] /\ cpu[p] \in Int
      BY DEF Completed, Counted, TreeTyped, ProcessesTyped
    <2>4. p \in called
      BY <1>2 DEF Reading, Calls
    <2>5. \A q \in Pids : now[q] <= cpu[q]
      BY <2>3 DEF Reading, Readings
    <2>6. \A q \in Pids : q \notin called \/ q \in Stack \ {p} => now[q] = 0
      BY <2>4 DEF Reading, Readings
    <2>7. \A q \in called \ (Stack \ {p}) : cnt[q] <= now[q]
      BY <2>3 DEF Reading, Readings
    <2>8. total' = Sum(now, Pids)
      BY <1>1, <2>1, <2>2
    <2> QED
      BY <1>1, <1>3, <2>5, <2>6, <2>7, <2>8 DEF Readings
  <1>7. Unmissed(called)'
    BY <1>1, <1>3 DEF Reading, Unmissed, Settled, RootedBy
  <1> QED
    BY <1>4, <1>5, <1>6, <1>7 DEF Reading

\* The root's time is read: the reading is over.
LEMMA ReadingEnds ==
  ASSUME TreeTyped, ReadStat(Root),
         NEW cnt \in Uses, NEW cur \in SUBSET Pids, NEW gone \in SUBSET Pids,
         Completed(cnt, cur, gone), NEW called \in SUBSET Pids, NEW rd \in Uses,
         Reading(cnt, cur, gone, called, rd),
         NEW now \in Uses, now[Root] = cpu[Root], \A q \in Pids \ {Root} : now[q] = rd[q],
         NEW next \in Uses, \A q \in Pids : next[q] = IF q \in called THEN now[q] ELSE cnt[q],
         NEW left \in SUBSET Pids, left = gone \cup (cur \ called)
  PROVE  Completed(next, called, left)' /\ (recorded' < recorded => shrunk > 0)
  <1> USE TreeAssumption DEF TreeAssumption
  <1>1. /\ walk = "usage" /\ Top.pid = Root /\ Top.todo = {} /\ Root \in alive
        /\ total' = total + cpu[Root] /\ lastUsage' = total' /\ walk' = "none"
        /\ UNCHANGED <<alive, parent, cpu>>
        /\ shrunk' = IF shrunk = 0 THEN 0 ELSE shrunk - 1
    BY DEF ReadStat, At, Record
  <1>2. /\ lastUsage = -1 => recorded' = recorded
        /\ lastUsage # -1 => (recorded' = recorded + total' - lastUsage \/ recorded' = recorded)
    BY DEF ReadStat, Record
  <1>3. Stack = {Root} /\ Todo = {} /\ Root \in called /\ called \subseteq DOMAIN parent
    BY <1>1, StackEnds DEF Reading, Calls
  <1>4. \A q \in Pids : cnt[q] \in Nat /\ rd[q] \in Nat /\ now[q] \in Nat /\ next[q] \in Nat /\ cpu[q] \in Nat
    BY DEF Uses, TreeTyped, ProcessesTyped
  <1>5. \A q \in Pids : cnt[q] <= cpu[q] /\ now[q] <= cpu[q]
    BY <1>4 DEF Completed, Counted, Reading, Readings
  <1>6. \A q \in Pids : q \notin called => now[q] = 0
    BY <1>3 DEF Reading, Readings
  <1>7. \A q \in called : cnt[q] <= now[q]
    BY <1>3, <1>5 DEF Reading, Readings
  <1>8. called \cap gone = {}
    BY <1>1, <1>3 DEF Completed, Kinship, Reading, Listed
  <1>9. total' = Sum(now, Pids)
    <2>1. rd[Root] = 0 /\ total = Sum(rd, Pids)
      BY <1>3 DEF Reading, Readings
    <2>2. Sum(now, Pids) = Sum(rd, Pids) + now[Root]
      BY <2>1, SumAdds
    <2> QED
      BY <1>1, <2>1, <2>2
  <1>10. PICK O \in SUBSET Pids, N \in SUBSET Pids :
           /\ O = Pids \ cur /\ cur \cap O = {} /\ cur \cup O = Pids
           /\ N = Pids \ called /\ called \cap N = {} /\ called \cup N = Pids
    <2>1. /\ Pids \ cur \in SUBSET Pids /\ cur \cap (Pids \ cur) = {}
          /\ cur \cup (Pids \ cur) = Pids
      OBVIOUS
    <2>2. /\ Pids \ called \in SUBSET Pids /\ called \cap (Pids \ called) = {}
          /\ called \cup (Pids \ called) = Pids
      OBVIOUS
    <2> QED
      BY <2>1, <2>2
  <1>11. total' = Sum(next, called)
    <2>1. Sum(now, Pids) <= Sum(next, called)
      <3>1. \A q \in Pids : now[q] > 0 => (q \in called /\ now[q] <= next[q])
        BY <1>4, <1>6
      <3> QED
        BY <3>1, SumGrows
    <2>2. Sum(next, called) <= Sum(now, Pids)
      <3>1. \A q \in called : next[q] > 0 => (q \in Pids /\ next[q] <= now[q])
        BY <1>4
      <3> QED
        BY <3>1, SumGrows
    <2>3. Sum(now, Pids) \in Nat /\ Sum(next, called) \in Nat
      BY TicksFinite
    <2> QED
      BY <1>9, <2>1, <2>2, <2>3
  <1>12. Sum(cnt, O) <= Sum(next, N)
    <2>1. \A q \in O : cnt[q] > 0 => (q \in N /\ cnt[q] <= next[q])
      BY <1>4, <1>8, <1>10 DEF Completed, Counted
    <2> QED
      BY <2>1, SumGrows
  <1>13. Sum(cnt, cur) + Sum(cnt, O) <= Sum(next, called) + Sum(next, N)
    <2>1. \A q \in Pids : cnt[q] > 0 => (q \in Pids /\ cnt[q] <= next[q])
      BY <1>4, <1>7
    <2>2. Sum(cnt, Pids) <= Sum(next, Pids)
      BY <2>1, SumGrows
    <2>3. Sum(cnt, Pids) = Sum(cnt, cur) + Sum(cnt, O)
      BY <1>10, SumSplits
    <2>4. Sum(next, Pids) = Sum(next, called) + Sum(next, N)
      BY <1>10, SumSplits
    <2> QED
      BY <2>2, <2>3, <2>4
  <1>14. /\ Sum(cnt, cur) \in Nat /\ Sum(cnt, O) \in Nat /\ Sum(next, called) \in Nat
         /\ Sum(next, N) \in Nat /\ total' \in Nat /\ recorded \in Int
    BY <1>11, TicksFinite DEF TreeTyped, NumbersTyped
  <1>15. /\ lastUsage = -1 => recorded = 0
         /\ lastUsage # -1 => (lastUsage = Sum(cnt, cur) /\ recorded - lastUsage <= Sum(cnt, O))
    BY <1>10 DEF Completed, Recorded
  <1>16. recorded' - lastUsage' <= Sum(next, Pids \ called)
    <2>1. CASE lastUsage = -1
      BY <1>1, <1>2, <1>10, <1>14, <1>15, <2>1
    <2>2. CASE lastUsage # -1
      <3>1. CASE recorded' = recorded + total' - lastUsage
        BY <1>1, <1>10, <1>12, <1>14, <1>15, <2>2, <3>1
      <3>2. CASE recorded' = recorded
        BY <1>1, <1>10, <1>11, <1>13, <1>14, <1>15, <2>2, <3>2
      <3> QED
        BY <1>2, <2>2, <3>1, <3>2
    <2> QED
      BY <2>1, <2>2
  <1>17. Recorded(next, called, left)'
    BY <1>1, <1>11, <1>14, <1>16 DEF Recorded
  <1>18. Counted(next, called, left)'
    <2>1. \A q \in Pids : next[q] <= cpu[q]
      BY <1>5
    <2>2. ASSUME NEW q \in Pids, next[q] > 0 PROVE q \in called \cup left
      BY <2>2 DEF Completed, Counted
    <2>3. left \subseteq DOMAIN parent
      BY DEF Completed, Counted
    <2> QED
      BY <1>1, <1>3, <2>1, <2>2, <2>3 DEF Counted
  <1>19. Kinship(called, left)'
    <2>1. \A q \in called : q # Root => (parent[q] = q \/ parent[q] \in called)
      BY DEF Reading, Listed
    <2>2. ASSUME NEW q \in left, q \in alive
          PROVE  q # Root /\ (parent[q] = q \/ parent[q] \in left)
      <3>1. CASE q \in gone
        BY <2>2, <3>1 DEF Completed, Kinship
      <3>2. CASE q \in cur \ called
        <4>1. q # Root /\ (parent[q] = q \/ parent[q] \in cur)
          BY <1>3, <3>2 DEF Completed, Kinship
        <4>2. (parent[q] # q /\ parent[q] \in called) => q \in called
          BY <1>3, <2>2, <3>2 DEF Reading, Listed
        <4> QED
          BY <3>2, <4>1, <4>2
      <3> QED
        BY <2>2, <3>1, <3>2
    <2> QED
      BY <1>1, <2>1, <2>2 DEF Kinship
  <1>20. Unshrunk(called)'
    <2>1. shrunk' = 0 => shrunk < 2
      BY <1>1 DEF TreeTyped, NumbersTyped
    <2>2. shrunk < 2 => (Settled(called) /\ RootedBy(parent, called))
      BY <1>3 DEF Reading, Unmissed
    <2> QED
      BY <1>1, <2>1, <2>2 DEF Unshrunk, Settled, RootedBy
  <1>21. ASSUME recorded' < recorded PROVE shrunk > 0
    <2>1. lastUsage # -1 /\ recorded' = recorded + total' - lastUsage
      BY <1>2, <1>14, <1>21
    <2>2. total' < Sum(cnt, cur)
      BY <1>14, <1>15, <1>21, <2>1
    <2>3. ASSUME shrunk = 0 PROVE FALSE
      <3>1. Settled(cur) /\ RootedBy(parent, cur)
        BY <1>1, <2>3 DEF Completed, Unshrunk
      <3>2. cur \subseteq called
        <4>1. SUFFICES ASSUME cur \ called # {} PROVE FALSE
          OBVIOUS
        <4>2. cur \ called \in SUBSET (cur \ {Root})
          BY <1>3
        <4>3. PICK q \in cur \ called : parent[q] \in cur \ (cur \ called)
          BY <3>1, <4>1, <4>2 DEF RootedBy
        <4>4. q \in alive /\ parent[q] # q /\ parent[q] \in called
          BY <1>3, <3>1, <4>3 DEF Settled
        <4> QED
          BY <1>3, <4>3, <4>4 DEF Reading, Listed
      <3>3. \A q \in cur : cnt[q] > 0 => (q \in called /\ cnt[q] <= next[q])
        BY <1>7, <3>2
      <3>4. Sum(cnt, cur) <= Sum(next, called)
        BY <3>3, SumGrows
      <3> QED
        BY <1>11, <1>14, <2>2, <3>4
    <2> QED
      BY <2>3 DEF TreeTyped, NumbersTyped
  <1> QED
    BY <1>17, <1>18, <1>19, <1>20, <1>21 DEF Completed

\* The first reading is given up, and what it has summed is LastUsage.
LEMMA FirstReadingFails ==
  ASSUME TreeTyped, ReadFails, lastUsage = -1,
         NEW cnt \in Uses, NEW cur \in SUBSET Pids, NEW gone \in SUBSET Pids,
         Completed(cnt, cur, gone), NEW called \in SUBSET Pids, NEW rd \in Uses,
         Reading(cnt, cur, gone, called, rd), NEW none \in SUBSET Pids, none = {}
  PROVE  Completed(rd, called, none)'
  <1> USE TreeAssumption DEF TreeAssumption
  <1>1. /\ lastUsage' = total /\ recorded' = recorded /\ recorded = 0 /\ total \in Nat
        /\ UNCHANGED <<alive, parent, cpu>> /\ shrunk' = IF shrunk = 2 THEN 1 ELSE shrunk
    BY DEF ReadFails, Completed, Recorded, TreeTyped, NumbersTyped
  <1>2. \A q \in Pids : rd[q] \in Nat /\ (q \notin called => rd[q] = 0) /\ rd[q] <= cpu[q]
    BY DEF Uses, Reading, Readings
  <1>3. total = Sum(rd, called)
    <2>1. Sum(rd, Pids) <= Sum(rd, called)
      <3>1. \A q \in Pids : rd[q] > 0 => (q \in called /\ rd[q] <= rd[q])
        BY <1>2
      <3> QED
        BY <3>1, SumGrows
    <2>2. Sum(rd, called) <= Sum(rd, Pids)
      <3>1. \A q \in called : rd[q] > 0 => (q \in Pids /\ rd[q] <= rd[q])
        BY <1>2
      <3> QED
        BY <3>1, SumGrows
    <2>3. Sum(rd, Pids) \in Nat /\ Sum(rd, called) \in Nat /\ total = Sum(rd, Pids)
      BY TicksFinite DEF Reading, Readings
    <2> QED
      BY <2>1, <2>2, <2>3
  <1>4. Sum(rd, Pids \ called) \in Nat
    <2>1. Pids \ called \in SUBSET Pids
      OBVIOUS
    <2> QED
      BY <2>1, TicksFinite
  <1>5. Recorded(rd, called, none)'
    BY <1>1, <1>3, <1>4 DEF Recorded
  <1>6. Counted(rd, called, none)'
    BY <1>1, <1>2 DEF Counted, Reading, Calls
  <1>7. Kinship(called, none)'
    BY <1>1 DEF Kinship, Reading, Listed
  <1>8. Unshrunk(called)'
    <2>1. shrunk' = 0 => shrunk < 2
      BY <1>1
    <2>2. shrunk < 2 => (Settled(called) /\ RootedBy(parent, called))
      BY DEF Reading, Unmissed, Settled
    <2> QED
      BY <1>1, <2>1, <2>2 DEF Unshrunk, Settled, RootedBy
  <1> QED
    BY <1>5, <1>6, <1>7, <1>8 DEF Completed

LEMMA UsageInvInit == TreeInit => UsageInv
  <1> SUFFICES ASSUME TreeInit PROVE UsageInv
    OBVIOUS
  <1> USE TreeAssumption DEF TreeAssumption
  <1>1. PICK cnt, none : cnt = [q \in Pids |-> 0] /\ none = {} /\ none \in SUBSET Pids
    <2>1. {} \in SUBSET Pids
      OBVIOUS
    <2> QED
      BY <2>1
  <1>2. cnt \in Uses /\ \A q \in Pids : cnt[q] = 0 /\ cpu[q] = 0
    BY <1>1 DEF Uses, TreeInit
  <1>3. Completed(cnt, none, none)
    BY <1>1, <1>2
       DEF TreeInit, Completed, Counted, Recorded, Kinship, Unshrunk, Settled, RootedBy
  <1>4. walk # "usage"
    BY DEF TreeInit
  <1> QED
    BY <1>1, <1>2, <1>3, <1>4 DEF UsageInv

\* What a step of TreeNext keeps, and that a record is negative only as it should be.
LEMMA UsageInvStep ==
  TreeTyped /\ UsageInv /\ [TreeNext]_treeVars
    => UsageInv' /\ (recorded' < recorded => shrunk > 0)
  <1> SUFFICES ASSUME TreeTyped, UsageInv, [TreeNext]_treeVars
               PROVE  UsageInv' /\ (recorded' < recorded => shrunk > 0)
    OBVIOUS
  <1> USE TreeAssumption DEF TreeAssumption
  <1>0. PICK cnt \in Uses, cur \in SUBSET Pids, gone \in SUBSET Pids :
          /\ Completed(cnt, cur, gone)
          /\ walk = "usage" => \E called \in SUBSET Pids, rd \in Uses :
                                 Reading(cnt, cur, gone, called, rd)
    BY DEF UsageInv
  <1>a. recorded \in Int
    BY DEF TreeTyped, NumbersTyped
  <1>b. ASSUME UNCHANGED recorded PROVE ~(recorded' < recorded)
    BY <1>a, <1>b
  <1>1. CASE BeginWalk("usage")
    <2>1. UsageInv'
      BY <1>0, <1>1, ReadingBegins DEF UsageInv
    <2> QED
      BY <1>1, <1>b, <2>1 DEF BeginWalk
  <1>2. CASE BeginWalk("kill")
    <2>1. /\ UNCHANGED <<alive, parent, cpu, lastUsage, recorded, shrunk>> /\ walk' = "kill"
      BY <1>2 DEF BeginWalk
    <2>2. Completed(cnt, cur, gone)'
      BY <1>0, <2>1 DEF Completed, Counted, Recorded, Kinship, Unshrunk
    <2> QED
      BY <1>b, <2>1, <2>2 DEF UsageInv
  <1>3. ASSUME NEW p \in Pids, Descend(p) PROVE UsageInv' /\ (recorded' < recorded => shrunk > 0)
    <2>1. UNCHANGED <<alive, parent, cpu, walk, lastUsage, recorded, shrunk>>
      BY <1>3 DEF Descend, usageVars
    <2>2. Completed(cnt, cur, gone)'
      BY <1>0, <2>1 DEF Completed, Counted, Recorded, Kinship, Unshrunk, Settled, RootedBy
    <2>3. ASSUME walk = "usage"
          PROVE  \E called \in SUBSET Pids, rd \in Uses : Reading(cnt, cur, gone, called, rd)'
      <3>1. PICK called \in SUBSET Pids, rd \in Uses : Reading(cnt, cur, gone, called, rd)
        BY <1>0, <2>3
      <3>2. PICK more : more = called \cup {p}
        OBVIOUS
      <3>3. more \in SUBSET Pids /\ Reading(cnt, cur, gone, more, rd)'
        BY <1>0, <1>3, <2>3, <3>1, <3>2, ReadingDescends
      <3> QED
        BY <3>3
    <2> QED
      BY <1>b, <2>1, <2>2, <2>3 DEF UsageInv
  <1>4. ASSUME NEW p \in Pids, Kill(p) PROVE UsageInv' /\ (recorded' < recorded => shrunk > 0)
    <2>1. /\ UNCHANGED <<cpu, lastUsage, recorded, shrunk>> /\ walk' \notin {"none", "usage"}
          /\ Ends(p) \/ UNCHANGED <<alive, parent>>
      BY <1>4 DEF Kill, At, usageVars
    <2>2. Counted(cnt, cur, gone)' /\ Kinship(cur, gone)'
      <3>1. CASE Ends(p)
        BY <1>0, <2>1, <3>1, EndsKeepsCount DEF Completed
      <3>2. CASE UNCHANGED <<alive, parent>>
        BY <1>0, <2>1, <3>2 DEF Completed, Counted, Kinship
      <3> QED
        BY <2>1, <3>1, <3>2
    <2>3. Recorded(cnt, cur, gone)' /\ Unshrunk(cur)'
      BY <1>0, <2>1 DEF Completed, Recorded, Unshrunk
    <2> QED
      BY <1>b, <2>1, <2>2, <2>3 DEF UsageInv, Completed
  <1>5. ASSUME NEW p \in Pids, ReadStat(p) PROVE UsageInv' /\ (recorded' < recorded => shrunk > 0)
    <2>1. walk = "usage" /\ UNCHANGED <<alive, parent, cpu>>
      BY <1>5 DEF ReadStat, At
    <2>2. PICK called \in SUBSET Pids, rd \in Uses : Reading(cnt, cur, gone, called, rd)
      BY <1>0, <2>1
    <2>3. cpu \in Uses
      BY DEF TreeTyped, ProcessesTyped, Uses
    <2>4. PICK now \in Uses : now[p] = cpu[p] /\ \A q \in Pids \ {p} : now[q] = rd[q]
      <3>1. [rd EXCEPT ![p] = cpu[p]] \in Uses
        BY <2>3 DEF Uses
      <3>2. /\ [rd EXCEPT ![p] = cpu[p]][p] = cpu[p]
            /\ \A q \in Pids \ {p} : [rd EXCEPT ![p] = cpu[p]][q] = rd[q]
        BY DEF Uses
      <3> QED
        BY <3>1, <3>2
    <2>5. CASE p = Root
      <3>1. PICK next \in Uses : \A q \in Pids : next[q] = IF q \in called THEN now[q] ELSE cnt[q]
        <4>1. [q \in Pids |-> IF q \in called THEN now[q] ELSE cnt[q]] \in Uses
          BY DEF Uses
        <4> QED
          BY <4>1
      <3>2. PICK left \in SUBSET Pids : left = gone \cup (cur \ called)
        OBVIOUS
      <3>3. ReadStat(Root)
        BY <1>5, <2>5
      <3>4. Completed(next, called, left)' /\ (recorded' < recorded => shrunk > 0)
        BY <1>0, <2>2, <2>4, <2>5, <3>1, <3>2, <3>3, ReadingEnds
      <3>5. walk' = "none"
        BY <1>5, <2>5 DEF ReadStat, Record
      <3> QED
        BY <3>4, <3>5 DEF UsageInv
    <2>6. CASE p # Root
      <3>1. UNCHANGED <<walk, lastUsage, recorded, shrunk>>
        BY <1>5, <2>6 DEF ReadStat
      <3>2. Completed(cnt, cur, gone)'
        BY <1>0, <2>1, <3>1
           DEF Completed, Counted, Recorded, Kinship, Unshrunk, Settled, RootedBy
      <3>3. Reading(cnt, cur, gone, called, now)'
        BY <1>0, <1>5, <2>2, <2>4, <2>6, ReadingReturns
      <3> QED
        BY <1>b, <3>1, <3>2, <3>3 DEF UsageInv
    <2> QED
      BY <2>5, <2>6
  <1>6. CASE ReadFails
    <2>1. /\ walk = "usage" /\ walk' = "none" /\ UNCHANGED <<alive, parent, cpu, recorded>>
          /\ shrunk' = IF shrunk = 2 THEN 1 ELSE shrunk
      BY <1>6 DEF ReadFails
    <2>2. CASE lastUsage = -1
      <3>1. PICK called \in SUBSET Pids, rd \in Uses : Reading(cnt, cur, gone, called, rd)
        BY <1>0, <2>1
      <3>2. PICK none \in SUBSET Pids : none = {}
        OBVIOUS
      <3>3. Completed(rd, called, none)'
        BY <1>0, <1>6, <2>2, <3>1, <3>2, FirstReadingFails
      <3> QED
        BY <1>b, <2>1, <3>3 DEF UsageInv
    <2>3. CASE lastUsage # -1
      <3>1. lastUsage' = lastUsage /\ (shrunk' = 0 => shrunk = 0)
        BY <1>6, <2>1, <2>3 DEF ReadFails
      <3>2. Completed(cnt, cur, gone)'
        BY <1>0, <2>1, <3>1
           DEF Completed, Counted, Recorded, Kinship, Unshrunk, Settled, RootedBy
      <3> QED
        BY <1>b, <2>1, <3>2 DEF UsageInv
    <2> QED
      BY <2>2, <2>3
  <1>7. ASSUME NEW p \in Pids, Exit(p) PROVE UsageInv' /\ (recorded' < recorded => shrunk > 0)
    <2>1. /\ Ends(p) /\ shrunk' = (IF walk = "usage" THEN 2 ELSE 1)
          /\ UNCHANGED <<cpu, walk, frames, total, lastUsage, recorded>>
      BY <1>7 DEF Exit, usageVars
    <2>2. Completed(cnt, cur, gone)'
      <3>1. Counted(cnt, cur, gone)' /\ Kinship(cur, gone)'
        BY <1>0, <2>1, EndsKeepsCount DEF Completed
      <3>2. Recorded(cnt, cur, gone)' /\ Unshrunk(cur)'
        BY <1>0, <2>1 DEF Completed, Recorded, Unshrunk
      <3> QED
        BY <3>1, <3>2 DEF Completed
    <2>3. ASSUME walk = "usage"
          PROVE  \E called \in SUBSET Pids, rd \in Uses : Reading(cnt, cur, gone, called, rd)'
      <3>1. PICK called \in SUBSET Pids, rd \in Uses : Reading(cnt, cur, gone, called, rd)
        BY <1>0, <2>3
      <3>2. Calls(called)' /\ Listed(cur, gone, called)'
        BY <1>0, <2>1, <3>1, EndsKeepsListed DEF Reading
      <3>3. Stack' = Stack
        BY <2>1 DEF Stack
      <3>4. Readings(cnt, called, rd)' /\ Unmissed(called)'
        BY <2>1, <2>3, <3>1, <3>3 DEF Reading, Readings, Unmissed
      <3> QED
        BY <3>2, <3>4 DEF Reading
    <2> QED
      BY <1>b, <2>1, <2>2, <2>3 DEF UsageInv
  <1>8. ASSUME NEW p \in Pids, Compute(p) PROVE UsageInv' /\ (recorded' < recorded => shrunk > 0)
    <2>1. UNCHANGED <<alive, parent, walk, frames, total, lastUsage, recorded, shrunk>>
      BY <1>8 DEF Compute, usageVars
    <2>2. \A q \in Pids : cpu[q] \in Nat /\ cpu'[q] \in Nat /\ cpu[q] <= cpu'[q]
      BY <1>8 DEF Compute, TreeTyped, ProcessesTyped
    <2>3. \A u \in Uses : \A q \in Pids : u[q] \in Nat /\ (u[q] <= cpu[q] => u[q] <= cpu'[q])
      BY <2>2 DEF Uses
    <2>4. Completed(cnt, cur, gone)'
      BY <1>0, <2>1, <2>3
         DEF Completed, Counted, Recorded, Kinship, Unshrunk, Settled, RootedBy
    <2>5. ASSUME walk = "usage"
          PROVE  \E called \in SUBSET Pids, rd \in Uses : Reading(cnt, cur, gone, called, rd)'
      <3>1. PICK called \in SUBSET Pids, rd \in Uses : Reading(cnt, cur, gone, called, rd)
        BY <1>0, <2>5
      <3>2. Stack' = Stack /\ Todo' = Todo /\ Distinct' = Distinct
        BY <2>1 DEF Stack, Todo, Distinct
      <3>3. Readings(cnt, called, rd)'
        BY <2>1, <2>3, <3>1, <3>2 DEF Reading, Readings
      <3>4. Calls(called)' /\ Listed(cur, gone, called)' /\ Unmissed(called)'
        BY <2>1, <3>1, <3>2 DEF Reading, Calls, Listed, Unmissed, Settled, RootedBy
      <3> QED
        BY <3>3, <3>4 DEF Reading
    <2> QED
      BY <1>b, <2>1, <2>4, <2>5 DEF UsageInv
  <1>9. ASSUME NEW p \in Pids, NEW q \in Pids, Fork(p, q)
        PROVE  UsageInv' /\ (recorded' < recorded => shrunk > 0)
    <2>1. UNCHANGED <<walk, recorded>>
      BY <1>9 DEF Fork, usageVars
    <2>2. /\ Completed(cnt, cur, gone)'
          /\ \A called \in SUBSET Pids, rd \in Uses :
               Reading(cnt, cur, gone, called, rd) => Reading(cnt, cur, gone, called, rd)'
      BY <1>0, <1>9, ForkKeeps
    <2> QED
      BY <1>0, <1>b, <2>1, <2>2 DEF UsageInv
  <1>10. CASE UNCHANGED treeVars
    <2>1. UNCHANGED <<alive, parent, cpu, walk, frames, total, lastUsage, recorded, shrunk>>
      BY <1>10 DEF treeVars
    <2>2. Completed(cnt, cur, gone)'
      BY <1>0, <2>1
         DEF Completed, Counted, Recorded, Kinship, Unshrunk, Settled, RootedBy
    <2>3. ASSUME walk = "usage"
          PROVE  \E called \in SUBSET Pids, rd \in Uses : Reading(cnt, cur, gone, called, rd)'
      <3>1. PICK called \in SUBSET Pids, rd \in Uses : Reading(cnt, cur, gone, called, rd)
        BY <1>0, <2>3
      <3>2. Stack' = Stack /\ Todo' = Todo /\ Distinct' = Distinct
        BY <2>1 DEF Stack, Todo, Distinct
      <3>3. Reading(cnt, cur, gone, called, rd)'
        BY <2>1, <3>1, <3>2
           DEF Reading, Calls, Listed, Readings, Unmissed, Settled, RootedBy
      <3> QED
        BY <3>3
    <2> QED
      BY <1>b, <2>1, <2>2, <2>3 DEF UsageInv
  <1> QED
    BY <1>1, <1>2, <1>3, <1>4, <1>5, <1>6, <1>7, <1>8, <1>9, <1>10
       DEF TreeNext, Walk, Processes

\* RecordsWithinUse, of the rows that RecordUsage inserts: whatever readings and inserts
\* fail, they never add up to more CPU time than the processes have used.
THEOREM RecordsBounded == TreeSpec => []RecordsWithinUse
  <1>1. TreeTyped /\ UsageInv => RecordsWithinUse
    BY RecordedIsUsed DEF UsageInv
  <1>2. TreeTyped /\ UsageInv /\ [TreeNext]_treeVars => UsageInv'
    BY UsageInvStep
  <1> QED
    BY <1>1, <1>2, TreeTypedInit, TreeTypedStep, UsageInvInit, PTL DEF TreeSpec

\* NegativeMeansEnded, of one record (getUsageRecording subtracts LastUsage): it is never
\* negative while no process of the tree ends.
THEOREM RecordsForward == TreeSpec => NegativeMeansEnded
  <1>1. /\ TreeTyped /\ UsageInv /\ [TreeNext]_treeVars => UsageInv'
        /\ TreeTyped /\ UsageInv /\ [TreeNext]_treeVars
             => [recorded' < recorded => shrunk > 0]_treeVars
    BY UsageInvStep
  <1> QED
    BY <1>1, TreeTypedInit, TreeTypedStep, UsageInvInit, PTL DEF TreeSpec, NegativeMeansEnded
=============================================================================
