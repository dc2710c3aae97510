---------------------------- MODULE ProcLogProofs -----------------------------
(***************************************************************************)
(* Theorems about ProcLog and their proofs: what a logger that one thread  *)
(* uses at a time never loses, and what a deletion leaves.                 *)
(***************************************************************************)
EXTENDS ProcLog, FiniteSetTheorems, SequenceTheorems, TLAPS

(* Typing.                                                                  *)

RowsTyped ==
  /\ rows \in Seq(RowType) /\ currentLog \in 0..Len(rows)
  /\ seen \in [Threads -> 0..Len(rows)] /\ ending \in [Threads -> 0..Len(rows)]

FilesTyped ==
  /\ DOMAIN files \subseteq Paths /\ \A p \in DOMAIN files : files[p] \subseteq 1..MaxLines
  /\ writer \in Paths \cup {-1} /\ now \in Paths

\* Work does not append, and a copier does not cycle.
PointsTyped ==
  /\ lpc \in [Threads -> LogPoints]
  /\ lpc[Work] \notin {"append", "broken"}
  /\ \A c \in Copiers : lpc[c] \notin {"end", "lastEnd", "remove", "return"}

\* A copier has a line exactly while it is at work.
LinesTyped ==
  /\ line \in [Threads -> 0..MaxLines] /\ sent \in 0..MaxLines /\ lost \subseteq 1..MaxLines
  /\ \A c \in Copiers : lpc[c] \notin Resting <=> line[c] # 0

FlagsTyped ==
  /\ deleting \in {"no", "told", "gone"} /\ faults \in 0..MaxFaults
  /\ overlaps \in 0..MaxOverlaps /\ late \in BOOLEAN

\* A thread that needs a row has one, and a row that is about to be committed is pending
\* and in the hands of one thread.
HandsFit ==
  /\ \A t \in Threads : lpc[t] \in {"open", "endOld", "commitNew"} => seen[t] # 0
  /\ \A t \in Threads : lpc[t] = "commitNew" => rows[seen[t]].state = "pending"
  /\ \A t, u \in Threads :
       (lpc[t] = "commitNew" /\ lpc[u] = "commitNew" /\ t # u) => seen[t] # seen[u]

LogInv == RowsTyped /\ FilesTyped /\ PointsTyped /\ LinesTyped /\ FlagsTyped /\ HandsFit

LEMMA LogInvTypes == LogInv => LogTypeOK
  BY DEF LogInv, RowsTyped, FilesTyped, PointsTyped, LinesTyped, FlagsTyped, HandsFit, LogTypeOK

RowStates == {"pending", "open", "ended", "gone"}

\* Changing the state of one row changes nothing else.
LEMMA OneRow ==
  ASSUME NEW s \in Seq(RowType), NEW i \in 1..Len(s), NEW st \in RowStates,
         NEW n, n = [s EXCEPT ![i].state = st]
  PROVE  /\ n \in Seq(RowType) /\ Len(n) = Len(s) /\ n[i].state = st
         /\ \A j \in 1..Len(s) : /\ n[j].path = s[j].path /\ n[j].start = s[j].start
                                 /\ j # i => n[j] = s[j]
  <1>1. s[i] \in RowType /\ \A j \in 1..Len(s) : s[j] \in RowType
    OBVIOUS
  <1>2. [s[i] EXCEPT !.state = st] \in RowType
    BY <1>1 DEF RowType, RowStates
  <1>3. n = [j \in 1..Len(s) |-> IF j = i THEN [s[i] EXCEPT !.state = st] ELSE s[j]]
    <2>1. n = [s EXCEPT ![i] = [s[i] EXCEPT !.state = st]]
      OBVIOUS
    <2>2. s \in [1..Len(s) -> RowType]
      OBVIOUS
    <2> QED
      BY ONLY <2>1, <2>2
  <1>4. n \in [1..Len(s) -> RowType] /\ Len(s) \in Nat
    BY <1>1, <1>2, <1>3
  <1>0. n \in Seq(RowType) /\ Len(n) = Len(s)
    BY ONLY <1>4
  <1>5. [s[i] EXCEPT !.state = st].state = st
    BY <1>1 DEF RowType
  <1>6. /\ [s[i] EXCEPT !.state = st].path = s[i].path
        /\ [s[i] EXCEPT !.state = st].start = s[i].start
    BY <1>1 DEF RowType
  <1> QED
    BY <1>3, <1>0, <1>5, <1>6

\* SetLogEndTime ends one open row and leaves the others.
LEMMA SetEndKeeps ==
  ASSUME RowsTyped, NEW id, NEW n, n = SetEnd(id)
  PROVE  /\ n \in Seq(RowType) /\ Len(n) = Len(rows)
         /\ \A j \in 1..Len(rows) :
              /\ n[j].path = rows[j].path /\ n[j].start = rows[j].start
              /\ n[j].state = IF j = id /\ rows[j].state = "open" THEN "ended"
                              ELSE rows[j].state
  <1>1. CASE id \in 1..Len(rows) /\ rows[id].state = "open"
    <2>1. n = [rows EXCEPT ![id].state = "ended"]
      BY <1>1 DEF SetEnd
    <2>2. rows \in Seq(RowType) /\ "ended" \in RowStates
      BY DEF RowsTyped, RowStates
    <2> QED
      BY <1>1, <2>1, <2>2, OneRow
  <1>2. CASE ~(id \in 1..Len(rows) /\ rows[id].state = "open")
    BY <1>2 DEF SetEnd, RowsTyped
  <1> QED
    BY <1>1, <1>2

\* A set of naturals that is bounded and not empty has a greatest element.
LEMMA Greatest ==
  ASSUME NEW n \in Nat, NEW S \in SUBSET (0..n), S # {}
  PROVE  \E x \in S : \A y \in S : y <= x
  <1> DEFINE T == {n - x : x \in S}
  <1>1. T \subseteq Nat /\ T # {}
    <2>1. \A x \in S : n - x \in Nat
      OBVIOUS
    <2> QED
      BY <2>1
  <1>2. PICK b \in T : \A y \in T : <<y, b>> \notin OpToRel(<, Nat)
    BY ONLY <1>1, WFMin, NatLessThanWellFounded, Zenon
  <1>3. PICK x \in S : b = n - x
    OBVIOUS
  <1>4. \A y \in S : n - y \in Nat /\ n - y \in T
    OBVIOUS
  <1>5. \A y \in S : ~(n - y < n - x)
    BY <1>1, <1>2, <1>3, <1>4 DEF OpToRel
  <1>6. \A y \in S : y <= x
    BY <1>5
  <1> QED
    BY <1>6

\* The newest log is the committed row with the greatest id.
LEMMA NewestIsLast ==
  ASSUME RowsTyped
  PROVE  /\ Newest \in 0..Len(rows)
         /\ Newest = 0 <=> Committed = {}
         /\ Newest # 0 => Newest \in Committed /\ \A j \in Committed : j <= Newest
  <1>1. CASE Committed = {}
    BY <1>1 DEF Newest, RowsTyped
  <1>2. CASE Committed # {}
    <2>1. Committed \in SUBSET (0..Len(rows)) /\ Len(rows) \in Nat
      BY DEF Committed, RowsTyped
    <2>2. \E i \in Committed : \A j \in Committed : j <= i
      BY ONLY <1>2, <2>1, Greatest
    <2>3. Newest \in Committed /\ \A j \in Committed : j <= Newest
      BY <1>2, <2>2 DEF Newest
    <2> QED
      BY <1>2, <2>1, <2>3 DEF Committed
  <1> QED
    BY <1>1, <1>2

\* A row that is inserted comes last.
LEMMA RowAdded ==
  ASSUME RowsTyped, FilesTyped, NEW n,
         n = Append(rows, [path |-> now, start |-> now, state |-> "pending"])
  PROVE  /\ n \in Seq(RowType) /\ Len(n) = Len(rows) + 1 /\ Len(n) \in Nat
         /\ n[Len(n)].path = now /\ n[Len(n)].start = now /\ n[Len(n)].state = "pending"
         /\ \A j \in 1..Len(rows) : n[j] = rows[j]
  <1> DEFINE r == [path |-> now, start |-> now, state |-> "pending"]
  <1>1. r \in RowType
    BY DEF RowType, FilesTyped
  <1>2. rows \in Seq(RowType)
    BY DEF RowsTyped
  <1>3. n[Len(n)] = r /\ n \in Seq(RowType) /\ Len(n) = Len(rows) + 1 /\ Len(n) \in Nat
    BY ONLY <1>1, <1>2, n = Append(rows, r)
  <1>4. \A j \in 1..Len(rows) : n[j] = rows[j]
    BY ONLY <1>1, <1>2, n = Append(rows, r)
  <1> QED
    BY <1>3, <1>4

\* Rows are replaced one by one.
LEMMA RowsMapped ==
  ASSUME RowsTyped, NEW bad, NEW n,
         n = [i \in 1..Len(rows) |->
                IF i \in bad THEN [rows[i] EXCEPT !.state = "gone"] ELSE rows[i]]
  PROVE  /\ n \in Seq(RowType) /\ Len(n) = Len(rows)
         /\ \A j \in 1..Len(rows) :
              /\ n[j].path = rows[j].path /\ n[j].start = rows[j].start
              /\ n[j].state = IF j \in bad THEN "gone" ELSE rows[j].state
  <1>1. \A j \in 1..Len(rows) : rows[j] \in RowType
    BY DEF RowsTyped
  <1>2. \A j \in 1..Len(rows) : /\ [rows[j] EXCEPT !.state = "gone"] \in RowType
                                /\ [rows[j] EXCEPT !.state = "gone"].state = "gone"
                                /\ [rows[j] EXCEPT !.state = "gone"].path = rows[j].path
                                /\ [rows[j] EXCEPT !.state = "gone"].start = rows[j].start
    BY <1>1 DEF RowType
  <1>3. \A j \in 1..Len(rows) :
          (IF j \in bad THEN [rows[j] EXCEPT !.state = "gone"] ELSE rows[j]) \in RowType
    BY <1>1, <1>2
  <1>4. Len(rows) \in Nat
    BY DEF RowsTyped
  <1>5. n \in [1..Len(rows) -> RowType]
    BY <1>3
  <1>6. n \in Seq(RowType) /\ Len(n) = Len(rows)
    BY ONLY <1>4, <1>5
  <1> QED
    BY <1>2, <1>6

\* Every step keeps the types.
LEMMA LogInvStep == LogInv /\ [LogNext]_logVars => LogInv'
  <1> SUFFICES ASSUME LogInv, [LogNext]_logVars PROVE LogInv'
    OBVIOUS
  <1> USE ProcLogAssumption DEF ProcLogAssumption
  <1> USE DEF Threads
  <1>1. CASE CycleRetrieves
    <2>1. RowsTyped'
      BY <1>1 DEF CycleRetrieves, Starts, Goes, Fault, LogInv, RowsTyped
    <2>2. FilesTyped'
      BY <1>1 DEF CycleRetrieves, Starts, Goes, Fault, LogInv, FilesTyped, Paths, LinesTyped
    <2>3. PointsTyped'
      BY <1>1 DEF CycleRetrieves, Starts, Goes, Fault, LogInv, PointsTyped, LogPoints, Resting
    <2>4. LinesTyped'
      BY <1>1 DEF CycleRetrieves, Starts, Goes, Fault, LogInv, LinesTyped, Resting, PointsTyped
    <2>5. FlagsTyped'
      BY <1>1 DEF CycleRetrieves, Starts, Goes, Fault, LogInv, FlagsTyped
    <2>6. HandsFit'
      BY <1>1 DEF CycleRetrieves, Starts, Goes, Fault, LogInv, HandsFit
    <2> QED
      BY <2>1, <2>2, <2>3, <2>4, <2>5, <2>6 DEF LogInv
  <1>2. CASE CycleFinishes
    <2>1. RowsTyped'
      BY <1>2 DEF CycleFinishes, Starts, Goes, Fault, LogInv, RowsTyped
    <2>2. FilesTyped'
      BY <1>2 DEF CycleFinishes, Starts, Goes, Fault, LogInv, FilesTyped, Paths, LinesTyped
    <2>3. PointsTyped'
      BY <1>2 DEF CycleFinishes, Starts, Goes, Fault, LogInv, PointsTyped, LogPoints, Resting
    <2>4. LinesTyped'
      BY <1>2 DEF CycleFinishes, Starts, Goes, Fault, LogInv, LinesTyped, Resting, PointsTyped
    <2>5. FlagsTyped'
      BY <1>2 DEF CycleFinishes, Starts, Goes, Fault, LogInv, FlagsTyped
    <2>6. HandsFit'
      BY <1>2 DEF CycleFinishes, Starts, Goes, Fault, LogInv, HandsFit
    <2> QED
      BY <2>1, <2>2, <2>3, <2>4, <2>5, <2>6 DEF LogInv
  <1>3. CASE Finishes
    <2>1. RowsTyped'
      <3>1. UNCHANGED <<currentLog, seen, ending>> /\ (rows' = rows \/ rows' = SetEnd(currentLog))
        BY <1>3 DEF Finishes, EndsCurrent
      <3>2. rows' \in Seq(RowType) /\ Len(rows') = Len(rows)
        BY <3>1, SetEndKeeps DEF LogInv, RowsTyped
      <3> QED
        BY <3>1, <3>2 DEF LogInv, RowsTyped
    <2>2. FilesTyped'
      BY <1>3 DEF Finishes, EndsCurrent, Goes, Fault, LogInv, FilesTyped, Paths, LinesTyped
    <2>3. PointsTyped'
      BY <1>3 DEF Finishes, EndsCurrent, Goes, Fault, LogInv, PointsTyped, LogPoints, Resting
    <2>4. LinesTyped'
      BY <1>3 DEF Finishes, EndsCurrent, Goes, Fault, LogInv, LinesTyped, Resting, PointsTyped
    <2>5. FlagsTyped'
      BY <1>3 DEF Finishes, EndsCurrent, Goes, Fault, LogInv, FlagsTyped
    <2>6. HandsFit'
      <3>1. seen' = seen /\ (rows' = rows \/ rows' = SetEnd(currentLog))
        BY <1>3 DEF Finishes, EndsCurrent
      <3>2. \A u \in Threads : lpc'[u] \in {"open", "endOld", "commitNew"} => lpc'[u] = lpc[u]
        BY <1>3 DEF Finishes, EndsCurrent, Goes, LogInv, PointsTyped
      <3>3. \A i \in 1..Len(rows) : rows[i].state = "pending" => rows'[i].state = "pending"
        <4>1. ASSUME rows' = SetEnd(currentLog), NEW i \in 1..Len(rows), rows[i].state = "pending"
              PROVE  rows'[i].state = "pending"
          <5>1. RowsTyped
            BY DEF LogInv
          <5>2. rows'[i].state = IF i = currentLog /\ rows[i].state = "open" THEN "ended"
                                ELSE rows[i].state
            BY ONLY <4>1, <5>1, SetEndKeeps
          <5> QED
            BY <4>1, <5>2
        <4> QED
          BY <3>1, <4>1
      <3>4. \A u \in Threads : seen[u] \in 0..Len(rows)
        BY DEF LogInv, RowsTyped
      <3>5. HandsFit
        BY DEF LogInv
      <3>6. \A u \in Threads : lpc'[u] = "commitNew" =>
              lpc[u] = "commitNew" /\ rows'[seen'[u]].state = rows[seen[u]].state
        <4> SUFFICES ASSUME NEW u \in Threads, lpc'[u] = "commitNew"
                     PROVE  lpc[u] = "commitNew" /\ rows'[seen[u]].state = rows[seen[u]].state
          BY <3>1
        <4>1. lpc[u] = "commitNew" /\ seen[u] \in 1..Len(rows) /\ rows[seen[u]].state = "pending"
          BY <3>2, <3>4, <3>5 DEF HandsFit
        <4> QED
          BY <3>3, <4>1
      <3> QED
        BY ONLY <3>1, <3>2, <3>5, <3>6 DEF HandsFit
    <2> QED
      BY <2>1, <2>2, <2>3, <2>4, <2>5, <2>6 DEF LogInv
  <1>4. CASE LastEnds
    <2>1. RowsTyped'
      <3>1. UNCHANGED <<currentLog, seen, ending>> /\ (rows' = rows \/ rows' = SetEnd(currentLog))
        BY <1>4 DEF LastEnds, EndsCurrent
      <3>2. rows' \in Seq(RowType) /\ Len(rows') = Len(rows)
        BY <3>1, SetEndKeeps DEF LogInv, RowsTyped
      <3> QED
        BY <3>1, <3>2 DEF LogInv, RowsTyped
    <2>2. FilesTyped'
      BY <1>4 DEF LastEnds, EndsCurrent, Goes, Fault, LogInv, FilesTyped, Paths, LinesTyped
    <2>3. PointsTyped'
      BY <1>4 DEF LastEnds, EndsCurrent, Goes, Fault, LogInv, PointsTyped, LogPoints, Resting
    <2>4. LinesTyped'
      BY <1>4 DEF LastEnds, EndsCurrent, Goes, Fault, LogInv, LinesTyped, Resting, PointsTyped
    <2>5. FlagsTyped'
      BY <1>4 DEF LastEnds, EndsCurrent, Goes, Fault, LogInv, FlagsTyped
    <2>6. HandsFit'
      <3>1. seen' = seen /\ (rows' = rows \/ rows' = SetEnd(currentLog))
        BY <1>4 DEF LastEnds, EndsCurrent
      <3>2. \A u \in Threads : lpc'[u] \in {"open", "endOld", "commitNew"} => lpc'[u] = lpc[u]
        BY <1>4 DEF LastEnds, EndsCurrent, Goes, LogInv, PointsTyped
      <3>3. \A i \in 1..Len(rows) : rows[i].state = "pending" => rows'[i].state = "pending"
        <4>1. ASSUME rows' = SetEnd(currentLog), NEW i \in 1..Len(rows), rows[i].state = "pending"
              PROVE  rows'[i].state = "pending"
          <5>1. RowsTyped
            BY DEF LogInv
          <5>2. rows'[i].state = IF i = currentLog /\ rows[i].state = "open" THEN "ended"
                                ELSE rows[i].state
            BY ONLY <4>1, <5>1, SetEndKeeps
          <5> QED
            BY <4>1, <5>2
        <4> QED
          BY <3>1, <4>1
      <3>4. \A u \in Threads : seen[u] \in 0..Len(rows)
        BY DEF LogInv, RowsTyped
      <3>5. HandsFit
        BY DEF LogInv
      <3>6. \A u \in Threads : lpc'[u] = "commitNew" =>
              lpc[u] = "commitNew" /\ rows'[seen'[u]].state = rows[seen[u]].state
        <4> SUFFICES ASSUME NEW u \in Threads, lpc'[u] = "commitNew"
                     PROVE  lpc[u] = "commitNew" /\ rows'[seen[u]].state = rows[seen[u]].state
          BY <3>1
        <4>1. lpc[u] = "commitNew" /\ seen[u] \in 1..Len(rows) /\ rows[seen[u]].state = "pending"
          BY <3>2, <3>4, <3>5 DEF HandsFit
        <4> QED
          BY <3>3, <4>1
      <3> QED
        BY ONLY <3>1, <3>2, <3>5, <3>6 DEF HandsFit
    <2> QED
      BY <2>1, <2>2, <2>3, <2>4, <2>5, <2>6 DEF LogInv
  <1>5. CASE RemovesFolder
    <2>1. RowsTyped'
      BY <1>5 DEF RemovesFolder, Goes, Fault, LogInv, RowsTyped
    <2>2. FilesTyped'
      BY <1>5 DEF RemovesFolder, Goes, Fault, LogInv, FilesTyped, Paths, LinesTyped
    <2>3. PointsTyped'
      BY <1>5 DEF RemovesFolder, Goes, Fault, LogInv, PointsTyped, LogPoints, Resting
    <2>4. LinesTyped'
      BY <1>5 DEF RemovesFolder, Goes, Fault, LogInv, LinesTyped, Resting, PointsTyped
    <2>5. FlagsTyped'
      BY <1>5 DEF RemovesFolder, Goes, Fault, LogInv, FlagsTyped
    <2>6. HandsFit'
      BY <1>5 DEF RemovesFolder, Goes, Fault, LogInv, HandsFit
    <2> QED
      BY <2>1, <2>2, <2>3, <2>4, <2>5, <2>6 DEF LogInv
  <1>6. CASE WorkReturns
    <2>1. RowsTyped'
      BY <1>6 DEF WorkReturns, Goes, Fault, LogInv, RowsTyped
    <2>2. FilesTyped'
      BY <1>6 DEF WorkReturns, Goes, Fault, LogInv, FilesTyped, Paths, LinesTyped
    <2>3. PointsTyped'
      BY <1>6 DEF WorkReturns, Goes, Fault, LogInv, PointsTyped, LogPoints, Resting
    <2>4. LinesTyped'
      BY <1>6 DEF WorkReturns, Goes, Fault, LogInv, LinesTyped, Resting, PointsTyped
    <2>5. FlagsTyped'
      BY <1>6 DEF WorkReturns, Goes, Fault, LogInv, FlagsTyped
    <2>6. HandsFit'
      BY <1>6 DEF WorkReturns, Goes, Fault, LogInv, HandsFit
    <2> QED
      BY <2>1, <2>2, <2>3, <2>4, <2>5, <2>6 DEF LogInv
  <1>7. ASSUME NEW t \in Threads, Select(t) PROVE LogInv'
    <2>1. RowsTyped'
      <3>1. Newest \in 0..Len(rows)
        BY NewestIsLast DEF LogInv
      <3> QED
        BY <1>7, <3>1 DEF Select, LogInv, RowsTyped
    <2>2. FilesTyped'
      BY <1>7 DEF Select, Goes, Fault, LogInv, FilesTyped, Paths, LinesTyped
    <2>3. PointsTyped'
      BY <1>7 DEF Select, Goes, Fault, LogInv, PointsTyped, LogPoints, Resting
    <2>4. LinesTyped'
      BY <1>7 DEF Select, Goes, Fault, LogInv, LinesTyped, Resting, PointsTyped
    <2>5. FlagsTyped'
      BY <1>7 DEF Select, Goes, Fault, LogInv, FlagsTyped
    <2>6. HandsFit'
      <3>1. UNCHANGED rows /\ seen' = [seen EXCEPT ![t] = Newest]
            /\ (lpc'[t] = "open" \/ lpc'[t] = "endOld" => Newest # 0) /\ lpc'[t] # "commitNew"
            /\ \A u \in Threads : u # t => lpc'[u] = lpc[u]
        BY <1>7 DEF Select, Goes, LogInv, PointsTyped
      <3>2. /\ t \in Threads /\ seen'[t] = Newest
            /\ \A u \in Threads : u # t => seen'[u] = seen[u] /\ lpc'[u] = lpc[u]
        BY <3>1 DEF LogInv, RowsTyped
      <3>3. HandsFit
        BY DEF LogInv
      <3> QED
        BY ONLY <3>1, <3>2, <3>3 DEF HandsFit
    <2> QED
      BY <2>1, <2>2, <2>3, <2>4, <2>5, <2>6 DEF LogInv
  <1>8. ASSUME NEW t \in Threads, EndOld(t) PROVE LogInv'
    <2>1. RowsTyped'
      BY <1>8 DEF EndOld, Goes, Fault, LogInv, RowsTyped
    <2>2. FilesTyped'
      BY <1>8 DEF EndOld, Goes, Fault, LogInv, FilesTyped, Paths, LinesTyped
    <2>3. PointsTyped'
      BY <1>8 DEF EndOld, Goes, Fault, LogInv, PointsTyped, LogPoints, Resting
    <2>4. LinesTyped'
      BY <1>8 DEF EndOld, Goes, Fault, LogInv, LinesTyped, Resting, PointsTyped
    <2>5. FlagsTyped'
      BY <1>8 DEF EndOld, Goes, Fault, LogInv, FlagsTyped
    <2>6. HandsFit'
      BY <1>8 DEF EndOld, Goes, Fault, LogInv, HandsFit
    <2> QED
      BY <2>1, <2>2, <2>3, <2>4, <2>5, <2>6 DEF LogInv
  <1>9. ASSUME NEW t \in Threads, Open(t) PROVE LogInv'
    <2>1. RowsTyped'
      BY <1>9 DEF Open, Goes, Fault, LogInv, RowsTyped
    <2>2. FilesTyped'
      BY <1>9 DEF Open, Goes, Fault, LogInv, FilesTyped, Paths, LinesTyped
    <2>3. PointsTyped'
      BY <1>9 DEF Open, Goes, Fault, LogInv, PointsTyped, LogPoints, Resting
    <2>4. LinesTyped'
      BY <1>9 DEF Open, Goes, Fault, LogInv, LinesTyped, Resting, PointsTyped
    <2>5. FlagsTyped'
      BY <1>9 DEF Open, Goes, Fault, LogInv, FlagsTyped
    <2>6. HandsFit'
      BY <1>9 DEF Open, Goes, Fault, LogInv, HandsFit
    <2> QED
      BY <2>1, <2>2, <2>3, <2>4, <2>5, <2>6 DEF LogInv
  <1>10. ASSUME NEW t \in Threads, New(t) PROVE LogInv'
    <2>1. RowsTyped'
      BY <1>10 DEF New, Goes, Fault, LogInv, RowsTyped
    <2>2. FilesTyped'
      BY <1>10 DEF New, Goes, Fault, LogInv, FilesTyped, Paths, LinesTyped
    <2>3. PointsTyped'
      BY <1>10 DEF New, Goes, Fault, LogInv, PointsTyped, LogPoints, Resting
    <2>4. LinesTyped'
      BY <1>10 DEF New, Goes, Fault, LogInv, LinesTyped, Resting, PointsTyped
    <2>5. FlagsTyped'
      BY <1>10 DEF New, Goes, Fault, LogInv, FlagsTyped
    <2>6. HandsFit'
      BY <1>10 DEF New, Goes, Fault, LogInv, HandsFit
    <2> QED
      BY <2>1, <2>2, <2>3, <2>4, <2>5, <2>6 DEF LogInv
  <1>11. ASSUME NEW t \in Threads, Create(t) PROVE LogInv'
    <2>1. RowsTyped'
      <3>1. /\ rows' \in Seq(RowType) /\ Len(rows') = Len(rows) + 1 /\ Len(rows') \in Nat
        BY <1>11, RowAdded DEF Create, LogInv
      <3>2. currentLog' = Len(rows') /\ seen' = [seen EXCEPT ![t] = Len(rows')] /\ ending' = ending
        BY <1>11 DEF Create
      <3> QED
        BY <3>1, <3>2 DEF LogInv, RowsTyped
    <2>2. FilesTyped'
      BY <1>11 DEF Create, Goes, Fault, LogInv, FilesTyped, Paths, LinesTyped
    <2>3. PointsTyped'
      BY <1>11 DEF Create, Goes, Fault, LogInv, PointsTyped, LogPoints, Resting
    <2>4. LinesTyped'
      BY <1>11 DEF Create, Goes, Fault, LogInv, LinesTyped, Resting, PointsTyped
    <2>5. FlagsTyped'
      BY <1>11 DEF Create, Goes, Fault, LogInv, FlagsTyped
    <2>6. HandsFit'
      <3>1. /\ Len(rows') = Len(rows) + 1 /\ rows'[Len(rows')].state = "pending"
            /\ \A j \in 1..Len(rows) : rows'[j] = rows[j]
        BY <1>11, RowAdded DEF Create, LogInv
      <3>2. seen' = [seen EXCEPT ![t] = Len(rows')] /\ \A u \in Threads : u # t => lpc'[u] = lpc[u]
        BY <1>11 DEF Create, Goes, LogInv, PointsTyped
      <3>3. \A u \in Threads : seen[u] \in 0..Len(rows) /\ Len(rows) \in Nat
        BY DEF LogInv, RowsTyped
      <3>4. seen'[t] = Len(rows') /\ \A u \in Threads : u # t => seen'[u] = seen[u]
        BY <3>2 DEF LogInv, RowsTyped
      <3>5. lpc[t] = "create" /\ lpc'[t] = "commitNew" /\ t \in Threads
        BY <1>11 DEF Create, Goes, LogInv, PointsTyped
      <3>6. HandsFit
        BY DEF LogInv
      <3>7. /\ seen'[t] \notin 0..Len(rows) /\ seen'[t] # 0
            /\ rows'[seen'[t]].state = "pending"
        <4>1. PICK n : n = Len(rows')
          OBVIOUS
        <4>2. n = Len(rows) + 1 /\ Len(rows) \in Nat
          BY <3>1, <3>3, <4>1
        <4>3. n \notin 0..Len(rows) /\ n # 0
          BY ONLY <4>2
        <4> QED
          BY ONLY <3>1, <3>4, <4>1, <4>3
      <3>8. /\ \A u \in Threads : u # t => seen'[u] = seen[u] /\ lpc'[u] = lpc[u]
            /\ \A u \in Threads : u # t => seen'[u] # seen'[t]
        BY ONLY <3>2, <3>3, <3>4, <3>7
      <3>9. \A u \in Threads :
              (u # t /\ lpc[u] = "commitNew") => rows'[seen'[u]].state = "pending"
        <4> SUFFICES ASSUME NEW u \in Threads, u # t, lpc[u] = "commitNew"
                     PROVE  rows'[seen'[u]].state = "pending"
          OBVIOUS
        <4>1. seen'[u] = seen[u] /\ seen[u] # 0 /\ rows[seen[u]].state = "pending"
          BY <3>6, <3>8 DEF HandsFit
        <4>2. seen[u] \in 1..Len(rows)
          BY ONLY <3>3, <4>1, u \in Threads
        <4> QED
          BY ONLY <3>1, <4>1, <4>2
      <3> QED
        BY ONLY <3>5, <3>6, <3>7, <3>8, <3>9 DEF HandsFit
    <2> QED
      BY <2>1, <2>2, <2>3, <2>4, <2>5, <2>6 DEF LogInv
  <1>12. ASSUME NEW t \in Threads, CommitNew(t) PROVE LogInv'
    <2>1. RowsTyped'
      <3>1. seen[t] \in 1..Len(rows) /\ "open" \in RowStates /\ rows \in Seq(RowType)
        BY <1>12 DEF CommitNew, Goes, LogInv, HandsFit, RowsTyped, RowStates
      <3>2. rows' \in Seq(RowType) /\ Len(rows') = Len(rows)
        <4>1. PICK n : n = rows' /\ n = [rows EXCEPT ![seen[t]].state = "open"]
          BY <1>12 DEF CommitNew
        <4> QED
          BY ONLY <3>1, <4>1, OneRow
      <3> QED
        BY <1>12, <3>2 DEF CommitNew, LogInv, RowsTyped
    <2>2. FilesTyped'
      BY <1>12 DEF CommitNew, Goes, Fault, LogInv, FilesTyped, Paths, LinesTyped
    <2>3. PointsTyped'
      BY <1>12 DEF CommitNew, Goes, Fault, LogInv, PointsTyped, LogPoints, Resting
    <2>4. LinesTyped'
      BY <1>12 DEF CommitNew, Goes, Fault, LogInv, LinesTyped, Resting, PointsTyped
    <2>5. FlagsTyped'
      BY <1>12 DEF CommitNew, Goes, Fault, LogInv, FlagsTyped
    <2>6. HandsFit'
      <3>1. seen[t] \in 1..Len(rows) /\ "open" \in RowStates /\ rows \in Seq(RowType)
        BY <1>12 DEF CommitNew, Goes, LogInv, HandsFit, RowsTyped, RowStates
      <3>2. \A j \in 1..Len(rows) : j # seen[t] => rows'[j] = rows[j]
        <4>1. PICK n : n = rows' /\ n = [rows EXCEPT ![seen[t]].state = "open"]
          BY <1>12 DEF CommitNew
        <4> QED
          BY ONLY <3>1, <4>1, OneRow
      <3>3. /\ lpc[t] = "commitNew" /\ lpc'[t] = "commit" /\ seen' = seen
            /\ \A u \in Threads : u # t => lpc'[u] = lpc[u]
        BY <1>12 DEF CommitNew, Goes, LogInv, PointsTyped
      <3>4. \A u \in Threads : seen[u] \in 0..Len(rows)
        BY DEF LogInv, RowsTyped
      <3>5. HandsFit /\ t \in Threads
        BY DEF LogInv
      <3>6. \A u \in Threads : (u # t /\ lpc[u] = "commitNew") => rows'[seen[u]] = rows[seen[u]]
        <4> SUFFICES ASSUME NEW u \in Threads, u # t, lpc[u] = "commitNew"
                     PROVE  rows'[seen[u]] = rows[seen[u]]
          OBVIOUS
        <4>1. seen[u] # seen[t] /\ seen[u] # 0
          BY <3>3, <3>5 DEF HandsFit
        <4>2. seen[u] \in 1..Len(rows)
          BY ONLY <3>4, <4>1, u \in Threads
        <4> QED
          BY ONLY <3>2, <4>1, <4>2
      <3> QED
        BY ONLY <3>3, <3>5, <3>6 DEF HandsFit
    <2> QED
      BY <2>1, <2>2, <2>3, <2>4, <2>5, <2>6 DEF LogInv
  <1>13. ASSUME NEW t \in Threads, Commit(t) PROVE LogInv'
    <2>1. RowsTyped'
      <3>1. rows' \in Seq(RowType) /\ Len(rows') = Len(rows)
        BY <1>13, SetEndKeeps DEF Commit, LogInv
      <3> QED
        BY <1>13, <3>1 DEF Commit, Returns, LogInv, RowsTyped
    <2>2. FilesTyped'
      BY <1>13 DEF Commit, Returns, Goes, Fault, LogInv, FilesTyped, Paths, LinesTyped
    <2>3. PointsTyped'
      BY <1>13 DEF Commit, Returns, Goes, Fault, LogInv, PointsTyped, LogPoints, Resting
    <2>4. LinesTyped'
      BY <1>13 DEF Commit, Returns, Goes, Fault, LogInv, LinesTyped, Resting, PointsTyped
    <2>5. FlagsTyped'
      BY <1>13 DEF Commit, Returns, Goes, Fault, LogInv, FlagsTyped
    <2>6. HandsFit'
      <3>1. \A i \in 1..Len(rows) : rows[i].state = "pending" => rows'[i].state = "pending"
        BY <1>13, SetEndKeeps DEF Commit, LogInv
      <3>2. /\ \A u \in Threads : u # t => lpc'[u] = lpc[u] /\ seen'[u] = seen[u]
            /\ lpc'[t] \in {"idle", "append"}
        BY <1>13 DEF Commit, Returns, Goes, LogInv, PointsTyped, RowsTyped
      <3>3. \A u \in Threads : seen[u] \in 0..Len(rows)
        BY DEF LogInv, RowsTyped
      <3> QED
        BY <3>1, <3>2, <3>3 DEF LogInv, HandsFit
    <2> QED
      BY <2>1, <2>2, <2>3, <2>4, <2>5, <2>6 DEF LogInv
  <1>14. ASSUME NEW t \in Threads, DbFails(t) PROVE LogInv'
    <2>1. RowsTyped'
      <3> PICK from \in {"select", "endOld", "create", "commitNew", "commit"} :
                 /\ Returns(t, from, FALSE)
                 /\ rows' = IF from = "commitNew" THEN [rows EXCEPT ![seen[t]].state = "gone"]
                            ELSE rows
        BY <1>14 DEF DbFails
      <3>1. from = "commitNew" => seen[t] \in 1..Len(rows)
        BY DEF Returns, Goes, LogInv, HandsFit, RowsTyped
      <3>2. rows \in Seq(RowType) /\ "gone" \in RowStates
        BY DEF LogInv, RowsTyped, RowStates
      <3>3. rows' \in Seq(RowType) /\ Len(rows') = Len(rows)
        BY <3>1, <3>2, OneRow
      <3>4. currentLog' = currentLog
        BY <1>14 DEF DbFails
      <3> QED
        BY <3>3, <3>4 DEF Returns, LogInv, RowsTyped
    <2>2. FilesTyped'
      BY <1>14 DEF DbFails, Returns, Goes, Fault, LogInv, FilesTyped, Paths, LinesTyped
    <2>3. PointsTyped'
      BY <1>14 DEF DbFails, Returns, Goes, Fault, LogInv, PointsTyped, LogPoints, Resting
    <2>4. LinesTyped'
      BY <1>14 DEF DbFails, Returns, Goes, LogInv, LinesTyped, PointsTyped, Resting
    <2>5. FlagsTyped'
      BY <1>14 DEF DbFails, Returns, Goes, Fault, LogInv, FlagsTyped
    <2>6. HandsFit'
      <3> PICK from \in {"select", "endOld", "create", "commitNew", "commit"} :
                 /\ Returns(t, from, FALSE)
                 /\ rows' = IF from = "commitNew" THEN [rows EXCEPT ![seen[t]].state = "gone"]
                            ELSE rows
        BY <1>14 DEF DbFails
      <3>1. from = "commitNew" => seen[t] \in 1..Len(rows)
        BY DEF Returns, Goes, LogInv, HandsFit, RowsTyped
      <3>2. rows \in Seq(RowType) /\ "gone" \in RowStates
        BY DEF LogInv, RowsTyped, RowStates
      <3>3. \A j \in 1..Len(rows) : (lpc[t] # "commitNew" \/ j # seen[t]) => rows'[j] = rows[j]
        BY <3>1, <3>2, OneRow DEF Returns, Goes
      <3>4. /\ \A u \in Threads : u # t => lpc'[u] = lpc[u] /\ seen'[u] = seen[u]
            /\ lpc'[t] \in {"idle", "broken"}
        <4>1. PointsTyped /\ RowsTyped
          BY DEF LogInv
        <4> QED
          BY <4>1 DEF Returns, Goes, PointsTyped, RowsTyped
      <3>5. \A u \in Threads : seen[u] \in 0..Len(rows)
        BY DEF LogInv, RowsTyped
      <3>6. \A u \in Threads :
              lpc'[u] \in {"open", "endOld", "commitNew"} =>
                lpc'[u] = lpc[u] /\ u # t /\ seen'[u] = seen[u] /\ seen[u] \in 1..Len(rows)
        BY <3>4, <3>5 DEF LogInv, HandsFit
      <3>7. \A u \in Threads : lpc'[u] = "commitNew" => rows'[seen[u]] = rows[seen[u]]
        <4> SUFFICES ASSUME NEW u \in Threads, lpc'[u] = "commitNew"
                     PROVE  rows'[seen[u]] = rows[seen[u]]
          OBVIOUS
        <4>1. u # t /\ lpc[u] = "commitNew" /\ seen[u] \in 1..Len(rows)
          BY <3>6
        <4>2. lpc[t] # "commitNew" \/ seen[u] # seen[t]
          BY <4>1 DEF LogInv, HandsFit
        <4> QED
          BY ONLY <3>3, <4>1, <4>2
      <3>8. HandsFit
        BY DEF LogInv
      <3>9. \A u \in Threads : lpc'[u] = "commitNew" =>
              lpc[u] = "commitNew" /\ rows'[seen'[u]].state = rows[seen[u]].state
        BY <3>6, <3>7
      <3> QED
        BY ONLY <3>6, <3>8, <3>9 DEF HandsFit
    <2> QED
      BY <2>1, <2>2, <2>3, <2>4, <2>5, <2>6 DEF LogInv
  <1>15. ASSUME NEW c \in Copiers, Appends(c) PROVE LogInv'
    <2>1. RowsTyped'
      BY <1>15 DEF Appends, Goes, Fault, LogInv, RowsTyped
    <2>2. FilesTyped'
      <3>1. line[c] \in 1..MaxLines
        BY <1>15 DEF Appends, Goes, LogInv, LinesTyped, Resting
      <3>2. DOMAIN files' = DOMAIN files
        BY <1>15 DEF Appends
      <3>3. \A p \in DOMAIN files' : files'[p] \subseteq files[p] \cup {line[c]}
        BY <1>15 DEF Appends
      <3> QED
        BY <1>15, <3>1, <3>2, <3>3 DEF Appends, LogInv, FilesTyped
    <2>3. PointsTyped'
      BY <1>15 DEF Appends, Goes, Fault, LogInv, PointsTyped, LogPoints, Resting
    <2>4. LinesTyped'
      <3>1. /\ line' = [line EXCEPT ![c] = 0] /\ lpc'[c] \in {"broken", "idle"} /\ sent' = sent
            /\ \A u \in Threads : u # c => lpc'[u] = lpc[u]
        BY <1>15 DEF Appends, Goes, LogInv, PointsTyped
      <3>2. line[c] \in 1..MaxLines /\ lost' \subseteq lost \cup {line[c]}
        BY <1>15 DEF Appends, Goes, LogInv, LinesTyped, Resting
      <3>3. LinesTyped /\ c \in Threads /\ Copiers \subseteq Threads /\ MaxLines \in Nat
        BY DEF LogInv
      <3>4. line'[c] = 0 /\ \A u \in Threads : u # c => line'[u] = line[u]
        BY ONLY <3>1, <3>3 DEF LinesTyped
      <3>5. line' \in [Threads -> 0..MaxLines] /\ sent' \in 0..MaxLines
        BY ONLY <3>1, <3>3 DEF LinesTyped
      <3>6. lost' \subseteq 1..MaxLines
        BY ONLY <3>2, <3>3 DEF LinesTyped
      <3>7. \A u \in Copiers : lpc'[u] \notin Resting <=> line'[u] # 0
        BY ONLY <3>1, <3>3, <3>4 DEF LinesTyped, Resting
      <3> QED
        BY ONLY <3>5, <3>6, <3>7 DEF LinesTyped
    <2>5. FlagsTyped'
      BY <1>15 DEF Appends, Goes, Fault, LogInv, FlagsTyped
    <2>6. HandsFit'
      BY <1>15 DEF Appends, Goes, Fault, LogInv, HandsFit
    <2> QED
      BY <2>1, <2>2, <2>3, <2>4, <2>5, <2>6 DEF LogInv
  <1>16. CASE DeletesFolder
    <2>1. RowsTyped'
      BY <1>16 DEF DeletesFolder, Starts, Goes, Fault, LogInv, RowsTyped
    <2>2. FilesTyped'
      BY <1>16 DEF DeletesFolder, Starts, Goes, Fault, LogInv, FilesTyped, Paths, LinesTyped
    <2>3. PointsTyped'
      BY <1>16 DEF DeletesFolder, Starts, Goes, Fault, LogInv, PointsTyped, LogPoints, Resting
    <2>4. LinesTyped'
      BY <1>16 DEF DeletesFolder, Starts, Goes, Fault, LogInv, LinesTyped, Resting, PointsTyped
    <2>5. FlagsTyped'
      BY <1>16 DEF DeletesFolder, Starts, Goes, Fault, LogInv, FlagsTyped
    <2>6. HandsFit'
      BY <1>16 DEF DeletesFolder, Starts, Goes, Fault, LogInv, HandsFit
    <2> QED
      BY <2>1, <2>2, <2>3, <2>4, <2>5, <2>6 DEF LogInv
  <1>17. CASE RefreshFails
    <2>1. RowsTyped'
      BY <1>17 DEF RefreshFails, Starts, Goes, Fault, LogInv, RowsTyped
    <2>2. FilesTyped'
      BY <1>17 DEF RefreshFails, Starts, Goes, Fault, LogInv, FilesTyped, Paths, LinesTyped
    <2>3. PointsTyped'
      BY <1>17 DEF RefreshFails, Starts, Goes, Fault, LogInv, PointsTyped, LogPoints, Resting
    <2>4. LinesTyped'
      BY <1>17 DEF RefreshFails, Starts, Goes, Fault, LogInv, LinesTyped, Resting, PointsTyped
    <2>5. FlagsTyped'
      BY <1>17 DEF RefreshFails, Starts, Goes, Fault, LogInv, FlagsTyped
    <2>6. HandsFit'
      BY <1>17 DEF RefreshFails, Starts, Goes, Fault, LogInv, HandsFit
    <2> QED
      BY <2>1, <2>2, <2>3, <2>4, <2>5, <2>6 DEF LogInv
  <1>18. CASE Tick
    <2>1. RowsTyped'
      BY <1>18 DEF Tick, Goes, Fault, LogInv, RowsTyped
    <2>2. FilesTyped'
      BY <1>18 DEF Tick, Goes, Fault, LogInv, FilesTyped, Paths, LinesTyped
    <2>3. PointsTyped'
      BY <1>18 DEF Tick, Goes, Fault, LogInv, PointsTyped, LogPoints, Resting
    <2>4. LinesTyped'
      BY <1>18 DEF Tick, Goes, Fault, LogInv, LinesTyped, Resting, PointsTyped
    <2>5. FlagsTyped'
      BY <1>18 DEF Tick, Goes, Fault, LogInv, FlagsTyped
    <2>6. HandsFit'
      BY <1>18 DEF Tick, Goes, Fault, LogInv, HandsFit
    <2> QED
      BY <2>1, <2>2, <2>3, <2>4, <2>5, <2>6 DEF LogInv
  <1>19. CASE TellsDeleted
    <2>1. RowsTyped'
      BY <1>19 DEF TellsDeleted, Goes, Fault, LogInv, RowsTyped
    <2>2. FilesTyped'
      BY <1>19 DEF TellsDeleted, Goes, Fault, LogInv, FilesTyped, Paths, LinesTyped
    <2>3. PointsTyped'
      BY <1>19 DEF TellsDeleted, Goes, Fault, LogInv, PointsTyped, LogPoints, Resting
    <2>4. LinesTyped'
      BY <1>19 DEF TellsDeleted, Goes, Fault, LogInv, LinesTyped, Resting, PointsTyped
    <2>5. FlagsTyped'
      BY <1>19 DEF TellsDeleted, Goes, Fault, LogInv, FlagsTyped
    <2>6. HandsFit'
      BY <1>19 DEF TellsDeleted, Goes, Fault, LogInv, HandsFit
    <2> QED
      BY <2>1, <2>2, <2>3, <2>4, <2>5, <2>6 DEF LogInv
  <1>20. CASE DeletesRows
    <2>1. RowsTyped'
      <3> DEFINE all == 1..Len(rows)
      <3>1. rows' = [i \in 1..Len(rows) |->
                       IF i \in all THEN [rows[i] EXCEPT !.state = "gone"] ELSE rows[i]]
        BY <1>20 DEF DeletesRows
      <3> HIDE DEF all
      <3>2. RowsTyped
        BY DEF LogInv
      <3>3. rows' \in Seq(RowType) /\ Len(rows') = Len(rows)
        BY ONLY <3>1, <3>2, RowsMapped
      <3> QED
        BY <1>20, <3>2, <3>3 DEF DeletesRows, RowsTyped
    <2>2. FilesTyped'
      BY <1>20 DEF DeletesRows, Goes, Fault, LogInv, FilesTyped, Paths, LinesTyped
    <2>3. PointsTyped'
      BY <1>20 DEF DeletesRows, Goes, Fault, LogInv, PointsTyped, LogPoints, Resting
    <2>4. LinesTyped'
      BY <1>20 DEF DeletesRows, Goes, Fault, LogInv, LinesTyped, Resting, PointsTyped
    <2>5. FlagsTyped'
      BY <1>20 DEF DeletesRows, Goes, Fault, LogInv, FlagsTyped
    <2>6. HandsFit'
      <3>1. \A i \in 1..Len(rows) : rows[i].state # "pending"
        BY <1>20 DEF DeletesRows
      <3>2. UNCHANGED <<lpc, seen>>
        BY <1>20 DEF DeletesRows
      <3>3. \A u \in Threads : seen[u] \in 0..Len(rows)
        BY DEF LogInv, RowsTyped
      <3>4. \A u \in Threads : lpc[u] # "commitNew"
        BY <3>1, <3>3 DEF LogInv, HandsFit
      <3> QED
        BY <3>2, <3>4 DEF LogInv, HandsFit
    <2> QED
      BY <2>1, <2>2, <2>3, <2>4, <2>5, <2>6 DEF LogInv
  <1>21. CASE FileRemoved
    <2>1. RowsTyped'
      BY <1>21 DEF FileRemoved, Goes, Fault, LogInv, RowsTyped
    <2>2. FilesTyped'
      BY <1>21 DEF FileRemoved, Goes, Fault, LogInv, FilesTyped, Paths, LinesTyped
    <2>3. PointsTyped'
      BY <1>21 DEF FileRemoved, Goes, Fault, LogInv, PointsTyped, LogPoints, Resting
    <2>4. LinesTyped'
      BY <1>21 DEF FileRemoved, Goes, Fault, LogInv, LinesTyped, Resting, PointsTyped
    <2>5. FlagsTyped'
      BY <1>21 DEF FileRemoved, Goes, Fault, LogInv, FlagsTyped
    <2>6. HandsFit'
      BY <1>21 DEF FileRemoved, Goes, Fault, LogInv, HandsFit
    <2> QED
      BY <2>1, <2>2, <2>3, <2>4, <2>5, <2>6 DEF LogInv
  <1>22. CASE Crash
    <2>1. RowsTyped'
      <3> DEFINE pending == {i \in 1..Len(rows) : rows[i].state = "pending"}
      <3>1. rows' = [i \in 1..Len(rows) |->
                       IF i \in pending THEN [rows[i] EXCEPT !.state = "gone"] ELSE rows[i]]
        BY <1>22 DEF Crash
      <3> HIDE DEF pending
      <3>2. rows' \in Seq(RowType) /\ Len(rows') = Len(rows)
        <4>1. RowsTyped
          BY DEF LogInv
        <4> QED
          BY ONLY <3>1, <4>1, RowsMapped
      <3>3. Len(rows) \in Nat
        BY DEF LogInv, RowsTyped
      <3> QED
        BY <1>22, <3>2, <3>3 DEF Crash, RowsTyped
    <2>2. FilesTyped'
      BY <1>22 DEF Crash, Goes, Fault, LogInv, FilesTyped, Paths, LinesTyped
    <2>3. PointsTyped'
      BY <1>22 DEF Crash, Goes, Fault, LogInv, PointsTyped, LogPoints, Resting
    <2>4. LinesTyped'
      <3>1. \A u \in Threads : line'[u] = 0 /\ lpc'[u] \in Resting
        BY <1>22 DEF Crash, Resting
      <3>2. line' \in [Threads -> 0..MaxLines] /\ sent' = sent
        BY <1>22 DEF Crash
      <3>3. {line[c] : c \in {c \in Copiers : lpc[c] \notin Resting}} \subseteq 1..MaxLines
        BY DEF LogInv, LinesTyped
      <3> QED
        BY <1>22, <3>1, <3>2, <3>3 DEF Crash, LogInv, LinesTyped
    <2>5. FlagsTyped'
      BY <1>22 DEF Crash, Goes, Fault, LogInv, FlagsTyped
    <2>6. HandsFit'
      BY <1>22 DEF Crash, HandsFit
    <2> QED
      BY <2>1, <2>2, <2>3, <2>4, <2>5, <2>6 DEF LogInv
  <1>23. ASSUME NEW c \in Copiers, Write(c) PROVE LogInv'
    <2>1. RowsTyped'
      BY <1>23 DEF Write, Starts, Goes, Fault, LogInv, RowsTyped
    <2>2. FilesTyped'
      BY <1>23 DEF Write, Starts, Goes, Fault, LogInv, FilesTyped, Paths, LinesTyped
    <2>3. PointsTyped'
      BY <1>23 DEF Write, Starts, Goes, Fault, LogInv, PointsTyped, LogPoints, Resting
    <2>4. LinesTyped'
      BY <1>23 DEF Write, Starts, Goes, Fault, LogInv, LinesTyped, Resting, PointsTyped
    <2>5. FlagsTyped'
      BY <1>23 DEF Write, Starts, Goes, Fault, LogInv, FlagsTyped
    <2>6. HandsFit'
      BY <1>23 DEF Write, Starts, Goes, Fault, LogInv, HandsFit
    <2> QED
      BY <2>1, <2>2, <2>3, <2>4, <2>5, <2>6 DEF LogInv
  <1>24. ASSUME NEW c \in Copiers, NewChild(c) PROVE LogInv'
    <2>1. RowsTyped'
      BY <1>24 DEF NewChild, Goes, Fault, LogInv, RowsTyped
    <2>2. FilesTyped'
      BY <1>24 DEF NewChild, Goes, Fault, LogInv, FilesTyped, Paths, LinesTyped
    <2>3. PointsTyped'
      BY <1>24 DEF NewChild, Goes, Fault, LogInv, PointsTyped, LogPoints, Resting
    <2>4. LinesTyped'
      BY <1>24 DEF NewChild, Goes, Fault, LogInv, LinesTyped, Resting, PointsTyped
    <2>5. FlagsTyped'
      BY <1>24 DEF NewChild, Goes, Fault, LogInv, FlagsTyped
    <2>6. HandsFit'
      BY <1>24 DEF NewChild, Goes, Fault, LogInv, HandsFit
    <2> QED
      BY <2>1, <2>2, <2>3, <2>4, <2>5, <2>6 DEF LogInv
  <1>25. CASE UNCHANGED logVars
    BY <1>25 DEF logVars, LogInv, RowsTyped, FilesTyped, PointsTyped, LinesTyped, FlagsTyped, HandsFit
  <1> QED
    BY <1>1, <1>2, <1>3, <1>4, <1>5, <1>6, <1>7, <1>8, <1>9, <1>10, <1>11, <1>12, <1>13, <1>14, <1>15, <1>16, <1>17, <1>18, <1>19, <1>20, <1>21, <1>22, <1>23, <1>24, <1>25
       DEF LogNext, WorkLogs, LogWorld, CopierWrites, Retrieve

-----------------------------------------------------------------------------
(* One user at a time: nothing overlapped, nothing failed, nobody deletes.  *)

Quiet == overlaps = 0 /\ faults = 0 /\ deleting = "no"

\* The rows are in the order of their starts, which are their paths; each has its file.
Ordered ==
  /\ \A i \in 1..Len(rows) : rows[i].path = rows[i].start /\ rows[i].start <= now
  /\ \A i, j \in 1..Len(rows) : i < j => rows[i].start < rows[j].start
  /\ \A p : p \in DOMAIN files <=> \E i \in 1..Len(rows) : p = rows[i].path

\* Only old rows are ended, and only the last one can be on its way to be committed.
Settled ==
  \A i \in 1..Len(rows) :
    /\ rows[i].state = "ended" => IsOld(i)
    /\ \/ rows[i].state \in {"open", "ended"}
       \/ rows[i].state = "pending" /\ i = Len(rows) /\ \E t \in Threads : lpc[t] = "commitNew"

\* Every row but the last is ended, or about to be.
AllEnded ==
  \A i \in 1..Len(rows) : i < Len(rows) => rows[i].state = "ended" \/ Locked(i)

OneUser == \A t, u \in Threads : t # u => lpc[t] \in Resting \/ lpc[u] \in Resting

\* The open file is that of the newest log, which is not ended.
WriterFits == writer # -1 => /\ rows # <<>> /\ writer = rows[Len(rows)].path
                             /\ rows[Len(rows)].state # "ended" /\ currentLog # 0

\* What a thread relies on at each of its points.
UserFits(t) ==
  /\ lpc[t] \notin {"remove", "return", "lastEnd", "done"}
  /\ lpc[t] \in {"end", "select", "endOld", "open", "new", "create"} => writer = -1
  /\ lpc[t] \in {"commitNew", "commit", "append"} => writer # -1
  /\ lpc[t] = "end" /\ currentLog # 0 => IsOld(currentLog)
  /\ lpc[t] = "endOld" => seen[t] = Len(rows) /\ IsOld(seen[t])
  /\ lpc[t] = "open" => seen[t] = Len(rows) /\ rows[Len(rows)].state = "open"
  /\ lpc[t] \in {"new", "create"} /\ rows # <<>> =>
       /\ IsOld(Len(rows))
       /\ rows[Len(rows)].state = "ended" \/ ending[t] = Len(rows)
  /\ ending[t] # 0 => IsOld(ending[t]) /\ lpc[t] \in {"new", "create", "commitNew", "commit"}
  /\ lpc[t] \in {"commitNew", "commit"} => ending[t] # Len(rows)
  /\ lpc[t] = "commitNew" => seen[t] = Len(rows)

Alone == /\ Ordered /\ Settled /\ AllEnded /\ OneUser /\ WriterFits
         /\ \A t \in Threads : UserFits(t)

\* Where the lines are that were printed.
Kept == \A n \in 1..sent : n \in Stored \/ \E c \in Copiers : line[c] = n

QuietInv == Quiet => Alone /\ Kept

-----------------------------------------------------------------------------

\* The numbers that the arguments below compare.
LEMMA RowNumbers ==
  ASSUME LogInv
  PROVE  /\ now \in Nat /\ Span \in Nat /\ Len(rows) \in Nat
         /\ \A i \in 1..Len(rows) : rows[i] \in RowType /\ rows[i].start \in Nat
  <1>1. \A i \in 1..Len(rows) : rows[i] \in RowType
    BY DEF LogInv, RowsTyped
  <1>2. \A i \in 1..Len(rows) : rows[i].start \in Nat
    BY ONLY <1>1, ProcLogAssumption DEF RowType, Paths, ProcLogAssumption
  <1>3. now \in Nat /\ Span \in Nat /\ Len(rows) \in Nat
    BY ProcLogAssumption DEF LogInv, RowsTyped, FilesTyped, Paths, ProcLogAssumption
  <1> QED
    BY ONLY <1>1, <1>2, <1>3

\* When a use of the logger begins and no overlap is counted, the other threads rest.
LEMMA StartsAlone ==
  ASSUME LogInv, Quiet, Quiet', NEW t \in Threads, NEW to, Starts(t, to)
  PROVE  /\ lpc[t] = "idle" /\ lpc' = [lpc EXCEPT ![t] = to]
         /\ \A u \in Threads \ {t} : lpc[u] \in Resting
  <1>1. MaxOverlaps > 0
    BY ProcLogAssumption DEF ProcLogAssumption
  <1> QED
    BY <1>1 DEF Quiet, Starts, Goes

\* While a thread is at work the others rest, and hold no row.
LEMMA OthersRest ==
  ASSUME Alone, NEW t \in Threads, lpc[t] \notin Resting
  PROVE  \A u \in Threads \ {t} : lpc[u] \in {"idle", "broken"} /\ ending[u] = 0
  <1>1. \A u \in Threads \ {t} : lpc[u] \in Resting
    BY DEF Alone, OneUser
  <1>2. \A u \in Threads : UserFits(u)
    BY DEF Alone
  <1> QED
    BY <1>1, <1>2 DEF UserFits, Resting

\* Without a thread that is about to commit a new row all rows are committed.
LEMMA AllCommitted ==
  ASSUME LogInv, Alone, \A t \in Threads : lpc[t] # "commitNew"
  PROVE  /\ \A i \in 1..Len(rows) : rows[i].state \in {"open", "ended"}
         /\ Newest = Len(rows)
  <1>1. \A i \in 1..Len(rows) : rows[i].state \in {"open", "ended"}
    BY DEF Alone, Settled
  <1>2. Committed = 1..Len(rows) /\ Len(rows) \in Nat
    BY <1>1, RowNumbers DEF Committed
  <1>3. RowsTyped
    BY DEF LogInv
  <1> QED
    BY <1>1, <1>2, <1>3, NewestIsLast

\* What is ended or locked stays so while no lock is given up.
LEMMA SameEnds ==
  ASSUME LogInv, Alone, UNCHANGED rows, \A t \in Threads : ending[t] # 0 => ending'[t] = ending[t]
  PROVE  AllEnded'
  <1>1. AllEnded
    BY DEF Alone
  <1>2. \A i \in 1..Len(rows) : Locked(i) => Locked(i)'
    BY DEF Locked
  <1> QED
    BY <1>1, <1>2 DEF AllEnded

\* A thread that rests asks for nothing.
LEMMA UsersFit ==
  ASSUME NEW t \in Threads, UserFits(t)',
         \A u \in Threads \ {t} : lpc'[u] \in {"idle", "broken"} /\ ending'[u] = 0
  PROVE  OneUser' /\ (\A u \in Threads : UserFits(u))'
  <1>1. ASSUME NEW u \in Threads, u # t PROVE UserFits(u)'
    <2>1. lpc'[u] \in {"idle", "broken"} /\ ending'[u] = 0
      BY <1>1
    <2> QED
      BY <2>1 DEF UserFits
  <1>2. OneUser'
    BY DEF OneUser, Resting
  <1> QED
    BY <1>1, <1>2

\* Rows, files and clock as before, and no insertion under way.
LEMMA SameRows ==
  ASSUME LogInv, Alone, UNCHANGED <<rows, now>>, DOMAIN files' = DOMAIN files,
         \A t \in Threads : lpc[t] # "commitNew"
  PROVE  Ordered' /\ Settled'
  <1>1. Ordered'
    BY DEF Alone, Ordered
  <1>2. Settled'
    BY AllCommitted DEF Alone, Settled, IsOld
  <1> QED
    BY <1>1, <1>2

\* cycle without a log looks for one.
LEMMA QuietCycleRetrieves ==
  ASSUME LogInv, Quiet, Quiet', Alone, CycleRetrieves
  PROVE  Alone'
  <1>0. Work \in Threads /\ UserFits(Work)
    BY DEF Threads, Alone
  <1>1. PICK to : Starts(Work, to) /\ to = "select"
    BY DEF CycleRetrieves
  <1>2. /\ lpc[Work] = "idle" /\ lpc' = [lpc EXCEPT ![Work] = to]
        /\ \A u \in Threads \ {Work} : lpc[u] \in Resting
    BY <1>0, <1>1, StartsAlone
  <1>3. UNCHANGED <<rows, files, now, seen, ending, currentLog>>
    BY DEF CycleRetrieves
  <1>4. \A u \in Threads \ {Work} : lpc'[u] \in {"idle", "broken"} /\ ending'[u] = 0
    BY <1>2, <1>3 DEF Alone, UserFits, Resting, LogInv, PointsTyped
  <1>5. lpc'[Work] = to
    BY <1>0, <1>2 DEF LogInv, PointsTyped
  <1>6. Ordered' /\ Settled'
    BY <1>2, <1>3, SameRows DEF Resting
  <1>7. WriterFits'
    BY <1>3 DEF Alone, WriterFits, CycleRetrieves
  <1>8. UserFits(Work)'
    BY <1>0, <1>1, <1>2, <1>3, <1>5 DEF Alone, WriterFits, UserFits, CycleRetrieves
  <1>20. AllEnded'
    BY <1>3, SameEnds
  <1> QED
    BY <1>0, <1>4, <1>6, <1>7, <1>8, <1>20, UsersFit DEF Alone

\* cycle closes the file of a log that is old.
LEMMA QuietCycleFinishes ==
  ASSUME LogInv, Quiet, Quiet', Alone, CycleFinishes
  PROVE  Alone'
  <1>0. Work \in Threads /\ UserFits(Work)
    BY DEF Threads, Alone
  <1>1. PICK to : Starts(Work, to) /\ to = IF writer = -1 THEN "select" ELSE "end"
    BY DEF CycleFinishes
  <1>2. /\ lpc[Work] = "idle" /\ lpc' = [lpc EXCEPT ![Work] = to]
        /\ \A u \in Threads \ {Work} : lpc[u] \in Resting
    BY <1>0, <1>1, StartsAlone
  <1>3. UNCHANGED <<rows, files, now, seen, ending, currentLog>>
    BY DEF CycleFinishes
  <1>4. \A u \in Threads \ {Work} : lpc'[u] \in {"idle", "broken"} /\ ending'[u] = 0
    BY <1>2, <1>3 DEF Alone, UserFits, Resting, LogInv, PointsTyped
  <1>5. lpc'[Work] = to
    BY <1>0, <1>2 DEF LogInv, PointsTyped
  <1>6. Ordered' /\ Settled'
    BY <1>2, <1>3, SameRows DEF Resting
  <1>7. WriterFits'
    BY <1>3 DEF WriterFits, CycleFinishes
  <1>8. UserFits(Work)'
    BY <1>0, <1>1, <1>2, <1>3, <1>5 DEF UserFits, CycleFinishes, ShouldBeClosed, IsOld
  <1>20. AllEnded'
    BY <1>3, SameEnds
  <1> QED
    BY <1>0, <1>4, <1>6, <1>7, <1>8, <1>20, UsersFit DEF Alone

\* A copier begins to write.
LEMMA QuietWrite ==
  ASSUME LogInv, Quiet, Quiet', Alone, NEW c \in Copiers, Write(c)
  PROVE  Alone'
  <1>0. c \in Threads /\ UserFits(c)
    BY DEF Threads, Alone
  <1>1. PICK to : Starts(c, to) /\ to = IF writer = -1 THEN "select" ELSE "append"
    BY DEF Write
  <1>2. /\ lpc[c] = "idle" /\ lpc' = [lpc EXCEPT ![c] = to]
        /\ \A u \in Threads \ {c} : lpc[u] \in Resting
    BY <1>0, <1>1, StartsAlone
  <1>3. UNCHANGED <<rows, files, now, seen, ending, currentLog>>
    BY DEF Write
  <1>4. \A u \in Threads \ {c} : lpc'[u] \in {"idle", "broken"} /\ ending'[u] = 0
    BY <1>2, <1>3 DEF Alone, UserFits, Resting, LogInv, PointsTyped
  <1>5. lpc'[c] = to
    BY <1>0, <1>2 DEF LogInv, PointsTyped
  <1>6. Ordered' /\ Settled'
    BY <1>2, <1>3, SameRows DEF Resting
  <1>7. WriterFits'
    BY <1>3 DEF Alone, WriterFits, Write
  <1>8. UserFits(c)'
    BY <1>0, <1>1, <1>2, <1>3, <1>5 DEF UserFits, Write
  <1>20. AllEnded'
    BY <1>3, SameEnds
  <1> QED
    BY <1>0, <1>4, <1>6, <1>7, <1>8, <1>20, UsersFit DEF Alone

\* FinishLog ends the row of a log that is old.
LEMMA QuietFinishes ==
  ASSUME LogInv, Quiet, Quiet', Alone, Finishes
  PROVE  Alone'
  <1>0. Work \in Threads /\ UserFits(Work) /\ WriterFits
    BY DEF Threads, Alone
  <1>1. /\ lpc[Work] = "end" /\ \A u \in Threads : u # Work => lpc'[u] = lpc[u]
    BY DEF Finishes, Goes, EndsCurrent, Returns, LogInv, PointsTyped
  <1>2. \A u \in Threads \ {Work} : lpc[u] \in {"idle", "broken"} /\ ending[u] = 0
    BY <1>0, <1>1, OthersRest DEF Resting
  <1>3. /\ UNCHANGED <<files, now, writer, currentLog, seen, ending>>
        /\ \/ rows' = rows /\ lpc'[Work] = "idle"
           \/ rows' = SetEnd(currentLog) /\ currentLog # 0 /\ lpc'[Work] = "select"
    <2>1. ~Fault
      BY DEF Fault, Quiet
    <2>2. UNCHANGED <<files, now, writer, currentLog, seen, ending>>
      BY DEF Finishes, EndsCurrent
    <2>3. lpc \in [Threads -> LogPoints]
      BY DEF LogInv, PointsTyped
    <2> QED
      BY <1>0, <2>1, <2>2, <2>3 DEF Finishes, EndsCurrent, Goes
  <1>4. \A u \in Threads \ {Work} : lpc'[u] \in {"idle", "broken"} /\ ending'[u] = 0
    BY <1>1, <1>2, <1>3
  <1>5. writer = -1 /\ (currentLog # 0 => IsOld(currentLog)) /\ ending[Work] = 0
    BY <1>0, <1>1 DEF UserFits
  <1>9. /\ Len(rows') = Len(rows)
        /\ \A i \in 1..Len(rows) :
             /\ rows'[i].path = rows[i].path /\ rows'[i].start = rows[i].start
             /\ \/ rows'[i].state = rows[i].state
                \/ rows'[i].state = "ended" /\ i = currentLog /\ currentLog # 0
    BY <1>3, SetEndKeeps DEF LogInv
  <1>6. Ordered' /\ Settled'
    <2>1. Ordered'
      BY <1>3, <1>9 DEF Alone, Ordered
    <2>2. \A i \in 1..Len(rows) : rows[i].state \in {"open", "ended"}
      BY <1>1, <1>2, AllCommitted
    <2>3. \A i \in 1..Len(rows) : rows[i].state = "ended" => rows[i].start < now - Span
      BY DEF Alone, Settled, IsOld
    <2>4. \A i \in 1..Len(rows) : rows'[i].state = "ended" => rows[i].start < now - Span
      BY <1>5, <1>9, <2>3 DEF IsOld
    <2>5. \A i \in 1..Len(rows) : rows'[i].state \in {"open", "ended"}
      BY <1>9, <2>2
    <2> QED
      BY <1>3, <1>9, <2>1, <2>4, <2>5 DEF Settled, IsOld
  <1>7. WriterFits'
    BY <1>3, <1>5 DEF WriterFits
  <1>8. UserFits(Work)'
    BY <1>3, <1>5 DEF UserFits
  <1>20. AllEnded'
    <2>1. AllEnded /\ \A i \in 1..Len(rows) : Locked(i) => Locked(i)'
      BY <1>3 DEF Alone, Locked
    <2>2. \A i \in 1..Len(rows) : rows[i].state = "ended" => rows'[i].state = "ended"
      BY <1>9
    <2> QED
      BY <1>9, <2>1, <2>2 DEF AllEnded
  <1> QED
    BY <1>0, <1>4, <1>6, <1>7, <1>8, <1>20, UsersFit DEF Alone

\* retrieveCurrentLog looks at the newest log.
LEMMA QuietSelect ==
  ASSUME LogInv, Quiet, Quiet', Alone, NEW t \in Threads, Select(t)
  PROVE  Alone'
  <1>0. t \in Threads /\ UserFits(t) /\ WriterFits
    BY DEF Threads, Alone
  <1>1. /\ lpc[t] = "select" /\ \A u \in Threads : u # t => lpc'[u] = lpc[u]
    BY DEF Select, Goes, EndsCurrent, Returns, LogInv, PointsTyped
  <1>2. \A u \in Threads \ {t} : lpc[u] \in {"idle", "broken"} /\ ending[u] = 0
    BY <1>0, <1>1, OthersRest DEF Resting
  <1>3. UNCHANGED <<rows, files, now>>
    BY DEF Select
  <1>4. \A u \in Threads \ {t} : lpc'[u] \in {"idle", "broken"} /\ ending'[u] = 0
    BY <1>1, <1>2 DEF Select, LogInv, RowsTyped
  <1>6. Ordered' /\ Settled'
    BY <1>1, <1>2, <1>3, SameRows
  <1>5. writer = -1 /\ writer' = -1 /\ ending[t] = 0 /\ ending' = ending
    BY <1>0, <1>1 DEF UserFits, Select
  <1>7. WriterFits'
    BY <1>5 DEF WriterFits
  <1>8. UserFits(t)'
    <2>1. /\ Newest = Len(rows) /\ Len(rows) \in Nat
          /\ \A i \in 1..Len(rows) : rows[i].state \in {"open", "ended"}
      BY <1>1, <1>2, AllCommitted, RowNumbers
    <2>2. Newest # 0 /\ rows[Newest].state # "open" => IsOld(Newest)
      BY <2>1 DEF Alone, Settled
    <2>3. lpc'[t] = IF Newest = 0 THEN "new"
                    ELSE IF IsOld(Newest)
                         THEN IF rows[Newest].state = "open" THEN "endOld" ELSE "new"
                         ELSE "open"
      BY DEF Select, Goes, LogInv, PointsTyped
    <2>4. seen'[t] = Newest
      BY DEF Select, LogInv, RowsTyped
    <2>5. rows # <<>> => Newest # 0
      BY <2>1 DEF LogInv, RowsTyped
    <2>6. lpc'[t] \in {"new", "endOld", "open"} /\ rows' = rows /\ now' = now
      BY <1>3, <2>3
    <2>7. lpc'[t] = "endOld" => IsOld(Len(rows))
      BY <2>1, <2>3
    <2>8. lpc'[t] = "open" => rows[Len(rows)].state = "open"
      BY <2>1, <2>2, <2>3
    <2>9. lpc'[t] = "new" /\ rows # <<>> => IsOld(Len(rows)) /\ rows[Len(rows)].state # "open"
      BY <2>1, <2>2, <2>3, <2>5
    <2>10. rows # <<>> => rows[Len(rows)].state \in {"open", "ended"}
      BY <2>1, <2>5
    <2> QED
      BY <1>5, <2>1, <2>4, <2>6, <2>7, <2>8, <2>9, <2>10 DEF UserFits, IsOld
  <1>20. AllEnded'
    BY <1>3, <1>5, SameEnds
  <1> QED
    BY <1>0, <1>4, <1>6, <1>7, <1>8, <1>20, UsersFit DEF Alone

\* The outer transaction ends the newest log, which is old.
LEMMA QuietEndOld ==
  ASSUME LogInv, Quiet, Quiet', Alone, NEW t \in Threads, EndOld(t)
  PROVE  Alone'
  <1>0. t \in Threads /\ UserFits(t) /\ WriterFits
    BY DEF Threads, Alone
  <1>1. /\ lpc[t] = "endOld" /\ \A u \in Threads : u # t => lpc'[u] = lpc[u]
    BY DEF EndOld, Goes, EndsCurrent, Returns, LogInv, PointsTyped
  <1>2. \A u \in Threads \ {t} : lpc[u] \in {"idle", "broken"} /\ ending[u] = 0
    BY <1>0, <1>1, OthersRest DEF Resting
  <1>3. UNCHANGED <<rows, files, now>>
    BY DEF EndOld
  <1>4. \A u \in Threads \ {t} : lpc'[u] \in {"idle", "broken"} /\ ending'[u] = 0
    BY <1>1, <1>2 DEF EndOld, LogInv, RowsTyped
  <1>6. Ordered' /\ Settled'
    BY <1>1, <1>2, <1>3, SameRows
  <1>5. /\ writer = -1 /\ writer' = -1 /\ ending' = [ending EXCEPT ![t] = seen[t]]
        /\ seen[t] = Len(rows) /\ IsOld(Len(rows)) /\ lpc'[t] = "new"
    BY <1>0, <1>1 DEF UserFits, EndOld, Goes, LogInv, PointsTyped
  <1>7. WriterFits'
    BY <1>5 DEF WriterFits
  <1>8. UserFits(t)'
    BY <1>3, <1>5 DEF UserFits, IsOld, LogInv, RowsTyped
  <1>20. AllEnded'
    <2>1. ending[t] = 0 /\ ending' = [ending EXCEPT ![t] = seen[t]]
      BY <1>0, <1>1, <1>5 DEF UserFits
    <2>2. \A u \in Threads : ending[u] # 0 => ending'[u] = ending[u]
      BY <2>1 DEF LogInv, RowsTyped
    <2> QED
      BY <1>3, <2>2, SameEnds
  <1> QED
    BY <1>0, <1>4, <1>6, <1>7, <1>8, <1>20, UsersFit DEF Alone

\* The file of the newest log is opened, for every row has its file.
LEMMA QuietOpen ==
  ASSUME LogInv, Quiet, Quiet', Alone, NEW t \in Threads, Open(t)
  PROVE  Alone'
  <1>0. t \in Threads /\ UserFits(t) /\ WriterFits
    BY DEF Threads, Alone
  <1>1. /\ lpc[t] = "open" /\ \A u \in Threads : u # t => lpc'[u] = lpc[u]
    BY DEF Open, Goes, EndsCurrent, Returns, LogInv, PointsTyped
  <1>2. \A u \in Threads \ {t} : lpc[u] \in {"idle", "broken"} /\ ending[u] = 0
    BY <1>0, <1>1, OthersRest DEF Resting
  <1>3. UNCHANGED <<rows, files, now>>
    BY DEF Open
  <1>4. \A u \in Threads \ {t} : lpc'[u] \in {"idle", "broken"} /\ ending'[u] = 0
    BY <1>1, <1>2 DEF Open, LogInv, RowsTyped
  <1>6. Ordered' /\ Settled'
    BY <1>1, <1>2, <1>3, SameRows
  <1>5. /\ seen[t] = Len(rows) /\ rows[Len(rows)].state = "open" /\ ending[t] = 0
        /\ seen[t] \in 1..Len(rows)
    BY <1>0, <1>1 DEF UserFits, LogInv, RowsTyped, HandsFit
  <1>9. rows[Len(rows)].path \in DOMAIN files
    BY <1>5 DEF Alone, Ordered
  <1>10. /\ lpc'[t] = "commit" /\ writer' = rows[Len(rows)].path /\ ending' = ending
         /\ currentLog' = Len(rows) /\ writer' # -1
    BY <1>5, <1>9 DEF Open, Goes, LogInv, PointsTyped, FilesTyped, Paths
  <1>7. WriterFits'
    BY <1>3, <1>5, <1>10 DEF WriterFits
  <1>8. UserFits(t)'
    BY <1>3, <1>5, <1>10 DEF UserFits
  <1>20. AllEnded'
    BY <1>3, <1>10, SameEnds
  <1> QED
    BY <1>0, <1>4, <1>6, <1>7, <1>8, <1>20, UsersFit DEF Alone

\* closeFile before a new log.
LEMMA QuietNew ==
  ASSUME LogInv, Quiet, Quiet', Alone, NEW t \in Threads, New(t)
  PROVE  Alone'
  <1>0. t \in Threads /\ UserFits(t) /\ WriterFits
    BY DEF Threads, Alone
  <1>1. /\ lpc[t] = "new" /\ \A u \in Threads : u # t => lpc'[u] = lpc[u]
    BY DEF New, Goes, EndsCurrent, Returns, LogInv, PointsTyped
  <1>2. \A u \in Threads \ {t} : lpc[u] \in {"idle", "broken"} /\ ending[u] = 0
    BY <1>0, <1>1, OthersRest DEF Resting
  <1>3. UNCHANGED <<rows, files, now>>
    BY DEF New
  <1>4. \A u \in Threads \ {t} : lpc'[u] \in {"idle", "broken"} /\ ending'[u] = 0
    BY <1>1, <1>2 DEF New, LogInv, RowsTyped
  <1>6. Ordered' /\ Settled'
    BY <1>1, <1>2, <1>3, SameRows
  <1>5. writer' = -1 /\ lpc'[t] = "create" /\ ending' = ending
    BY DEF New, Goes, LogInv, PointsTyped
  <1>7. WriterFits'
    BY <1>5 DEF WriterFits
  <1>8. UserFits(t)'
    BY <1>0, <1>1, <1>3, <1>5 DEF UserFits, IsOld
  <1>20. AllEnded'
    BY <1>3, <1>5, SameEnds
  <1> QED
    BY <1>0, <1>4, <1>6, <1>7, <1>8, <1>20, UsersFit DEF Alone

\* The new log starts after all others, in a file of its own.
LEMMA QuietCreate ==
  ASSUME LogInv, Quiet, Quiet', Alone, NEW t \in Threads, Create(t)
  PROVE  Alone'
  <1>0. t \in Threads /\ UserFits(t) /\ WriterFits
    BY DEF Threads, Alone
  <1>1. /\ lpc[t] = "create" /\ \A u \in Threads : u # t => lpc'[u] = lpc[u]
    BY DEF Create, Goes, EndsCurrent, Returns, LogInv, PointsTyped
  <1>2. \A u \in Threads \ {t} : lpc[u] \in {"idle", "broken"} /\ ending[u] = 0
    BY <1>0, <1>1, OthersRest DEF Resting
  <1>3. /\ rows' = Append(rows, [path |-> now, start |-> now, state |-> "pending"])
        /\ currentLog' = Len(rows') /\ seen' = [seen EXCEPT ![t] = Len(rows')]
        /\ \A p : p \in DOMAIN files' <=> p \in DOMAIN files \/ p = now
        /\ writer' = now /\ UNCHANGED <<now, ending>> /\ lpc'[t] = "commitNew"
    BY DEF Create, Goes, LogInv, PointsTyped
  <1>4. \A u \in Threads \ {t} : lpc'[u] \in {"idle", "broken"} /\ ending'[u] = 0
    BY <1>1, <1>2, <1>3
  <1>5. /\ Len(rows') = Len(rows) + 1 /\ Len(rows) \in Nat /\ \A j \in 1..Len(rows) : rows'[j] = rows[j]
        /\ rows'[Len(rows')].path = now /\ rows'[Len(rows')].start = now
        /\ rows'[Len(rows')].state = "pending" /\ rows' # <<>>
    BY <1>3, RowAdded, RowNumbers DEF LogInv
  <1>9. now \in Nat /\ Span \in Nat /\ \A j \in 1..Len(rows) : rows[j].start \in Nat
    BY RowNumbers
  <1>10. \A j \in 1..Len(rows) : rows[j].start < now
    <2>1. ASSUME NEW j \in 1..Len(rows) PROVE rows[j].start < now
      <3>1. rows # <<>> /\ Len(rows) \in 1..Len(rows)
        BY <1>5
      <3>2. rows[Len(rows)].start < now - Span
        BY <1>0, <1>1, <3>1 DEF UserFits, IsOld
      <3>3. j = Len(rows) \/ rows[j].start < rows[Len(rows)].start
        BY <1>5, <3>1 DEF Alone, Ordered
      <3> QED
        BY <1>9, <3>1, <3>2, <3>3
    <2> QED
      BY <2>1
  <1>6. Ordered' /\ Settled'
    <2>1. \A i \in 1..Len(rows') : i \in 1..Len(rows) \/ i = Len(rows')
      BY <1>5
    <2>2. \A i \in 1..Len(rows') : rows'[i].path = rows'[i].start /\ rows'[i].start <= now'
      BY <1>3, <1>5, <1>9, <2>1 DEF Alone, Ordered
    <2>3. \A i, j \in 1..Len(rows') : i < j => rows'[i].start < rows'[j].start
      <3>1. ASSUME NEW i \in 1..Len(rows'), NEW j \in 1..Len(rows'), i < j
            PROVE  rows'[i].start < rows'[j].start
        <4>1. i \in 1..Len(rows)
          BY <1>5, <3>1
        <4>2. CASE j \in 1..Len(rows)
          BY <1>5, <3>1, <4>1, <4>2 DEF Alone, Ordered
        <4>3. CASE j = Len(rows')
          BY <1>5, <1>10, <4>1, <4>3
        <4> QED
          BY <2>1, <4>2, <4>3
      <3> QED
        BY <3>1
    <2>4. \A p : p \in DOMAIN files' <=> \E i \in 1..Len(rows') : p = rows'[i].path
      <3>1. ASSUME NEW p PROVE p \in DOMAIN files' <=> \E i \in 1..Len(rows') : p = rows'[i].path
        <4>1. p \in DOMAIN files <=> \E i \in 1..Len(rows) : p = rows[i].path
          BY DEF Alone, Ordered
        <4>2. (\E i \in 1..Len(rows') : p = rows'[i].path)
                <=> (p = now \/ \E i \in 1..Len(rows) : p = rows[i].path)
          BY <1>5
        <4> QED
          BY <1>3, <4>1, <4>2
      <3> QED
        BY <3>1
    <2>5. Ordered'
      BY <2>2, <2>3, <2>4 DEF Ordered
    <2>6. \A i \in 1..Len(rows) : rows[i].state \in {"open", "ended"}
      BY <1>1, <1>2, AllCommitted
    <2>7. \A i \in 1..Len(rows) : rows[i].state = "ended" => rows[i].start < now - Span
      BY DEF Alone, Settled, IsOld
    <2>8. Settled'
      BY <1>3, <1>5, <2>1, <2>6, <2>7 DEF Settled, IsOld
    <2> QED
      BY <2>5, <2>8
  <1>7. WriterFits'
    BY <1>3, <1>5 DEF WriterFits
  <1>8. UserFits(t)'
    <2>1. ending[t] \in 0..Len(rows) /\ (ending[t] # 0 => IsOld(ending[t]))
      BY <1>0 DEF UserFits, LogInv, RowsTyped
    <2>2. ending'[t] = ending[t] /\ ending'[t] # Len(rows') /\ seen'[t] = Len(rows')
      BY <1>3, <1>5, <2>1 DEF LogInv, RowsTyped
    <2>3. ending'[t] # 0 => rows'[ending'[t]].start < now' - Span
      BY <1>3, <1>5, <2>1, <2>2 DEF IsOld
    <2>4. writer' # -1
      BY <1>3, <1>9
    <2> QED
      BY <1>3, <2>2, <2>3, <2>4 DEF UserFits, IsOld
  <1>20. AllEnded'
    <2>1. AllEnded /\ \A i \in 1..Len(rows) : Locked(i) => Locked(i)'
      BY <1>3 DEF Alone, Locked
    <2>2. rows # <<>> => rows[Len(rows)].state = "ended" \/ ending[t] = Len(rows)
      BY <1>0, <1>1 DEF UserFits
    <2>3. ASSUME NEW i \in 1..Len(rows'), i < Len(rows')
          PROVE  rows'[i].state = "ended" \/ Locked(i)'
      <3>1. i \in 1..Len(rows) /\ rows'[i] = rows[i] /\ rows # <<>>
        BY <1>5, <2>3
      <3>2. CASE i < Len(rows)
        BY <2>1, <3>1, <3>2 DEF AllEnded
      <3>3. CASE i = Len(rows)
        BY <1>0, <1>3, <2>2, <3>1, <3>3 DEF Locked
      <3> QED
        BY <1>5, <3>1, <3>2, <3>3
    <2> QED
      BY <2>3 DEF AllEnded
  <1> QED
    BY <1>0, <1>4, <1>6, <1>7, <1>8, <1>20, UsersFit DEF Alone

\* The new row is committed.
LEMMA QuietCommitNew ==
  ASSUME LogInv, Quiet, Quiet', Alone, NEW t \in Threads, CommitNew(t)
  PROVE  Alone'
  <1>0. t \in Threads /\ UserFits(t) /\ WriterFits
    BY DEF Threads, Alone
  <1>1. /\ lpc[t] = "commitNew" /\ \A u \in Threads : u # t => lpc'[u] = lpc[u]
    BY DEF CommitNew, Goes, EndsCurrent, Returns, LogInv, PointsTyped
  <1>2. \A u \in Threads \ {t} : lpc[u] \in {"idle", "broken"} /\ ending[u] = 0
    BY <1>0, <1>1, OthersRest DEF Resting
  <1>3. /\ UNCHANGED <<files, now, writer, currentLog, seen, ending>> /\ lpc'[t] = "commit"
    BY DEF CommitNew, Goes, LogInv, PointsTyped
  <1>4. \A u \in Threads \ {t} : lpc'[u] \in {"idle", "broken"} /\ ending'[u] = 0
    BY <1>1, <1>2, <1>3
  <1>5. seen[t] = Len(rows) /\ seen[t] \in 1..Len(rows) /\ Len(rows) \in Nat
    BY <1>0, <1>1 DEF UserFits, LogInv, HandsFit, RowsTyped
  <1>9. /\ Len(rows') = Len(rows) /\ rows'[Len(rows)].state = "open"
        /\ \A i \in 1..Len(rows) : /\ rows'[i].path = rows[i].path /\ rows'[i].start = rows[i].start
                                   /\ i # Len(rows) => rows'[i].state = rows[i].state
    <2>1. rows \in Seq(RowType) /\ "open" \in RowStates
      BY DEF LogInv, RowsTyped, RowStates
    <2>2. rows' = [rows EXCEPT ![seen[t]].state = "open"]
      BY DEF CommitNew
    <2> QED
      BY <1>5, <2>1, <2>2, OneRow
  <1>6. Ordered' /\ Settled'
    <2>1. Ordered'
      BY <1>3, <1>9 DEF Alone, Ordered
    <2>2. \A i \in 1..Len(rows) : rows[i].state = "ended" => rows[i].start < now - Span
      BY DEF Alone, Settled, IsOld
    <2>3. \A i \in 1..Len(rows) : rows'[i].state \in {"open", "ended"}
      BY <1>5, <1>9 DEF Alone, Settled
    <2>4. \A i \in 1..Len(rows) : rows'[i].state = "ended" => rows[i].start < now - Span
      BY <1>9, <2>2
    <2> QED
      BY <1>3, <1>9, <2>1, <2>3, <2>4 DEF Settled, IsOld
  <1>7. WriterFits'
    BY <1>0, <1>3, <1>5, <1>9 DEF WriterFits
  <1>8. UserFits(t)'
    <2>1. ending[t] \in 0..Len(rows) /\ (ending[t] # 0 => IsOld(ending[t]))
      BY <1>0 DEF UserFits, LogInv, RowsTyped
    <2>2. ending'[t] # 0 => rows'[ending'[t]].start < now' - Span
      BY <1>3, <1>9, <2>1 DEF IsOld
    <2>3. writer # -1 /\ ending[t] # Len(rows)
      BY <1>0, <1>1 DEF UserFits
    <2> QED
      BY <1>3, <1>9, <2>2, <2>3 DEF UserFits, IsOld
  <1>20. AllEnded'
    <2>1. AllEnded /\ \A i \in 1..Len(rows) : Locked(i) => Locked(i)'
      BY <1>3 DEF Alone, Locked
    <2>2. \A i \in 1..Len(rows) : i < Len(rows) => rows'[i].state = rows[i].state
      BY <1>5, <1>9
    <2> QED
      BY <1>9, <2>1, <2>2 DEF AllEnded
  <1> QED
    BY <1>0, <1>4, <1>6, <1>7, <1>8, <1>20, UsersFit DEF Alone

\* The outer transaction commits that the old log has ended.
LEMMA QuietCommit ==
  ASSUME LogInv, Quiet, Quiet', Alone, NEW t \in Threads, Commit(t)
  PROVE  Alone'
  <1>0. t \in Threads /\ UserFits(t) /\ WriterFits
    BY DEF Threads, Alone
  <1>1. /\ lpc[t] = "commit" /\ \A u \in Threads : u # t => lpc'[u] = lpc[u]
    BY DEF Commit, Goes, EndsCurrent, Returns, LogInv, PointsTyped
  <1>2. \A u \in Threads \ {t} : lpc[u] \in {"idle", "broken"} /\ ending[u] = 0
    BY <1>0, <1>1, OthersRest DEF Resting
  <1>3. /\ UNCHANGED <<files, now, writer, currentLog>> /\ ending'[t] = 0
        /\ lpc'[t] = IF t = Work THEN "idle" ELSE "append"
        /\ rows' = SetEnd(ending[t])
    BY DEF Commit, Returns, Goes, LogInv, PointsTyped, RowsTyped
  <1>4. \A u \in Threads \ {t} : lpc'[u] \in {"idle", "broken"} /\ ending'[u] = 0
    BY <1>1, <1>2 DEF Commit, Returns, LogInv, RowsTyped
  <1>5. (ending[t] # 0 => IsOld(ending[t])) /\ ending[t] # Len(rows) /\ writer # -1
    BY <1>0, <1>1 DEF UserFits
  <1>9. /\ Len(rows') = Len(rows)
        /\ \A i \in 1..Len(rows) :
             /\ rows'[i].path = rows[i].path /\ rows'[i].start = rows[i].start
             /\ rows'[i].state = IF i = ending[t] /\ rows[i].state = "open" THEN "ended"
                                 ELSE rows[i].state
    BY <1>3, SetEndKeeps DEF LogInv
  <1>10. \A i \in 1..Len(rows) : rows[i].state \in {"open", "ended"}
    BY <1>1, <1>2, AllCommitted
  <1>6. Ordered' /\ Settled'
    <2>1. Ordered'
      BY <1>3, <1>9 DEF Alone, Ordered
    <2>2. \A i \in 1..Len(rows) : rows[i].state = "ended" => rows[i].start < now - Span
      BY DEF Alone, Settled, IsOld
    <2>3. \A i \in 1..Len(rows) : rows'[i].state \in {"open", "ended"}
      BY <1>9, <1>10
    <2>4. \A i \in 1..Len(rows) : rows'[i].state = "ended" => rows[i].start < now - Span
      BY <1>5, <1>9, <2>2 DEF IsOld
    <2> QED
      BY <1>3, <1>9, <2>1, <2>3, <2>4 DEF Settled, IsOld
  <1>7. WriterFits'
    <2>1. Len(rows) \in Nat /\ (rows # <<>> => Len(rows) \in 1..Len(rows)) /\ (rows' = <<>> => rows = <<>>)
      BY <1>9, RowNumbers DEF LogInv, RowsTyped
    <2>2. rows # <<>> => rows'[Len(rows)].state = rows[Len(rows)].state /\ rows'[Len(rows)].path = rows[Len(rows)].path
      BY <1>5, <1>9, <2>1
    <2> QED
      BY <1>0, <1>3, <1>9, <2>1, <2>2 DEF WriterFits
  <1>8. UserFits(t)'
    BY <1>3, <1>5 DEF UserFits
  <1>20. AllEnded'
    <2>1. AllEnded
      BY DEF Alone
    <2>2. ending' = [ending EXCEPT ![t] = 0]
      BY DEF Commit, Returns
    <2>3. \A i \in 1..Len(rows) : i # ending[t] /\ Locked(i) => Locked(i)'
      BY <2>2 DEF Locked, LogInv, RowsTyped
    <2>4. \A i \in 1..Len(rows) : i = ending[t] => rows'[i].state = "ended"
      BY <1>9, <1>10
    <2>5. \A i \in 1..Len(rows) : rows[i].state = "ended" => rows'[i].state = "ended"
      BY <1>9
    <2> QED
      BY <1>9, <2>1, <2>3, <2>4, <2>5 DEF AllEnded
  <1> QED
    BY <1>0, <1>4, <1>6, <1>7, <1>8, <1>20, UsersFit DEF Alone

\* FileWriter.Write, to a file that is open.
LEMMA QuietAppends ==
  ASSUME LogInv, Quiet, Quiet', Alone, NEW c \in Copiers, Appends(c)
  PROVE  Alone'
  <1>0. c \in Threads /\ UserFits(c) /\ WriterFits
    BY DEF Threads, Alone
  <1>1. /\ lpc[c] = "append" /\ \A u \in Threads : u # c => lpc'[u] = lpc[u]
    BY DEF Appends, Goes, EndsCurrent, Returns, LogInv, PointsTyped
  <1>2. \A u \in Threads \ {c} : lpc[u] \in {"idle", "broken"} /\ ending[u] = 0
    BY <1>0, <1>1, OthersRest DEF Resting
  <1>3. UNCHANGED <<rows, now>> /\ DOMAIN files' = DOMAIN files
    BY DEF Appends
  <1>4. \A u \in Threads \ {c} : lpc'[u] \in {"idle", "broken"} /\ ending'[u] = 0
    BY <1>1, <1>2 DEF Appends
  <1>6. Ordered' /\ Settled'
    BY <1>1, <1>2, <1>3, SameRows
  <1>5. /\ writer # -1 /\ writer' = writer /\ currentLog' = currentLog
        /\ ending[c] = 0 /\ ending' = ending
    BY <1>0, <1>1 DEF UserFits, Appends
  <1>9. lpc'[c] = "idle"
    BY <1>0, <1>1, <1>5 DEF Appends, Goes, LogInv, PointsTyped
  <1>7. WriterFits'
    BY <1>0, <1>3, <1>5 DEF WriterFits
  <1>8. UserFits(c)'
    BY <1>5, <1>9 DEF UserFits
  <1>20. AllEnded'
    BY <1>3, <1>5, SameEnds
  <1> QED
    BY <1>0, <1>4, <1>6, <1>7, <1>8, <1>20, UsersFit DEF Alone

\* Time passes.
LEMMA QuietTick ==
  ASSUME LogInv, Alone, Tick
  PROVE  Alone'
  <1>1. /\ UNCHANGED <<rows, files, writer, currentLog, lpc, seen, ending>> /\ now' = now + 1
    BY DEF Tick
  <1>2. now \in Nat /\ Span \in Nat /\ \A i \in 1..Len(rows) : rows[i].start \in Nat
    BY RowNumbers
  <1>3. \A i \in 1..Len(rows) : IsOld(i) => rows[i].start < now' - Span
    BY <1>1, <1>2 DEF IsOld
  <1>4. Ordered'
    BY <1>1, <1>2 DEF Alone, Ordered
  <1>5. Settled'
    BY <1>1, <1>3 DEF Alone, Settled, IsOld
  <1>6. OneUser' /\ WriterFits'
    BY <1>1 DEF Alone, OneUser, WriterFits
  <1>7. ASSUME NEW t \in Threads PROVE UserFits(t)'
    <2>1. UserFits(t)
      BY DEF Alone
    <2>2. \A i \in 1..Len(rows) : IsOld(i) => IsOld(i)'
      BY <1>1, <1>3 DEF IsOld
    <2>3. /\ currentLog \in 0..Len(rows) /\ seen[t] \in 0..Len(rows) /\ ending[t] \in 0..Len(rows)
          /\ Len(rows) \in Nat /\ (rows # <<>> => Len(rows) \in 1..Len(rows))
          /\ lpc[t] = "endOld" => seen[t] # 0
      BY DEF LogInv, RowsTyped, HandsFit
    <2> QED
      BY <1>1, <1>3, <2>1, <2>3 DEF UserFits, IsOld
  <1>8. AllEnded'
    BY <1>1, SameEnds
  <1> QED
    BY <1>4, <1>5, <1>6, <1>7, <1>8 DEF Alone

\* Another child's output has a copier again.
LEMMA QuietNewChild ==
  ASSUME LogInv, Alone, NEW c \in Copiers, NewChild(c)
  PROVE  Alone'
  <1>1. /\ UNCHANGED <<rows, files, writer, currentLog, now, seen, ending>> /\ c \in Threads
        /\ lpc[c] = "broken" /\ lpc'[c] = "idle" /\ \A u \in Threads : u # c => lpc'[u] = lpc[u]
    BY DEF NewChild, Goes, LogInv, PointsTyped, Threads
  <1>2. \A u \in Threads : lpc[u] = "commitNew" => lpc'[u] = "commitNew"
    BY <1>1
  <1>3. Ordered' /\ Settled'
    BY <1>1, <1>2 DEF Alone, Ordered, Settled, IsOld
  <1>4. OneUser' /\ WriterFits'
    BY <1>1 DEF Alone, OneUser, WriterFits, Resting
  <1>5. ASSUME NEW t \in Threads PROVE UserFits(t)'
    <2>1. UserFits(t)
      BY DEF Alone
    <2> QED
      BY <1>1, <2>1 DEF UserFits, IsOld
  <1>6. AllEnded'
    BY <1>1, SameEnds
  <1> QED
    BY <1>3, <1>4, <1>5, <1>6 DEF Alone

\* A step that reaches a quiet state, or one where only the deletion is told, begins in a
\* quiet state.
LEMMA CountsGrow ==
  ASSUME LogInv, LogNext
  PROVE  /\ overlaps' >= overlaps /\ faults' >= faults /\ (late => late')
         /\ deleting # "no" => deleting' # "no" \/ faults' > faults
  <1> DEFINE Grown == /\ overlaps' >= overlaps /\ faults' >= faults /\ (late => late')
                      /\ deleting # "no" => deleting' # "no" \/ faults' > faults
  <1> SUFFICES Grown
    OBVIOUS
  <1>0. overlaps \in Int /\ faults \in Int
    BY ProcLogAssumption DEF LogInv, FlagsTyped, ProcLogAssumption
  <1>1. CASE CycleRetrieves
    BY <1>0, <1>1 DEF CycleRetrieves, Starts, Fault
  <1>2. CASE CycleFinishes
    BY <1>0, <1>2 DEF CycleFinishes, Starts, Fault
  <1>3. CASE Finishes
    BY <1>0, <1>3 DEF Finishes, EndsCurrent, Fault
  <1>4. CASE LastEnds
    BY <1>0, <1>4 DEF LastEnds, EndsCurrent, Fault
  <1>5. CASE RemovesFolder
    BY <1>0, <1>5 DEF RemovesFolder, Fault
  <1>6. CASE WorkReturns
    BY <1>0, <1>6 DEF WorkReturns, Fault
  <1>7. ASSUME NEW t \in Threads, Select(t) PROVE Grown
    BY <1>0, <1>7 DEF Select, Fault
  <1>8. ASSUME NEW t \in Threads, EndOld(t) PROVE Grown
    BY <1>0, <1>8 DEF EndOld, Fault
  <1>9. ASSUME NEW t \in Threads, Open(t) PROVE Grown
    BY <1>0, <1>9 DEF Open, Fault
  <1>10. ASSUME NEW t \in Threads, New(t) PROVE Grown
    BY <1>0, <1>10 DEF New, Fault
  <1>11. ASSUME NEW t \in Threads, Create(t) PROVE Grown
    BY <1>0, <1>11 DEF Create, Fault
  <1>12. ASSUME NEW t \in Threads, CommitNew(t) PROVE Grown
    BY <1>0, <1>12 DEF CommitNew, Fault
  <1>13. ASSUME NEW t \in Threads, Commit(t) PROVE Grown
    BY <1>0, <1>13 DEF Commit, Returns, Fault
  <1>14. ASSUME NEW t \in Threads, DbFails(t) PROVE Grown
    BY <1>0, <1>14 DEF DbFails, Returns, Fault
  <1>15. ASSUME NEW c \in Copiers, Appends(c) PROVE Grown
    BY <1>0, <1>15 DEF Appends, Fault
  <1>16. CASE DeletesFolder
    BY <1>0, <1>16 DEF DeletesFolder, Starts, Fault
  <1>17. CASE RefreshFails
    BY <1>0, <1>17 DEF RefreshFails, Starts, Fault
  <1>18. CASE Tick
    BY <1>0, <1>18 DEF Tick, Fault
  <1>19. CASE TellsDeleted
    <2>1. late => late'
      BY <1>19, Zenon DEF TellsDeleted
    <2>2. overlaps' >= overlaps /\ faults' >= faults /\ (deleting # "no" => deleting' # "no")
      BY <1>0, <1>19 DEF TellsDeleted
    <2> QED
      BY <2>1, <2>2
  <1>20. CASE DeletesRows
    BY <1>0, <1>20 DEF DeletesRows, Fault
  <1>21. CASE FileRemoved
    BY <1>0, <1>21 DEF FileRemoved, Fault
  <1>22. CASE Crash
    BY <1>0, <1>22 DEF Crash, Fault
  <1>23. ASSUME NEW c \in Copiers, Write(c) PROVE Grown
    <2>1. late => late'
      BY <1>23, Zenon DEF Write, Starts
    <2>2. overlaps' >= overlaps /\ faults' >= faults /\ (deleting # "no" => deleting' # "no")
      BY <1>0, <1>23 DEF Write, Starts
    <2> QED
      BY <2>1, <2>2
  <1>24. ASSUME NEW c \in Copiers, NewChild(c) PROVE Grown
    BY <1>0, <1>24 DEF NewChild, Fault
  <1> QED
    BY <1>1, <1>2, <1>3, <1>4, <1>5, <1>6, <1>7, <1>8, <1>9, <1>10, <1>11, <1>12, <1>13, <1>14, <1>15, <1>16, <1>17, <1>18, <1>19, <1>20, <1>21, <1>22, <1>23, <1>24
       DEF LogNext, WorkLogs, LogWorld, CopierWrites, Retrieve, Threads

\* Nothing is quiet after it was not.
LEMMA QuietBefore == ASSUME LogInv, LogNext, Quiet' PROVE Quiet
  BY CountsGrow, ProcLogAssumption DEF Quiet, LogInv, FlagsTyped, ProcLogAssumption

\* It is DeleteProcess that begins a deletion.
LEMMA DeletingBegins ==
  ASSUME LogInv, LogNext, deleting = "no", deleting' # "no"
  PROVE  TellsDeleted
  <1> SUFFICES ASSUME ~TellsDeleted PROVE deleting' = deleting
    OBVIOUS
  <1>1. CASE CycleRetrieves
    BY <1>1 DEF CycleRetrieves, Starts
  <1>2. CASE CycleFinishes
    BY <1>2 DEF CycleFinishes, Starts
  <1>3. CASE Finishes
    BY <1>3 DEF Finishes, EndsCurrent
  <1>4. CASE LastEnds
    BY <1>4 DEF LastEnds, EndsCurrent
  <1>5. CASE RemovesFolder
    BY <1>5 DEF RemovesFolder
  <1>6. CASE WorkReturns
    BY <1>6 DEF WorkReturns
  <1>7. ASSUME NEW t \in Threads, Select(t) PROVE deleting' = deleting
    BY <1>7 DEF Select
  <1>8. ASSUME NEW t \in Threads, EndOld(t) PROVE deleting' = deleting
    BY <1>8 DEF EndOld
  <1>9. ASSUME NEW t \in Threads, Open(t) PROVE deleting' = deleting
    BY <1>9 DEF Open
  <1>10. ASSUME NEW t \in Threads, New(t) PROVE deleting' = deleting
    BY <1>10 DEF New
  <1>11. ASSUME NEW t \in Threads, Create(t) PROVE deleting' = deleting
    BY <1>11 DEF Create
  <1>12. ASSUME NEW t \in Threads, CommitNew(t) PROVE deleting' = deleting
    BY <1>12 DEF CommitNew
  <1>13. ASSUME NEW t \in Threads, Commit(t) PROVE deleting' = deleting
    BY <1>13 DEF Commit, Returns
  <1>14. ASSUME NEW t \in Threads, DbFails(t) PROVE deleting' = deleting
    BY <1>14 DEF DbFails, Returns
  <1>15. ASSUME NEW c \in Copiers, Appends(c) PROVE deleting' = deleting
    BY <1>15 DEF Appends
  <1>16. CASE DeletesFolder
    BY <1>16 DEF DeletesFolder, Starts
  <1>17. CASE RefreshFails
    BY <1>17 DEF RefreshFails, Starts
  <1>18. CASE Tick
    BY <1>18 DEF Tick
  <1>19. CASE TellsDeleted
    BY <1>19 DEF TellsDeleted
  <1>20. CASE DeletesRows
    BY <1>20 DEF DeletesRows
  <1>21. CASE FileRemoved
    BY <1>21 DEF FileRemoved
  <1>22. CASE Crash
    BY <1>22 DEF Crash
  <1>23. ASSUME NEW c \in Copiers, Write(c) PROVE deleting' = deleting
    BY <1>23 DEF Write, Starts
  <1>24. ASSUME NEW c \in Copiers, NewChild(c) PROVE deleting' = deleting
    BY <1>24 DEF NewChild
  <1> QED
    BY <1>1, <1>2, <1>3, <1>4, <1>5, <1>6, <1>7, <1>8, <1>9, <1>10, <1>11, <1>12, <1>13, <1>14, <1>15, <1>16, <1>17, <1>18, <1>19, <1>20, <1>21, <1>22, <1>23, <1>24
       DEF LogNext, WorkLogs, LogWorld, CopierWrites, Retrieve, Threads

\* What a quiet step can be.
LEMMA QuietSteps ==
  ASSUME LogInv, Alone, LogNext, Quiet'
  PROVE  \/ CycleRetrieves \/ CycleFinishes \/ Finishes \/ Tick
         \/ \E t \in Threads : Select(t) \/ EndOld(t) \/ Open(t) \/ New(t) \/ Create(t)
                                 \/ CommitNew(t) \/ Commit(t)
         \/ \E c \in Copiers : Appends(c) \/ Write(c) \/ NewChild(c)
  <1>1. Quiet /\ ~Fault
    BY QuietBefore DEF Fault, Quiet
  <1>2. lpc[Work] \notin {"remove", "return", "lastEnd", "done"}
    BY DEF Alone, UserFits, Threads
  <1>3. ~DeletesFolder /\ ~RefreshFails /\ ~TellsDeleted /\ ~DeletesRows /\ ~FileRemoved /\ ~Crash
    BY <1>1 DEF Quiet, DeletesFolder, RefreshFails, TellsDeleted, DeletesRows, FileRemoved, Crash
  <1>4. ~RemovesFolder /\ ~WorkReturns /\ ~LastEnds
    BY <1>1, <1>2 DEF RemovesFolder, WorkReturns, LastEnds, EndsCurrent, Goes
  <1>5. \A t \in Threads : ~DbFails(t)
    BY <1>1 DEF DbFails, Quiet
  <1>6. Work \in Threads /\ \A c \in Copiers : c \in Threads
    BY DEF Threads
  <1> QED
    BY <1>3, <1>4, <1>5, <1>6 DEF LogNext, WorkLogs, LogWorld, CopierWrites, Retrieve

\* One user stays the only one.
LEMMA AloneStays ==
  ASSUME LogInv, Alone, LogNext, Quiet'
  PROVE  Alone'
  <1>1. Quiet
    BY QuietBefore
  <1> QED
    BY <1>1, QuietSteps, QuietCycleRetrieves, QuietCycleFinishes, QuietFinishes, QuietTick,
       QuietSelect, QuietEndOld, QuietOpen, QuietNew, QuietCreate, QuietCommitNew, QuietCommit,
       QuietAppends, QuietWrite, QuietNewChild

\* A line that is stored stays stored, and one that a copier holds is held or stored.
LEMMA LinesMove ==
  ASSUME Kept, Stored \subseteq Stored',
         \A c \in Copiers : line[c] \in Stored' \/ line'[c] = line[c] \/ line[c] = 0,
         \A n \in 1..sent' : n \in 1..sent \/ \E c \in Copiers : line'[c] = n
  PROVE  Kept'
  <1> SUFFICES ASSUME NEW n \in 1..sent'
               PROVE  n \in Stored' \/ \E c \in Copiers : line'[c] = n
    BY DEF Kept
  <1>1. CASE n \notin 1..sent
    BY <1>1
  <1>2. CASE n \in Stored
    BY <1>2
  <1>3. CASE n \in 1..sent /\ n \notin Stored
    <2>1. PICK c \in Copiers : line[c] = n
      BY <1>3 DEF Kept
    <2>2. line[c] # 0
      BY <1>3, <2>1
    <2> QED
      BY <2>1, <2>2
  <1> QED
    BY <1>1, <1>2, <1>3

\* A new log gets a path that no file has.
LEMMA CreatesAnew ==
  ASSUME LogInv, Alone, NEW t \in Threads, Create(t)
  PROVE  now \notin DOMAIN files
  <1>1. lpc[t] = "create"
    BY DEF Create, Goes
  <1>2. rows # <<>> => IsOld(Len(rows))
    BY <1>1 DEF Alone, UserFits
  <1>3. /\ now \in Nat /\ Span \in Nat /\ Len(rows) \in Nat
        /\ \A i \in 1..Len(rows) : rows[i].start \in Nat
    BY RowNumbers
  <1>4. ASSUME NEW i \in 1..Len(rows) PROVE now # rows[i].path
    <2>1. rows # <<>> /\ Len(rows) \in 1..Len(rows)
      BY <1>3 DEF LogInv, RowsTyped
    <2>2. rows[Len(rows)].start < now - Span
      BY <1>2, <2>1 DEF IsOld
    <2>3. i = Len(rows) \/ rows[i].start < rows[Len(rows)].start
      BY <1>3, <2>1 DEF Alone, Ordered
    <2>4. now # rows[i].start
      BY ONLY <1>3, <2>1, <2>2, <2>3, i \in 1..Len(rows)
    <2> QED
      BY <2>4 DEF Alone, Ordered
  <1> QED
    BY <1>4 DEF Alone, Ordered

\* What is appended goes to the file of the newest row.
LEMMA AppendsToNewest ==
  ASSUME LogInv, Alone, NEW c \in Copiers, Appends(c)
  PROVE  /\ writer \in DOMAIN files /\ Len(rows) \in 1..Len(rows)
         /\ writer = rows[Len(rows)].path /\ rows[Len(rows)].state # "ended"
  <1>1. lpc[c] = "append" /\ c \in Threads
    BY DEF Appends, Goes, Threads
  <1>2. writer # -1
    BY <1>1 DEF Alone, UserFits
  <1>3. rows # <<>> /\ writer = rows[Len(rows)].path /\ rows[Len(rows)].state # "ended"
    BY <1>2 DEF Alone, WriterFits
  <1>4. Len(rows) \in 1..Len(rows)
    BY <1>3 DEF LogInv, RowsTyped
  <1> QED
    BY <1>3, <1>4 DEF Alone, Ordered

\* No line gets lost while the logger has one user.
LEMMA KeptStays ==
  ASSUME LogInv, Alone, Kept, LogNext, Quiet'
  PROVE  Kept'
  <1>1. Quiet
    BY QuietBefore
  <1>2. ASSUME UNCHANGED <<files, line, sent>> PROVE Kept'
    BY <1>2 DEF Kept, Stored
  <1>3. CASE CycleRetrieves \/ CycleFinishes \/ Finishes \/ Tick
    BY <1>2, <1>3 DEF CycleRetrieves, CycleFinishes, Finishes, EndsCurrent, Tick
  <1>4. ASSUME NEW t \in Threads, Select(t) \/ EndOld(t) \/ Open(t) \/ New(t) \/ CommitNew(t)
        PROVE  Kept'
    BY <1>2, <1>4 DEF Select, EndOld, Open, New, CommitNew
  <1>5. ASSUME NEW t \in Threads, Commit(t) PROVE Kept'
    BY <1>2, <1>5 DEF Commit, Returns
  <1>6. ASSUME NEW c \in Copiers, NewChild(c) PROVE Kept'
    BY <1>2, <1>6 DEF NewChild
  <1>7. ASSUME NEW t \in Threads, Create(t) PROVE Kept'
    <2>1. now \notin DOMAIN files
      BY <1>1, <1>7, CreatesAnew
    <2>2. /\ \A p \in DOMAIN files : p \in DOMAIN files' /\ files'[p] = files[p]
          /\ UNCHANGED <<line, sent>>
      BY <1>7, <2>1 DEF Create
    <2>3. Stored \subseteq Stored'
      BY <2>2 DEF Stored
    <2> QED
      BY <2>2, <2>3, LinesMove
  <1>8. ASSUME NEW c \in Copiers, Appends(c) PROVE Kept'
    <2>1. writer \in DOMAIN files
      BY <1>8, AppendsToNewest
    <2>2. /\ files' = [files EXCEPT ![writer] = @ \cup {line[c]}]
          /\ line' = [line EXCEPT ![c] = 0] /\ sent' = sent
      BY <1>8, <2>1 DEF Appends
    <2>3. Stored \subseteq Stored' /\ line[c] \in Stored'
      BY <2>1, <2>2 DEF Stored
    <2>4. \A d \in Copiers : d # c => line'[d] = line[d]
      BY <2>2 DEF LogInv, LinesTyped, Threads
    <2> QED
      BY <2>2, <2>3, <2>4, LinesMove
  <1>9. ASSUME NEW c \in Copiers, Write(c) PROVE Kept'
    <2>1. line[c] = 0
      BY <1>9 DEF Write, Starts, Goes, LogInv, LinesTyped, Resting
    <2>2. /\ files' = files /\ sent' = sent + 1 /\ line' = [line EXCEPT ![c] = sent + 1]
      BY <1>9 DEF Write
    <2>3. Stored' = Stored
      BY <2>2 DEF Stored
    <2>4. line'[c] = sent + 1 /\ \A d \in Copiers : d # c => line'[d] = line[d]
      BY <2>2 DEF LogInv, LinesTyped, Threads
    <2>5. sent \in Nat
      BY ProcLogAssumption DEF LogInv, LinesTyped, ProcLogAssumption
    <2>6. \A n \in 1..sent' : n \in 1..sent \/ n = sent + 1
      BY <2>2, <2>5
    <2> QED
      BY <2>1, <2>3, <2>4, <2>6, LinesMove
  <1> QED
    BY <1>3, <1>4, <1>5, <1>6, <1>7, <1>8, <1>9, QuietSteps

\* The initial states.
LEMMA LogInvInit == LogInit => LogInv /\ QuietInv
  <1> SUFFICES ASSUME LogInit PROVE LogInv /\ QuietInv
    OBVIOUS
  <1> USE ProcLogAssumption DEF ProcLogAssumption, LogInit
  <1>1. RowsTyped /\ HandsFit
    BY DEF RowsTyped, HandsFit
  <1>2. FilesTyped
    BY DEF FilesTyped, Paths
  <1>3. FlagsTyped
    <2>1. /\ deleting \in {"no", "told", "gone"} /\ faults \in 0..MaxFaults
          /\ overlaps \in 0..MaxOverlaps
      OBVIOUS
    <2>2. late \in BOOLEAN
      BY Zenon
    <2> QED
      BY ONLY <2>1, <2>2 DEF FlagsTyped
  <1>8. PointsTyped
    BY DEF PointsTyped, LogPoints, Resting, Threads
  <1>7. LinesTyped
    BY DEF LinesTyped, Resting, Threads
  <1>4. Ordered /\ Settled /\ AllEnded
    BY DEF Ordered, Settled, AllEnded
  <1>5. OneUser /\ WriterFits /\ \A t \in Threads : UserFits(t)
    BY DEF OneUser, WriterFits, UserFits, Resting
  <1>6. Kept
    BY DEF Kept
  <1> QED
    BY <1>1, <1>2, <1>3, <1>4, <1>5, <1>6, <1>7, <1>8 DEF LogInv, QuietInv, Alone

\* Both invariants are kept by every step.
LEMMA QuietStays == LogInv /\ QuietInv /\ [LogNext]_logVars => LogInv' /\ QuietInv'
  <1> SUFFICES ASSUME LogInv, QuietInv, [LogNext]_logVars PROVE LogInv' /\ QuietInv'
    OBVIOUS
  <1>1. LogInv'
    BY LogInvStep
  <1>2. CASE UNCHANGED logVars
    <2>1. UNCHANGED <<rows, files, writer, currentLog, now, lpc, seen, ending, line, sent,
                      deleting, faults, overlaps>>
      BY <1>2 DEF logVars
    <2>2. (Quiet' <=> Quiet) /\ (Kept => Kept')
      BY <2>1 DEF Quiet, Kept, Stored
    <2>3. Alone => Ordered' /\ Settled' /\ AllEnded' /\ OneUser' /\ WriterFits'
      BY <2>1 DEF Alone, Ordered, Settled, AllEnded, Locked, OneUser, WriterFits, IsOld
    <2>4. Alone => (\A t \in Threads : UserFits(t))'
      BY <2>1 DEF Alone, UserFits, IsOld
    <2> QED
      BY <1>1, <2>2, <2>3, <2>4 DEF QuietInv, Alone
  <1>3. CASE LogNext
    BY <1>1, <1>3, QuietBefore, AloneStays, KeptStays DEF QuietInv
  <1> QED
    BY <1>2, <1>3

\* The invariants hold in every state.
LEMMA LoggerSound == LogSpec => [](LogInv /\ QuietInv)
  BY LogInvInit, QuietStays, PTL DEF LogSpec

-----------------------------------------------------------------------------
(* The theorems.                                                            *)

\* Every variable of the logger keeps its type: no thread commits a row that is not
\* pending (newLog).
THEOREM LogIsTyped == LogSpec => []LogTypeOK
  <1>1. LogInv /\ QuietInv => LogTypeOK
    BY LogInvTypes
  <1> QED
    BY <1>1, LoggerSound, PTL

\* Write loses no line while the uses of the logger follow one another, however often the
\* log is rotated between them.
THEOREM NoLineLost == LogSpec => []LinesAreKept
  <1>1. LogInv /\ QuietInv => LinesAreKept
    BY DEF QuietInv, Quiet, Kept, LinesAreKept
  <1> QED
    BY <1>1, LoggerSound, PTL

\* Under the same condition newLog never takes a path again.
THEOREM OneFilePerLog == LogSpec => []PathsDiffer
  <1>1. LogInv /\ QuietInv => PathsDiffer
    <2> SUFFICES ASSUME LogInv, Alone, NEW i \in Committed, NEW j \in Committed,
                        rows[i].path = rows[j].path
                 PROVE  i = j
      BY DEF QuietInv, Quiet, PathsDiffer
    <2>1. i \in 1..Len(rows) /\ j \in 1..Len(rows)
      BY DEF Committed
    <2>2. rows[i].start \in Nat /\ rows[j].start \in Nat /\ i \in Nat /\ j \in Nat
      BY <2>1, RowNumbers
    <2>3. rows[i].start = rows[j].start
      BY <2>1 DEF Alone, Ordered
    <2>4. ~(i < j) /\ ~(j < i)
      BY <2>1, <2>2, <2>3 DEF Alone, Ordered
    <2> QED
      BY <2>2, <2>4
  <1> QED
    BY <1>1, LoggerSound, PTL

\* Under the same condition no row stays open that nobody will end: RowsAreEnded where its
\* bound is 0.
THEOREM NoRowLeftOpen ==
  LogSpec => [](overlaps = 0 /\ faults = 0 /\ deleting = "no" => Leaked = {})
  <1>1. LogInv /\ QuietInv => (overlaps = 0 /\ faults = 0 /\ deleting = "no" => Leaked = {})
    <2> SUFFICES ASSUME LogInv, Alone, NEW i \in Committed, rows[i].state = "open", i # Newest,
                        ~Locked(i)
                 PROVE  FALSE
      BY DEF QuietInv, Quiet, Leaked
    <2>1. i \in 1..Len(rows) /\ Len(rows) \in Nat
      BY RowNumbers DEF Committed
    <2>2. i = Len(rows)
      BY <2>1 DEF Alone, AllEnded
    <2>3. Newest # 0 /\ Newest \in 1..Len(rows) /\ i <= Newest
      BY NewestIsLast DEF LogInv, Committed
    <2> QED
      BY <2>1, <2>2, <2>3
  <1> QED
    BY <1>1, LoggerSound, PTL

\* Under the same condition the file of a log that FinishLog has ended stays as it is.
THEOREM EndedLogsAreLeft == LogSpec => EndedLogsStay
  <1> DEFINE Left == \A i \in Committed :
         rows[i].state = "ended" /\ rows[i].path \in DOMAIN files
         /\ lpc[Work] # "done" /\ overlaps' = 0 /\ faults' = 0 /\ deleting = "no" =>
           files'[rows[i].path] = files[rows[i].path]
  <1>1. LogInv /\ QuietInv /\ [LogNext]_logVars => [Left]_logVars
    <2> SUFFICES ASSUME LogInv, QuietInv, LogNext, NEW i \in Committed,
                        rows[i].state = "ended", rows[i].path \in DOMAIN files,
                        overlaps' = 0, faults' = 0, deleting = "no"
                 PROVE  files'[rows[i].path] = files[rows[i].path]
      OBVIOUS
    <2>1. Quiet
      BY CountsGrow, ProcLogAssumption DEF Quiet, LogInv, FlagsTyped, ProcLogAssumption
    <2>2. Alone /\ i \in 1..Len(rows)
      BY <2>1 DEF QuietInv, Committed
    <2>3. CASE deleting' = "no"
      <3>1. Quiet'
        BY <2>3 DEF Quiet
      <3>2. ASSUME NEW t \in Threads, Create(t) PROVE files'[rows[i].path] = files[rows[i].path]
        <4>1. now \notin DOMAIN files
          BY <2>2, <3>2, CreatesAnew
        <4> QED
          BY <3>2, <4>1 DEF Create
      <3>3. ASSUME NEW c \in Copiers, Appends(c) PROVE files'[rows[i].path] = files[rows[i].path]
        <4>1. /\ Len(rows) \in 1..Len(rows) /\ writer = rows[Len(rows)].path
              /\ rows[Len(rows)].state # "ended"
          BY <2>2, <3>3, AppendsToNewest
        <4>2. i # Len(rows) /\ i < Len(rows)
          BY <2>2, <4>1
        <4>3. rows[i].start < rows[Len(rows)].start
          BY <2>2, <4>1, <4>2 DEF Alone, Ordered
        <4>4. rows[i].path # writer
          BY <2>2, <4>1, <4>3, RowNumbers DEF Alone, Ordered
        <4> QED
          BY <3>3, <4>4 DEF Appends
      <3>4. files' = files \/ (\E t \in Threads : Create(t)) \/ \E c \in Copiers : Appends(c)
        BY <2>2, <3>1, QuietSteps
           DEF CycleRetrieves, CycleFinishes, Finishes, EndsCurrent, Tick, Select, EndOld, Open,
               New, CommitNew, Commit, Write, NewChild
      <3> QED
        BY <3>2, <3>3, <3>4
    <2>4. CASE deleting' # "no"
      <3>1. TellsDeleted
        BY <2>1, <2>2, <2>4, DeletingBegins
      <3> QED
        BY <3>1 DEF TellsDeleted
    <2> QED
      BY <2>3, <2>4
  <1> QED
    BY <1>1, LoggerSound, PTL DEF LogSpec, EndedLogsStay

-----------------------------------------------------------------------------
(* Deletion.                                                                *)

\* While nothing fails and nothing comes late: once Deleted is sent no copier is at work,
\* and when Work has left the folder there are no files.
DeletionInv ==
  faults = 0 /\ ~late =>
    /\ deleting # "no" => \A c \in Copiers : lpc[c] \in Resting
    /\ lpc[Work] \in {"remove", "return", "lastEnd", "done"} => deleting # "no"
    /\ lpc[Work] \in {"return", "lastEnd", "done"} => DOMAIN files = {}

\* Every step keeps it.
LEMMA DeletionStays == LogInv /\ DeletionInv /\ [LogNext]_logVars => DeletionInv'
  <1> SUFFICES ASSUME LogInv, DeletionInv, [LogNext]_logVars, faults' = 0, ~late'
               PROVE  DeletionInv'
    BY DEF DeletionInv
  <1> USE ProcLogAssumption DEF Threads, ProcLogAssumption
  <1>0. CASE UNCHANGED logVars
    BY <1>0 DEF logVars, DeletionInv
  <1>50. ~Fault
    BY ProcLogAssumption DEF Fault, LogInv, FlagsTyped, ProcLogAssumption
  <1>1. CASE CycleRetrieves
    BY <1>50, <1>1 DEF CycleRetrieves, Starts, Goes, LogInv, PointsTyped, DeletionInv, Resting, FlagsTyped
  <1>2. CASE CycleFinishes
    BY <1>50, <1>2 DEF CycleFinishes, Starts, Goes, LogInv, PointsTyped, DeletionInv, Resting, FlagsTyped
  <1>3. CASE Finishes
    BY <1>50, <1>3 DEF Finishes, EndsCurrent, Goes, LogInv, PointsTyped, DeletionInv, Resting, FlagsTyped
  <1>4. CASE LastEnds
    BY <1>50, <1>4 DEF LastEnds, EndsCurrent, Goes, LogInv, PointsTyped, DeletionInv, Resting, FlagsTyped
  <1>5. CASE RemovesFolder
    BY <1>50, <1>5 DEF RemovesFolder, Goes, LogInv, PointsTyped, DeletionInv, Resting, FlagsTyped
  <1>6. CASE WorkReturns
    BY <1>50, <1>6 DEF WorkReturns, Goes, LogInv, PointsTyped, DeletionInv, Resting, FlagsTyped
  <1>7. ASSUME NEW t \in Threads, Select(t) PROVE DeletionInv'
    BY <1>50, <1>7 DEF Select, Goes, LogInv, PointsTyped, DeletionInv, Resting, FlagsTyped
  <1>8. ASSUME NEW t \in Threads, EndOld(t) PROVE DeletionInv'
    BY <1>50, <1>8 DEF EndOld, Goes, LogInv, PointsTyped, DeletionInv, Resting, FlagsTyped
  <1>9. ASSUME NEW t \in Threads, Open(t) PROVE DeletionInv'
    BY <1>50, <1>9 DEF Open, Goes, LogInv, PointsTyped, DeletionInv, Resting, FlagsTyped
  <1>10. ASSUME NEW t \in Threads, New(t) PROVE DeletionInv'
    BY <1>50, <1>10 DEF New, Goes, LogInv, PointsTyped, DeletionInv, Resting, FlagsTyped
  <1>11. ASSUME NEW t \in Threads, Create(t) PROVE DeletionInv'
    BY <1>50, <1>11 DEF Create, Goes, LogInv, PointsTyped, DeletionInv, Resting, FlagsTyped
  <1>12. ASSUME NEW t \in Threads, CommitNew(t) PROVE DeletionInv'
    BY <1>50, <1>12 DEF CommitNew, Goes, LogInv, PointsTyped, DeletionInv, Resting, FlagsTyped
  <1>13. ASSUME NEW t \in Threads, Commit(t) PROVE DeletionInv'
    BY <1>50, <1>13 DEF Commit, Returns, Goes, LogInv, PointsTyped, DeletionInv, Resting, FlagsTyped
  <1>14. ASSUME NEW t \in Threads, DbFails(t) PROVE DeletionInv'
    BY <1>50, <1>14 DEF DbFails, Returns, Goes, LogInv, PointsTyped, DeletionInv, Resting, FlagsTyped
  <1>15. ASSUME NEW c \in Copiers, Appends(c) PROVE DeletionInv'
    BY <1>50, <1>15 DEF Appends, Goes, LogInv, PointsTyped, DeletionInv, Resting, FlagsTyped
  <1>16. CASE DeletesFolder
    BY <1>50, <1>16 DEF DeletesFolder, Starts, Goes, LogInv, PointsTyped, DeletionInv, Resting, FlagsTyped
  <1>17. CASE RefreshFails
    BY <1>50, <1>17 DEF RefreshFails, Starts, Goes, LogInv, PointsTyped, DeletionInv, Resting, FlagsTyped
  <1>18. CASE Tick
    BY <1>50, <1>18 DEF Tick, Goes, LogInv, PointsTyped, DeletionInv, Resting, FlagsTyped
  <1>19. CASE TellsDeleted
    BY <1>50, <1>19 DEF TellsDeleted, Goes, LogInv, PointsTyped, DeletionInv, Resting, FlagsTyped
  <1>20. CASE DeletesRows
    BY <1>50, <1>20 DEF DeletesRows, Goes, LogInv, PointsTyped, DeletionInv, Resting, FlagsTyped
  <1>21. CASE FileRemoved
    BY <1>50, <1>21, <1>50 DEF FileRemoved
  <1>22. CASE Crash
    BY <1>50, <1>22, <1>50 DEF Crash
  <1>23. ASSUME NEW c \in Copiers, Write(c) PROVE DeletionInv'
    BY <1>50, <1>23 DEF Write, Starts, Goes, LogInv, PointsTyped, DeletionInv, Resting, FlagsTyped
  <1>24. ASSUME NEW c \in Copiers, NewChild(c) PROVE DeletionInv'
    BY <1>50, <1>24 DEF NewChild, Goes, LogInv, PointsTyped, DeletionInv, Resting, FlagsTyped
  <1> QED
    BY <1>1, <1>2, <1>3, <1>4, <1>5, <1>6, <1>7, <1>8, <1>9, <1>10, <1>11, <1>12, <1>13, <1>14, <1>15, <1>16, <1>17, <1>18, <1>19, <1>20, <1>21, <1>22, <1>23, <1>24, <1>0
       DEF LogNext, WorkLogs, LogWorld, CopierWrites, Retrieve, Threads

\* A deletion that Work carries out leaves no file, whatever overlapped before it, if no
\* child printed and no Refresh failed between Deleted and the end (FinishLogOnDelete).
THEOREM DeletionComplete == LogSpec => []DeletionRemovesFiles
  <1>1. LogInit => DeletionInv
    BY DEF LogInit, DeletionInv, Threads
  <1>2. LogInv /\ DeletionInv /\ [LogNext]_logVars => DeletionInv'
    BY DeletionStays
  <1>3. DeletionInv => DeletionRemovesFiles
    BY DEF DeletionInv, DeletionRemovesFiles
  <1> QED
    BY <1>1, <1>2, <1>3, LoggerSound, PTL DEF LogSpec
=============================================================================
