---------------------------- MODULE LeftOpenProofs ----------------------------
(***************************************************************************)
(* How many rows of finished logs stay open in the table "logs", for any   *)
(* number of copiers, overlaps and faults: RowsAreEnded, and the proof.    *)
(*                                                                         *)
(* A thread that is about to insert a row may leave the newest one open.   *)
(* The first thread does so only if it overlooks that row or cannot read   *)
(* its file; every other one began while the first was at work, which is   *)
(* an overlap.  So the rows left open and the threads that may leave one   *)
(* are counted together (Size), the one row that a thread will end is set  *)
(* off against them (Spared), and a row whose file is missing is added,    *)
(* since the thread that finds it so does not end it (Fileless).           *)
(***************************************************************************)
EXTENDS ProcLogProofs

OpenRows == {i \in 1..Len(rows) : rows[i].state = "open"}

\* The rows of finished logs that are open, and those of them that a thread is ending.
LeftOpen == {i \in OpenRows : i # Newest}
Held == {i \in LeftOpen : Locked(i)}

\* The threads that are about to insert a row, or may be; and those whose row was
\* overtaken by a newer one before it was committed.
Before == {"end", "select", "endOld", "open", "new", "create"}
Replacing == {t \in Threads : \/ lpc[t] \in Before
                              \/ lpc[t] = "commitNew" /\ seen[t] > Newest}
Overtaken == {t \in Threads : lpc[t] = "commitNew" /\ seen[t] < Newest}

\* The newest log is open and nobody is ending it; its file is missing.
NewestOpen == Newest \in OpenRows /\ ~Locked(Newest)
NewestLost == NewestOpen /\ rows[Newest].path \notin DOMAIN files

\* A thread that would leave the newest row open if it went on alone.
Leaves(t) == \/ NewestLost
             \/ lpc[t] \in {"endOld", "open"} /\ seen[t] # Newest
             \/ lpc[t] \in {"new", "create", "commitNew"} /\ NewestOpen
Careless == {t \in Replacing : Leaves(t)}

\* A thread whose new row will be the newest, and whose file is already gone.
Losing == {t \in Replacing : lpc[t] = "commitNew" /\ rows[seen[t]].path \notin DOMAIN files}

Size == Cardinality(LeftOpen) + Cardinality(Overtaken) + Cardinality(Replacing)
Spared == IF Held # {} \/ (Replacing # {} /\ Careless = {}) THEN 1 ELSE 0
Fileless == IF Losing # {} \/ (Replacing = {} /\ NewestLost) THEN 1 ELSE 0
Sum == Size - Spared + Fileless
Causes == faults + overlaps

\* Without an open file somebody is on the way to a new log, or the file is missing.
Shut == writer = -1 => Fileless = 1 \/ \E t \in Replacing : lpc[t] # "commitNew"

Counted == deleting # "gone" /\ overlaps < MaxOverlaps

\* What was left open is accounted for. A deletion removes the files without a fault, and
\* may be given up when the manager is killed: until then one more row is allowed.
Budget == Counted =>
  /\ lpc[Work] = "remove" => deleting = "told" /\ Size <= Causes
  /\ lpc[Work] # "remove" /\ Sum > Causes =>
       /\ deleting = "told" /\ Spared = 0 /\ Sum = Causes + 1
       /\ \/ lpc[Work] = "return" /\ Fileless = 1
          \/ lpc[Work] \in {"lastEnd", "done"} /\ Shut

\* A row is locked by a thread on its way to a new one, never the newest of all rows.
LocksFit(t) ==
  /\ ending[t] # 0 => /\ lpc[t] \in {"new", "create", "commitNew", "commit"}
                      /\ ending[t] \in Committed
  /\ lpc[t] = "commitNew" => ending[t] < seen[t]
  /\ lpc[t] = "commit" => ending[t] = 0 \/ ending[t] < Newest
  /\ lpc[t] \in {"open", "endOld"} => seen[t] \in Committed
LocksInv == deleting # "gone" => \A t \in Threads : LocksFit(t)

-----------------------------------------------------------------------------
(* Numbers.                                                                 *)

\* What is counted is finite.
LEMMA CountsFinite ==
  ASSUME LogInv
  PROVE  /\ IsFiniteSet(LeftOpen) /\ IsFiniteSet(Overtaken) /\ IsFiniteSet(Replacing)
         /\ Cardinality(LeftOpen) \in Nat /\ Cardinality(Overtaken) \in Nat
         /\ Cardinality(Replacing) \in Nat
  <1>1. Len(rows) \in Nat /\ IsFiniteSet(1..Len(rows))
    BY RowNumbers, FS_Interval
  <1>2. IsFiniteSet(Threads)
    BY CopiersFinite, FS_AddElement DEF CopiersFinite, Threads
  <1>3. IsFiniteSet(LeftOpen)
    <2>1. LeftOpen \in SUBSET (1..Len(rows))
      BY DEF LeftOpen, OpenRows
    <2> QED
      BY <1>1, <2>1, FS_Subset
  <1>4. IsFiniteSet(Overtaken) /\ IsFiniteSet(Replacing)
    <2>1. Overtaken \in SUBSET Threads /\ Replacing \in SUBSET Threads
      BY DEF Overtaken, Replacing
    <2> QED
      BY <1>2, <2>1, FS_Subset
  <1> QED
    BY <1>3, <1>4, FS_CardinalityType

Numbers ==
  /\ IsFiniteSet(LeftOpen) /\ IsFiniteSet(Overtaken) /\ IsFiniteSet(Replacing)
  /\ Cardinality(LeftOpen) \in Nat /\ Cardinality(Overtaken) \in Nat
  /\ Cardinality(Replacing) \in Nat
  /\ Cardinality(Replacing) = 0 <=> Replacing = {}
  /\ Size \in Nat /\ Spared \in {0, 1} /\ Fileless \in {0, 1} /\ Sum \in Int
  /\ Causes \in Nat /\ faults \in Nat /\ overlaps \in Nat

LEMMA NumbersFit == LogInv => Numbers
  <1> SUFFICES ASSUME LogInv PROVE Numbers
    OBVIOUS
  <1>1. Causes \in Nat /\ faults \in Nat /\ overlaps \in Nat
    BY ProcLogAssumption DEF LogInv, FlagsTyped, ProcLogAssumption, Causes
  <1>2. Spared \in {0, 1} /\ Fileless \in {0, 1}
    BY DEF Spared, Fileless
  <1>3. Size \in Nat
    BY CountsFinite DEF Size
  <1>4. Cardinality(Replacing) = 0 <=> Replacing = {}
    BY CountsFinite, FS_EmptySet
  <1> QED
    BY <1>1, <1>2, <1>3, <1>4, CountsFinite DEF Numbers, Sum

LEMMA NumbersNext == LogInv' => Numbers'
  BY NumbersFit, PTL

Ledger(s, p, f, c) == Size = s /\ Spared = p /\ Fileless = f /\ Causes = c

HasLedger == \E s \in Nat, p \in {0, 1}, f \in {0, 1}, c \in Nat : Ledger(s, p, f, c)

LEMMA LedgerFits == Numbers => HasLedger
  BY DEF Numbers, Ledger, HasLedger

\* The numbers after a step.
LEMMA LedgerNext == Numbers' => HasLedger'
  BY LedgerFits, PTL

\* Work is past its deletion of the folder.
Late == lpc[Work] \in {"return", "lastEnd", "done"}

\* A step may add to the rows that are left open as much as it adds to the causes.
LEMMA BudgetKept ==
  ASSUME Numbers, Budget,
         Counted' => Counted,
         Counted' => \/ deleting' = deleting
                     \/ deleting = "no" /\ deleting' = "told" /\ lpc[Work] # "remove",
         \/ lpc'[Work] = lpc[Work]
         \/ lpc[Work] = "lastEnd" /\ lpc'[Work] = "done"
         \/ /\ lpc[Work] \notin {"remove", "return", "lastEnd", "done"}
            /\ lpc'[Work] # "remove",
         NEW s \in Nat, NEW p \in {0, 1}, NEW f \in {0, 1}, NEW c \in Nat,
         Ledger(s, p, f, c)',
         s <= Size + (c - Causes),
         s - p <= Size - Spared + (c - Causes),
         s - p + f <= Sum + (c - Causes),
         s - p + f = Sum + (c - Causes) /\ Spared = 0 /\ Late => p = 0 /\ (Shut => Shut')
  PROVE  Budget'
  <1>1. Size' = s /\ Spared' = p /\ Fileless' = f /\ Causes' = c /\ Sum' = s - p + f
    BY DEF Ledger, Sum
  <1>2. /\ Size \in Nat /\ Causes \in Nat /\ Spared \in {0, 1} /\ Fileless \in {0, 1}
        /\ Sum = Size - Spared + Fileless
    BY DEF Numbers, Sum
  <1>3. ASSUME Counted', lpc[Work] = "remove"
        PROVE  deleting' = "told" /\ s <= c /\ lpc'[Work] = "remove"
    <2>1. deleting = "told" /\ Size <= Causes
      BY <1>3 DEF Budget
    <2>2. s <= c
      BY <1>2, <2>1
    <2> QED
      BY <1>3, <2>1, <2>2
  <1>4. ASSUME Counted', lpc[Work] # "remove", s - p + f > c
        PROVE  /\ deleting' = "told" /\ p = 0 /\ s - p + f = c + 1
               /\ \/ lpc'[Work] = "return" /\ f = 1
                  \/ lpc'[Work] \in {"lastEnd", "done"} /\ Shut'
    <2>1. Sum > Causes
      BY <1>2, <1>4
    <2>2. /\ deleting = "told" /\ Spared = 0 /\ Sum = Causes + 1
          /\ \/ lpc[Work] = "return" /\ Fileless = 1
             \/ lpc[Work] \in {"lastEnd", "done"} /\ Shut
      BY <1>4, <2>1 DEF Budget
    <2>3. s - p + f = c + 1 /\ s - p + f = Sum + (c - Causes)
      BY <1>2, <1>4, <2>2
    <2>4. p = 0 /\ (Shut => Shut')
      BY <2>2, <2>3 DEF Late
    <2>5. lpc[Work] = "return" => f = 1
      <3>1. lpc[Work] = "return" => Size = Causes
        BY <1>2, <2>2
      <3> QED
        BY <1>2, <2>2, <2>3, <2>4, <3>1
    <2> QED
      BY <1>4, <2>2, <2>3, <2>4, <2>5
  <1> QED
    BY <1>1, <1>3, <1>4 DEF Budget

-----------------------------------------------------------------------------
(* What a step does to the rows and the threads that are counted.           *)

\* The newest log depends on the committed rows only.
LEMMA NewestKept == ASSUME Committed' = Committed PROVE Newest' = Newest
  BY DEF Newest

\* One thread moves.
LEMMA OneMoves ==
  ASSUME LogInv, NEW t \in Threads, NEW from, NEW to, Goes(t, from, to)
  PROVE  /\ lpc[t] = from /\ lpc'[t] = to /\ \A u \in Threads : u # t => lpc'[u] = lpc[u]
  BY DEF Goes, LogInv, PointsTyped

\* Without a change of rows and locks.
LEMMA SameLeftOpen ==
  ASSUME OpenRows' = OpenRows, Newest' = Newest, UNCHANGED ending
  PROVE  LeftOpen' = LeftOpen /\ Held' = Held /\ (NewestOpen' <=> NewestOpen)
  <1>1. \A i : Locked(i)' <=> Locked(i)
    BY DEF Locked
  <1>2. LeftOpen' = LeftOpen
    BY DEF LeftOpen
  <1> QED
    BY <1>1, <1>2 DEF Held, NewestOpen

LEMMA SameRowSets ==
  ASSUME UNCHANGED rows
  PROVE  OpenRows' = OpenRows /\ Committed' = Committed /\ Newest' = Newest
  <1>1. OpenRows' = OpenRows /\ Committed' = Committed
    BY DEF OpenRows, Committed
  <1> QED
    BY <1>1, NewestKept

\* A step of threads that are not counted, before or after.
Uncounted == {"idle", "broken", "done", "lastEnd", "commit", "append", "remove", "return"}

LEMMA NothingCounts ==
  ASSUME LogInv, UNCHANGED <<rows, ending, seen>>, DOMAIN files' = DOMAIN files,
         \A u \in Threads : lpc'[u] = lpc[u] \/ {lpc[u], lpc'[u]} \subseteq Uncounted
  PROVE  /\ Size' = Size /\ Spared' = Spared /\ Fileless' = Fileless
         /\ (writer' = -1 => writer = -1) => (Shut => Shut')
  <1>1. OpenRows' = OpenRows /\ Newest' = Newest
    BY SameRowSets
  <1>2. LeftOpen' = LeftOpen /\ Held' = Held /\ (NewestOpen' <=> NewestOpen)
    BY <1>1, SameLeftOpen
  <1>3. NewestLost' <=> NewestLost
    BY <1>1, <1>2 DEF NewestLost
  <1>4. Overtaken' = Overtaken /\ Replacing' = Replacing
    BY <1>1 DEF Overtaken, Replacing, Before, Uncounted
  <1>5. \A u \in Replacing : lpc'[u] = lpc[u]
    BY DEF Replacing, Uncounted, Before
  <1>6. \A u \in Replacing : Leaves(u)' <=> Leaves(u)
    BY <1>1, <1>2, <1>3, <1>5 DEF Leaves
  <1>7. Careless' = Careless
    BY <1>4, <1>6 DEF Careless
  <1>8. Losing' = Losing
    BY <1>4, <1>5 DEF Losing
  <1>9. Size' = Size /\ Spared' = Spared /\ Fileless' = Fileless
    <2>1. Size' = Size
      BY <1>2, <1>4 DEF Size
    <2>2. Spared' = Spared
      BY <1>2, <1>4, <1>7 DEF Spared
    <2>3. Fileless' = Fileless
      BY <1>3, <1>4, <1>8 DEF Fileless
    <2> QED
      BY <2>1, <2>2, <2>3
  <1> QED
    BY <1>4, <1>5, <1>9 DEF Shut

\* The causes are faults and overlaps.
LEMMA CausesGrow ==
  ASSUME Numbers, Numbers', faults' >= faults, overlaps' >= overlaps, NEW c, c = Causes'
  PROVE  c >= Causes /\ (faults' = faults + 1 => c >= Causes + 1)
         /\ (overlaps' = overlaps + 1 => c >= Causes + 1)
         /\ (faults' = faults /\ overlaps' = overlaps => c = Causes)
  <1>1. PICK b \in Nat, o \in Nat : b = faults' /\ o = overlaps' /\ c = b + o
    BY DEF Numbers, Causes
  <1>2. b >= faults /\ o >= overlaps
    BY <1>1
  <1>3. faults \in Nat /\ overlaps \in Nat /\ Causes = faults + overlaps
    BY DEF Numbers, Causes
  <1>4. /\ c >= Causes /\ (b = faults + 1 => c >= Causes + 1)
        /\ (o = overlaps + 1 => c >= Causes + 1)
        /\ (b = faults /\ o = overlaps => c = Causes)
    <2>1. c = b + o
      BY <1>1
    <2> QED
      BY ONLY <1>2, <1>3, <2>1, b \in Nat, o \in Nat
  <1> QED
    BY <1>1, <1>4

\* A step without a new cause.
LEMMA FreeStep ==
  ASSUME LogInv, LogInv', Budget, Counted' => Counted, UNCHANGED <<faults, overlaps, deleting>>,
         \/ lpc'[Work] = lpc[Work]
         \/ lpc[Work] = "lastEnd" /\ lpc'[Work] = "done"
         \/ /\ lpc[Work] \notin {"remove", "return", "lastEnd", "done"}
            /\ lpc'[Work] # "remove",
         NEW s, s = Size',
         s < Size \/ (s = Size /\ (Spared = 1 => Spared' = 1)),
         Fileless' = 1 => Fileless = 1 \/ (s < Size /\ Spared' = Spared),
         (s = Size /\ Fileless' = Fileless) \/ (Fileless = 0 /\ Fileless' = 1) =>
           (Late /\ Shut /\ Spared' = 0 => Shut')
  PROVE  Budget'
  <1>1. Numbers /\ Numbers'
    BY NumbersFit, NumbersNext
  <1>2. PICK n \in Nat, p \in {0, 1}, f \in {0, 1}, c \in Nat : Ledger(n, p, f, c)'
    BY <1>1, LedgerNext DEF HasLedger
  <1>3. n = s /\ p = Spared' /\ f = Fileless' /\ c = Causes
    BY <1>2 DEF Ledger, Causes
  <1>4. /\ Size \in Nat /\ Spared \in {0, 1} /\ Fileless \in {0, 1} /\ Causes \in Nat
        /\ Sum = Size - Spared + Fileless
    BY <1>1 DEF Numbers, Sum
  <1>5. /\ n < Size \/ (n = Size /\ (Spared = 1 => p = 1))
        /\ f = 1 => Fileless = 1 \/ (n < Size /\ p = Spared)
    BY <1>3
  <1>9. c = Causes
    BY <1>3
  <1>6. /\ n <= Size + (c - Causes) /\ n - p <= Size - Spared + (c - Causes)
        /\ n - p + f <= Sum + (c - Causes)
    BY ONLY <1>4, <1>5, <1>9, n \in Nat, p \in {0, 1}, f \in {0, 1}
  <1>7. n - p + f = Sum + (c - Causes) /\ Spared = 0 =>
          p = 0 /\ ((n = Size /\ f = Fileless) \/ (Fileless = 0 /\ f = 1))
    BY ONLY <1>4, <1>5, <1>9, n \in Nat, p \in {0, 1}, f \in {0, 1}
  <1>8. n - p + f = Sum + (c - Causes) /\ Spared = 0 /\ Late => p = 0 /\ (Shut => Shut')
    BY <1>3, <1>7
  <1> QED
    BY <1>1, <1>2, <1>6, <1>8, BudgetKept

\* The budget after a step of threads that are not counted, which may add a cause.
LEMMA UncountedKeeps ==
  ASSUME LogInv, LogInv', Budget, UNCHANGED <<rows, ending, seen>>, DOMAIN files' = DOMAIN files,
         \A u \in Threads : lpc'[u] = lpc[u] \/ {lpc[u], lpc'[u]} \subseteq Uncounted,
         Counted' => Counted,
         Counted' => \/ deleting' = deleting
                     \/ deleting = "no" /\ deleting' = "told" /\ lpc[Work] # "remove",
         \/ lpc'[Work] = lpc[Work]
         \/ lpc[Work] = "lastEnd" /\ lpc'[Work] = "done"
         \/ /\ lpc[Work] \notin {"remove", "return", "lastEnd", "done"}
            /\ lpc'[Work] # "remove",
         writer' = -1 => writer = -1, faults' >= faults, overlaps' >= overlaps
  PROVE  Budget'
  <1>1. Numbers /\ Numbers'
    BY NumbersFit, NumbersNext
  <1>2. PICK s \in Nat, p \in {0, 1}, f \in {0, 1}, c \in Nat : Ledger(s, p, f, c)'
    BY <1>1, LedgerNext DEF HasLedger
  <1>3. Size' = Size /\ Spared' = Spared /\ Fileless' = Fileless /\ (Shut => Shut')
    BY NothingCounts
  <1>4. s = Size /\ p = Spared /\ f = Fileless /\ c = Causes'
    BY <1>2, <1>3 DEF Ledger
  <1>5. c >= Causes
    BY <1>1, <1>4, CausesGrow
  <1>6. /\ s <= Size + (c - Causes) /\ s - p <= Size - Spared + (c - Causes)
        /\ s - p + f <= Sum + (c - Causes)
    <2>1. Size \in Nat /\ Spared \in {0, 1} /\ Fileless \in {0, 1} /\ Causes \in Nat
          /\ Sum = Size - Spared + Fileless
      BY <1>1 DEF Numbers, Sum
    <2>2. s = Size /\ p = Spared /\ f = Fileless
      BY <1>4
    <2> QED
      BY ONLY <2>1, <2>2, <1>5, c \in Nat
  <1>7. Spared = 0 => p = 0 /\ (Shut => Shut')
    BY <1>3, <1>4
  <1> QED
    BY ONLY <1>1, <1>2, <1>6, <1>7, Budget, BudgetKept, Counted' => Counted,
         Counted' => \/ deleting' = deleting
                     \/ deleting = "no" /\ deleting' = "told" /\ lpc[Work] # "remove",
         \/ lpc'[Work] = lpc[Work]
         \/ lpc[Work] = "lastEnd" /\ lpc'[Work] = "done"
         \/ /\ lpc[Work] \notin {"remove", "return", "lastEnd", "done"}
            /\ lpc'[Work] # "remove"

-----------------------------------------------------------------------------
(* Steps that neither insert nor end a row.                                 *)

\* What is deleted stays so.
LEMMA GoneStays == ASSUME LogNext, deleting = "gone" PROVE deleting' = "gone"
  <1>1. CASE CycleRetrieves \/ CycleFinishes \/ Finishes \/ RemovesFolder \/ WorkReturns \/ LastEnds
    BY <1>1 DEF CycleRetrieves, CycleFinishes, Finishes, RemovesFolder, WorkReturns, LastEnds,
                EndsCurrent
  <1>2. ASSUME NEW t \in Threads, Retrieve(t) PROVE deleting' = deleting
    BY <1>2 DEF Retrieve, Select, EndOld, Open, New, Create, CommitNew, Commit, DbFails
  <1>3. CASE LogWorld
    BY <1>3 DEF LogWorld, DeletesFolder, RefreshFails, Tick, TellsDeleted, DeletesRows, FileRemoved,
                Crash, Write, NewChild
  <1>4. ASSUME NEW c \in Copiers, Appends(c) PROVE deleting' = deleting
    BY <1>4 DEF Appends
  <1> QED
    BY <1>1, <1>2, <1>3, <1>4 DEF LogNext, WorkLogs, CopierWrites, Threads

\* What is counted after a step was counted before.
LEMMA CountedBefore == ASSUME LogInv, LogNext, Counted' PROVE Counted
  <1>1. overlaps' >= overlaps
    BY CountsGrow
  <1>2. overlaps \in Nat /\ MaxOverlaps \in Nat
    BY ProcLogAssumption DEF LogInv, FlagsTyped, ProcLogAssumption
  <1>3. PICK o : o = overlaps'
    OBVIOUS
  <1>4. o >= overlaps /\ o < MaxOverlaps
    BY <1>1, <1>3 DEF Counted
  <1>5. overlaps' \in 0..MaxOverlaps
    BY LogInvStep DEF LogInv, FlagsTyped
  <1>6. o \in Nat
    BY <1>2, <1>3, <1>5
  <1>7. overlaps < MaxOverlaps
    BY ONLY <1>2, <1>4, <1>6
  <1>8. deleting = "gone" => deleting' = "gone"
    BY GoneStays
  <1> QED
    BY <1>7, <1>8 DEF Counted

\* Steps of threads that are at rest, that write, or of the world.
LEMMA BudgetWhileIdle ==
  ASSUME LogInv, LogInv', Budget, Counted' => Counted,
         \/ \E c \in Copiers : Appends(c) \/ NewChild(c)
         \/ Tick \/ TellsDeleted \/ RefreshFails
         \/ \E c \in Copiers : Write(c) /\ writer # -1
  PROVE  Budget'
  <1> DEFINE Moved == \A u \in Threads : lpc'[u] = lpc[u] \/ {lpc[u], lpc'[u]} \subseteq Uncounted
  <1>1. LogInv /\ Work \in Threads /\ Work \notin Copiers
    BY ProcLogAssumption DEF Threads, ProcLogAssumption
  <1>2. overlaps \in Nat /\ faults \in Nat
    BY ProcLogAssumption DEF LogInv, FlagsTyped, ProcLogAssumption
  <1>3. ASSUME NEW c \in Copiers, Appends(c)
        PROVE  Moved /\ DOMAIN files' = DOMAIN files /\ lpc'[Work] = lpc[Work] /\ writer' = writer
    <2>1. c \in Threads /\ c # Work /\ lpc[c] = "append"
          /\ Goes(c, "append", IF writer = -1 THEN "broken" ELSE "idle")
      BY <1>1, <1>3 DEF Appends, Goes, Threads
    <2>2. lpc'[c] \in {"broken", "idle"} /\ \A u \in Threads : u # c => lpc'[u] = lpc[u]
      BY <2>1, OneMoves
    <2>3. DOMAIN files' = DOMAIN files
      BY <1>3 DEF Appends
    <2> QED
      BY <1>1, <1>3, <2>1, <2>2, <2>3 DEF Uncounted, Appends
  <1>4. ASSUME NEW c \in Copiers, NewChild(c)
        PROVE  Moved /\ lpc'[Work] = lpc[Work]
    <2>1. c \in Threads /\ c # Work /\ Goes(c, "broken", "idle")
      BY <1>1, <1>4 DEF NewChild, Threads
    <2>2. lpc[c] = "broken" /\ lpc'[c] = "idle" /\ \A u \in Threads : u # c => lpc'[u] = lpc[u]
      BY <2>1, OneMoves
    <2> QED
      BY <1>1, <2>1, <2>2 DEF Uncounted
  <1>5. ASSUME NEW c \in Copiers, Write(c), writer # -1
        PROVE  Moved /\ lpc'[Work] = lpc[Work]
    <2>1. c \in Threads /\ c # Work /\ Goes(c, "idle", "append")
      BY <1>1, <1>5 DEF Write, Starts, Threads
    <2>2. lpc[c] = "idle" /\ lpc'[c] = "append" /\ \A u \in Threads : u # c => lpc'[u] = lpc[u]
      BY <2>1, OneMoves
    <2> QED
      BY <1>1, <2>1, <2>2 DEF Uncounted
  <1>6. ASSUME RefreshFails
        PROVE  Moved /\ lpc[Work] = "idle" /\ lpc'[Work] = "return"
    <2>1. Goes(Work, "idle", "return")
      BY <1>6 DEF RefreshFails, Starts
    <2>2. /\ lpc[Work] = "idle" /\ lpc'[Work] = "return"
          /\ \A u \in Threads : u # Work => lpc'[u] = lpc[u]
      BY <1>1, <2>1, OneMoves
    <2> QED
      BY <1>1, <2>1, <2>2 DEF Uncounted
  <1>7. /\ Moved /\ DOMAIN files' = DOMAIN files /\ UNCHANGED <<rows, ending, seen>>
        /\ writer' = -1 => writer = -1
    BY <1>3, <1>4, <1>5, <1>6 DEF Appends, NewChild, Tick, TellsDeleted, RefreshFails, Write
  <1>8. faults' >= faults /\ overlaps' >= overlaps
    BY <1>2 DEF Appends, NewChild, Tick, TellsDeleted, RefreshFails, Write, Fault, Starts
  <1>9. Counted' => \/ deleting' = deleting
                    \/ deleting = "no" /\ deleting' = "told" /\ lpc[Work] # "remove"
    <2>1. Counted => (lpc[Work] = "remove" => deleting = "told")
      BY DEF Budget
    <2> QED
      BY <2>1 DEF Appends, NewChild, Tick, TellsDeleted, RefreshFails, Write
  <1>10. \/ lpc'[Work] = lpc[Work]
         \/ /\ lpc[Work] \notin {"remove", "return", "lastEnd", "done"}
            /\ lpc'[Work] # "remove"
    BY <1>3, <1>4, <1>5, <1>6 DEF Tick, TellsDeleted
  <1> QED
    BY <1>7, <1>8, <1>9, <1>10, UncountedKeeps

-----------------------------------------------------------------------------
(* A thread goes on towards a new row.                                      *)

LEMMA GoesOn ==
  ASSUME LogInv, LogInv', Budget, Counted' => Counted, UNCHANGED <<faults, overlaps, deleting>>,
         NEW t \in Threads, NEW from \in Before, NEW to \in Before \cup {"commitNew"},
         Goes(t, from, to), \A u \in Threads : u # t => seen'[u] = seen[u],
         OpenRows' = OpenRows, Newest' = Newest, Held \subseteq Held',
         NewestOpen' => NewestOpen, NewestLost' => NewestLost, Leaves(t)' => Leaves(t),
         \A u \in Threads :
           u # t /\ lpc[u] = "commitNew" => rows'[seen[u]].path = rows[seen[u]].path,
         DOMAIN files \subseteq DOMAIN files',
         to = "commitNew" => /\ seen'[t] > Newest /\ writer' # -1
                             /\ rows'[seen'[t]].path \in DOMAIN files'
  PROVE  Budget'
  <1>1. lpc[t] = from /\ lpc'[t] = to /\ \A u \in Threads : u # t => lpc'[u] = lpc[u]
    BY OneMoves
  <1>2. t \in Replacing /\ t \in Replacing' /\ t \notin Overtaken /\ t \notin Overtaken'
    <2>1. Newest \in Nat
      BY NewestIsLast, RowNumbers DEF LogInv
    <2>2. PICK i \in Nat : i = seen'[t]
      <3>1. seen' \in [Threads -> 0..Len(rows')] /\ Len(rows') \in Nat
        BY DEF LogInv, RowsTyped
      <3>2. PICK n \in Nat : n = Len(rows')
        BY <3>1
      <3>3. seen'[t] \in 0..n
        BY <3>1, <3>2
      <3> QED
        BY <3>3
    <2>3. to = "commitNew" => i > Newest
      BY <2>2
    <2>4. to = "commitNew" => ~(i < Newest)
      BY ONLY <2>1, <2>3, i \in Nat
    <2>5. to = "commitNew" => seen'[t] > Newest' /\ ~(seen'[t] < Newest')
      BY <2>2, <2>3, <2>4
    <2> QED
      BY <1>1, <2>5 DEF Replacing, Overtaken, Before
  <1>3. Replacing' = Replacing /\ Overtaken' = Overtaken
    BY <1>1, <1>2 DEF Replacing, Overtaken
  <1>4. LeftOpen' = LeftOpen
    BY DEF LeftOpen
  <1>5. Careless' \subseteq Careless
    <2>1. ASSUME NEW u \in Threads, u # t, Leaves(u)' PROVE Leaves(u)
      BY <1>1, <2>1 DEF Leaves
    <2> QED
      BY <1>3, <2>1 DEF Careless, Replacing
  <1>6. Losing' \subseteq Losing
    BY <1>1, <1>3 DEF Losing, Replacing
  <1>7. Size' = Size
    BY <1>3, <1>4 DEF Size
  <1>8. Spared = 1 => Spared' = 1
    BY <1>3, <1>5 DEF Spared
  <1>9. Fileless' = 1 => Fileless = 1
    BY <1>2, <1>3, <1>6 DEF Fileless
  <1>10. Shut => Shut'
    BY <1>1, <1>2, <1>3 DEF Shut, Before
  <1>11. \/ lpc'[Work] = lpc[Work]
         \/ /\ lpc[Work] \notin {"remove", "return", "lastEnd", "done"}
            /\ lpc'[Work] # "remove"
    BY <1>1, ProcLogAssumption DEF Before, Threads
  <1>12. PICK s : s = Size'
    OBVIOUS
  <1>13. s = Size
    BY <1>7, <1>12
  <1> QED
    BY ONLY <1>8, <1>9, <1>10, <1>11, <1>12, <1>13, FreeStep, LogInv, LogInv', Budget,
         Counted' => Counted, UNCHANGED <<faults, overlaps, deleting>>

\* LastProcessLogFile.
LEMMA BudgetSelect ==
  ASSUME LogInv, LogInv', Budget, Counted' => Counted, NEW t \in Threads, Select(t)
  PROVE  Budget'
  <1>1. PICK to \in Before : /\ Goes(t, "select", to) /\ to \in {"new", "open", "endOld"}
                             /\ to = "new" => Newest = 0 \/ rows[Newest].state # "open"
    <2> DEFINE to == IF Newest = 0 THEN "new"
                     ELSE IF IsOld(Newest)
                          THEN IF rows[Newest].state = "open" THEN "endOld" ELSE "new"
                          ELSE "open"
    <2>1. Goes(t, "select", to)
      BY DEF Select
    <2>2. /\ to \in {"new", "open", "endOld"}
          /\ to = "new" => Newest = 0 \/ rows[Newest].state # "open"
      OBVIOUS
    <2>3. to \in Before
      BY <2>2 DEF Before
    <2> HIDE DEF to
    <2> QED
      BY <2>1, <2>2, <2>3
  <1>2. /\ UNCHANGED <<rows, files, ending, faults, overlaps, deleting>>
        /\ seen' = [seen EXCEPT ![t] = Newest]
    BY DEF Select
  <1>3. OpenRows' = OpenRows /\ Newest' = Newest
    BY <1>2, SameRowSets
  <1>4. Held' = Held /\ (NewestOpen' <=> NewestOpen)
    BY <1>2, <1>3, SameLeftOpen
  <1>5. NewestLost' <=> NewestLost
    BY <1>2, <1>3, <1>4 DEF NewestLost
  <1>6. seen'[t] = Newest /\ lpc'[t] = to /\ \A u \in Threads : u # t => seen'[u] = seen[u]
    BY <1>1, <1>2, OneMoves DEF LogInv, RowsTyped
  <1>7. Leaves(t)' => Leaves(t)
    BY <1>1, <1>3, <1>4, <1>5, <1>6 DEF Leaves, NewestOpen, OpenRows
  <1> QED
    BY <1>1, <1>2, <1>3, <1>4, <1>5, <1>6, <1>7, GoesOn DEF Before

\* The file of the new row is made at once, but nobody sees the row yet.
LEMMA BudgetNew ==
  ASSUME LogInv, LogInv', Budget, Counted' => Counted, NEW t \in Threads, New(t)
  PROVE  Budget'
  <1>1. /\ Goes(t, "new", "create")
        /\ UNCHANGED <<rows, files, seen, ending, faults, overlaps, deleting>>
    BY DEF New
  <1>2. "new" \in Before /\ "create" \in Before
    BY DEF Before
  <1>3. OpenRows' = OpenRows /\ Newest' = Newest
    BY <1>1, SameRowSets
  <1>4. Held' = Held /\ (NewestOpen' <=> NewestOpen)
    BY <1>1, <1>3, SameLeftOpen
  <1>5. NewestLost' <=> NewestLost
    BY <1>1, <1>3, <1>4 DEF NewestLost
  <1>6. lpc[t] = "new" /\ lpc'[t] = "create"
    BY <1>1, OneMoves
  <1>7. Leaves(t)' => Leaves(t)
    BY <1>3, <1>4, <1>5, <1>6 DEF Leaves
  <1> QED
    BY <1>1, <1>2, <1>3, <1>4, <1>5, <1>7, GoesOn

\* The old row is locked, and stays so until the thread has committed its new row.
LEMMA BudgetEndOld ==
  ASSUME LogInv, LogInv', LocksInv, Budget, Counted' => Counted, NEW t \in Threads, EndOld(t)
  PROVE  Budget'
  <1> SUFFICES ASSUME Counted'
               PROVE  Budget'
    BY DEF Budget
  <1>1. /\ Goes(t, "endOld", "new")
        /\ UNCHANGED <<rows, files, seen, faults, overlaps, deleting>>
        /\ ending' = [ending EXCEPT ![t] = seen[t]]
    BY DEF EndOld
  <1>2. lpc[t] = "endOld" /\ lpc'[t] = "new"
    BY <1>1, OneMoves
  <1>3. OpenRows' = OpenRows /\ Newest' = Newest
    BY <1>1, SameRowSets
  <1>4. ending[t] = 0 /\ seen[t] # 0 /\ ending'[t] = seen[t]
        /\ \A u \in Threads : u # t => ending'[u] = ending[u]
    BY <1>1, <1>2 DEF LogInv, RowsTyped, HandsFit, LocksInv, LocksFit, Counted
  <1>5. \A i : Locked(i) => Locked(i)'
    BY <1>4 DEF Locked
  <1>6. Held \subseteq Held' /\ (NewestOpen' => NewestOpen)
    BY <1>3, <1>5 DEF Held, LeftOpen, NewestOpen
  <1>7. NewestLost' => NewestLost
    BY <1>1, <1>3, <1>6 DEF NewestLost
  <1>8. Leaves(t)' => Leaves(t)
    <2>1. seen[t] = Newest => Locked(Newest)'
      BY <1>3, <1>4 DEF Locked
    <2>2. NewestOpen' => seen[t] # Newest
      BY <1>3, <2>1 DEF NewestOpen
    <2> QED
      BY <1>2, <1>7, <2>2 DEF Leaves
  <1>9. "endOld" \in Before /\ "new" \in Before
    BY DEF Before
  <1> QED
    BY <1>1, <1>3, <1>6, <1>7, <1>8, <1>9, GoesOn

\* The new row is not committed, so that the last log stays the newest.
LEMMA BudgetCreate ==
  ASSUME LogInv, LogInv', Budget, Counted' => Counted, NEW t \in Threads, Create(t)
  PROVE  Budget'
  <1>1. /\ Goes(t, "create", "commitNew") /\ UNCHANGED <<ending, faults, overlaps, deleting>>
        /\ seen' = [seen EXCEPT ![t] = Len(rows')] /\ writer' = now
        /\ DOMAIN files' = DOMAIN files \cup {now}
    BY DEF Create
  <1>2. lpc[t] = "create" /\ lpc'[t] = "commitNew"
    BY <1>1, OneMoves
  <1>3. PICK n : n = rows' /\ n = Append(rows, [path |-> now, start |-> now, state |-> "pending"])
    BY DEF Create
  <1>4. /\ Len(n) = Len(rows) + 1 /\ n[Len(n)].path = now /\ n[Len(n)].state = "pending"
        /\ \A j \in 1..Len(rows) : n[j] = rows[j]
    BY <1>3, RowAdded DEF LogInv
  <1>5. Len(rows) \in Nat
    BY RowNumbers
  <1>6. /\ OpenRows = {i \in 1..Len(n) : n[i].state = "open"}
        /\ Committed = {i \in 1..Len(n) : n[i].state \in {"open", "ended"}}
    BY ONLY <1>4, <1>5 DEF OpenRows, Committed
  <1>7. OpenRows' = OpenRows /\ Newest' = Newest
    <2>1. OpenRows' = OpenRows /\ Committed' = Committed
      BY <1>3, <1>6 DEF OpenRows, Committed
    <2> QED
      BY <2>1, NewestKept
  <1>8. Held' = Held /\ (NewestOpen' <=> NewestOpen)
    BY <1>1, <1>7, SameLeftOpen
  <1>9. NewestLost' => NewestLost
    <2>1. NewestOpen => Newest \in 1..Len(rows)
      BY DEF NewestOpen, OpenRows
    <2> QED
      BY <1>1, <1>3, <1>4, <1>7, <1>8, <2>1 DEF NewestLost
  <1>10. Leaves(t)' => Leaves(t)
    BY <1>2, <1>8, <1>9 DEF Leaves
  <1>11. /\ seen'[t] = Len(n) /\ \A u \in Threads : u # t => seen'[u] = seen[u]
    BY <1>1, <1>3 DEF LogInv, RowsTyped
  <1>12. \A u \in Threads :
           u # t /\ lpc[u] = "commitNew" => rows'[seen[u]].path = rows[seen[u]].path
    <2>1. \A u \in Threads : lpc[u] = "commitNew" => seen[u] \in 1..Len(rows)
      BY DEF LogInv, RowsTyped, HandsFit
    <2> QED
      BY <1>3, <1>4, <2>1
  <1>13. seen'[t] > Newest /\ writer' # -1 /\ rows'[seen'[t]].path \in DOMAIN files'
    <2>1. Newest \in 0..Len(rows)
      BY NewestIsLast DEF LogInv
    <2>2. Len(n) > Newest
      BY ONLY <1>4, <1>5, <2>1
    <2>3. now \in Nat
      BY RowNumbers
    <2>4. writer' # -1
      BY <1>1, <2>3
    <2> QED
      BY <1>1, <1>3, <1>4, <1>11, <2>2, <2>4
  <1>14. "create" \in Before /\ DOMAIN files \subseteq DOMAIN files' /\ Held \subseteq Held'
    BY <1>1, <1>8 DEF Before
  <1> QED
    BY <1>1, <1>7, <1>8, <1>9, <1>10, <1>11, <1>12, <1>13, <1>14, GoesOn

\* A thread that is counted no more.
LEMMA OneLess ==
  ASSUME LogInv, NEW t \in Replacing, LeftOpen' = LeftOpen, Overtaken' = Overtaken,
         Replacing' = Replacing \ {t}, NEW s, s = Size'
  PROVE  s = Size - 1
  <1>1. Cardinality(Replacing \ {t}) = Cardinality(Replacing) - 1
    BY CountsFinite, FS_RemoveElement
  <1>2. s = Cardinality(LeftOpen) + Cardinality(Overtaken) + Cardinality(Replacing \ {t})
    BY DEF Size
  <1> QED
    BY <1>1, <1>2, CountsFinite DEF Size

\* A thread gives up its way to a new row, or finds that it needs none.
LEMMA GivesUp ==
  ASSUME LogInv, UNCHANGED <<rows, files, seen, ending>>,
         NEW t \in Threads, lpc[t] \in Before, lpc'[t] \in Uncounted,
         \A u \in Threads : u # t => lpc'[u] = lpc[u], NEW s, s = Size'
  PROVE  /\ s = Size - 1 /\ s < Size
         /\ Fileless' = 1 => Fileless = 1 \/ (s < Size /\ Spared' = Spared)
  <1>1. OpenRows' = OpenRows /\ Newest' = Newest
    BY SameRowSets
  <1>2. LeftOpen' = LeftOpen /\ Held' = Held /\ (NewestOpen' <=> NewestOpen)
    BY <1>1, SameLeftOpen
  <1>3. NewestLost' <=> NewestLost
    BY <1>1, <1>2 DEF NewestLost
  <1>4. Overtaken' = Overtaken /\ Replacing' = Replacing \ {t} /\ t \in Replacing
    BY <1>1 DEF Overtaken, Replacing, Before, Uncounted
  <1>5. \A u \in Threads : u # t => (Leaves(u)' <=> Leaves(u))
    BY <1>1, <1>2, <1>3 DEF Leaves
  <1>6. Careless' = Careless \ {t}
    BY <1>4, <1>5 DEF Careless, Replacing
  <1>7. Losing' = Losing
    <2>1. Replacing \subseteq Threads
      BY DEF Replacing
    <2>2. \A u \in Replacing \ {t} : lpc'[u] = lpc[u] /\ rows'[seen'[u]] = rows[seen[u]]
      BY <2>1
    <2>3. files' = files /\ lpc[t] # "commitNew"
      BY DEF Before
    <2> QED
      BY ONLY <1>4, <2>2, <2>3 DEF Losing
  <1>8. s = Size - 1
    BY <1>2, <1>4, OneLess
  <1>9. s < Size
    BY <1>8, NumbersFit DEF Numbers
  <1>10. ASSUME Replacing' = {}, NewestLost' PROVE Spared' = Spared
    <2>1. Replacing = {t} /\ t \in Careless
      BY <1>3, <1>4, <1>10 DEF Careless, Leaves
    <2> QED
      BY <1>2, <1>10, <2>1 DEF Spared
  <1>11. Fileless' = 1 => Fileless = 1 \/ (s < Size /\ Spared' = Spared)
    BY <1>7, <1>9, <1>10 DEF Fileless
  <1> QED
    BY <1>8, <1>9, <1>11

\* The last log is opened again, or its file is missing.
LEMMA BudgetOpen ==
  ASSUME LogInv, LogInv', Budget, Counted' => Counted, NEW t \in Threads, Open(t)
  PROVE  Budget'
  <1> DEFINE path == rows[seen[t]].path
  <1>1. /\ Goes(t, "open", IF path \in DOMAIN files THEN "commit" ELSE "new")
        /\ writer' = (IF path \in DOMAIN files THEN path ELSE -1)
        /\ UNCHANGED <<rows, files, seen, ending, faults, overlaps, deleting>>
    BY DEF Open
  <1>2. /\ lpc[t] = "open" /\ lpc'[t] = IF path \in DOMAIN files THEN "commit" ELSE "new"
        /\ \A u \in Threads : u # t => lpc'[u] = lpc[u]
    BY <1>1, OneMoves
  <1>3. OpenRows' = OpenRows /\ Newest' = Newest
    BY <1>1, SameRowSets
  <1>4. LeftOpen' = LeftOpen /\ Held' = Held /\ (NewestOpen' <=> NewestOpen)
    BY <1>1, <1>3, SameLeftOpen
  <1>5. NewestLost' <=> NewestLost
    BY <1>1, <1>3, <1>4 DEF NewestLost
  <1>6. CASE path \notin DOMAIN files
    <2>1. Leaves(t)' => Leaves(t)
      <3>1. NewestOpen /\ seen[t] = Newest => NewestLost
        BY <1>6 DEF NewestLost
      <3> QED
        BY <1>2, <1>4, <1>5, <1>6, <3>1 DEF Leaves
    <2>2. "open" \in Before /\ "new" \in Before /\ Goes(t, "open", "new")
      BY <1>1, <1>6 DEF Before
    <2>3. Held \subseteq Held' /\ DOMAIN files \subseteq DOMAIN files' /\ UNCHANGED <<rows, seen>>
      BY <1>1, <1>4
    <2> QED
      BY ONLY <1>1, <1>3, <1>4, <1>5, <2>1, <2>2, <2>3, GoesOn, LogInv, LogInv', Budget,
           Counted' => Counted
  <1>7. CASE path \in DOMAIN files
    <2>1. lpc'[t] = "commit" /\ writer' # -1
      <3>1. path \in Nat
        BY <1>7, ProcLogAssumption DEF LogInv, FilesTyped, Paths, ProcLogAssumption
      <3> QED
        BY <1>1, <1>2, <1>7, <3>1
    <2>2. PICK s : s = Size'
      OBVIOUS
    <2>3. s < Size /\ (Fileless' = 1 => Fileless = 1 \/ (s < Size /\ Spared' = Spared))
      <3>1. lpc[t] \in Before /\ lpc'[t] \in Uncounted
        BY <1>2, <2>1 DEF Before, Uncounted
      <3> QED
        BY ONLY <1>1, <1>2, <2>2, <3>1, GivesUp, LogInv, t \in Threads
    <2>4. Shut'
      BY <2>1 DEF Shut
    <2>5. \/ lpc'[Work] = lpc[Work]
           \/ /\ lpc[Work] \notin {"remove", "return", "lastEnd", "done"}
              /\ lpc'[Work] # "remove"
      BY <1>2, <2>1, ProcLogAssumption DEF Threads
    <2> QED
      BY ONLY <1>1, <2>2, <2>3, <2>4, <2>5, FreeStep, LogInv, LogInv', Budget,
           Counted' => Counted
  <1> QED
    BY <1>6, <1>7

\* Threads that are not counted move, and the newest row stays as it is.
LEMMA OthersCount ==
  ASSUME LogInv, Newest' = Newest, NewestOpen' <=> NewestOpen, NewestLost' <=> NewestLost,
         DOMAIN files' = DOMAIN files, \A i \in 1..Len(rows) : rows'[i].path = rows[i].path,
         \A u \in Threads : \/ lpc'[u] = lpc[u] /\ seen'[u] = seen[u]
                            \/ {lpc[u], lpc'[u]} \subseteq Uncounted
  PROVE  /\ Overtaken' = Overtaken /\ Replacing' = Replacing /\ Fileless' = Fileless
         /\ (Held' = {} <=> Held = {}) => Spared' = Spared
         /\ (writer' = -1 => writer = -1) => (Shut => Shut')
  <1>1. Overtaken' = Overtaken /\ Replacing' = Replacing
    BY DEF Overtaken, Replacing, Before, Uncounted
  <1>2. \A u \in Replacing : u \in Threads /\ lpc'[u] = lpc[u] /\ seen'[u] = seen[u]
    BY DEF Replacing, Uncounted, Before
  <1>3. \A u \in Replacing : Leaves(u)' <=> Leaves(u)
    BY <1>2 DEF Leaves
  <1>4. Careless' = Careless
    BY <1>1, <1>3 DEF Careless
  <1>5. \A u \in Replacing : lpc[u] = "commitNew" => seen[u] \in 1..Len(rows)
    BY <1>2 DEF LogInv, HandsFit, RowsTyped
  <1>6. Losing' = Losing
    BY <1>1, <1>2, <1>5 DEF Losing
  <1>7. Fileless' = Fileless
    BY <1>1, <1>6 DEF Fileless
  <1> QED
    BY <1>1, <1>2, <1>4, <1>7 DEF Spared, Shut

\* The outer transaction ends the row that it has locked, which is not the newest.
LEMMA BudgetCommit ==
  ASSUME LogInv, LogInv', LocksInv, Budget, Counted' => Counted, NEW t \in Threads, Commit(t)
  PROVE  Budget'
  <1> SUFFICES ASSUME Counted'
               PROVE  Budget'
    BY DEF Budget
  <1> DEFINE e == ending[t]
  <1>1. /\ Goes(t, "commit", IF t = Work THEN "idle" ELSE "append")
        /\ ending' = [ending EXCEPT ![t] = 0] /\ seen' = [seen EXCEPT ![t] = 0]
        /\ UNCHANGED <<files, writer, faults, overlaps, deleting>>
    BY DEF Commit, Returns
  <1>2. /\ lpc[t] = "commit" /\ lpc'[t] \in {"idle", "append"}
        /\ \A u \in Threads : u # t => lpc'[u] = lpc[u]
    BY <1>1, OneMoves
  <1>3. PICK n : n = rows' /\ n = SetEnd(e)
    BY DEF Commit
  <1>4. /\ Len(n) = Len(rows)
        /\ \A j \in 1..Len(rows) :
             /\ n[j].path = rows[j].path
             /\ n[j].state = IF j = e /\ rows[j].state = "open" THEN "ended" ELSE rows[j].state
    BY <1>3, SetEndKeeps DEF LogInv
  <1>5. OpenRows' = OpenRows \ {e} /\ Newest' = Newest
    <2>1. OpenRows' = OpenRows \ {e} /\ Committed' = Committed
      BY <1>3, <1>4 DEF OpenRows, Committed
    <2> QED
      BY <2>1, NewestKept
  <1>6. e # 0 => e # Newest
    <2>1. e = 0 \/ e < Newest
      BY <1>2 DEF LocksInv, LocksFit, Counted
    <2>2. Newest \in Nat
      BY NewestIsLast, RowNumbers DEF LogInv
    <2> QED
      BY <2>1, <2>2
  <1>7. \A i : i # e => (Locked(i)' <=> Locked(i))
    <2>1. ending'[t] = 0 /\ \A u \in Threads : u # t => ending'[u] = ending[u]
      BY <1>1 DEF LogInv, RowsTyped
    <2> QED
      BY <2>1 DEF Locked
  <1>8. LeftOpen' = LeftOpen \ {e} /\ Held' = Held \ {e}
    BY <1>5, <1>7 DEF LeftOpen, Held
  <1>9. NewestOpen' <=> NewestOpen
    <2>1. 0 \notin OpenRows
      BY DEF OpenRows
    <2> QED
      BY <1>5, <1>6, <1>7, <2>1 DEF NewestOpen
  <1>10. NewestLost' <=> NewestLost
    <2>1. NewestOpen => Newest \in 1..Len(rows)
      BY DEF NewestOpen, OpenRows
    <2> QED
      BY <1>1, <1>3, <1>4, <1>5, <1>9, <2>1 DEF NewestLost
  <1>11. \A u \in Threads : \/ lpc'[u] = lpc[u] /\ seen'[u] = seen[u]
                            \/ {lpc[u], lpc'[u]} \subseteq Uncounted
    BY <1>1, <1>2 DEF LogInv, RowsTyped, Uncounted
  <1>12. /\ Overtaken' = Overtaken /\ Replacing' = Replacing /\ Fileless' = Fileless
         /\ (Held' = {} <=> Held = {}) => Spared' = Spared
         /\ Shut => Shut'
    <2>1. DOMAIN files' = DOMAIN files /\ \A i \in 1..Len(rows) : rows'[i].path = rows[i].path
      BY <1>1, <1>3, <1>4
    <2> QED
      BY ONLY <1>1, <1>5, <1>9, <1>10, <1>11, <2>1, LogInv, OthersCount
  <1>13. PICK s : s = Size'
    OBVIOUS
  <1>14. s < Size \/ (s = Size /\ (Spared = 1 => Spared' = 1))
    <2>1. CASE e \in LeftOpen
      <3>1. Cardinality(LeftOpen \ {e}) = Cardinality(LeftOpen) - 1
        BY <2>1, CountsFinite, FS_RemoveElement
      <3>2. s = Cardinality(LeftOpen \ {e}) + Cardinality(Overtaken) + Cardinality(Replacing)
        BY <1>8, <1>12, <1>13 DEF Size
      <3> QED
        BY <3>1, <3>2, CountsFinite DEF Size
    <2>2. CASE e \notin LeftOpen
      <3>1. LeftOpen' = LeftOpen /\ Held' = Held
        BY <1>8, <2>2 DEF Held
      <3> QED
        BY <1>12, <1>13, <3>1 DEF Size
    <2> QED
      BY <2>1, <2>2
  <1>15. \/ lpc'[Work] = lpc[Work]
         \/ /\ lpc[Work] \notin {"remove", "return", "lastEnd", "done"}
            /\ lpc'[Work] # "remove"
    BY <1>2, ProcLogAssumption DEF Threads
  <1>16. Fileless' = 1 => Fileless = 1
    BY <1>12
  <1> QED
    BY ONLY <1>1, <1>12, <1>13, <1>14, <1>15, <1>16, FreeStep, LogInv, LogInv', Budget,
         Counted' => Counted

\* A row is committed, which nobody has locked.
LEMMA RowCommitted ==
  ASSUME LogInv, LocksInv, deleting # "gone", NEW t \in Threads, CommitNew(t)
  PROVE  /\ seen[t] \in 1..Len(rows) /\ seen[t] \notin Committed /\ seen[t] # Newest
         /\ Committed' = Committed \cup {seen[t]} /\ OpenRows' = OpenRows \cup {seen[t]}
         /\ seen[t] \notin OpenRows /\ ~Locked(seen[t])
         /\ \A j \in 1..Len(rows) : rows'[j].path = rows[j].path
         /\ lpc[t] = "commitNew" /\ lpc'[t] = "commit"
         /\ \A u \in Threads : u # t => lpc'[u] = lpc[u]
  <1>1. /\ lpc[t] = "commitNew" /\ lpc'[t] = "commit"
        /\ \A u \in Threads : u # t => lpc'[u] = lpc[u]
    <2>1. Goes(t, "commitNew", "commit")
      BY DEF CommitNew
    <2> QED
      BY <2>1, OneMoves
  <1>2. seen[t] \in 1..Len(rows) /\ rows[seen[t]].state = "pending"
    BY <1>1 DEF LogInv, HandsFit, RowsTyped
  <1>3. seen[t] \notin Committed /\ seen[t] \notin OpenRows
    BY <1>2 DEF Committed, OpenRows
  <1>4. seen[t] # Newest
    BY <1>2, <1>3, NewestIsLast DEF LogInv
  <1>5. ~Locked(seen[t])
    BY <1>3 DEF LocksInv, LocksFit, Locked
  <1>6. PICK n : n = rows' /\ n = [rows EXCEPT ![seen[t]].state = "open"]
    BY DEF CommitNew
  <1>7. /\ Len(n) = Len(rows) /\ n[seen[t]].state = "open"
        /\ \A j \in 1..Len(rows) : n[j].path = rows[j].path /\ (j # seen[t] => n[j] = rows[j])
    <2>1. rows \in Seq(RowType) /\ "open" \in RowStates
      BY DEF LogInv, RowsTyped, RowStates
    <2> QED
      BY <1>2, <1>6, <2>1, OneRow
  <1>8. Committed' = Committed \cup {seen[t]} /\ OpenRows' = OpenRows \cup {seen[t]}
    <2>1. /\ Committed' = {j \in 1..Len(n) : n[j].state \in {"open", "ended"}}
          /\ OpenRows' = {j \in 1..Len(n) : n[j].state = "open"}
      BY <1>6 DEF Committed, OpenRows
    <2>2. \A j \in 1..Len(rows) :
            n[j].state = IF j = seen[t] THEN "open" ELSE rows[j].state
      BY ONLY <1>7
    <2>3. Committed' = Committed \cup {seen[t]}
      BY ONLY <1>2, <1>7, <2>1, <2>2 DEF Committed
    <2>4. OpenRows' = OpenRows \cup {seen[t]}
      BY ONLY <1>2, <1>7, <2>1, <2>2 DEF OpenRows
    <2> QED
      BY ONLY <2>3, <2>4
  <1> QED
    BY <1>1, <1>2, <1>3, <1>4, <1>5, <1>6, <1>7, <1>8

\* A row that was overtaken stays open from the moment it is committed.
LEMMA BudgetOvertaken ==
  ASSUME LogInv, LogInv', LocksInv, Budget, Counted' => Counted, NEW t \in Threads, CommitNew(t),
         seen[t] < Newest
  PROVE  Budget'
  <1> SUFFICES ASSUME Counted'
               PROVE  Budget'
    BY DEF Budget
  <1> DEFINE i == seen[t]
  <1>1. /\ i \in 1..Len(rows) /\ i \notin Committed /\ i # Newest
        /\ Committed' = Committed \cup {i} /\ OpenRows' = OpenRows \cup {i}
        /\ i \notin OpenRows /\ ~Locked(i)
        /\ \A j \in 1..Len(rows) : rows'[j].path = rows[j].path
        /\ lpc[t] = "commitNew" /\ lpc'[t] = "commit"
        /\ \A u \in Threads : u # t => lpc'[u] = lpc[u]
    BY RowCommitted DEF Counted
  <1>2. UNCHANGED <<files, writer, seen, ending, faults, overlaps, deleting>>
    BY DEF CommitNew
  <1>3. Newest \in Nat /\ Newest \in Committed /\ \A j \in Committed : j <= Newest
    <2>1. Newest \in Nat /\ Newest # 0
      BY <1>1, NewestIsLast, RowNumbers DEF LogInv
    <2> QED
      BY <2>1, NewestIsLast DEF LogInv
  <1>4. Newest' = Newest
    <2>1. \A j \in Committed' : j <= Newest
      BY <1>1, <1>3, RowNumbers
    <2>2. \A k \in Committed' : (\A j \in Committed' : j <= k) => k = Newest
      <3>1. \A k \in Committed' : k \in Nat
        BY <1>1 DEF Committed
      <3> QED
        BY <1>1, <1>3, <2>1, <3>1
    <2>3. Newest \in Committed'
      BY <1>1, <1>3
    <2>4. Newest' = CHOOSE k \in Committed' : \A j \in Committed' : j <= k
      BY <2>3 DEF Newest
    <2> QED
      BY <2>1, <2>2, <2>3, <2>4
  <1>5. \A j : Locked(j)' <=> Locked(j)
    BY <1>2 DEF Locked
  <1>6. LeftOpen' = LeftOpen \cup {i} /\ i \notin LeftOpen /\ Held' = Held
    BY <1>1, <1>4, <1>5 DEF LeftOpen, Held
  <1>7. NewestOpen' <=> NewestOpen
    BY <1>1, <1>4, <1>5 DEF NewestOpen
  <1>8. NewestLost' <=> NewestLost
    <2>1. NewestOpen => Newest \in 1..Len(rows)
      BY DEF NewestOpen, OpenRows
    <2> QED
      BY <1>1, <1>2, <1>4, <1>7, <2>1 DEF NewestLost
  <1>9. t \in Overtaken /\ t \notin Replacing /\ t \notin Replacing' /\ t \notin Overtaken'
    <2>1. ~(i > Newest)
      BY <1>1, <1>3
    <2> QED
      BY <1>1, <2>1 DEF Overtaken, Replacing, Before
  <1>10. Overtaken' = Overtaken \ {t} /\ Replacing' = Replacing
    BY <1>1, <1>2, <1>4, <1>9 DEF Overtaken, Replacing
  <1>11. \A u \in Replacing : u \in Threads /\ u # t /\ lpc'[u] = lpc[u]
    BY <1>1, <1>9 DEF Replacing
  <1>12. \A u \in Replacing : Leaves(u)' <=> Leaves(u)
    BY <1>2, <1>4, <1>7, <1>8, <1>11 DEF Leaves
  <1>13. Careless' = Careless
    BY <1>10, <1>12 DEF Careless
  <1>14. \A u \in Replacing : lpc[u] = "commitNew" => seen[u] \in 1..Len(rows)
    BY <1>11 DEF LogInv, HandsFit, RowsTyped
  <1>15. Losing' = Losing
    BY <1>1, <1>2, <1>10, <1>11, <1>14 DEF Losing
  <1>16. Spared' = Spared /\ Fileless' = Fileless /\ (Shut => Shut')
    <2>1. Spared' = Spared /\ Fileless' = Fileless
      BY <1>6, <1>8, <1>10, <1>13, <1>15 DEF Spared, Fileless
    <2> QED
      BY <1>2, <1>10, <1>11, <2>1 DEF Shut
  <1>17. PICK s : s = Size'
    OBVIOUS
  <1>18. s = Size
    <2>1. Cardinality(LeftOpen \cup {i}) = Cardinality(LeftOpen) + 1
      BY <1>6, CountsFinite, FS_AddElement
    <2>2. Cardinality(Overtaken \ {t}) = Cardinality(Overtaken) - 1
      BY <1>9, CountsFinite, FS_RemoveElement
    <2>3. s = Cardinality(LeftOpen \cup {i}) + Cardinality(Overtaken \ {t}) + Cardinality(Replacing)
      BY <1>6, <1>10, <1>17 DEF Size
    <2> QED
      BY <2>1, <2>2, <2>3, CountsFinite DEF Size
  <1>19. \/ lpc'[Work] = lpc[Work]
         \/ /\ lpc[Work] \notin {"remove", "return", "lastEnd", "done"}
            /\ lpc'[Work] # "remove"
    BY <1>1, ProcLogAssumption DEF Threads
  <1> QED
    BY ONLY <1>2, <1>16, <1>17, <1>18, <1>19, FreeStep, LogInv, LogInv', Budget,
         Counted' => Counted

\* The new row becomes the newest: what it replaces stays open unless a thread has locked it,
\* and overtakes the rows with smaller numbers that are not committed yet.
LEMMA BudgetReplaced ==
  ASSUME LogInv, LogInv', LocksInv, Budget, Counted' => Counted, NEW t \in Threads, CommitNew(t),
         seen[t] > Newest
  PROVE  Budget'
  <1> SUFFICES ASSUME Counted'
               PROVE  Budget'
    BY DEF Budget
  <1> DEFINE i == seen[t]
             M == {u \in Replacing \ {t} : lpc[u] = "commitNew" /\ seen[u] < i}
  <1>1. /\ i \in 1..Len(rows) /\ i \notin Committed /\ i # Newest
        /\ Committed' = Committed \cup {i} /\ OpenRows' = OpenRows \cup {i}
        /\ i \notin OpenRows /\ ~Locked(i)
        /\ \A j \in 1..Len(rows) : rows'[j].path = rows[j].path
        /\ lpc[t] = "commitNew" /\ lpc'[t] = "commit"
        /\ \A u \in Threads : u # t => lpc'[u] = lpc[u]
    BY RowCommitted DEF Counted
  <1>2. UNCHANGED <<files, writer, seen, ending, faults, overlaps, deleting>>
    BY DEF CommitNew
  <1>3. Newest \in Nat /\ i \in Nat /\ \A j \in Committed : j \in Nat /\ j <= Newest
    <2>1. Newest \in Nat /\ i \in Nat
      BY <1>1, NewestIsLast, RowNumbers DEF LogInv
    <2> QED
      BY <2>1, NewestIsLast DEF LogInv, Committed
  <1>4. Newest' = i
    <2>1. \A j \in Committed' : j \in Nat /\ j <= i
      BY <1>1, <1>3
    <2>2. i \in Committed'
      BY <1>1
    <2>3. \A k \in Committed' : (\A j \in Committed' : j <= k) => k = i
      BY <1>3, <2>1, <2>2
    <2>4. Newest' = CHOOSE k \in Committed' : \A j \in Committed' : j <= k
      BY <2>2 DEF Newest
    <2> QED
      BY <2>1, <2>2, <2>3, <2>4
  <1>5. \A j : Locked(j)' <=> Locked(j)
    BY <1>2 DEF Locked
  <1>6. /\ LeftOpen' = OpenRows /\ LeftOpen = OpenRows \ {Newest}
        /\ Held' = {j \in OpenRows : Locked(j)}
    BY <1>1, <1>4, <1>5 DEF LeftOpen, Held
  <1>7. NewestLost' => t \in Losing
    <2>1. t \in Replacing
      BY <1>1 DEF Replacing
    <2> QED
      BY <1>1, <1>2, <1>4, <2>1 DEF NewestLost, Losing
  <1>8. \A u \in Threads : lpc[u] = "commitNew" => /\ seen[u] \in 1..Len(rows)
                                                   /\ seen[u] \in Nat /\ seen[u] # Newest
                                                   /\ u # t => seen[u] # i
    <2>1. \A u \in Threads : lpc[u] = "commitNew" => /\ seen[u] \in 1..Len(rows)
                                                     /\ rows[seen[u]].state = "pending"
                                                     /\ u # t => seen[u] # i
      BY <1>1 DEF LogInv, HandsFit, RowsTyped
    <2>2. \A j \in Committed : rows[j].state # "pending"
      BY DEF Committed
    <2>3. Newest = 0 \/ Newest \in Committed
      BY NewestIsLast DEF LogInv
    <2> QED
      BY <2>1, <2>2, <2>3
  <1>9. t \in Replacing /\ t \notin Overtaken /\ t \notin Replacing' /\ t \notin Overtaken'
    <2>1. ~(i < Newest)
      BY <1>3
    <2> QED
      BY <1>1, <2>1 DEF Overtaken, Replacing, Before
  <1>10. M \subseteq Replacing \ {t} /\ Overtaken \cap M = {}
    <2>1. \A u \in M : u \in Threads /\ lpc[u] = "commitNew" /\ seen[u] > Newest
      BY DEF Replacing, Before
    <2>2. \A u \in M : ~(seen[u] < Newest)
      BY <1>3, <1>8, <2>1
    <2> QED
      BY <2>2 DEF Overtaken
  <1>11. Overtaken' = Overtaken \cup M
    <2>1. Overtaken' = {u \in Threads : lpc'[u] = "commitNew" /\ seen[u] < i}
      BY <1>2, <1>4 DEF Overtaken
    <2>2. ASSUME NEW u \in Threads, lpc'[u] = "commitNew", seen[u] < i
          PROVE  u \in Overtaken \cup M
      <3>1. u # t /\ lpc[u] = "commitNew" /\ (seen[u] < Newest \/ seen[u] > Newest)
        BY <1>1, <1>3, <1>8, <2>2
      <3> QED
        BY <2>2, <3>1 DEF Overtaken, Replacing
    <2>3. ASSUME NEW u \in Overtaken \cup M
          PROVE  u \in Threads /\ lpc'[u] = "commitNew" /\ seen[u] < i
      <3>1. u \in Threads /\ u # t /\ lpc[u] = "commitNew"
        BY <1>9, <2>3 DEF Overtaken, Replacing
      <3>2. seen[u] < i
        BY <1>3, <1>8, <2>3, <3>1 DEF Overtaken
      <3> QED
        BY <1>1, <3>1, <3>2
    <2> QED
      BY <2>1, <2>2, <2>3
  <1>12. Replacing' = Replacing \ ({t} \cup M)
    <2>1. Replacing' = {u \in Threads : \/ lpc'[u] \in Before
                                        \/ lpc'[u] = "commitNew" /\ seen[u] > i}
      BY <1>2, <1>4 DEF Replacing
    <2>2. ASSUME NEW u \in Threads, u # t
          PROVE  u \in Replacing \ M <=> \/ lpc'[u] \in Before
                                         \/ lpc'[u] = "commitNew" /\ seen[u] > i
      <3>1. lpc'[u] = lpc[u]
        BY <1>1, <2>2
      <3>2. CASE lpc[u] = "commitNew"
        <4>1. seen[u] > i <=> seen[u] > Newest /\ ~(seen[u] < i)
          BY <1>3, <1>8, <2>2, <3>2
        <4> QED
          BY <2>2, <3>1, <3>2, <4>1 DEF Replacing, Before
      <3>3. CASE lpc[u] # "commitNew"
        BY <2>2, <3>1, <3>3 DEF Replacing
      <3> QED
        BY <3>2, <3>3
    <2>3. Replacing \subseteq Threads
      BY DEF Replacing
    <2> QED
      BY <1>9, <2>1, <2>2, <2>3
  <1>13. Fileless' = 1 => Fileless = 1
    <2>1. Losing' \subseteq Losing
      <3>1. \A u \in Replacing' : u \in Replacing /\ u \in Threads /\ u # t
        BY <1>12 DEF Replacing
      <3> QED
        BY <1>1, <1>2, <1>8, <3>1 DEF Losing
    <2> QED
      BY <1>7, <2>1 DEF Fileless
  <1>14. PICK s : s = Size'
    OBVIOUS
  <1>15. s = IF Newest \in OpenRows THEN Size ELSE Size - 1
    <2>1. IsFiniteSet(M) /\ Cardinality(M) \in Nat
      <3>1. M \in SUBSET Replacing
        OBVIOUS
      <3> HIDE DEF M
      <3>2. IsFiniteSet(M)
        BY <3>1, CountsFinite, FS_Subset
      <3> QED
        BY <3>2, FS_CardinalityType
    <2>2. Cardinality(Overtaken \cup M) = Cardinality(Overtaken) + Cardinality(M)
      <3>1. Cardinality(Overtaken \cap M) = 0
        BY <1>10, FS_EmptySet
      <3> HIDE DEF M
      <3>2. IsFiniteSet(Overtaken) /\ Cardinality(Overtaken) \in Nat
        BY CountsFinite
      <3>3. Cardinality(Overtaken \cup M)
              = Cardinality(Overtaken) + Cardinality(M) - Cardinality(Overtaken \cap M)
        BY ONLY <2>1, <3>2, FS_Union
      <3> QED
        BY ONLY <2>1, <3>1, <3>2, <3>3
    <2>3. Cardinality(Replacing \ ({t} \cup M)) = Cardinality(Replacing) - (Cardinality(M) + 1)
      <3>1. Cardinality({t} \cup M) = Cardinality(M) + 1
        <4>1. t \notin M /\ {t} \cup M = M \cup {t}
          OBVIOUS
        <4> HIDE DEF M
        <4> QED
          BY <2>1, <4>1, FS_AddElement
      <3>2. Replacing \cap ({t} \cup M) = {t} \cup M
        BY <1>9, <1>10
      <3>3. Cardinality(Replacing \ ({t} \cup M))
              = Cardinality(Replacing) - Cardinality(Replacing \cap ({t} \cup M))
        <4> HIDE DEF M
        <4> QED
          BY CountsFinite, FS_Difference
      <3> QED
        BY ONLY <3>1, <3>2, <3>3
    <2>4. Cardinality(OpenRows) =
            Cardinality(LeftOpen) + IF Newest \in OpenRows THEN 1 ELSE 0
      <3>1. CASE Newest \in OpenRows
        <4>1. OpenRows = LeftOpen \cup {Newest} /\ Newest \notin LeftOpen
          BY <1>6, <3>1
        <4> QED
          BY <3>1, <4>1, CountsFinite, FS_AddElement
      <3>2. CASE Newest \notin OpenRows
        BY <1>6, <3>2, CountsFinite
      <3> QED
        BY <3>1, <3>2
    <2>5. s = Cardinality(OpenRows) + Cardinality(Overtaken \cup M)
                + Cardinality(Replacing \ ({t} \cup M))
      BY <1>6, <1>11, <1>12, <1>14 DEF Size
    <2> HIDE DEF M
    <2> QED
      BY <2>1, <2>2, <2>3, <2>4, <2>5, CountsFinite DEF Size
  <1>16. s = Size /\ Spared = 1 => Spared' = 1
    <2>1. ASSUME s = Size PROVE Newest \in OpenRows
      BY <1>15, <2>1, NumbersFit DEF Numbers
    <2>2. ASSUME Newest \in OpenRows, Locked(Newest) PROVE Held' # {}
      BY <1>6, <2>2
    <2>3. ASSUME Newest \in OpenRows, ~Locked(Newest) PROVE t \in Careless
      BY <1>1, <1>9, <2>3 DEF Careless, Leaves, NewestOpen
    <2>4. Held \subseteq Held'
      BY <1>6 DEF Held
    <2> QED
      BY <2>1, <2>2, <2>3, <2>4 DEF Spared
  <1>17. s < Size \/ (s = Size /\ (Spared = 1 => Spared' = 1))
    BY <1>15, <1>16, NumbersFit DEF Numbers
  <1>18. s = Size /\ Fileless' = Fileless /\ Shut => Shut'
    <2>1. ASSUME NEW u \in Replacing, lpc[u] # "commitNew"
          PROVE  u \in Replacing' /\ lpc'[u] # "commitNew"
      <3>1. u # t /\ u \notin M /\ u \in Threads
        BY <1>1, <2>1 DEF Replacing
      <3> QED
        BY <1>1, <1>12, <2>1, <3>1
    <2> QED
      BY <1>2, <2>1 DEF Shut
  <1>19. \/ lpc'[Work] = lpc[Work]
         \/ /\ lpc[Work] \notin {"remove", "return", "lastEnd", "done"}
            /\ lpc'[Work] # "remove"
    BY <1>1, ProcLogAssumption DEF Threads
  <1>20. ~(Fileless = 0 /\ Fileless' = 1)
    BY <1>13
  <1> QED
    BY ONLY <1>2, <1>13, <1>14, <1>17, <1>18, <1>19, <1>20, FreeStep, LogInv, LogInv', Budget,
         Counted' => Counted

-----------------------------------------------------------------------------
(* Faults.                                                                  *)

\* A step with a new cause.
LEMMA CausedStep ==
  ASSUME LogInv, LogInv', Budget, Counted' => Counted, UNCHANGED deleting,
         faults' >= faults, overlaps' >= overlaps,
         faults' = faults + 1 \/ overlaps' = overlaps + 1,
         \/ lpc'[Work] = lpc[Work]
         \/ lpc[Work] = "lastEnd" /\ lpc'[Work] = "done"
         \/ /\ lpc[Work] \notin {"remove", "return", "lastEnd", "done"}
            /\ lpc'[Work] # "remove",
         NEW s, NEW p, NEW f, s = Size', p = Spared', f = Fileless',
         s <= Size + 1, s - p <= Size - Spared + 1, s - p + f <= Sum + 1,
         s - p + f = Sum + 1 /\ Spared = 0 /\ Late => p = 0 /\ (Shut => Shut')
  PROVE  Budget'
  <1>1. Numbers /\ Numbers'
    BY NumbersFit, NumbersNext
  <1>2. PICK m \in Nat, q \in {0, 1}, g \in {0, 1}, c \in Nat : Ledger(m, q, g, c)'
    BY <1>1, LedgerNext DEF HasLedger
  <1>3. m = s /\ q = p /\ g = f /\ c = Causes'
    BY <1>2 DEF Ledger
  <1>4. c >= Causes + 1
    BY <1>1, <1>3, CausesGrow
  <1>5. /\ Size \in Nat /\ Spared \in {0, 1} /\ Fileless \in {0, 1} /\ Causes \in Nat
        /\ Sum = Size - Spared + Fileless
    BY <1>1 DEF Numbers, Sum
  <1>6. /\ m <= Size + 1 /\ m - q <= Size - Spared + 1 /\ m - q + g <= Sum + 1
    BY <1>3
  <1>7. /\ m <= Size + (c - Causes) /\ m - q <= Size - Spared + (c - Causes)
        /\ m - q + g <= Sum + (c - Causes)
        /\ m - q + g = Sum + (c - Causes) => m - q + g = Sum + 1
    BY ONLY <1>4, <1>5, <1>6, m \in Nat, q \in {0, 1}, g \in {0, 1}, c \in Nat
  <1>8. m - q + g = Sum + (c - Causes) /\ Spared = 0 /\ Late => q = 0 /\ (Shut => Shut')
    BY <1>3, <1>7
  <1>9. Counted' => \/ deleting' = deleting
                    \/ deleting = "no" /\ deleting' = "told" /\ lpc[Work] # "remove"
    OBVIOUS
  <1> QED
    BY ONLY <1>1, <1>2, <1>7, <1>8, <1>9, BudgetKept, Budget, Counted' => Counted,
         \/ lpc'[Work] = lpc[Work]
         \/ lpc[Work] = "lastEnd" /\ lpc'[Work] = "done"
         \/ /\ lpc[Work] \notin {"remove", "return", "lastEnd", "done"}
            /\ lpc'[Work] # "remove"

\* What is rolled back: the thread is counted no more, and a row that it locked is open again.
LEMMA BudgetDbFails ==
  ASSUME LogInv, LogInv', LocksInv, Budget, Counted' => Counted, NEW t \in Threads, DbFails(t)
  PROVE  Budget'
  <1> SUFFICES ASSUME Counted'
               PROVE  Budget'
    BY DEF Budget
  <1>1. PICK from \in {"select", "endOld", "create", "commitNew", "commit"} :
          /\ Goes(t, from, IF t = Work THEN "idle" ELSE "broken")
          /\ ending' = [ending EXCEPT ![t] = 0] /\ seen' = [seen EXCEPT ![t] = 0]
          /\ rows' = IF from = "commitNew" THEN [rows EXCEPT ![seen[t]].state = "gone"] ELSE rows
          /\ faults' = faults + 1 /\ UNCHANGED <<files, writer, overlaps, deleting>>
    BY DEF DbFails, Returns, Fault, Counted
  <1>2. /\ lpc[t] = from /\ lpc'[t] \in {"idle", "broken"}
        /\ \A u \in Threads : u # t => lpc'[u] = lpc[u]
    BY <1>1, OneMoves
  <1>3. PICK n : n = rows' /\ n = IF from = "commitNew"
                                  THEN [rows EXCEPT ![seen[t]].state = "gone"] ELSE rows
    BY <1>1
  <1>4. from = "commitNew" => seen[t] \in 1..Len(rows) /\ rows[seen[t]].state = "pending"
    BY <1>2 DEF LogInv, RowsTyped, HandsFit
  <1>5. /\ Len(n) = Len(rows)
        /\ \A j \in 1..Len(rows) :
             /\ n[j].path = rows[j].path
             /\ n[j].state \in {"open", "ended"} \/ rows[j].state \in {"open", "ended"} =>
                  n[j].state = rows[j].state
    <2>1. CASE from = "commitNew"
      <3>1. rows \in Seq(RowType) /\ "gone" \in RowStates
        BY DEF LogInv, RowsTyped, RowStates
      <3> QED
        BY <1>3, <1>4, <2>1, <3>1, OneRow
    <2>2. CASE from # "commitNew"
      BY <1>3, <2>2
    <2> QED
      BY <2>1, <2>2
  <1>6. OpenRows' = OpenRows /\ Newest' = Newest
    <2>1. OpenRows' = OpenRows /\ Committed' = Committed
      BY <1>3, <1>5 DEF OpenRows, Committed
    <2> QED
      BY <2>1, NewestKept
  <1>7. LeftOpen' = LeftOpen
    BY <1>6 DEF LeftOpen
  <1>8. /\ ending'[t] = 0 /\ seen'[t] = 0
        /\ \A u \in Threads : u # t => ending'[u] = ending[u] /\ seen'[u] = seen[u]
    BY <1>1 DEF LogInv, RowsTyped
  <1>9. /\ DOMAIN files' = DOMAIN files /\ writer' = writer
        /\ \A j \in 1..Len(rows) : rows'[j].path = rows[j].path
    BY <1>1, <1>3, <1>5
  <1>10. PICK s \in Nat, p \in {0, 1}, f \in {0, 1}, c \in Nat : Ledger(s, p, f, c)'
    BY NumbersNext, LedgerNext DEF HasLedger
  <1>11. s = Size' /\ p = Spared' /\ f = Fileless'
    BY <1>10 DEF Ledger
  <1>12. ASSUME from = "commit" PROVE s = Size /\ f = Fileless
    <2>1. ending[t] # 0 => ending[t] # Newest
      <3>1. ending[t] = 0 \/ ending[t] < Newest
        BY <1>2, <1>12 DEF LocksInv, LocksFit, Counted
      <3>2. Newest \in Nat
        BY NewestIsLast, RowNumbers DEF LogInv
      <3> QED
        BY <3>1, <3>2
    <2>2. NewestOpen' <=> NewestOpen
      <3>1. 0 \notin OpenRows
        BY DEF OpenRows
      <3>2. Newest # 0 => (Locked(Newest)' <=> Locked(Newest))
        BY <1>6, <1>8, <2>1 DEF Locked
      <3> QED
        BY <1>6, <3>1, <3>2 DEF NewestOpen
    <2>3. NewestLost' <=> NewestLost
      <3>1. NewestOpen => Newest \in 1..Len(rows)
        BY DEF NewestOpen, OpenRows
      <3> QED
        BY <1>6, <1>9, <2>2, <3>1 DEF NewestLost
    <2>4. \A u \in Threads : \/ lpc'[u] = lpc[u] /\ seen'[u] = seen[u]
                             \/ {lpc[u], lpc'[u]} \subseteq Uncounted
      BY <1>2, <1>8, <1>12 DEF Uncounted
    <2>5. Overtaken' = Overtaken /\ Replacing' = Replacing /\ Fileless' = Fileless
      BY ONLY <1>6, <1>9, <2>2, <2>3, <2>4, LogInv, OthersCount
    <2> QED
      BY <1>7, <1>11, <2>5 DEF Size
  <1>13. ASSUME from # "commit" PROVE s = Size - 1
    <2>1. (t \in Replacing /\ t \notin Overtaken) \/ (t \in Overtaken /\ t \notin Replacing)
      <3>1. CASE from # "commitNew"
        BY <1>2, <1>13, <3>1 DEF Replacing, Overtaken, Before
      <3>2. CASE from = "commitNew"
        <4>1. seen[t] # Newest
          BY <1>4, <3>2, NewestIsLast DEF LogInv, Committed
        <4>2. Newest \in Nat /\ seen[t] \in Nat
          BY <1>4, <3>2, NewestIsLast, RowNumbers DEF LogInv
        <4>3. (seen[t] < Newest /\ ~(seen[t] > Newest)) \/ (seen[t] > Newest /\ ~(seen[t] < Newest))
          BY <4>1, <4>2
        <4> QED
          BY <1>2, <3>2, <4>3 DEF Replacing, Overtaken, Before
      <3> QED
        BY <3>1, <3>2
    <2>2. Overtaken' = Overtaken \ {t} /\ Replacing' = Replacing \ {t}
      BY <1>2, <1>6, <1>8 DEF Overtaken, Replacing, Before
    <2>3. s = Cardinality(LeftOpen) + Cardinality(Overtaken \ {t}) + Cardinality(Replacing \ {t})
      BY <1>7, <1>11, <2>2 DEF Size
    <2>4. /\ Cardinality(Overtaken \ {t}) =
               IF t \in Overtaken THEN Cardinality(Overtaken) - 1 ELSE Cardinality(Overtaken)
          /\ Cardinality(Replacing \ {t}) =
               IF t \in Replacing THEN Cardinality(Replacing) - 1 ELSE Cardinality(Replacing)
      BY CountsFinite, FS_RemoveElement
    <2>5. /\ Cardinality(LeftOpen) \in Nat /\ Cardinality(Overtaken) \in Nat
          /\ Cardinality(Replacing) \in Nat
      BY CountsFinite
    <2> QED
      BY ONLY <2>1, <2>3, <2>4, <2>5 DEF Size
  <1>14. s = Size - 1 \/ (s = Size /\ f = Fileless)
    BY <1>12, <1>13
  <1>15. /\ Size \in Nat /\ Spared \in {0, 1} /\ Fileless \in {0, 1}
         /\ Sum = Size - Spared + Fileless
    BY NumbersFit DEF Numbers, Sum
  <1>16. /\ s <= Size + 1 /\ s - p <= Size - Spared + 1 /\ s - p + f <= Sum + 1
         /\ ~(s - p + f = Sum + 1 /\ Spared = 0)
    BY ONLY <1>14, <1>15, s \in Nat, p \in {0, 1}, f \in {0, 1}
  <1>17. \/ lpc'[Work] = lpc[Work]
         \/ /\ lpc[Work] \notin {"remove", "return", "lastEnd", "done"}
            /\ lpc'[Work] # "remove"
    BY <1>2, ProcLogAssumption DEF Threads
  <1>18. faults' >= faults /\ overlaps' >= overlaps
    <2>1. faults \in Nat /\ overlaps \in Nat
      BY NumbersFit DEF Numbers
    <2>2. faults + 1 >= faults /\ overlaps >= overlaps
      BY <2>1
    <2> QED
      BY <1>1, <2>2
  <1> QED
    BY ONLY <1>1, <1>11, <1>16, <1>17, <1>18, CausedStep, LogInv, LogInv', Budget,
         Counted' => Counted

\* Either the file of the newest log goes, or the one of a row that is about to replace it.
LEMMA BudgetFileRemoved ==
  ASSUME LogInv, LogInv', Budget, Counted' => Counted, FileRemoved
  PROVE  Budget'
  <1>1. /\ UNCHANGED <<rows, writer, lpc, seen, ending, overlaps, deleting>>
        /\ faults' = faults + 1 /\ DOMAIN files' \subseteq DOMAIN files
    BY DEF FileRemoved, Fault
  <1>2. OpenRows' = OpenRows /\ Newest' = Newest
    BY <1>1, SameRowSets
  <1>3. LeftOpen' = LeftOpen /\ Held' = Held /\ (NewestOpen' <=> NewestOpen)
    BY <1>1, <1>2, SameLeftOpen
  <1>4. Overtaken' = Overtaken /\ Replacing' = Replacing
    BY <1>1, <1>2 DEF Overtaken, Replacing
  <1>5. PICK s \in Nat, p \in {0, 1}, f \in {0, 1}, c \in Nat : Ledger(s, p, f, c)'
    BY NumbersNext, LedgerNext DEF HasLedger
  <1>6. s = Size' /\ p = Spared' /\ f = Fileless'
    BY <1>5 DEF Ledger
  <1>7. s = Size
    BY <1>3, <1>4, <1>6 DEF Size
  <1>8. ~(Spared = 1 /\ p = 0 /\ Fileless = 0 /\ f = 1)
    <2> SUFFICES ASSUME Spared = 1, p = 0, f = 1 PROVE FALSE
      OBVIOUS
    <2>1. Held = {} /\ Replacing # {} /\ Careless = {} /\ Careless' # {}
      BY <1>3, <1>4, <1>6 DEF Spared
    <2>2. PICK u \in Replacing : Leaves(u)' /\ ~Leaves(u)
      BY <1>4, <2>1 DEF Careless
    <2>3. NewestOpen
      BY <1>1, <1>2, <1>3, <2>2 DEF Leaves, NewestLost
    <2>4. PICK v \in Replacing : lpc[v] = "commitNew"
      BY <1>1, <1>4, <1>6, <2>1 DEF Fileless, Losing
    <2> QED
      BY <2>1, <2>3, <2>4 DEF Careless, Leaves
  <1>9. /\ Size \in Nat /\ Spared \in {0, 1} /\ Fileless \in {0, 1}
        /\ Sum = Size - Spared + Fileless
    BY NumbersFit DEF Numbers, Sum
  <1>10. /\ s <= Size + 1 /\ s - p <= Size - Spared + 1 /\ s - p + f <= Sum + 1
         /\ s - p + f = Sum + 1 /\ Spared = 0 => p = 0 /\ f = 1
    BY ONLY <1>7, <1>8, <1>9, s \in Nat, p \in {0, 1}, f \in {0, 1}
  <1>11. f = 1 => Shut'
    BY <1>6 DEF Shut
  <1>12. faults' >= faults /\ overlaps' >= overlaps
    <2>1. faults \in Nat /\ overlaps \in Nat
      BY NumbersFit DEF Numbers
    <2>2. faults + 1 >= faults /\ overlaps >= overlaps
      BY <2>1
    <2> QED
      BY <1>1, <2>2
  <1> QED
    BY ONLY <1>1, <1>6, <1>10, <1>11, <1>12, CausedStep, LogInv, LogInv', Budget,
         Counted' => Counted

-----------------------------------------------------------------------------
(* cycle, and the end of Work.                                              *)

\* SetLogEndTime in a transaction of its own.
LEMMA EndsRow ==
  ASSUME LogInv, rows' = SetEnd(currentLog), ~Locked(currentLog), UNCHANGED <<files, ending>>
  PROVE  /\ OpenRows' = OpenRows \ {currentLog} /\ Newest' = Newest
         /\ LeftOpen' = LeftOpen \ {currentLog} /\ Held' = Held
         /\ (NewestOpen' => NewestOpen) /\ (NewestLost' => NewestLost)
         /\ \A j \in 1..Len(rows) : rows'[j].path = rows[j].path
  <1>1. PICK n : n = rows' /\ n = SetEnd(currentLog)
    OBVIOUS
  <1>2. /\ Len(n) = Len(rows)
        /\ \A j \in 1..Len(rows) :
             /\ n[j].path = rows[j].path
             /\ n[j].state = IF j = currentLog /\ rows[j].state = "open" THEN "ended"
                             ELSE rows[j].state
    BY <1>1, SetEndKeeps DEF LogInv
  <1>3. OpenRows' = OpenRows \ {currentLog} /\ Newest' = Newest
    <2>1. OpenRows' = OpenRows \ {currentLog} /\ Committed' = Committed
      BY <1>1, <1>2 DEF OpenRows, Committed
    <2> QED
      BY <2>1, NewestKept
  <1>4. \A i : Locked(i)' <=> Locked(i)
    BY DEF Locked
  <1>5. LeftOpen' = LeftOpen \ {currentLog} /\ Held' = Held
    BY <1>3, <1>4 DEF LeftOpen, Held
  <1>6. NewestOpen' => NewestOpen
    BY <1>3, <1>4 DEF NewestOpen
  <1>7. NewestLost' => NewestLost
    <2>1. NewestOpen => Newest \in 1..Len(rows)
      BY DEF NewestOpen, OpenRows
    <2> QED
      BY <1>1, <1>2, <1>3, <1>6, <2>1 DEF NewestLost
  <1> QED
    BY <1>1, <1>2, <1>3, <1>5, <1>6, <1>7

\* FinishLog ends a row, or fails.
LEMMA BudgetFinishes ==
  ASSUME LogInv, LogInv', Budget, Counted' => Counted, Finishes
  PROVE  Budget'
  <1>1. /\ Work \in Threads /\ UNCHANGED <<files, writer, seen, ending, overlaps, deleting>>
        /\ \/ /\ ~Locked(currentLog) /\ Goes(Work, "end", "select")
              /\ rows' = SetEnd(currentLog) /\ faults' = faults
           \/ /\ Goes(Work, "end", "idle") /\ rows' = rows
              /\ faults' = faults \/ faults' = faults + 1
    BY DEF Finishes, EndsCurrent, Fault, Threads
  <1>2. PICK s \in Nat, p \in {0, 1}, f \in {0, 1}, c \in Nat : Ledger(s, p, f, c)'
    BY NumbersNext, LedgerNext DEF HasLedger
  <1>3. s = Size' /\ p = Spared' /\ f = Fileless'
    BY <1>2 DEF Ledger
  <1>4. /\ Size \in Nat /\ Spared \in {0, 1} /\ Fileless \in {0, 1}
        /\ Sum = Size - Spared + Fileless
    BY NumbersFit DEF Numbers, Sum
  <1>5. CASE ~Locked(currentLog) /\ Goes(Work, "end", "select")
             /\ rows' = SetEnd(currentLog) /\ faults' = faults
    <2>1. /\ lpc[Work] = "end" /\ lpc'[Work] = "select"
          /\ \A u \in Threads : u # Work => lpc'[u] = lpc[u]
      BY <1>1, <1>5, OneMoves
    <2>2. /\ Newest' = Newest /\ LeftOpen' = LeftOpen \ {currentLog} /\ Held' = Held
          /\ (NewestOpen' => NewestOpen) /\ (NewestLost' => NewestLost)
          /\ \A j \in 1..Len(rows) : rows'[j].path = rows[j].path
      BY <1>1, <1>5, EndsRow
    <2>3. Overtaken' = Overtaken /\ Replacing' = Replacing /\ Work \in Replacing
      BY <1>1, <2>1, <2>2 DEF Overtaken, Replacing, Before
    <2>4. \A u \in Threads : Leaves(u)' => Leaves(u)
      BY <1>1, <2>1, <2>2 DEF Leaves
    <2>5. Careless' \subseteq Careless
      BY <2>3, <2>4 DEF Careless, Replacing
    <2>6. Losing' \subseteq Losing
      <3>1. \A u \in Replacing : lpc[u] = "commitNew" => seen[u] \in 1..Len(rows)
        BY DEF Replacing, LogInv, HandsFit, RowsTyped
      <3> QED
        BY <1>1, <2>1, <2>2, <2>3, <3>1 DEF Losing, Replacing
    <2>7. (Spared = 1 => Spared' = 1) /\ (Fileless' = 1 => Fileless = 1)
      BY <2>2, <2>3, <2>5, <2>6 DEF Spared, Fileless
    <2>8. s = Size \/ s = Size - 1
      <3>1. s = Cardinality(LeftOpen \ {currentLog}) + Cardinality(Overtaken)
                  + Cardinality(Replacing)
        BY <1>3, <2>2, <2>3 DEF Size
      <3>2. \/ Cardinality(LeftOpen \ {currentLog}) = Cardinality(LeftOpen)
            \/ Cardinality(LeftOpen \ {currentLog}) = Cardinality(LeftOpen) - 1
        BY CountsFinite, FS_RemoveElement
      <3> QED
        BY ONLY <3>1, <3>2, CountsFinite, LogInv DEF Size
    <2>9. s < Size \/ (s = Size /\ (Spared = 1 => Spared' = 1))
      BY <1>4, <2>7, <2>8
    <2>10. ~Late /\ lpc[Work] # "remove" /\ lpc'[Work] # "remove"
      BY <2>1 DEF Late
    <2> QED
      BY ONLY <1>1, <1>3, <1>5, <2>7, <2>9, <2>10, FreeStep, LogInv, LogInv', Budget,
           Counted' => Counted DEF Late
  <1>6. CASE Goes(Work, "end", "idle") /\ rows' = rows
             /\ (faults' = faults \/ faults' = faults + 1)
    <2>1. /\ lpc[Work] = "end" /\ lpc'[Work] = "idle"
          /\ \A u \in Threads : u # Work => lpc'[u] = lpc[u]
      BY <1>1, <1>6, OneMoves
    <2>2. /\ s = Size - 1 /\ s < Size
          /\ Fileless' = 1 => Fileless = 1 \/ (s < Size /\ Spared' = Spared)
      <3>1. lpc[Work] \in Before /\ lpc'[Work] \in Uncounted
        BY <2>1 DEF Before, Uncounted
      <3> QED
        BY ONLY <1>1, <1>3, <1>6, <2>1, <3>1, GivesUp, LogInv
    <2>3. ~Late /\ lpc[Work] # "remove" /\ lpc'[Work] # "remove"
      BY <2>1 DEF Late
    <2>4. CASE faults' = faults
      BY ONLY <1>1, <1>3, <2>2, <2>3, <2>4, FreeStep, LogInv, LogInv', Budget,
           Counted' => Counted DEF Late
    <2>5. CASE faults' = faults + 1
      <3>1. s <= Size + 1 /\ s - p <= Size - Spared + 1 /\ s - p + f <= Sum + 1
        BY ONLY <1>4, <2>2, s \in Nat, p \in {0, 1}, f \in {0, 1}
      <3>2. faults' >= faults /\ overlaps' >= overlaps
        <4>1. faults \in Nat /\ overlaps \in Nat
          BY NumbersFit DEF Numbers
        <4>2. faults + 1 >= faults /\ overlaps >= overlaps
          BY <4>1
        <4> QED
          BY <1>1, <2>5, <4>2
      <3> QED
        BY ONLY <1>1, <1>3, <2>3, <2>5, <3>1, <3>2, CausedStep, LogInv, LogInv', Budget,
             Counted' => Counted DEF Late
    <2> QED
      BY <1>6, <2>4, <2>5
  <1> QED
    BY <1>1, <1>5, <1>6

\* The last FinishLog of Work.
LEMMA BudgetLastEnds ==
  ASSUME LogInv, LogInv', Budget, Counted' => Counted, LastEnds
  PROVE  Budget'
  <1>1. /\ Work \in Threads /\ Goes(Work, "lastEnd", "done")
        /\ UNCHANGED <<files, writer, seen, ending, overlaps, deleting>>
        /\ \/ ~Locked(currentLog) /\ rows' = SetEnd(currentLog) /\ faults' = faults
           \/ rows' = rows /\ (faults' = faults \/ faults' = faults + 1)
    BY DEF LastEnds, EndsCurrent, Fault, Threads
  <1>2. /\ lpc[Work] = "lastEnd" /\ lpc'[Work] = "done"
        /\ \A u \in Threads : u # Work => lpc'[u] = lpc[u]
    BY <1>1, OneMoves
  <1>3. \A u \in Threads : lpc'[u] = lpc[u] \/ {lpc[u], lpc'[u]} \subseteq Uncounted
    BY <1>2 DEF Uncounted
  <1>4. CASE ~Locked(currentLog) /\ rows' = SetEnd(currentLog) /\ faults' = faults
    <2>1. /\ Newest' = Newest /\ LeftOpen' = LeftOpen \ {currentLog} /\ Held' = Held
          /\ (NewestOpen' => NewestOpen) /\ (NewestLost' => NewestLost)
          /\ \A j \in 1..Len(rows) : rows'[j].path = rows[j].path
      BY <1>1, <1>4, EndsRow
    <2>2. Overtaken' = Overtaken /\ Replacing' = Replacing
      BY <1>1, <1>3, <2>1 DEF Overtaken, Replacing, Before, Uncounted
    <2>3. \A u \in Replacing : u \in Threads /\ lpc'[u] = lpc[u]
      BY <1>3 DEF Replacing, Before, Uncounted
    <2>4. \A u \in Replacing : Leaves(u)' => Leaves(u)
      BY <1>1, <2>1, <2>3 DEF Leaves
    <2>5. Careless' \subseteq Careless
      BY <2>2, <2>4 DEF Careless
    <2>6. Losing' = Losing
      <3>1. \A u \in Replacing : lpc[u] = "commitNew" => seen[u] \in 1..Len(rows)
        BY <2>3 DEF LogInv, HandsFit, RowsTyped
      <3> QED
        BY <1>1, <2>1, <2>2, <2>3, <3>1 DEF Losing
    <2>7. (Spared = 1 => Spared' = 1) /\ (Fileless' = 1 => Fileless = 1)
      BY <2>1, <2>2, <2>5, <2>6 DEF Spared, Fileless
    <2>8. Fileless' = Fileless /\ Shut => Shut'
      BY <1>1, <2>2, <2>3 DEF Shut
    <2>9. PICK s : s = Size'
      OBVIOUS
    <2>10. s = Size \/ s = Size - 1
      <3>1. s = Cardinality(LeftOpen \ {currentLog}) + Cardinality(Overtaken)
                  + Cardinality(Replacing)
        BY <2>1, <2>2, <2>9 DEF Size
      <3>2. \/ Cardinality(LeftOpen \ {currentLog}) = Cardinality(LeftOpen)
            \/ Cardinality(LeftOpen \ {currentLog}) = Cardinality(LeftOpen) - 1
        BY CountsFinite, FS_RemoveElement
      <3> QED
        BY ONLY <3>1, <3>2, CountsFinite, LogInv DEF Size
    <2>11. s < Size \/ (s = Size /\ (Spared = 1 => Spared' = 1))
      BY <2>7, <2>10, NumbersFit DEF Numbers
    <2> QED
      BY ONLY <1>1, <1>2, <1>4, <2>7, <2>8, <2>9, <2>11, FreeStep, LogInv, LogInv', Budget,
           Counted' => Counted
  <1>5. CASE rows' = rows /\ (faults' = faults \/ faults' = faults + 1)
    <2>1. faults' >= faults /\ overlaps' >= overlaps
      <3>1. faults \in Nat /\ overlaps \in Nat
        BY NumbersFit DEF Numbers
      <3>2. faults + 1 >= faults /\ faults >= faults /\ overlaps >= overlaps
        BY <3>1
      <3> QED
        BY <1>1, <1>5, <3>2
    <2> QED
      BY ONLY <1>1, <1>2, <1>3, <1>5, <2>1, UncountedKeeps, LogInv, LogInv', Budget,
           Counted' => Counted
  <1> QED
    BY <1>1, <1>4, <1>5

\* Work closes the file.
LEMMA BudgetWorkReturns ==
  ASSUME LogInv, LogInv', Budget, Counted' => Counted, WorkReturns
  PROVE  Budget'
  <1> SUFFICES ASSUME Counted'
               PROVE  Budget'
    BY DEF Budget
  <1>1. /\ Work \in Threads /\ Goes(Work, "return", IF writer = -1 THEN "done" ELSE "lastEnd")
        /\ UNCHANGED <<rows, files, seen, ending, faults, overlaps, deleting>>
    BY DEF WorkReturns, Threads
  <1>2. /\ lpc[Work] = "return" /\ lpc'[Work] \in {"done", "lastEnd"}
        /\ \A u \in Threads : u # Work => lpc'[u] = lpc[u]
    BY <1>1, OneMoves
  <1>3. Size' = Size /\ Spared' = Spared /\ Fileless' = Fileless
    <2>1. \A u \in Threads : lpc'[u] = lpc[u] \/ {lpc[u], lpc'[u]} \subseteq Uncounted
      BY <1>2 DEF Uncounted
    <2> QED
      BY ONLY <1>1, <2>1, NothingCounts, LogInv
  <1>4. Sum' = Sum /\ Causes' = Causes
    BY <1>1, <1>3 DEF Sum, Causes
  <1>5. Sum > Causes => /\ deleting = "told" /\ Spared = 0 /\ Sum = Causes + 1 /\ Fileless = 1
    BY <1>2 DEF Budget
  <1>6. Fileless' = 1 => Shut'
    BY DEF Shut
  <1> QED
    BY ONLY <1>1, <1>2, <1>3, <1>4, <1>5, <1>6 DEF Budget

\* Work removes what is in the folder.
LEMMA BudgetRemovesFolder ==
  ASSUME LogInv, LogInv', Budget, Counted' => Counted, RemovesFolder
  PROVE  Budget'
  <1> SUFFICES ASSUME Counted'
               PROVE  Budget'
    BY DEF Budget
  <1>1. /\ Work \in Threads /\ Goes(Work, "remove", "return")
        /\ UNCHANGED <<rows, seen, ending, faults, overlaps, deleting>>
    BY DEF RemovesFolder, Threads
  <1>2. /\ lpc[Work] = "remove" /\ lpc'[Work] = "return"
        /\ \A u \in Threads : u # Work => lpc'[u] = lpc[u]
    BY <1>1, OneMoves
  <1>3. deleting = "told" /\ Size <= Causes
    BY <1>2 DEF Budget
  <1>4. Newest' = Newest /\ LeftOpen' = LeftOpen
    BY <1>1, SameRowSets, SameLeftOpen
  <1>5. Overtaken' = Overtaken /\ Replacing' = Replacing
    BY <1>1, <1>2, <1>4 DEF Overtaken, Replacing, Before
  <1>6. Size' = Size /\ Causes' = Causes
    BY <1>1, <1>4, <1>5 DEF Size, Causes
  <1>7. PICK p \in {0, 1}, f \in {0, 1} : p = Spared' /\ f = Fileless'
    BY DEF Spared, Fileless
  <1>8. Sum' = Size - p + f
    BY <1>6, <1>7 DEF Sum
  <1>9. Size - p + f > Causes => p = 0 /\ f = 1 /\ Size - p + f = Causes + 1
    <2>1. Size \in Nat /\ Causes \in Nat
      BY NumbersFit DEF Numbers
    <2> QED
      BY ONLY <1>3, <2>1, p \in {0, 1}, f \in {0, 1}
  <1> QED
    BY ONLY <1>1, <1>2, <1>3, <1>6, <1>7, <1>8, <1>9 DEF Budget

-----------------------------------------------------------------------------
(* Steps that begin a use of the logger.                                    *)

\* While nobody uses the logger nothing is on the way.
LEMMA NobodyCounts ==
  ASSUME LocksInv, Counted, \A u \in Threads : lpc[u] \in Resting
  PROVE  /\ Replacing = {} /\ Overtaken = {} /\ Held = {} /\ Careless = {} /\ Losing = {}
         /\ Spared = 0 /\ Fileless = IF NewestLost THEN 1 ELSE 0
  <1>1. Replacing = {} /\ Overtaken = {}
    BY DEF Replacing, Overtaken, Resting, Before
  <1>2. \A u \in Threads : ending[u] = 0
    BY DEF LocksInv, LocksFit, Counted, Resting
  <1>3. Held = {}
    BY <1>2 DEF Held, Locked
  <1>4. Careless = {} /\ Losing = {}
    BY <1>1 DEF Careless, Losing
  <1> QED
    BY <1>1, <1>3, <1>4 DEF Spared, Fileless

\* A use that begins is counted as an overlap if somebody else is at work.
LEMMA OverlapCounted ==
  ASSUME LogInv, Counted, NEW t \in Threads, NEW to, Starts(t, to)
  PROVE  /\ lpc[t] = "idle" /\ lpc'[t] = to /\ \A u \in Threads : u # t => lpc'[u] = lpc[u]
         /\ \/ overlaps' = overlaps + 1
            \/ overlaps' = overlaps /\ \A u \in Threads : lpc[u] \in Resting
  <1>1. Goes(t, "idle", to)
    BY DEF Starts
  <1>2. lpc[t] = "idle" /\ lpc'[t] = to /\ \A u \in Threads : u # t => lpc'[u] = lpc[u]
    BY <1>1, OneMoves
  <1>3. CASE \E u \in Threads \ {t} : lpc[u] \notin Resting
    BY <1>2, <1>3 DEF Starts, Counted
  <1>4. CASE ~\E u \in Threads \ {t} : lpc[u] \notin Resting
    <2>1. \A u \in Threads : lpc[u] \in Resting
      BY <1>2, <1>4 DEF Resting
    <2>2. overlaps' = overlaps + 0 /\ overlaps \in Nat
      BY <1>4, NumbersFit DEF Starts, Numbers
    <2>3. overlaps + 0 = overlaps
      BY <2>2
    <2> QED
      BY <1>2, <2>1, <2>2, <2>3
  <1> QED
    BY <1>2, <1>3, <1>4

\* Work begins the deletion of the folder.
LEMMA BudgetDeletesFolder ==
  ASSUME LogInv, LogInv', LocksInv, Budget, Counted' => Counted, DeletesFolder
  PROVE  Budget'
  <1> SUFFICES ASSUME Counted'
               PROVE  Budget'
    BY DEF Budget
  <1>1. /\ Work \in Threads /\ Starts(Work, "remove")
        /\ UNCHANGED <<rows, seen, ending, faults, deleting>> /\ deleting # "no"
    BY DEF DeletesFolder, Threads
  <1>2. /\ lpc[Work] = "idle" /\ lpc'[Work] = "remove"
        /\ \A u \in Threads : u # Work => lpc'[u] = lpc[u]
        /\ \/ overlaps' = overlaps + 1
           \/ overlaps' = overlaps /\ \A u \in Threads : lpc[u] \in Resting
    BY <1>1, OverlapCounted
  <1>3. deleting' = "told"
    BY <1>1 DEF Counted, LogInv, FlagsTyped
  <1>4. Newest' = Newest /\ LeftOpen' = LeftOpen
    BY <1>1, SameRowSets, SameLeftOpen
  <1>5. Overtaken' = Overtaken /\ Replacing' = Replacing
    BY <1>1, <1>2, <1>4 DEF Overtaken, Replacing, Before
  <1>6. Size' = Size
    BY <1>4, <1>5 DEF Size
  <1>7. Sum <= Causes
    <2>1. ~(Sum > Causes)
      BY <1>2 DEF Budget
    <2> QED
      BY <2>1, NumbersFit DEF Numbers
  <1>8. PICK c \in Nat : c = Causes'
    BY NumbersNext DEF Numbers
  <1>9. Size <= c
    <2>1. /\ Size \in Nat /\ Spared \in {0, 1} /\ Fileless \in {0, 1} /\ Causes \in Nat
          /\ faults \in Nat /\ overlaps \in Nat /\ Causes = faults + overlaps
          /\ Sum = Size - Spared + Fileless
      BY NumbersFit DEF Numbers, Sum, Causes
    <2>2. CASE overlaps' = overlaps + 1
      <3>1. c = faults + (overlaps + 1)
        BY <1>1, <1>8, <2>2 DEF Causes
      <3> QED
        BY ONLY <1>7, <2>1, <3>1
    <2>3. CASE overlaps' = overlaps /\ \A u \in Threads : lpc[u] \in Resting
      <3>1. c = faults + overlaps
        BY <1>1, <1>8, <2>3 DEF Causes
      <3>2. Spared = 0
        BY <2>3, NobodyCounts
      <3> QED
        BY ONLY <1>7, <2>1, <3>1, <3>2
    <2> QED
      BY <1>2, <2>2, <2>3
  <1> QED
    BY ONLY <1>2, <1>3, <1>6, <1>8, <1>9 DEF Budget

\* A thread enters retrieveCurrentLog, or Work FinishLog.
LEMMA BudgetEnters ==
  ASSUME LogInv, LogInv', LocksInv, Budget, Counted' => Counted,
         NEW t \in Threads, NEW to \in {"select", "end"}, Starts(t, to), t = Work \/ writer = -1,
         UNCHANGED <<rows, files, seen, ending, faults, deleting>>
  PROVE  Budget'
  <1> SUFFICES ASSUME Counted'
               PROVE  Budget'
    BY DEF Budget
  <1>1. /\ lpc[t] = "idle" /\ lpc'[t] = to /\ \A u \in Threads : u # t => lpc'[u] = lpc[u]
        /\ \/ overlaps' = overlaps + 1
           \/ overlaps' = overlaps /\ \A u \in Threads : lpc[u] \in Resting
    BY OverlapCounted
  <1>2. OpenRows' = OpenRows /\ Newest' = Newest
    BY SameRowSets
  <1>3. LeftOpen' = LeftOpen /\ Held' = Held /\ (NewestOpen' <=> NewestOpen)
    BY <1>2, SameLeftOpen
  <1>4. NewestLost' <=> NewestLost
    BY <1>2, <1>3 DEF NewestLost
  <1>5. Overtaken' = Overtaken /\ Replacing' = Replacing \cup {t} /\ t \notin Replacing
    BY <1>1, <1>2 DEF Overtaken, Replacing, Before
  <1>6. \A u \in Replacing : u \in Threads /\ u # t /\ lpc'[u] = lpc[u]
    BY <1>1, <1>5 DEF Replacing
  <1>7. \A u \in Replacing : Leaves(u)' <=> Leaves(u)
    BY <1>2, <1>3, <1>4, <1>6 DEF Leaves
  <1>8. Leaves(t)' <=> NewestLost
    BY <1>1, <1>4 DEF Leaves
  <1>9. Careless' = Careless \cup {u \in {t} : NewestLost}
    BY <1>5, <1>7, <1>8 DEF Careless
  <1>10. Losing' = Losing
    BY <1>1, <1>5, <1>6 DEF Losing
  <1>11. Shut'
    BY <1>1, <1>5 DEF Shut
  <1>12. PICK s \in Nat, p \in {0, 1}, f \in {0, 1}, c \in Nat : Ledger(s, p, f, c)'
    BY NumbersNext, LedgerNext DEF HasLedger
  <1>13. s = Size' /\ p = Spared' /\ f = Fileless' /\ c = Causes'
    BY <1>12 DEF Ledger
  <1>14. /\ Size \in Nat /\ Spared \in {0, 1} /\ Fileless \in {0, 1} /\ Causes \in Nat
         /\ Sum = Size - Spared + Fileless
    BY NumbersFit DEF Numbers, Sum
  <1>15. s = Size + 1
    <2>1. Cardinality(Replacing \cup {t}) = Cardinality(Replacing) + 1
      BY <1>5, CountsFinite, FS_AddElement
    <2>2. s = Cardinality(LeftOpen) + Cardinality(Overtaken) + Cardinality(Replacing \cup {t})
      BY <1>3, <1>5, <1>13 DEF Size
    <2> QED
      BY <2>1, <2>2, CountsFinite DEF Size
  <1>16. lpc'[Work] = lpc[Work] \/ (lpc[Work] = "idle" /\ lpc'[Work] \in {"select", "end"})
    BY <1>1, ProcLogAssumption DEF Threads
  <1>17. CASE overlaps' = overlaps + 1
    <2>1. Spared = 1 => p = 1
      <3>1. Replacing # {} /\ Careless = {} => ~NewestLost
        BY DEF Careless, Leaves
      <3> QED
        BY <1>3, <1>5, <1>9, <1>13, <3>1 DEF Spared
    <2>2. f = 1 => Fileless = 1
      BY <1>5, <1>10, <1>13 DEF Fileless
    <2>3. /\ s <= Size + 1 /\ s - p <= Size - Spared + 1 /\ s - p + f <= Sum + 1
          /\ s - p + f = Sum + 1 /\ Spared = 0 => p = 0
      BY ONLY <1>14, <1>15, <2>1, <2>2, p \in {0, 1}, f \in {0, 1}
    <2>4. faults' >= faults /\ overlaps' >= overlaps
      <3>1. faults \in Nat /\ overlaps \in Nat
        BY NumbersFit DEF Numbers
      <3>2. overlaps + 1 >= overlaps /\ faults >= faults
        BY <3>1
      <3> QED
        BY <1>17, <3>2
    <2>5. \/ lpc'[Work] = lpc[Work]
          \/ /\ lpc[Work] \notin {"remove", "return", "lastEnd", "done"}
             /\ lpc'[Work] # "remove"
      BY <1>16
    <2> QED
      BY ONLY <1>11, <1>13, <1>17, <2>3, <2>4, <2>5, CausedStep, LogInv, LogInv', Budget,
           Counted' => Counted, UNCHANGED deleting
  <1>18. CASE overlaps' = overlaps /\ \A u \in Threads : lpc[u] \in Resting
    <2>1. /\ Replacing = {} /\ Held = {} /\ Careless = {} /\ Losing = {}
          /\ Spared = 0 /\ Fileless = IF NewestLost THEN 1 ELSE 0
      BY <1>18, NobodyCounts
    <2>2. p = (IF NewestLost THEN 0 ELSE 1) /\ f = 0
      BY <1>3, <1>5, <1>9, <1>10, <1>13, <2>1 DEF Spared, Fileless
    <2>3. s - p + f = Sum
      BY ONLY <1>14, <1>15, <2>1, <2>2
    <2>4. Sum' = Sum /\ c = Causes
      BY <1>13, <1>18, <2>3 DEF Sum, Causes
    <2>5. Work \in Threads /\ lpc[Work] \in {"idle", "done"}
      BY <1>18 DEF LogInv, PointsTyped, Resting, Threads
    <2>6. Sum > Causes => /\ lpc[Work] = "done" /\ deleting = "told" /\ Spared = 0
                          /\ Sum = Causes + 1 /\ Shut
      BY <2>5 DEF Budget
    <2>7. Sum > Causes => p = 0 /\ lpc'[Work] = "done"
      <3>1. Sum > Causes => Fileless = 1 /\ lpc'[Work] = "done"
        BY <1>1, <1>16, <2>1, <2>6 DEF Shut
      <3> QED
        BY <2>1, <2>2, <3>1
    <2>8. lpc'[Work] # "remove" /\ deleting' = deleting
      BY <1>16, <2>5
    <2> QED
      BY ONLY <1>11, <1>13, <2>4, <2>6, <2>7, <2>8 DEF Budget
  <1> QED
    BY <1>1, <1>17, <1>18

\* While no thread is about to insert a row the newest row is not locked.
LEMMA NewestFree ==
  ASSUME LogInv, LocksInv, Counted, Replacing = {}
  PROVE  ~Locked(Newest)
  <1> SUFFICES ASSUME NEW u \in Threads, ending[u] = Newest, Newest # 0
               PROVE  FALSE
    BY DEF Locked
  <1>1. /\ LocksFit(u) /\ lpc[u] \in {"commitNew", "commit"}
        /\ ~(lpc[u] = "commitNew" /\ seen[u] > Newest)
    BY DEF LocksInv, LocksFit, Counted, Replacing, Before
  <1>2. Newest \in Nat /\ seen[u] \in Nat
    BY NewestIsLast, RowNumbers DEF LogInv, RowsTyped
  <1>3. CASE lpc[u] = "commitNew"
    <2>1. Newest < seen[u]
      BY <1>1, <1>3 DEF LocksFit
    <2> QED
      BY <1>1, <1>2, <1>3, <2>1
  <1>4. CASE lpc[u] = "commit"
    BY <1>1, <1>2, <1>4 DEF LocksFit
  <1> QED
    BY <1>1, <1>3, <1>4

\* A manager that is killed: the threads are gone, the rows that are committed stay.
LEMMA BudgetCrash ==
  ASSUME LogInv, LogInv', LocksInv, Budget, Counted' => Counted, Crash
  PROVE  Budget'
  <1> SUFFICES ASSUME Counted'
               PROVE  Budget'
    BY DEF Budget
  <1>1. /\ Counted /\ Work \in Threads /\ faults' = faults + 1
        /\ UNCHANGED <<files, overlaps>>
        /\ \A u \in Threads : lpc'[u] = "idle" /\ ending'[u] = 0
    BY DEF Crash, Fault, Counted, Threads
  <1>2. PICK n : n = rows' /\ n = [i \in 1..Len(rows) |->
                  IF rows[i].state = "pending" THEN [rows[i] EXCEPT !.state = "gone"] ELSE rows[i]]
    BY DEF Crash
  <1>3. /\ Len(n) = Len(rows)
        /\ \A j \in 1..Len(rows) :
             /\ n[j].path = rows[j].path
             /\ n[j].state \in {"open", "ended"} \/ rows[j].state \in {"open", "ended"} =>
                  n[j].state = rows[j].state
    <2> DEFINE bad == {i \in 1..Len(rows) : rows[i].state = "pending"}
    <2>1. n = [i \in 1..Len(rows) |->
                 IF i \in bad THEN [rows[i] EXCEPT !.state = "gone"] ELSE rows[i]]
      BY <1>2
    <2>2. /\ Len(n) = Len(rows)
          /\ \A j \in 1..Len(rows) : /\ n[j].path = rows[j].path
                                     /\ n[j].state = IF j \in bad THEN "gone" ELSE rows[j].state
      <3> HIDE DEF bad
      <3> QED
        BY <2>1, RowsMapped DEF LogInv
    <2> QED
      BY <2>2
  <1>4. OpenRows' = OpenRows /\ Newest' = Newest
    <2>1. OpenRows' = OpenRows /\ Committed' = Committed
      BY <1>2, <1>3 DEF OpenRows, Committed
    <2> QED
      BY <2>1, NewestKept
  <1>5. LeftOpen' = LeftOpen /\ Overtaken' = {} /\ Replacing' = {} /\ Held' = {}
    BY <1>1, <1>4 DEF LeftOpen, Overtaken, Replacing, Before, Held, Locked
  <1>6. PICK s \in Nat, p \in {0, 1}, f \in {0, 1}, c \in Nat : Ledger(s, p, f, c)'
    BY NumbersNext, LedgerNext DEF HasLedger
  <1>7. s = Size' /\ p = Spared' /\ f = Fileless' /\ c = Causes'
    BY <1>6 DEF Ledger
  <1>8. /\ Size \in Nat /\ Spared \in {0, 1} /\ Fileless \in {0, 1} /\ Causes \in Nat
        /\ faults \in Nat /\ overlaps \in Nat /\ Causes = faults + overlaps
        /\ Sum = Size - Spared + Fileless
    BY NumbersFit DEF Numbers, Sum, Causes
  <1>9. s = Cardinality(LeftOpen) /\ p = 0 /\ c = Causes + 1
    <2>1. Cardinality({}) = 0
      BY FS_EmptySet
    <2>2. s = Cardinality(LeftOpen) + 0 + 0
      BY <1>5, <1>7, <2>1 DEF Size
    <2>3. c = (faults + 1) + overlaps
      BY <1>1, <1>7 DEF Causes
    <2>4. p = 0
      BY <1>5, <1>7 DEF Spared
    <2> QED
      BY <1>8, <2>2, <2>3, <2>4, CountsFinite
  <1>10. Cardinality(LeftOpen) <= Size /\ (Replacing # {} => Cardinality(LeftOpen) <= Size - 1)
    <2>1. Cardinality(Replacing) = 0 <=> Replacing = {}
      BY NumbersFit DEF Numbers
    <2> QED
      BY <2>1, CountsFinite DEF Size
  <1>11. Replacing = {} => f = Fileless
    <2> SUFFICES ASSUME Replacing = {} PROVE f = Fileless
      OBVIOUS
    <2>1. ~Locked(Newest)
      BY <1>1, NewestFree
    <2>2. ~Locked(Newest)'
      BY <1>1 DEF Locked
    <2>3. NewestOpen' <=> NewestOpen
      BY <1>4, <2>1, <2>2 DEF NewestOpen
    <2>4. NewestLost' <=> NewestLost
      <3>1. NewestOpen => Newest \in 1..Len(rows)
        BY DEF NewestOpen, OpenRows
      <3> QED
        BY <1>1, <1>2, <1>3, <1>4, <2>3, <3>1 DEF NewestLost
    <2>5. Losing = {} /\ Losing' = {}
      BY <1>5 DEF Losing
    <2> QED
      BY <1>5, <1>7, <2>4, <2>5 DEF Fileless
  <1>12. lpc[Work] = "remove" => Size <= Causes
    BY <1>1 DEF Budget
  <1>13. lpc[Work] # "remove" /\ Sum > Causes => Spared = 0 /\ Sum = Causes + 1
    BY <1>1 DEF Budget
  <1>14. s - p + f <= c
    <2>1. Cardinality(LeftOpen) \in Nat
      BY CountsFinite
    <2>2. CASE lpc[Work] = "remove"
      BY ONLY <1>8, <1>9, <1>10, <1>12, <2>1, <2>2, f \in {0, 1}
    <2>3. CASE lpc[Work] # "remove"
      <3>1. Sum <= Causes \/ (Spared = 0 /\ Sum = Causes + 1)
        BY <1>8, <1>13, <2>3
      <3>2. \/ Cardinality(LeftOpen) <= Size - 1
            \/ Cardinality(LeftOpen) <= Size /\ f = Fileless
        BY <1>10, <1>11
      <3> QED
        BY ONLY <1>8, <1>9, <2>1, <3>1, <3>2, f \in {0, 1}
    <2> QED
      BY <2>2, <2>3
  <1>15. Sum' = s - p + f
    BY <1>7 DEF Sum
  <1>16. ~(s - p + f > c)
    BY ONLY <1>14, s \in Nat, p \in {0, 1}, f \in {0, 1}, c \in Nat
  <1> QED
    BY ONLY <1>1, <1>7, <1>15, <1>16 DEF Budget

-----------------------------------------------------------------------------
(* The rows that are locked.                                                *)

\* Committed rows stay so until the process is deleted.
LEMMA CommittedStay ==
  ASSUME LogInv, LogNext, deleting' # "gone"
  PROVE  Committed \subseteq Committed'
  <1>1. CASE rows' = rows
    BY <1>1 DEF Committed
  <1>2. ASSUME NEW id, rows' = SetEnd(id)
        PROVE  Committed \subseteq Committed'
    <2>1. PICK n : n = rows' /\ n = SetEnd(id)
      BY <1>2
    <2>2. /\ Len(n) = Len(rows)
          /\ \A j \in 1..Len(rows) :
               n[j].state = IF j = id /\ rows[j].state = "open" THEN "ended" ELSE rows[j].state
      BY <2>1, SetEndKeeps DEF LogInv
    <2> QED
      BY <2>1, <2>2 DEF Committed
  <1>3. ASSUME NEW t \in Threads, Create(t)
        PROVE  Committed \subseteq Committed'
    <2>1. PICK n : n = rows' /\ n = Append(rows, [path |-> now, start |-> now, state |-> "pending"])
      BY <1>3 DEF Create
    <2>2. Len(n) = Len(rows) + 1 /\ Len(rows) \in Nat /\ \A j \in 1..Len(rows) : n[j] = rows[j]
      BY <2>1, RowAdded, RowNumbers DEF LogInv
    <2>3. Committed \subseteq {j \in 1..Len(n) : n[j].state \in {"open", "ended"}}
      BY ONLY <2>2 DEF Committed
    <2> QED
      BY <2>1, <2>3 DEF Committed
  <1>4. ASSUME NEW t \in Threads, lpc[t] = "commitNew", NEW st \in RowStates,
               rows' = [rows EXCEPT ![seen[t]].state = st]
        PROVE  Committed \subseteq Committed'
    <2>1. PICK n : n = rows' /\ n = [rows EXCEPT ![seen[t]].state = st]
      BY <1>4
    <2>2. seen[t] \in 1..Len(rows) /\ rows[seen[t]].state = "pending" /\ rows \in Seq(RowType)
      BY <1>4 DEF LogInv, RowsTyped, HandsFit
    <2>3. Len(n) = Len(rows) /\ \A j \in 1..Len(rows) : j # seen[t] => n[j] = rows[j]
      BY <2>1, <2>2, OneRow
    <2> QED
      BY <2>1, <2>2, <2>3 DEF Committed
  <1>5. ASSUME Crash
        PROVE  Committed \subseteq Committed'
    <2>1. PICK n : n = rows' /\ n = [i \in 1..Len(rows) |->
                    IF rows[i].state = "pending" THEN [rows[i] EXCEPT !.state = "gone"] ELSE rows[i]]
      BY <1>5 DEF Crash
    <2>2. Len(rows) \in Nat
      BY RowNumbers
    <2>3. /\ Len(n) = Len(rows)
          /\ \A j \in 1..Len(rows) : rows[j].state # "pending" => n[j] = rows[j]
      BY ONLY <2>1, <2>2
    <2> QED
      BY <2>1, <2>3 DEF Committed
  <1>6. ASSUME NEW t \in Threads, Retrieve(t)
        PROVE  Committed \subseteq Committed'
    <2>1. Select(t) \/ EndOld(t) \/ Open(t) \/ New(t) => rows' = rows
      BY DEF Select, EndOld, Open, New
    <2>2. CommitNew(t) => lpc[t] = "commitNew" /\ rows' = [rows EXCEPT ![seen[t]].state = "open"]
      BY DEF CommitNew, Goes
    <2>3. DbFails(t) => \/ rows' = rows
                        \/ lpc[t] = "commitNew" /\ rows' = [rows EXCEPT ![seen[t]].state = "gone"]
      BY DEF DbFails, Returns, Goes
    <2>4. Commit(t) => rows' = SetEnd(ending[t])
      BY DEF Commit
    <2>5. "open" \in RowStates /\ "gone" \in RowStates
      BY DEF RowStates
    <2> QED
      BY <1>1, <1>2, <1>3, <1>4, <1>6, <2>1, <2>2, <2>3, <2>4, <2>5 DEF Retrieve
  <1>7. Finishes \/ LastEnds => rows' = rows \/ rows' = SetEnd(currentLog)
    BY DEF Finishes, LastEnds, EndsCurrent
  <1>8. CycleRetrieves \/ CycleFinishes \/ RemovesFolder \/ WorkReturns => rows' = rows
    BY DEF CycleRetrieves, CycleFinishes, RemovesFolder, WorkReturns
  <1>9. LogWorld => rows' = rows \/ Crash
    BY DEF LogWorld, DeletesFolder, RefreshFails, Tick, TellsDeleted, DeletesRows, FileRemoved,
           Write, NewChild
  <1>10. ASSUME NEW c \in Copiers, Appends(c) PROVE rows' = rows
    BY <1>10 DEF Appends
  <1> QED
    BY <1>1, <1>2, <1>5, <1>6, <1>7, <1>8, <1>9, <1>10
       DEF LogNext, WorkLogs, CopierWrites, Threads

NewestFits == /\ Newest \in Nat
              /\ Newest # 0 => Newest \in Committed
              /\ \A j \in Committed : j \in Nat \ {0} /\ j <= Newest

LEMMA NewestBounds == LogInv => NewestFits
  <1> SUFFICES ASSUME LogInv PROVE NewestFits
    OBVIOUS
  <1>1. \A j \in Committed : j \in Nat \ {0}
    BY RowNumbers DEF Committed
  <1> QED
    BY <1>1, NewestIsLast, RowNumbers DEF LogInv, NewestFits

LEMMA NewestBoundsNext == LogInv' => NewestFits'
  BY NewestBounds, PTL

\* A thread moves, and a row that others have locked stays committed.
LEMMA LocksKept ==
  ASSUME LogInv, LogInv', LocksInv, deleting # "gone", Committed \subseteq Committed',
         NEW moved \in SUBSET Threads, \A t \in moved : LocksFit(t)',
         \A u \in Threads \ moved : UNCHANGED <<lpc[u], seen[u], ending[u]>>
  PROVE  LocksInv'
  <1>1. PICK m : m = Newest'
    OBVIOUS
  <1>2. Newest <= m
    <2>1. NewestFits /\ NewestFits'
      BY NewestBounds, NewestBoundsNext
    <2>2. m \in Nat /\ \A j \in Committed' : j <= m
      BY <1>1, <2>1 DEF NewestFits
    <2> QED
      BY <2>1, <2>2 DEF NewestFits
  <1>3. m \in Nat /\ Newest \in Nat
    BY <1>1, NewestBounds, NewestBoundsNext DEF NewestFits
  <1>4. ASSUME NEW u \in Threads \ moved
        PROVE  LocksFit(u)'
    <2>1. LocksFit(u) /\ lpc'[u] = lpc[u] /\ seen'[u] = seen[u] /\ ending'[u] = ending[u]
      BY <1>4 DEF LocksInv
    <2>2. ending[u] < Newest => ending[u] < m
      <3>1. ending[u] \in Nat
        BY <1>4, RowNumbers DEF LogInv, RowsTyped
      <3> QED
        BY <1>2, <1>3, <3>1
    <2> QED
      BY <1>1, <2>1, <2>2 DEF LocksFit
  <1> QED
    BY <1>4 DEF LocksInv

\* A thread that is not on its way to a new row has locked nothing.
LEMMA NothingLocked ==
  ASSUME LocksInv, deleting # "gone", NEW t \in Threads,
         lpc[t] \notin {"new", "create", "commitNew", "commit"}
  PROVE  ending[t] = 0
  BY DEF LocksInv, LocksFit

\* One step of retrieveCurrentLog.
LEMMA LocksRetrieve ==
  ASSUME LogInv, LogInv', LocksInv, deleting # "gone", Committed \subseteq Committed',
         NEW t \in Threads, Retrieve(t)
  PROVE  LocksInv'
  <1>1. /\ \A u \in Threads \ {t} : UNCHANGED <<lpc[u], seen[u], ending[u]>>
    <2>1. /\ lpc' = [lpc EXCEPT ![t] = lpc'[t]]
          /\ seen' = [seen EXCEPT ![t] = seen'[t]] /\ ending' = [ending EXCEPT ![t] = ending'[t]]
      BY DEF Retrieve, Select, EndOld, Open, New, Create, CommitNew, Commit, DbFails, Returns, Goes,
             LogInv, PointsTyped, RowsTyped
    <2> QED
      BY <2>1 DEF LogInv, PointsTyped, RowsTyped
  <1>2. LocksFit(t)
    BY DEF LocksInv
  <1>3. NewestFits /\ NewestFits'
    BY NewestBounds, NewestBoundsNext
  <1>4. lpc[t] \in LogPoints /\ lpc \in [Threads -> LogPoints]
        /\ seen \in [Threads -> 0..Len(rows)] /\ ending \in [Threads -> 0..Len(rows)]
    BY DEF LogInv, PointsTyped, RowsTyped
  <1>5. ASSUME Select(t) PROVE LocksFit(t)'
    <2>1. /\ rows' = rows /\ ending' = ending /\ seen'[t] = Newest /\ lpc[t] = "select"
          /\ lpc'[t] \in {"new", "open", "endOld"} /\ (lpc'[t] # "new" => Newest # 0)
      BY <1>4, <1>5 DEF Select, Goes
    <2>2. ending'[t] = 0
      BY <2>1, NothingLocked
    <2>3. lpc'[t] # "new" => seen'[t] \in Committed
      BY <1>3, <2>1 DEF NewestFits
    <2> QED
      BY <2>1, <2>2, <2>3 DEF LocksFit
  <1>6. ASSUME EndOld(t) PROVE LocksFit(t)'
    <2>1. lpc[t] = "endOld" /\ lpc'[t] = "new" /\ ending'[t] = seen[t]
      BY <1>4, <1>6 DEF EndOld, Goes
    <2> QED
      BY <1>2, <2>1 DEF LocksFit
  <1>7. ASSUME Open(t) PROVE LocksFit(t)'
    <2>1. lpc[t] = "open" /\ lpc'[t] \in {"new", "commit"} /\ ending' = ending
      BY <1>4, <1>7 DEF Open, Goes
    <2>2. ending'[t] = 0
      BY <2>1, NothingLocked
    <2> QED
      BY <2>1, <2>2 DEF LocksFit
  <1>8. ASSUME New(t) PROVE LocksFit(t)'
    <2>1. lpc[t] = "new" /\ lpc'[t] = "create" /\ ending' = ending
      BY <1>4, <1>8 DEF New, Goes
    <2> QED
      BY <1>2, <2>1 DEF LocksFit
  <1>9. ASSUME Create(t) PROVE LocksFit(t)'
    <2>1. PICK n : n = rows' /\ n = Append(rows, [path |-> now, start |-> now, state |-> "pending"])
      BY <1>9 DEF Create
    <2>2. /\ lpc[t] = "create" /\ lpc'[t] = "commitNew" /\ ending' = ending /\ seen'[t] = Len(n)
      BY <1>4, <1>9, <2>1 DEF Create, Goes
    <2>3. Len(n) = Len(rows) + 1 /\ Len(rows) \in Nat
      BY <2>1, RowAdded, RowNumbers DEF LogInv
    <2>4. ending[t] < Len(n)
      BY <1>4, <2>3
    <2> QED
      BY <1>2, <2>2, <2>4 DEF LocksFit
  <1>10. ASSUME CommitNew(t) PROVE LocksFit(t)'
    <2>1. lpc[t] = "commitNew" /\ lpc'[t] = "commit" /\ ending' = ending
      BY <1>4, <1>10 DEF CommitNew, Goes
    <2>2. ending[t] < seen[t] /\ seen[t] \in Committed'
      BY <1>2, <1>10, <2>1, RowCommitted DEF LocksFit
    <2>3. PICK m \in Nat : m = Newest' /\ seen[t] <= m
      BY <1>3, <2>2 DEF NewestFits
    <2>4. ending[t] < m
      BY <1>4, <2>2, <2>3, RowNumbers
    <2> QED
      BY <1>2, <2>1, <2>3, <2>4 DEF LocksFit
  <1>11. ASSUME Commit(t) \/ DbFails(t) PROVE LocksFit(t)'
    <2>1. ending'[t] = 0 /\ lpc'[t] \in {"idle", "append", "broken"}
      BY <1>4, <1>11 DEF Commit, DbFails, Returns, Goes
    <2> QED
      BY <2>1 DEF LocksFit
  <1>12. LocksFit(t)'
    BY <1>5, <1>6, <1>7, <1>8, <1>9, <1>10, <1>11 DEF Retrieve
  <1>13. {t} \in SUBSET Threads /\ \A u \in {t} : LocksFit(u)'
    BY <1>12
  <1> QED
    BY ONLY <1>1, <1>13, LocksKept, LogInv, LogInv', LocksInv, deleting # "gone",
         Committed \subseteq Committed'

\* Every step keeps what is known of the locks.
LEMMA LocksStay ==
  ASSUME LogInv, LogInv', LocksInv, LogNext
  PROVE  LocksInv'
  <1> SUFFICES ASSUME deleting' # "gone"
               PROVE  LocksInv'
    BY DEF LocksInv
  <1>1. deleting # "gone"
    BY GoneStays
  <1>2. Committed \subseteq Committed'
    BY CommittedStay
  <1>3. Work \in Threads /\ Copiers \subseteq Threads
    BY DEF Threads
  \* A thread that starts, goes on writing or ends.
  <1>4. ASSUME NEW t \in Threads,
               NEW from \in {"idle", "broken", "append", "end", "lastEnd", "remove", "return"},
               NEW to \in LogPoints \ {"open", "endOld", "commitNew"},
               Goes(t, from, to), UNCHANGED <<seen, ending>>
        PROVE  LocksInv'
    <2>1. lpc[t] = from /\ lpc'[t] = to /\ \A u \in Threads : u # t => lpc'[u] = lpc[u]
      BY <1>4, OneMoves
    <2>2. ending'[t] = 0
      BY <1>1, <1>4, <2>1, NothingLocked
    <2>3. LocksFit(t)'
      BY <2>1, <2>2 DEF LocksFit
    <2>4. /\ {t} \in SUBSET Threads /\ \A u \in {t} : LocksFit(u)'
          /\ \A u \in Threads \ {t} : UNCHANGED <<lpc[u], seen[u], ending[u]>>
      BY <1>4, <2>1, <2>3
    <2> QED
      BY ONLY <1>1, <1>2, <2>4, LocksKept, LogInv, LogInv', LocksInv
  <1>5. ASSUME UNCHANGED <<lpc, seen, ending>>
        PROVE  LocksInv'
    <2>1. /\ {} \in SUBSET Threads /\ \A u \in {} : LocksFit(u)'
          /\ \A u \in Threads \ {} : UNCHANGED <<lpc[u], seen[u], ending[u]>>
      BY <1>5
    <2> QED
      BY ONLY <1>1, <1>2, <2>1, LocksKept, LogInv, LogInv', LocksInv
  <1>6. CASE CycleRetrieves \/ CycleFinishes \/ Finishes \/ RemovesFolder \/ WorkReturns \/ LastEnds
    <2>1. /\ UNCHANGED <<seen, ending>>
          /\ \E from \in {"idle", "end", "lastEnd", "remove", "return"},
                to \in {"select", "end", "idle", "return", "lastEnd", "done"} : Goes(Work, from, to)
      BY <1>6 DEF CycleRetrieves, CycleFinishes, Finishes, RemovesFolder, WorkReturns, LastEnds,
                  EndsCurrent, Starts
    <2> QED
      BY <1>3, <1>4, <2>1 DEF LogPoints, Resting
  <1>7. CASE DeletesFolder \/ RefreshFails
    <2>1. UNCHANGED <<seen, ending>> /\ \E to \in {"remove", "return"} : Goes(Work, "idle", to)
      BY <1>7 DEF DeletesFolder, RefreshFails, Starts
    <2> QED
      BY <1>3, <1>4, <2>1 DEF LogPoints, Resting
  <1>8. ASSUME NEW c \in Copiers, Write(c) \/ NewChild(c) \/ Appends(c)
        PROVE  LocksInv'
    <2>1. /\ UNCHANGED <<seen, ending>>
          /\ \E from \in {"idle", "broken", "append"}, to \in {"select", "append", "idle", "broken"} :
               Goes(c, from, to)
      BY <1>8 DEF Write, NewChild, Appends, Starts
    <2> QED
      BY <1>3, <1>4, <2>1 DEF LogPoints, Resting
  <1>9. CASE Tick \/ TellsDeleted \/ FileRemoved
    BY <1>5, <1>9 DEF Tick, TellsDeleted, FileRemoved
  <1>10. CASE DeletesRows
    BY <1>10 DEF DeletesRows
  <1>11. CASE Crash
    <2>1. \A u \in Threads : lpc'[u] = "idle" /\ ending'[u] = 0
      BY <1>1, <1>11 DEF Crash
    <2> QED
      BY <2>1 DEF LocksInv, LocksFit
  <1>12. ASSUME NEW t \in Threads, Retrieve(t)
         PROVE  LocksInv'
    BY <1>1, <1>2, <1>12, LocksRetrieve
  <1> QED
    BY <1>3, <1>6, <1>7, <1>8, <1>9, <1>10, <1>11, <1>12
       DEF LogNext, WorkLogs, LogWorld, CopierWrites

-----------------------------------------------------------------------------
(* The theorem.                                                             *)

\* Every step keeps the account.
LEMMA BudgetStays ==
  ASSUME LogInv, LogInv', LocksInv, Budget, LogNext
  PROVE  Budget'
  <1>1. Counted' => Counted
    BY CountedBefore
  <1>2. Work \in Threads /\ Copiers \subseteq Threads
    BY DEF Threads
  <1>3. CASE CycleRetrieves
    <2>1. /\ Starts(Work, "select") /\ UNCHANGED <<rows, files, seen, ending, faults, deleting>>
      BY <1>3 DEF CycleRetrieves
    <2> QED
      BY ONLY <1>1, <1>2, <2>1, BudgetEnters, LogInv, LogInv', LocksInv, Budget
  <1>4. CASE CycleFinishes
    <2>1. /\ Starts(Work, "select") \/ Starts(Work, "end")
          /\ UNCHANGED <<rows, files, seen, ending, faults, deleting>>
      BY <1>4 DEF CycleFinishes
    <2> QED
      BY ONLY <1>1, <1>2, <2>1, BudgetEnters, LogInv, LogInv', LocksInv, Budget
  <1>5. ASSUME NEW c \in Copiers, Write(c)
        PROVE  Budget'
    <2>1. CASE writer = -1
      <3>1. Starts(c, "select") /\ UNCHANGED <<rows, files, seen, ending, faults, deleting>>
        BY <1>5, <2>1 DEF Write
      <3> QED
        BY ONLY <1>1, <1>2, <2>1, <3>1, BudgetEnters, LogInv, LogInv', LocksInv, Budget,
             c \in Copiers
    <2>2. CASE writer # -1
      BY <1>1, <1>5, <2>2, BudgetWhileIdle
    <2> QED
      BY <2>1, <2>2
  <1>6. ASSUME NEW t \in Threads, Retrieve(t)
        PROVE  Budget'
    <2>1. CASE Select(t) \/ EndOld(t) \/ Open(t) \/ New(t)
      BY <1>1, <2>1, BudgetSelect, BudgetEndOld, BudgetOpen, BudgetNew
    <2>2. CASE Create(t) \/ Commit(t) \/ DbFails(t)
      BY <1>1, <2>2, BudgetCreate, BudgetCommit, BudgetDbFails
    <2>3. CASE CommitNew(t)
      <3>1. CASE seen[t] < Newest
        BY <1>1, <2>3, <3>1, BudgetOvertaken
      <3>2. CASE seen[t] > Newest
        BY <1>1, <2>3, <3>2, BudgetReplaced
      <3>3. CASE ~(seen[t] < Newest) /\ ~(seen[t] > Newest)
        <4>1. seen[t] = Newest
          BY <3>3, NewestBounds, RowNumbers DEF NewestFits, LogInv, RowsTyped
        <4>2. deleting # "gone" => FALSE
          BY <2>3, <4>1, RowCommitted
        <4> QED
          BY <1>1, <4>2 DEF Counted, Budget
      <3> QED
        BY <3>1, <3>2, <3>3
    <2> QED
      BY <1>6, <2>1, <2>2, <2>3 DEF Retrieve
  <1>7. CASE Finishes \/ RemovesFolder \/ WorkReturns \/ LastEnds
    BY <1>1, <1>7, BudgetFinishes, BudgetRemovesFolder, BudgetWorkReturns, BudgetLastEnds
  <1>8. CASE DeletesFolder \/ FileRemoved \/ Crash
    BY <1>1, <1>8, BudgetDeletesFolder, BudgetFileRemoved, BudgetCrash
  <1>9. CASE DeletesRows
    BY <1>9 DEF DeletesRows, Budget, Counted
  <1>10. CASE \/ \E c \in Copiers : Appends(c) \/ NewChild(c)
              \/ Tick \/ TellsDeleted \/ RefreshFails
    BY <1>1, <1>10, BudgetWhileIdle
  <1> QED
    BY <1>2, <1>3, <1>4, <1>5, <1>6, <1>7, <1>8, <1>9, <1>10
       DEF LogNext, WorkLogs, LogWorld, CopierWrites

\* Nothing is open before the first log.
LEMMA BudgetInit == LogInit => LocksInv /\ Budget
  <1> SUFFICES ASSUME LogInit PROVE LocksInv /\ Budget
    OBVIOUS
  <1>1. \A u \in Threads : lpc[u] = "idle" /\ ending[u] = 0
    BY DEF LogInit
  <1>2. LocksInv
    BY <1>1 DEF LocksInv, LocksFit
  <1>3. LeftOpen = {} /\ Replacing = {} /\ Overtaken = {} /\ Losing = {} /\ ~NewestLost
    <2>1. OpenRows = {}
      BY DEF LogInit, OpenRows
    <2> QED
      BY <1>1, <2>1 DEF LeftOpen, Replacing, Overtaken, Losing, Before, NewestLost, NewestOpen
  <1>4. Sum = 0 /\ Causes = 0
    <2>1. Size = 0
      BY <1>3, FS_EmptySet DEF Size
    <2>2. Spared = 0 /\ Fileless = 0
      BY <1>3 DEF Spared, Fileless, Held
    <2> QED
      BY <2>1, <2>2 DEF Sum, Causes, LogInit
  <1>5. Budget
    <2>1. Work \in Threads
      BY DEF Threads
    <2>2. lpc[Work] = "idle"
      BY <1>1, <2>1
    <2> QED
      BY <1>4, <2>2 DEF Budget
  <1> QED
    BY <1>2, <1>5

\* The invariants hold in every state.
LEMMA LeftOpenSound == LogSpec => [](LogInv /\ LocksInv /\ Budget)
  <1>1. LogInit => LogInv /\ LocksInv /\ Budget
    BY LogInvInit, BudgetInit
  <1>2. LogInv /\ LocksInv /\ Budget /\ [LogNext]_logVars => (LogInv /\ LocksInv /\ Budget)'
    <2> SUFFICES ASSUME LogInv, LocksInv, Budget, [LogNext]_logVars
                 PROVE  LogInv' /\ LocksInv' /\ Budget'
      OBVIOUS
    <2>1. LogInv'
      BY LogInvStep
    <2>2. CASE LogNext
      BY <2>1, <2>2, LocksStay, BudgetStays
    <2>3. CASE UNCHANGED logVars
      <3>1. UNCHANGED <<rows, files, writer, lpc, seen, ending, deleting, faults, overlaps>>
        BY <2>3 DEF logVars
      <3>2. LocksInv'
        <4>1. Committed' = Committed /\ Newest' = Newest
          BY <3>1, SameRowSets
        <4> QED
          BY <3>1, <4>1 DEF LocksInv, LocksFit
      <3>3. Budget'
        <4>1. Counted' => Counted
          BY <3>1 DEF Counted
        <4>2. faults' >= faults /\ overlaps' >= overlaps
          <5>1. faults \in Nat /\ overlaps \in Nat
            BY NumbersFit DEF Numbers
          <5>2. faults >= faults /\ overlaps >= overlaps
            BY <5>1
          <5> QED
            BY <3>1, <5>2
        <4>3. /\ DOMAIN files' = DOMAIN files
              /\ \A u \in Threads : lpc'[u] = lpc[u] \/ {lpc[u], lpc'[u]} \subseteq Uncounted
          BY <3>1
        <4> QED
          BY ONLY <2>1, <3>1, <4>1, <4>2, <4>3, UncountedKeeps, LogInv, Budget
      <3> QED
        BY <2>1, <3>2, <3>3
    <2> QED
      BY <2>2, <2>3
  <1> QED
    BY <1>1, <1>2, PTL DEF LogSpec

\* The rows of finished logs that stay open are no more than the faults and the overlapping
\* uses of the logger, however many copiers write (FinishLog, retrieveCurrentLog, newLog).
THEOREM FinishedRowsEnd == LogSpec => []RowsAreEnded
  <1>1. LogInv /\ LocksInv /\ Budget => RowsAreEnded
    <2> SUFFICES ASSUME LogInv, LocksInv, Budget, deleting = "no", overlaps < MaxOverlaps
                 PROVE  Cardinality(Leaked) <= faults + overlaps
      BY DEF RowsAreEnded
    <2>1. Leaked = LeftOpen \ Held
      BY DEF Leaked, LeftOpen, Held, OpenRows, Committed
    <2>2. /\ IsFiniteSet(LeftOpen) /\ Cardinality(LeftOpen) \in Nat
          /\ Cardinality(Replacing) \in Nat /\ Cardinality(Overtaken) \in Nat
          /\ Size = Cardinality(LeftOpen) + Cardinality(Overtaken) + Cardinality(Replacing)
      BY CountsFinite DEF Size
    <2>3. /\ Cardinality(Replacing) = 0 => Replacing = {}
          /\ Spared \in {0, 1} /\ Fileless \in {0, 1} /\ Causes \in Nat
          /\ Sum = Size - Spared + Fileless
      BY NumbersFit DEF Numbers, Sum
    <2>4. Sum <= Causes
      <3>1. ~(Sum > Causes)
        BY DEF Budget, Counted
      <3> QED
        BY <2>2, <2>3, <3>1
    <2>5. Cardinality(Leaked) \in Nat /\ Cardinality(Leaked) <= Cardinality(LeftOpen)
          /\ (Held # {} => Cardinality(Leaked) <= Cardinality(LeftOpen) - 1)
      <3>1. LeftOpen \ Held \in SUBSET LeftOpen /\ (Held # {} => LeftOpen \ Held # LeftOpen)
        BY DEF Held
      <3>2. /\ IsFiniteSet(LeftOpen \ Held) /\ Cardinality(LeftOpen \ Held) <= Cardinality(LeftOpen)
            /\ Cardinality(LeftOpen) = Cardinality(LeftOpen \ Held) => LeftOpen = LeftOpen \ Held
        BY ONLY <2>2, <3>1, FS_Subset
      <3>3. Cardinality(LeftOpen \ Held) \in Nat
        BY <3>2, FS_CardinalityType
      <3> QED
        BY <2>1, <2>2, <3>1, <3>2, <3>3
    <2>6. Spared = 1 => Held # {} \/ Replacing # {}
      BY DEF Spared
    <2>7. Cardinality(Leaked) <= Causes
      BY ONLY <2>2, <2>3, <2>4, <2>5, <2>6
    <2> QED
      BY <2>7 DEF Causes
  <1> QED
    BY <1>1, LeftOpenSound, PTL
=============================================================================
