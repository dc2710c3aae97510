----------------------------- MODULE WaitingProofs ----------------------------
(***************************************************************************)
(* Theorems, and their proofs, about the two bounded resources that the    *)
(* handlers wait for: the channel of the standard input (Stdin) and the    *)
(* connections of the pool (Pool).                                         *)
(***************************************************************************)
EXTENDS Stdin, Pool, TLAPS, FiniteSetTheorems

(* The standard input of a child.                                           *)

\* A reader that holds a line is at its write, and only the readers of children that
\* were started are anywhere.
ReadersFit == \A g \in Kids : /\ held[g] # 0 <=> reader[g] = "holding"
                              /\ reader[g] # "none" => g <= born

\* The lines that readers have to do with were taken from the channel.
OfTaken == \A g \in Kids : Of(g) \subseteq 1..taken

\* The inductive invariant.
LinesInv == /\ StdinTypeOK /\ ReadersFit /\ OfTaken
            /\ NoLineVanishes /\ NoLineTwice /\ OneLossPerChild /\ InOrder

-----------------------------------------------------------------------------

\* The initial states satisfy the invariant.
LEMMA LinesInit == StdinInit => LinesInv
  <1> SUFFICES ASSUME StdinInit PROVE LinesInv
    OBVIOUS
  <1> USE StdinAssumption DEF StdinInit, SupervisorInit
  <1>1. StdinTypeOK
    <2>1. StdInCap \in Nat /\ MaxChildren \in Nat
      OBVIOUS
    <2>2. /\ reader \in [Kids -> {"none", "reading", "holding", "gone"}]
          /\ held \in [Kids -> Nat] /\ wasted \in [Kids -> Nat] /\ got \in [Kids -> SUBSET Nat]
      OBVIOUS
    <2>3. accepted \in Nat /\ taken \in 0..accepted /\ accepted - taken <= StdInCap
      BY <2>1
    <2>4. live \subseteq {born} /\ born \in 0..MaxChildren /\ sending \subseteq Posters
      BY <2>1
    <2>5. ended \in BOOLEAN
      OBVIOUS
    <2> HIDE DEF StdinInit, SupervisorInit
    <2> QED
      BY <2>2, <2>3, <2>4, <2>5 DEF StdinTypeOK
  <1>2. \A g \in Kids : Of(g) = {}
    BY DEF Of
  <1> QED
    BY <1>1, <1>2 DEF LinesInv, ReadersFit, OfTaken, NoLineVanishes, NoLineTwice,
                      OneLossPerChild, InOrder

\* Steps that leave the lines and the readers alone, and start no child.
LEMMA LinesRest ==
  ASSUME LinesInv, live' \subseteq live, UNCHANGED <<born, taken, reader, held, got, wasted>>,
         StdinTypeOK'
  PROVE  LinesInv'
  BY DEF LinesInv, ReadersFit, OfTaken, NoLineVanishes, NoLineTwice, OneLossPerChild, InOrder, Of

\* A child that starts has a new reader, which holds nothing and has wasted nothing.
LEMMA LinesStart == LinesInv /\ StartsReader => LinesInv'
  <1> SUFFICES ASSUME LinesInv, StartsReader PROVE LinesInv'
    OBVIOUS
  <1> USE StdinAssumption DEF LinesInv, StartsReader, StartChild, linesVars
  <1>1. /\ born' \in Kids /\ born' = born + 1 /\ born \in Nat
        /\ reader[born'] = "none" /\ held[born'] = 0
    BY DEF StdinTypeOK, ReadersFit, Kids
  <1>2. wasted[born'] = 0
    BY <1>1 DEF OneLossPerChild
  <1>3. StdinTypeOK'
    BY <1>1 DEF StdinTypeOK
  <1>4. ReadersFit'
    BY <1>1 DEF ReadersFit, StdinTypeOK, Kids
  <1>5. OneLossPerChild'
    BY <1>1, <1>2 DEF OneLossPerChild, StdinTypeOK
  <1> QED
    BY <1>3, <1>4, <1>5 DEF OfTaken, NoLineVanishes, NoLineTwice, InOrder, Of

\* A reader takes a line that no reader has had before.
LEMMA LinesTake == ASSUME LinesInv, NEW g \in Kids, Take(g) PROVE LinesInv'
  <1> USE DEF LinesInv, Take
  <1>1. /\ taken \in Nat /\ accepted \in Nat /\ taken' = taken + 1 /\ taken' <= accepted
        /\ held[g] = 0 /\ held'[g] = taken' /\ reader'[g] = "holding"
    BY DEF StdinTypeOK, ReadersFit
  <1>2. wasted[g] = 0
    BY DEF OneLossPerChild
  <1>3. \A h \in Kids \ {g} : held'[h] = held[h] /\ reader'[h] = reader[h]
    BY DEF StdinTypeOK
  <1>4. Of(g)' = Of(g) \cup {taken'} /\ \A h \in Kids \ {g} : Of(h)' = Of(h)
    BY <1>1, <1>3 DEF Of
  <1>5. StdinTypeOK'
    <2>1. StdInCap \in Nat
      BY StdinAssumption
    <2>2. accepted - taken' <= StdInCap /\ taken' \in 0..accepted
      BY <1>1, <2>1 DEF StdinTypeOK
    <2>3. held' \in [Kids -> Nat]
      BY <1>1 DEF StdinTypeOK
    <2> QED
      BY <1>1, <2>2, <2>3 DEF StdinTypeOK
  <1>6. ReadersFit'
    BY <1>1, <1>3 DEF ReadersFit
  <1>7. OfTaken'
    BY <1>1, <1>4 DEF OfTaken
  <1>8. NoLineVanishes'
    BY <1>1, <1>4 DEF NoLineVanishes
  <1>9. taken' \notin UNION {Of(h) : h \in Kids}
    BY <1>1 DEF OfTaken
  <1>10. NoLineTwice'
    <2>1. \A h, i \in Kids : h # i => Of(h)' \cap Of(i)' = {}
      BY <1>4, <1>9 DEF NoLineTwice
    <2>2. got[g] \cap {taken'} = {}
      BY <1>9 DEF Of
    <2> QED
      BY <1>1, <1>2, <1>3, <2>1, <2>2 DEF NoLineTwice
  <1>11. OneLossPerChild'
    BY <1>2, <1>3 DEF OneLossPerChild
  <1>12. InOrder'
    <2>1. \A n \in got[g] : n < taken'
      BY <1>1 DEF OfTaken, Of
    <2> QED
      BY <1>1, <1>3, <2>1 DEF InOrder
  <1> QED
    BY <1>5, <1>6, <1>7, <1>8, <1>10, <1>11, <1>12

\* A line that is written goes from the reader's hand to its child.
LEMMA LinesWrite == ASSUME LinesInv, NEW g \in Kids, WriteOk(g) PROVE LinesInv'
  <1> USE DEF LinesInv, WriteOk
  <1>1. /\ held[g] \in Nat \ {0} /\ held'[g] = 0 /\ reader'[g] = "reading"
        /\ got'[g] = got[g] \cup {held[g]}
    BY DEF StdinTypeOK, ReadersFit
  <1>2. \A h \in Kids \ {g} : /\ held'[h] = held[h] /\ reader'[h] = reader[h]
                              /\ got'[h] = got[h]
    BY DEF StdinTypeOK
  <1>3. wasted[g] = 0
    BY DEF OneLossPerChild
  <1>4. \A h \in Kids : Of(h)' = Of(h)
    BY <1>1, <1>2, <1>3 DEF Of
  <1>5. StdinTypeOK'
    BY <1>1 DEF StdinTypeOK
  <1>6. ReadersFit'
    BY <1>1, <1>2 DEF ReadersFit
  <1>7. OfTaken' /\ NoLineVanishes'
    BY <1>4 DEF OfTaken, NoLineVanishes
  <1>8. NoLineTwice'
    BY <1>1, <1>2, <1>3, <1>4 DEF NoLineTwice
  <1>9. OneLossPerChild' /\ InOrder'
    BY <1>1, <1>2, <1>3 DEF OneLossPerChild, InOrder
  <1> QED
    BY <1>5, <1>6, <1>7, <1>8, <1>9

\* A line that cannot be written becomes the one line that its reader wastes.
LEMMA LinesWaste == ASSUME LinesInv, NEW g \in Kids, WriteFails(g) PROVE LinesInv'
  <1> USE DEF LinesInv, WriteFails
  <1>1. /\ held[g] \in Nat \ {0} /\ held'[g] = 0 /\ reader'[g] = "gone"
        /\ wasted'[g] = held[g] /\ g \notin live
    BY DEF StdinTypeOK, ReadersFit
  <1>2. \A h \in Kids \ {g} : /\ held'[h] = held[h] /\ reader'[h] = reader[h]
                              /\ wasted'[h] = wasted[h]
    BY DEF StdinTypeOK
  <1>3. wasted[g] = 0
    BY DEF OneLossPerChild
  <1>4. \A h \in Kids : Of(h)' = Of(h)
    BY <1>1, <1>2, <1>3 DEF Of
  <1>5. StdinTypeOK'
    BY <1>1 DEF StdinTypeOK
  <1>6. ReadersFit'
    BY <1>1, <1>2 DEF ReadersFit
  <1>7. OfTaken' /\ NoLineVanishes'
    BY <1>4 DEF OfTaken, NoLineVanishes
  <1>8. NoLineTwice'
    BY <1>1, <1>2, <1>3, <1>4 DEF NoLineTwice
  <1>9. OneLossPerChild' /\ InOrder'
    BY <1>1, <1>2, <1>3 DEF OneLossPerChild, InOrder
  <1> QED
    BY <1>5, <1>6, <1>7, <1>8, <1>9

\* Every step preserves the invariant.
LEMMA LinesStep == LinesInv /\ [StdinNext]_stdinVars => LinesInv'
  <1> SUFFICES ASSUME LinesInv, [StdinNext]_stdinVars PROVE LinesInv'
    OBVIOUS
  <1>1. CASE StartsReader
    BY <1>1, LinesStart
  <1>2. CASE EndsChild
    BY <1>2, LinesRest DEF EndsChild, ChildEnds, RunnerEnds, linesVars, LinesInv, StdinTypeOK
  <1>3. ASSUME NEW p \in Posters, ChecksRow(p) PROVE LinesInv'
    BY <1>3, LinesRest DEF ChecksRow, LinesInv, StdinTypeOK
  <1>4. ASSUME NEW p \in Posters, Accept(p) PROVE LinesInv'
    <2>1. StdinTypeOK'
      BY <1>4, StdinAssumption DEF Accept, LinesInv, StdinTypeOK
    <2> QED
      BY <1>4, <2>1, LinesRest DEF Accept
  <1>5. ASSUME NEW g \in Kids, ReaderStep(g) PROVE LinesInv'
    BY <1>5, LinesTake, LinesWrite, LinesWaste DEF ReaderStep
  <1>6. CASE UNCHANGED stdinVars
    BY <1>6, LinesRest DEF stdinVars, LinesInv, StdinTypeOK
  <1> QED
    BY <1>1, <1>2, <1>3, <1>4, <1>5, <1>6 DEF StdinNext

\* The invariant holds in every state.
LEMMA LinesAlways == StdinSpec => []LinesInv
  BY LinesInit, LinesStep, PTL DEF StdinSpec

\* The standard input is well typed, its channel is never over its capacity, and no child
\* but the last one is alive.
THEOREM StdinTyped == StdinSpec => []StdinTypeOK
  <1>1. LinesInv => StdinTypeOK
    BY DEF LinesInv
  <1> QED
    BY <1>1, LinesAlways, PTL

\* No line that was taken from the channel vanishes without a trace, ...
THEOREM NothingVanishes == StdinSpec => []NoLineVanishes
  <1>1. LinesInv => NoLineVanishes
    BY DEF LinesInv
  <1> QED
    BY <1>1, LinesAlways, PTL

\* ... and none has two fates, however many children and readers there were.
THEOREM NothingTwice == StdinSpec => []NoLineTwice
  <1>1. LinesInv => NoLineTwice
    BY DEF LinesInv
  <1> QED
    BY <1>1, LinesAlways, PTL

\* The reader of a child that has ended costs the children after it at most one line.
THEOREM OneLoss == StdinSpec => []OneLossPerChild
  <1>1. LinesInv => OneLossPerChild
    BY DEF LinesInv
  <1> QED
    BY <1>1, LinesAlways, PTL

\* No child gets its lines out of order.
THEOREM LinesInOrder == StdinSpec => []InOrder
  <1>1. LinesInv => InOrder
    BY DEF LinesInv
  <1> QED
    BY <1>1, LinesAlways, PTL

-----------------------------------------------------------------------------
(* The pool of connections.                                                 *)

Phases == {"idle", "outer", "inner", "last"}

\* What PoolTypeOK says of one variable at a time.
PoolTyped == /\ phase \in [Rotators -> Phases]
             /\ calling \subseteq Callers
             /\ leaked \in 0..MaxLeaks

-----------------------------------------------------------------------------

\* The sets whose sizes are added up are finite.
LEMMA SetsFinite ==
  ASSUME PoolTyped
  PROVE  /\ IsFiniteSet(Holding) /\ IsFiniteSet(Nested) /\ IsFiniteSet(calling)
         /\ Cardinality(Holding) \in Nat /\ Cardinality(Nested) \in Nat
         /\ Cardinality(calling) \in Nat
         /\ Cardinality(Holding) <= Cardinality(Rotators)
         /\ Cardinality(Rotators) \in Nat
  <1>1. Holding \subseteq Rotators /\ Nested \subseteq Rotators
    BY DEF Holding, Nested
  <1>2. /\ IsFiniteSet(Holding) /\ IsFiniteSet(Nested)
        /\ Cardinality(Holding) <= Cardinality(Rotators)
    BY <1>1, PoolAssumption, FS_Subset
  <1>3. IsFiniteSet(calling)
    BY PoolAssumption, FS_Subset DEF PoolTyped
  <1> QED
    BY <1>2, <1>3, PoolAssumption, FS_CardinalityType

\* A rotator that takes its first connection adds one to those in use.
LEMMA BeginUsed ==
  ASSUME PoolTypeOK, NEW r \in Rotators, Begin(r)
  PROVE  PoolTyped' /\ Used' = Used + 1
  <1>1. PoolTyped /\ PoolTyped'
    BY DEF PoolTypeOK, PoolTyped, Phases, Begin, Moves
  <1>2. r \notin Holding /\ Holding' = Holding \cup {r} /\ Nested' = Nested
    BY <1>1 DEF PoolTyped, Begin, Moves, Holding, Nested
  <1>3. Cardinality(Holding') = Cardinality(Holding) + 1
    BY <1>1, <1>2, SetsFinite, FS_AddElement
  <1> QED
    BY <1>1, <1>2, <1>3, SetsFinite DEF Used, Begin, PoolTyped

\* So does one that takes the connection of newLog.
LEMMA NestedUsed ==
  ASSUME PoolTypeOK, NEW r \in Rotators, BeginNested(r)
  PROVE  PoolTyped' /\ Used' = Used + 1
  <1>1. PoolTyped /\ PoolTyped'
    BY DEF PoolTypeOK, PoolTyped, Phases, BeginNested, Moves
  <1>2. r \notin Nested /\ Nested' = Nested \cup {r} /\ Holding' = Holding
    BY <1>1 DEF PoolTyped, BeginNested, Moves, Holding, Nested
  <1>3. Cardinality(Nested') = Cardinality(Nested) + 1
    BY <1>1, <1>2, SetsFinite, FS_AddElement
  <1> QED
    BY <1>1, <1>2, <1>3, SetsFinite DEF Used, BeginNested, PoolTyped

\* The ends of the two take one off.
LEMMA EndsUsed ==
  ASSUME PoolTypeOK, NEW r \in Rotators, EndNested(r) \/ End(r)
  PROVE  PoolTyped' /\ Used' = Used - 1
  <1>1. PoolTyped /\ PoolTyped'
    BY DEF PoolTypeOK, PoolTyped, Phases, EndNested, End, Moves
  <1>2. CASE EndNested(r)
    <2>1. r \in Nested /\ Nested' = Nested \ {r} /\ Holding' = Holding
      BY <1>1, <1>2 DEF PoolTyped, EndNested, Moves, Holding, Nested
    <2>2. Cardinality(Nested') = Cardinality(Nested) - 1
      BY <1>1, <2>1, SetsFinite, FS_RemoveElement
    <2> QED
      BY <1>1, <1>2, <2>1, <2>2, SetsFinite DEF Used, EndNested, PoolTyped
  <1>3. CASE End(r)
    <2>1. r \in Holding /\ Holding' = Holding \ {r} /\ Nested' = Nested
      BY <1>1, <1>3 DEF PoolTyped, End, Moves, Holding, Nested
    <2>2. Cardinality(Holding') = Cardinality(Holding) - 1
      BY <1>1, <2>1, SetsFinite, FS_RemoveElement
    <2> QED
      BY <1>1, <1>3, <2>1, <2>2, SetsFinite DEF Used, End, PoolTyped
  <1> QED
    BY <1>2, <1>3

\* A handler's connection is taken and given back.
LEMMA CallsUsed ==
  ASSUME PoolTypeOK, NEW h \in Callers
  PROVE  /\ BeginCall(h) => PoolTyped' /\ Used' = Used + 1
         /\ EndCall(h) => PoolTyped' /\ Used' = Used - 1
  <1>1. PoolTyped
    BY DEF PoolTypeOK, PoolTyped, Phases
  <1>2. ASSUME BeginCall(h) PROVE PoolTyped' /\ Used' = Used + 1
    <2>1. PoolTyped' /\ Holding' = Holding /\ Nested' = Nested
      BY <1>1, <1>2 DEF PoolTyped, BeginCall, Holding, Nested
    <2>2. Cardinality(calling') = Cardinality(calling) + 1
      BY <1>1, <1>2, SetsFinite, FS_AddElement DEF BeginCall
    <2> QED
      BY <1>1, <1>2, <2>1, <2>2, SetsFinite DEF Used, BeginCall, PoolTyped
  <1>3. ASSUME EndCall(h) PROVE PoolTyped' /\ Used' = Used - 1
    <2>1. PoolTyped' /\ Holding' = Holding /\ Nested' = Nested
      BY <1>1, <1>3 DEF PoolTyped, EndCall, Holding, Nested
    <2>2. Cardinality(calling') = Cardinality(calling) - 1
      BY <1>1, <1>3, SetsFinite, FS_RemoveElement DEF EndCall
    <2> QED
      BY <1>1, <1>3, <2>1, <2>2, SetsFinite DEF Used, EndCall, PoolTyped
  <1> QED
    BY <1>2, <1>3

\* Every step keeps the variables in their types and the pool within its limit.
LEMMA PoolStep == PoolTypeOK /\ [PoolNext]_poolVars => PoolTypeOK'
  <1> SUFFICES ASSUME PoolTypeOK, [PoolNext]_poolVars PROVE PoolTypeOK'
    OBVIOUS
  <1>1. PoolTyped /\ Used \in Int /\ Used <= MaxConns /\ MaxConns \in Nat
    <2>1. PoolTyped /\ leaked \in Nat
      BY PoolAssumption DEF PoolTypeOK, PoolTyped, Phases
    <2> QED
      BY <2>1, SetsFinite, PoolAssumption DEF Used, PoolTypeOK
  <1>2. ASSUME PoolTyped', Used' <= MaxConns PROVE PoolTypeOK'
    BY <1>2 DEF PoolTyped, PoolTypeOK, Phases
  <1>3. ASSUME NEW r \in Rotators, Begin(r) \/ Rotate(r) PROVE PoolTypeOK'
    BY <1>1, <1>2, <1>3, BeginUsed, NestedUsed, EndsUsed DEF Rotate, Begin, BeginNested, Free
  <1>4. ASSUME NEW h \in Callers, BeginCall(h) \/ EndCall(h) PROVE PoolTypeOK'
    BY <1>1, <1>2, <1>4, CallsUsed DEF BeginCall, Free
  <1>5. CASE UpdateUnknown
    <2>1. PoolTyped' /\ Holding' = Holding /\ Nested' = Nested
      BY <1>1, <1>5, PoolAssumption DEF PoolTyped, UpdateUnknown, Holding, Nested
    <2>2. Used' = Used + 1
      BY <1>1, <1>5, <2>1, SetsFinite, PoolAssumption DEF Used, UpdateUnknown, PoolTyped
    <2> QED
      BY <1>1, <1>2, <1>5, <2>1, <2>2 DEF UpdateUnknown, Free
  <1>6. CASE UNCHANGED poolVars
    BY <1>6 DEF poolVars, PoolTypeOK, Used, Holding, Nested
  <1> QED
    BY <1>3, <1>4, <1>5, <1>6 DEF PoolNext

\* An empty pool is well typed.
LEMMA PoolStarts == PoolInit => PoolTypeOK
  <1> SUFFICES ASSUME PoolInit PROVE PoolTypeOK
    OBVIOUS
  <1>1. Holding = {} /\ Nested = {} /\ calling = {} /\ leaked = 0
    BY DEF PoolInit, Holding, Nested
  <1>2. Used = 0
    BY <1>1, FS_EmptySet DEF Used
  <1> QED
    BY <1>2, PoolAssumption DEF PoolInit, PoolTypeOK

\* The program never uses more connections than the pool has, however many goroutines
\* ask for one and however often one of them needs a second one.
THEOREM PoolBounded == PoolSpec => []PoolTypeOK
  BY PoolStarts, PoolStep, PTL DEF PoolSpec

\* With more connections than runners and leaks together, runners that rotate their logs
\* never wait for each other alone, for any number of runners.
THEOREM NoCircularWait == PoolSpec => []SomebodyGoesOn
  <1>1. PoolTypeOK => SomebodyGoesOn
    <2> SUFFICES ASSUME PoolTypeOK, Enough, calling = {},
                        \A r \in Rotators : phase[r] \notin {"inner", "last"}
                 PROVE  Free
      BY DEF SomebodyGoesOn
    <2>1. PoolTyped /\ leaked \in Nat /\ leaked <= MaxLeaks /\ MaxLeaks \in Nat
      BY PoolAssumption DEF PoolTypeOK, PoolTyped, Phases
    <2>2. Nested = {} /\ Cardinality(Nested) = 0 /\ Cardinality(calling) = 0
      BY FS_EmptySet DEF Nested
    <2>3. Used = Cardinality(Holding) + leaked
      BY <2>1, <2>2, SetsFinite DEF Used
    <2> QED
      BY <2>1, <2>3, SetsFinite, PoolAssumption DEF Enough, Free
  <1> QED
    BY <1>1, PoolBounded, PTL
=============================================================================
