---------------------------- MODULE ReadingProofs ----------------------------
(***************************************************************************)
(* Theorems about the two sides of reading, and their proofs: LogCopy, how *)
(* a log is copied, and Windows, what a client gets that asks for one time *)
(* window after the other.                                                 *)
(***************************************************************************)
EXTENDS LogCopy, Windows, FiniteSetTheorems, SequenceTheorems, TLAPS

\* The counter is ready for the first line.
CountReady == fed = <<>> => count = 1

\* The inductive invariant.
RunInv == CopyTypeOK /\ CountReady /\ RunIsCounted

\* The initial states satisfy the invariant.
LEMMA RunInit == CopyInit => RunInv
  <1> SUFFICES ASSUME CopyInit PROVE RunInv
    OBVIOUS
  <1>1. partial \in BOOLEAN /\ copying \in BOOLEAN
    BY DEF CopyInit
  <1>2. fed = <<>> /\ lastLine = <<>> /\ count = 1
    BY DEF CopyInit
  <1> QED
    BY <1>1, <1>2 DEF RunInv, CopyTypeOK, CountReady, RunIsCounted

\* A line that was read extends the run, or begins the next one.
LEMMA RunReadLine == ASSUME RunInv, NEW l \in Lines, ReadLine(l) PROVE RunInv'
  <1> USE DEF RunInv, ReadLine
  <1>1. /\ fed' = Append(fed, l) /\ fed \in Seq(Lines) /\ fed' \in Seq(Lines)
        /\ Len(fed) \in Nat /\ Len(fed') = Len(fed) + 1 /\ fed'[Len(fed')] = l
        /\ \A i \in 1..Len(fed) : fed'[i] = fed[i]
    BY DEF CopyTypeOK
  <1>2. partial' \in BOOLEAN /\ copying' \in BOOLEAN
    BY DEF CopyTypeOK
  <1> fed' # <<>> /\ CountReady'
    BY <1>1 DEF CountReady
  <1>3. CASE lastLine = <<>>
    <2>1. fed = <<>> /\ Len(fed) = 0 /\ lastLine' = <<l>> /\ count' = count
      BY <1>3 DEF CopyTypeOK
    <2>2. Len(fed') = 1 /\ count' = 1
      BY <1>1, <2>1 DEF CountReady
    <2>3. CopyTypeOK'
      BY <1>1, <1>2, <2>1, <2>2 DEF CopyTypeOK
    <2>4. RunIsCounted'
      BY <1>1, <2>1, <2>2 DEF CopyTypeOK, RunIsCounted
    <2> QED
      BY <2>3, <2>4
  <1>4. CASE lastLine = <<l>>
    <2>1. fed # <<>> /\ fed[Len(fed)] = l /\ lastLine' = <<l>> /\ count' = count + 1
      BY <1>4 DEF CopyTypeOK
    <2>2. CopyTypeOK'
      BY <1>1, <1>2, <2>1 DEF CopyTypeOK
    <2>3. count \in Nat \ {0} /\ Len(fed') - count' = Len(fed) - count
      BY <1>1, <2>1 DEF CopyTypeOK
    <2> HIDE DEF ReadLine
    <2>4. count' <= Len(fed')
      BY <1>1, <2>1, <2>3 DEF RunIsCounted
    <2>5. ASSUME NEW i \in 1..Len(fed'), i > Len(fed) - count PROVE fed'[i] = l
      BY <1>1, <2>1, <2>3, <2>5 DEF RunIsCounted
    <2>6. ASSUME count' < Len(fed') PROVE fed'[Len(fed) - count] # l
      <3>1. count < Len(fed) /\ Len(fed) - count \in 1..Len(fed)
        BY <1>1, <2>1, <2>3, <2>6
      <3> QED
        BY <1>1, <2>1, <3>1 DEF RunIsCounted
    <2>7. RunIsCounted'
      BY <1>1, <2>3, <2>4, <2>5, <2>6 DEF RunIsCounted
    <2> QED
      BY <2>2, <2>7
  <1>5. CASE lastLine \notin {<<>>, <<l>>}
    <2>1. fed # <<>> /\ fed[Len(fed)] # l /\ lastLine' = <<l>> /\ count' = 1
      BY <1>5 DEF CopyTypeOK, NextRun
    <2>2. CopyTypeOK'
      BY <1>1, <1>2, <2>1 DEF CopyTypeOK
    <2>3. RunIsCounted'
      BY <1>1, <2>1 DEF CopyTypeOK, RunIsCounted
    <2> QED
      BY <2>2, <2>3
  <1> QED
    BY <1>3, <1>4, <1>5

\* Every step preserves the invariant.
LEMMA RunStep == RunInv /\ [CopyNext]_copyVars => RunInv'
  <1> SUFFICES ASSUME RunInv, [CopyNext]_copyVars PROVE RunInv'
    OBVIOUS
  <1>1. CASE ReadPrefix
    BY <1>1 DEF ReadPrefix, RunInv, CopyTypeOK, CountReady, RunIsCounted
  <1>2. CASE ReadEnd
    BY <1>2 DEF ReadEnd, RunInv, CopyTypeOK, CountReady, RunIsCounted
  <1>3. ASSUME NEW l \in Lines, ReadLine(l) PROVE RunInv'
    BY <1>3, RunReadLine
  <1>4. CASE UNCHANGED copyVars
    BY <1>4 DEF copyVars, RunInv, CopyTypeOK, CountReady, RunIsCounted
  <1> QED
    BY <1>1, <1>2, <1>3, <1>4 DEF CopyNext

\* The invariant holds in every state.
LEMMA RunAlways == CopySpec => []RunInv
  BY RunInit, RunStep, PTL DEF CopySpec

\* The copier's variables are well typed, for every log and every threshold.
THEOREM CopyTyped == CopySpec => []CopyTypeOK
  <1>1. RunInv => CopyTypeOK
    BY DEF RunInv
  <1> QED
    BY <1>1, RunAlways, PTL

\* The number that a marker tells is the length of the run, for every log.
THEOREM RunCounted == CopySpec => []RunIsCounted
  <1>1. RunInv => RunIsCounted
    BY DEF RunInv
  <1> QED
    BY <1>1, RunAlways, PTL

-----------------------------------------------------------------------------
(* What a reader of the copy understands.                                   *)

\* The texts that the first n items of o give, one after the other.
Reads(f, o, n) == f = [k \in 0..n |-> IF k = 0 THEN <<>> ELSE Read(f[k - 1], o[k])]

\* There is such a reading of any number of items: by induction, in the form that a set of
\* counterexamples would have a least one.
LEMMA ReadsExists == ASSUME NEW o, Len(o) \in Nat PROVE \A n \in Nat : \E f : Reads(f, o, n)
  <1> DEFINE Bad == {n \in Nat : ~\E f : Reads(f, o, n)}
  <1> SUFFICES ASSUME Bad # {} PROVE FALSE
    OBVIOUS
  <1>1. PICK n \in Bad : \A m \in Bad : <<m, n>> \notin OpToRel(<, Nat)
    <2>1. Bad \subseteq Nat /\ Bad # {}
      OBVIOUS
    <2> HIDE DEF Bad
    <2> QED
      BY ONLY <2>1, WFMin, NatLessThanWellFounded, Zenon
  <1>2. n \in Nat /\ \A m \in Bad : ~(m < n)
    BY <1>1 DEF OpToRel
  <1>3. n # 0
    <2>1. Reads([k \in 0..0 |-> <<>>], o, 0)
      BY DEF Reads
    <2> QED
      BY <2>1
  <1>4. n - 1 \in Nat /\ n - 1 \notin Bad
    BY <1>2, <1>3
  <1>5. PICK f : Reads(f, o, n - 1)
    BY <1>4
  <1> DEFINE g == [k \in 0..n |-> IF k = n THEN Read(f[n - 1], o[n]) ELSE f[k]]
  <1>6. Reads(g, o, n)
    <2>0. \A k \in 0..n - 1 : f[k] = IF k = 0 THEN <<>> ELSE Read(f[k - 1], o[k])
      BY <1>5 DEF Reads
    <2>1. ASSUME NEW k \in 0..n PROVE g[k] = IF k = 0 THEN <<>> ELSE Read(g[k - 1], o[k])
      <3>1. CASE k = n
        BY <1>2, <1>3, <3>1
      <3>2. CASE k # n
        <4>1. k \in 0..n - 1 /\ g[k] = f[k] /\ (k # 0 => g[k - 1] = f[k - 1])
          BY <1>2, <1>3, <3>2
        <4> QED
          BY <2>0, <4>1
      <3> QED
        BY <3>1, <3>2
    <2>2. g = [k \in 0..n |-> g[k]]
      OBVIOUS
    <2> HIDE DEF g
    <2> QED
      BY <2>1, <2>2 DEF Reads
  <1> QED
    BY <1>1, <1>6

\* What is understood is the last text of such a reading.
LEMMA UnderstandingIs == ASSUME NEW o, Len(o) \in Nat
  PROVE \E f : Reads(f, o, Len(o)) /\ Understanding(o) = f[Len(o)]
  <1> DEFINE F == CHOOSE f : Reads(f, o, Len(o))
  <1>1. Reads(F, o, Len(o))
    BY ReadsExists
  <1>2. Understanding(o) = F[Len(o)]
    BY DEF Understanding, Reads
  <1> QED
    BY <1>1, <1>2

\* Readings of items that begin alike begin alike.
LEMMA ReadsAgree ==
  ASSUME NEW o, NEW q, NEW n \in Nat, NEW m \in Nat, n <= m, \A k \in 1..n : o[k] = q[k],
         NEW f, NEW g, Reads(f, o, n), Reads(g, q, m)
  PROVE  f[n] = g[n]
  <1> DEFINE Bad == {k \in Nat : k <= n /\ f[k] # g[k]}
  <1> SUFFICES ASSUME f[n] # g[n] PROVE FALSE
    OBVIOUS
  <1>1. PICK k \in Bad : \A j \in Bad : <<j, k>> \notin OpToRel(<, Nat)
    <2>1. Bad \subseteq Nat /\ Bad # {}
      OBVIOUS
    <2> HIDE DEF Bad
    <2> QED
      BY ONLY <2>1, WFMin, NatLessThanWellFounded, Zenon
  <1>2. k \in Nat /\ k <= n /\ f[k] # g[k] /\ \A j \in Bad : ~(j < k)
    BY <1>1 DEF OpToRel
  <1>3. k \in 0..n /\ k \in 0..m
    BY <1>2
  <1>4. /\ f[k] = IF k = 0 THEN <<>> ELSE Read(f[k - 1], o[k])
        /\ g[k] = IF k = 0 THEN <<>> ELSE Read(g[k - 1], q[k])
    BY <1>3 DEF Reads
  <1>5. k # 0
    BY <1>2, <1>4
  <1>6. k - 1 \in Nat /\ k - 1 <= n /\ k - 1 < k /\ k \in 1..n
    BY <1>2, <1>5
  <1>7. f[k - 1] = g[k - 1]
    BY <1>2, <1>6
  <1> QED
    BY <1>2, <1>4, <1>5, <1>6, <1>7

\* Nothing written is understood as nothing.
LEMMA NothingUnderstood == Understanding(<<>>) = <<>>
  <1>1. Len(<<>>) = 0 /\ Len(<<>>) \in Nat
    OBVIOUS
  <1>2. PICK f : Reads(f, <<>>, Len(<<>>)) /\ Understanding(<<>>) = f[Len(<<>>)]
    BY <1>1, UnderstandingIs
  <1>3. Reads(f, <<>>, 0) /\ Understanding(<<>>) = f[0]
    BY <1>1, <1>2
  <1> QED
    BY <1>3 DEF Reads

\* An item that is appended is read after all others.
LEMMA AppendUnderstood ==
  ASSUME NEW S, NEW o \in Seq(S), NEW w \in S
  PROVE  Understanding(Append(o, w)) = Read(Understanding(o), w)
  <1> DEFINE q == Append(o, w)
  <1>1. /\ Len(o) \in Nat /\ Len(q) = Len(o) + 1 /\ Len(q) \in Nat /\ q[Len(o) + 1] = w
        /\ \A k \in 1..Len(o) : o[k] = q[k]
    OBVIOUS
  <1> HIDE DEF q
  <1>2. PICK f : Reads(f, o, Len(o)) /\ Understanding(o) = f[Len(o)]
    BY <1>1, UnderstandingIs
  <1>3. PICK g : Reads(g, q, Len(q)) /\ Understanding(q) = g[Len(q)]
    BY <1>1, UnderstandingIs
  <1>4. f[Len(o)] = g[Len(o)]
    BY <1>1, <1>2, <1>3, ReadsAgree
  <1>5. Len(o) + 1 \in 0..Len(q) /\ Len(o) + 1 # 0 /\ Len(o) + 1 - 1 = Len(o)
    BY <1>1
  <1>6. g[Len(o) + 1] = Read(g[Len(o)], q[Len(o) + 1])
    BY <1>3, <1>5 DEF Reads
  <1> QED
    BY <1>1, <1>2, <1>3, <1>4, <1>6 DEF q

\* A sequence that begins like one and goes on like another is the two together.
LEMMA Joined ==
  ASSUME NEW T, NEW s \in Seq(T), NEW t \in Seq(T), NEW u \in Seq(T), Len(u) = Len(s) + Len(t),
         \A i \in 1..Len(s) : u[i] = s[i], \A i \in 1..Len(t) : u[Len(s) + i] = t[i]
  PROVE  s \o t = u
  <1>1. /\ s \o t \in Seq(T) /\ Len(s \o t) = Len(u) /\ Len(s) \in Nat /\ Len(t) \in Nat
    OBVIOUS
  <1>2. ASSUME NEW i \in 1..Len(u) PROVE (s \o t)[i] = u[i]
    <2>1. CASE i <= Len(s)
      BY <1>1, <2>1
    <2>2. CASE i > Len(s)
      <3>1. i - Len(s) \in 1..Len(t) /\ Len(s) + (i - Len(s)) = i
        BY <1>1, <2>2
      <3>2. (s \o t)[i] = t[i - Len(s)]
        BY <1>1, <2>2
      <3> QED
        BY <3>1, <3>2
    <2> QED
      BY <1>1, <2>1, <2>2
  <1> QED
    BY <1>1, <1>2, SeqEqual

\* Appending to the second of two sequences appends to both together.
LEMMA ConcatAppend ==
  ASSUME NEW T, NEW s \in Seq(T), NEW t \in Seq(T), NEW x \in T
  PROVE  s \o Append(t, x) = Append(s \o t, x)
  <1>1. Append(t, x) \in Seq(T) /\ Append(s \o t, x) \in Seq(T)
    OBVIOUS
  <1>2. Len(Append(s \o t, x)) = Len(s) + Len(Append(t, x))
    OBVIOUS
  <1>3. \A i \in 1..Len(s) : Append(s \o t, x)[i] = s[i]
    OBVIOUS
  <1>4. \A i \in 1..Len(Append(t, x)) : Append(s \o t, x)[Len(s) + i] = Append(t, x)[i]
    OBVIOUS
  <1> QED
    BY <1>1, <1>2, <1>3, <1>4, Joined

\* One more copy is one that is appended.
LEMMA OneMoreCopy ==
  ASSUME NEW T, NEW x \in T, NEW m \in Nat
  PROVE  /\ [i \in 1..m |-> x] \in Seq(T) /\ Len([i \in 1..m |-> x]) = m
         /\ [i \in 1..m + 1 |-> x] = Append([i \in 1..m |-> x], x)
  <1>1. /\ [i \in 1..m |-> x] \in Seq(T) /\ Len([i \in 1..m |-> x]) = m
        /\ [i \in 1..m + 1 |-> x] \in Seq(T) /\ Len([i \in 1..m + 1 |-> x]) = m + 1
    OBVIOUS
  <1> DEFINE s == [i \in 1..m |-> x]
             t == [i \in 1..m + 1 |-> x]
  <1>2. \A i \in 1..m + 1 : Append(s, x)[i] = x /\ t[i] = x
    BY <1>1
  <1>3. Append(s, x) \in Seq(T) /\ Len(Append(s, x)) = m + 1
    BY <1>1
  <1>4. t = Append(s, x)
    <2>1. t \in Seq(T) /\ Len(t) = m + 1
      BY <1>1
    <2> HIDE DEF s, t
    <2> QED
      BY <1>2, <1>3, <2>1, SeqEqual
  <1> QED
    BY <1>1, <1>4

Texts == Seq(Lines)
Written == [text : Texts, times : Nat]

\* A line that is written several times is understood as that many.
LEMMA CopiesUnderstood ==
  ASSUME NEW o \in Seq(Written), Understanding(o) \in Seq(Texts), NEW l \in Texts
  PROVE  \A n \in Nat : /\ o \o LineCopies(l, n) \in Seq(Written)
                        /\ Understanding(o \o LineCopies(l, n))
                             = Understanding(o) \o [i \in 1..n |-> l]
  <1> DEFINE Good(n) == /\ o \o LineCopies(l, n) \in Seq(Written)
                        /\ Understanding(o \o LineCopies(l, n))
                             = Understanding(o) \o [i \in 1..n |-> l]
             Bad == {n \in Nat : ~Good(n)}
  <1>0. Plain(l) \in Written
    BY DEF Plain, Written
  <1> SUFFICES ASSUME Bad # {} PROVE FALSE
    OBVIOUS
  <1>1. PICK n \in Bad : \A m \in Bad : <<m, n>> \notin OpToRel(<, Nat)
    <2>1. Bad \subseteq Nat /\ Bad # {}
      OBVIOUS
    <2> HIDE DEF Bad
    <2> QED
      BY ONLY <2>1, WFMin, NatLessThanWellFounded, Zenon
  <1>2. n \in Nat /\ ~Good(n) /\ \A m \in Bad : ~(m < n)
    BY <1>1 DEF OpToRel
  <1>3. Good(0)
    <2>1. LineCopies(l, 0) = <<>>
      BY DEF LineCopies
    <2>2. [i \in 1..0 |-> l] = <<>>
      OBVIOUS
    <2>3. o \o <<>> = o /\ Understanding(o) \o <<>> = Understanding(o)
      OBVIOUS
    <2> QED
      BY <2>1, <2>2, <2>3
  <1>4. n - 1 \in Nat /\ Good(n - 1)
    <2> HIDE DEF Good
    <2>1. n # 0
      BY <1>2, <1>3
    <2>2. n - 1 \in Nat /\ n - 1 < n
      BY <1>2, <2>1
    <2> QED
      BY <1>2, <2>2
  <1>5. PICK m \in Nat : m = n - 1
    BY <1>4
  <1> n = m + 1 /\ o \o LineCopies(l, m) \in Seq(Written)
    BY <1>2, <1>4, <1>5
  <1>6. o \o LineCopies(l, n) = Append(o \o LineCopies(l, m), Plain(l))
    <2>1. /\ LineCopies(l, n) = Append(LineCopies(l, m), Plain(l))
          /\ LineCopies(l, m) \in Seq(Written)
      BY <1>0, <1>5, OneMoreCopy DEF LineCopies
    <2>2. PICK copies \in Seq(Written) : copies = LineCopies(l, m)
      BY <2>1
    <2>3. o \o Append(copies, Plain(l)) = Append(o \o copies, Plain(l))
      BY <1>0, ConcatAppend
    <2> QED
      BY <2>1, <2>2, <2>3
  <1>7. Understanding(o) \o [i \in 1..n |-> l] = Append(Understanding(o) \o [i \in 1..m |-> l], l)
    <2>1. /\ [i \in 1..n |-> l] = Append([i \in 1..m |-> l], l)
          /\ [i \in 1..m |-> l] \in Seq(Texts)
      BY <1>5, OneMoreCopy
    <2>2. PICK run \in Seq(Texts) : run = [i \in 1..m |-> l]
      BY <2>1
    <2>3. Understanding(o) \o Append(run, l) = Append(Understanding(o) \o run, l)
      BY ConcatAppend
    <2> QED
      BY <2>1, <2>2, <2>3
  <1>8. Understanding(o \o LineCopies(l, n)) = Read(Understanding(o \o LineCopies(l, m)), Plain(l))
    BY <1>0, <1>6, AppendUnderstood
  <1>9. \A t : Read(t, Plain(l)) = Append(t, l)
    BY DEF Read, Plain
  <1>10. o \o LineCopies(l, n) \in Seq(Written)
    <2>1. PICK q \in Seq(Written) : q = o \o LineCopies(l, m)
      OBVIOUS
    <2>2. Append(q, Plain(l)) \in Seq(Written)
      BY <1>0
    <2> QED
      BY <1>6, <2>1, <2>2
  <1> QED
    BY <1>2, <1>4, <1>5, <1>7, <1>8, <1>9, <1>10

\* The first n lines that were read.
FirstLines(n) == [i \in 1..n |-> <<fed[i]>>]

\* While the copier reads, what it wrote is understood as what was read before the run that
\* it counts.
ReadSoFar == copying => Understanding(out) = FirstLines(Len(fed) - count)
CopyInv == RunInv /\ out \in Seq(Written) /\ ReadSoFar /\ CopyIsUnderstood

\* A run that is written is understood as what the copier counted.
LEMMA RunUnderstood ==
  ASSUME RunInv, out \in Seq(Written), Understanding(out) \in Seq(Texts), lastLine \in Texts
  PROVE  /\ out \o Run \in Seq(Written)
         /\ Understanding(out \o Run) = Understanding(out) \o [i \in 1..count |-> lastLine]
  <1>0. count \in Nat \ {0} /\ Threshold \in Nat
    BY LogCopyAssumption DEF RunInv, CopyTypeOK, LogCopyAssumption
  <1>1. CASE ~(count > Threshold)
    <2>1. Run = LineCopies(lastLine, count)
      BY <1>1 DEF Run
    <2> QED
      BY <1>0, <2>1, CopiesUnderstood
  <1>2. CASE count > Threshold
    <2> DEFINE p == Plain(lastLine)
               q == Marker(count)
               text == Append(Understanding(out), lastLine)
    <2>1. p \in Written /\ q \in Written
      BY <1>0 DEF Plain, Marker, Written, Texts
    <2>2. out \o Run = Append(Append(out, p), q)
      <3>1. Run = <<p, q>>
        BY <1>2 DEF Run
      <3> HIDE DEF p, q
      <3> QED
        BY <2>1, <3>1
    <2>3. out \o Run \in Seq(Written)
      <3> HIDE DEF p, q
      <3> QED
        BY <2>1, <2>2
    <2>4. Understanding(Append(out, p)) = Read(Understanding(out), p)
      BY <2>1, AppendUnderstood
    <2>5. Read(Understanding(out), p) = text
      BY DEF Read, Plain
    <2>6. Understanding(out \o Run) = Read(text, q)
      <3>1. Append(out, p) \in Seq(Written)
        BY <2>1
      <3> HIDE DEF p, q, text
      <3> QED
        BY <2>1, <2>2, <2>4, <2>5, <3>1, AppendUnderstood
    <2>7. text \in Seq(Texts) /\ text # <<>> /\ text[Len(text)] = lastLine
      OBVIOUS
    <2>8. Read(text, q) = text \o [i \in 1..count - 1 |-> lastLine]
      <3>1. Read(text, q) = text \o [i \in 1..count - 1 |-> text[Len(text)]]
        BY <1>0, <2>7 DEF Read, Marker
      <3> HIDE DEF text
      <3> QED
        BY <2>7, <3>1
    <2>9. text \o [i \in 1..count - 1 |-> lastLine]
            = Understanding(out) \o [i \in 1..count |-> lastLine]
      <3>1. PICK u \in Seq(Texts), l \in Texts : u = Understanding(out) /\ l = lastLine
        OBVIOUS
      <3>2. PICK n \in Nat : count = n + 1 /\ count - 1 = n
        BY <1>0
      <3>3. PICK few \in Seq(Texts) : /\ few = [i \in 1..n |-> l] /\ Len(few) = n
                                      /\ \A i \in 1..n : few[i] = l
        <4>1. [i \in 1..n |-> l] \in Seq(Texts) /\ Len([i \in 1..n |-> l]) = n
          BY OneMoreCopy
        <4>2. \A i \in 1..n : [j \in 1..n |-> l][i] = l
          OBVIOUS
        <4> QED
          BY <4>1, <4>2
      <3>4. [i \in 1..count |-> l] = Append(few, l)
        BY <3>2, <3>3, OneMoreCopy
      <3>5. Append(u, l) \o few = u \o Append(few, l)
        <4> DEFINE both == u \o Append(few, l)
        <4>1. /\ both \in Seq(Texts) /\ Len(both) = Len(Append(u, l)) + Len(few)
              /\ Append(u, l) \in Seq(Texts)
          OBVIOUS
        <4>2. \A i \in 1..n + 1 : Append(few, l)[i] = l
          BY <3>3
        <4>3. \A i \in 1..Len(Append(u, l)) : both[i] = Append(u, l)[i]
          BY <3>3, <4>2
        <4>4. ASSUME NEW i \in 1..Len(few) PROVE both[Len(Append(u, l)) + i] = few[i]
          <5>1. both[Len(u) + (1 + i)] = Append(few, l)[1 + i]
            OBVIOUS
          <5>2. Len(Append(u, l)) + i = Len(u) + (1 + i)
            OBVIOUS
          <5> HIDE DEF both
          <5> QED
            BY <3>3, <4>2, <5>1, <5>2
        <4> HIDE DEF both
        <4>5. Append(u, l) \o few = both
          BY <4>1, <4>3, <4>4, Joined
        <4> QED
          BY <4>5 DEF both
      <3> QED
        BY <3>1, <3>2, <3>3, <3>4, <3>5
    <2> QED
      BY <2>3, <2>6, <2>8, <2>9
  <1> QED
    BY <1>1, <1>2

\* What was read before the run, and the run, are what was read.
LEMMA BeforeAndRun ==
  ASSUME RunInv, fed # <<>>
  PROVE  /\ FirstLines(Len(fed) - count) \in Seq(Texts) /\ lastLine \in Texts
         /\ FirstLines(Len(fed)) \in Seq(Texts)
         /\ FirstLines(Len(fed) - count) \o [i \in 1..count |-> lastLine] = FirstLines(Len(fed))
  <1> DEFINE n == Len(fed)
  <1>1. /\ fed \in Seq(Lines) /\ n \in Nat /\ count \in Nat \ {0} /\ count <= n
        /\ lastLine = <<fed[n]>> /\ n \in 1..n
        /\ \A i \in 1..n : i > n - count => fed[i] = fed[n]
    BY DEF RunInv, CopyTypeOK, RunIsCounted
  <1>2. \A i \in 1..n : <<fed[i]>> \in Texts
    BY <1>1 DEF Texts
  <1> DEFINE before == FirstLines(n - count)
             run == [i \in 1..count |-> lastLine]
             all == FirstLines(n)
  <1>3. n - count \in Nat /\ \A i \in 1..n - count : i \in 1..n
    BY <1>1
  <1>4. /\ before \in Seq(Texts) /\ Len(before) = n - count
        /\ \A i \in 1..n - count : before[i] = <<fed[i]>>
    BY <1>2, <1>3 DEF FirstLines
  <1>5. all \in Seq(Texts) /\ Len(all) = n /\ \A i \in 1..n : all[i] = <<fed[i]>>
    BY <1>1, <1>2 DEF FirstLines
  <1>6. lastLine \in Texts
    BY <1>1, <1>2
  <1>7. run \in Seq(Texts) /\ Len(run) = count /\ \A i \in 1..count : run[i] = <<fed[n]>>
    <2>1. run \in Seq(Texts) /\ Len(run) = count
      BY <1>1, <1>6, OneMoreCopy
    <2>2. \A i \in 1..count : run[i] = lastLine
      OBVIOUS
    <2> QED
      BY <1>1, <2>1, <2>2
  <1> HIDE DEF before, run, all, n
  <1>8. /\ Len(all) = Len(before) + Len(run)
        /\ \A i \in 1..Len(before) : all[i] = before[i]
    <2>1. n \in Nat /\ count \in Nat /\ Len(all) = n /\ Len(before) = n - count /\ Len(run) = count
      BY <1>1, <1>4, <1>5, <1>7
    <2>2. \A i \in 1..n - count : all[i] = before[i]
      BY <1>3, <1>4, <1>5
    <2> QED
      BY <2>1, <2>2
  <1>9. ASSUME NEW i \in 1..Len(run) PROVE all[Len(before) + i] = run[i]
    <2>1. Len(before) + i \in 1..n /\ Len(before) + i > n - count
      BY <1>1, <1>3, <1>4, <1>7
    <2> QED
      BY <1>1, <1>5, <1>7, <2>1
  <1>10. before \o run = all
    BY <1>4, <1>5, <1>7, <1>8, <1>9, Joined
  <1> QED
    BY <1>4, <1>5, <1>6, <1>10 DEF before, run, all, n

\* What is understood depends on the lines that were read only.
LEMMA SameLines ==
  ASSUME NEW n \in Int, \A i \in 1..n : fed'[i] = fed[i] PROVE FirstLines(n)' = FirstLines(n)
  BY DEF FirstLines

LEMMA CopyStart == CopyInit => CopyInv
  <1> SUFFICES ASSUME CopyInit PROVE CopyInv
    OBVIOUS
  <1>1. RunInv
    BY RunInit
  <1>2. out = <<>> /\ fed = <<>> /\ count = 1
    BY DEF CopyInit
  <1>3. FirstLines(Len(fed) - count) = <<>>
    BY <1>2 DEF FirstLines
  <1> QED
    BY <1>1, <1>2, <1>3, NothingUnderstood DEF CopyInv, ReadSoFar, CopyIsUnderstood

LEMMA CopyReadLine == ASSUME CopyInv, NEW l \in Lines, ReadLine(l) PROVE CopyInv'
  <1>1. RunInv /\ RunInv' /\ CopyTypeOK /\ CopyTypeOK'
    BY RunReadLine DEF CopyInv, RunInv
  <1>2. /\ fed' = Append(fed, l) /\ Len(fed') = Len(fed) + 1 /\ Len(fed) \in Nat
        /\ \A i \in 1..Len(fed) : fed'[i] = fed[i]
        /\ copying /\ copying' /\ count \in Nat \ {0}
    BY <1>1 DEF ReadLine, CopyTypeOK
  <1>3. Understanding(out) = FirstLines(Len(fed) - count) /\ out \in Seq(Written)
    BY <1>2 DEF CopyInv, ReadSoFar
  <1>4. CASE lastLine = <<>>
    <2>1. fed = <<>> /\ count = 1 /\ count' = count /\ out' = out
      BY <1>1, <1>4 DEF ReadLine, CopyTypeOK, RunInv, CountReady
    <2>2. Len(fed) - count = -1 /\ Len(fed') - count' = 0
      BY <1>2, <2>1
    <2>3. FirstLines(-1) = <<>> /\ FirstLines(0)' = <<>>
      BY DEF FirstLines
    <2> QED
      BY <1>1, <1>2, <1>3, <2>1, <2>2, <2>3 DEF CopyInv, ReadSoFar, CopyIsUnderstood, FirstLines
  <1>5. CASE lastLine = <<l>>
    <2>1. count' = count + 1 /\ out' = out
      BY <1>5 DEF ReadLine
    <2>2. Len(fed') - count' = Len(fed) - count /\ Len(fed) - count \in Int
      BY <1>2, <2>1
    <2>3. \A i \in 1..Len(fed) - count : fed'[i] = fed[i]
      BY <1>2
    <2>4. FirstLines(Len(fed) - count)' = FirstLines(Len(fed) - count)
      BY <2>2, <2>3 DEF FirstLines
    <2> QED
      BY <1>1, <1>2, <1>3, <2>1, <2>2, <2>4 DEF CopyInv, ReadSoFar, CopyIsUnderstood
  <1>6. CASE lastLine \notin {<<>>, <<l>>}
    <2>1. fed # <<>> /\ count' = 1 /\ out' = out \o Run
      BY <1>1, <1>6 DEF ReadLine, NextRun, CopyTypeOK
    <2>2. out' \in Seq(Written) /\ Understanding(out') = FirstLines(Len(fed))
      BY <1>1, <1>3, <2>1, RunUnderstood, BeforeAndRun
    <2>3. Len(fed') - count' = Len(fed)
      BY <1>2, <2>1
    <2>4. FirstLines(Len(fed') - count') = FirstLines(Len(fed))
      BY <2>3
    <2>5. [i \in 1..Len(fed) |-> <<fed'[i]>>] = FirstLines(Len(fed))
      BY <1>2 DEF FirstLines
    <2> QED
      BY <1>1, <1>2, <2>2, <2>3, <2>5 DEF CopyInv, ReadSoFar, CopyIsUnderstood, FirstLines
  <1> QED
    BY <1>4, <1>5, <1>6

LEMMA CopyReadEnd == ASSUME CopyInv, ReadEnd PROVE CopyInv'
  <1>1. RunInv /\ RunInv' /\ CopyTypeOK
    BY RunStep DEF CopyInv, RunInv, CopyNext
  <1>2. /\ copying /\ ~copying' /\ out' = out \o LastRun /\ UNCHANGED <<fed, count, lastLine>>
        /\ out \in Seq(Written) /\ Understanding(out) = FirstLines(Len(fed) - count)
        /\ count \in Nat
    BY <1>1 DEF ReadEnd, CopyInv, ReadSoFar, CopyTypeOK
  <1>3. CASE count > Threshold
    <2>1. Marker(count) \in Written
      BY <1>2 DEF Marker, Written, Texts
    <2>2. out' \in Seq(Written)
      <3>1. PICK m \in Written : m = Marker(count)
        BY <2>1
      <3>2. out' = out \o <<m>>
        BY <1>2, <1>3, <3>1 DEF LastRun
      <3> QED
        BY <1>2, <3>2
    <2>3. ~(count' <= Threshold)
      BY <1>2, <1>3, LogCopyAssumption DEF LogCopyAssumption
    <2> QED
      BY <1>1, <1>2, <2>2, <2>3 DEF CopyInv, ReadSoFar, CopyIsUnderstood
  <1>4. CASE ~(count > Threshold)
    <2>1. LastRun = LineCopies(lastLine, count) /\ Run = LineCopies(lastLine, count)
      BY <1>4 DEF LastRun, Run
    <2>2. CASE fed # <<>>
      <3>1. out' \in Seq(Written) /\ Understanding(out') = FirstLines(Len(fed))
        BY <1>1, <1>2, <2>1, <2>2, RunUnderstood, BeforeAndRun
      <3> QED
        BY <1>1, <1>2, <3>1 DEF CopyInv, ReadSoFar, CopyIsUnderstood, FirstLines
    <2>3. CASE fed = <<>>
      <3>1. lastLine \in Texts /\ lastLine = <<>>
        BY <1>1, <2>3 DEF CopyTypeOK, Texts
      <3>2. Plain(lastLine) \in Written
        BY <3>1 DEF Plain, Written
      <3>3. LineCopies(lastLine, count) \in Seq(Written)
        BY <1>2, <3>2, OneMoreCopy DEF LineCopies
      <3>4. out' \in Seq(Written)
        BY <1>2, <2>1, <3>3
      <3> QED
        BY <1>1, <1>2, <2>3, <3>4 DEF CopyInv, ReadSoFar, CopyIsUnderstood
    <2> QED
      BY <2>2, <2>3
  <1> QED
    BY <1>3, <1>4

LEMMA CopyStep == CopyInv /\ [CopyNext]_copyVars => CopyInv'
  <1> SUFFICES ASSUME CopyInv, [CopyNext]_copyVars PROVE CopyInv'
    OBVIOUS
  <1>1. ASSUME UNCHANGED <<fed, lastLine, count, out, copying>> PROVE CopyInv'
    <2>1. RunInv'
      BY <1>1, RunStep DEF CopyInv
    <2> QED
      BY <1>1, <2>1 DEF CopyInv, ReadSoFar, CopyIsUnderstood, FirstLines
  <1>2. CASE ReadPrefix
    BY <1>1, <1>2 DEF ReadPrefix
  <1>3. CASE ReadEnd
    BY <1>3, CopyReadEnd
  <1>4. ASSUME NEW l \in Lines, ReadLine(l) PROVE CopyInv'
    BY <1>4, CopyReadLine
  <1>5. CASE UNCHANGED copyVars
    BY <1>1, <1>5 DEF copyVars
  <1> QED
    BY <1>2, <1>3, <1>4, <1>5 DEF CopyNext

\* Who reads a copy understands exactly what was read, for every log and every threshold,
\* but for the line of a last run that is too long.
THEOREM CopyUnderstood == CopySpec => []CopyIsUnderstood
  <1>1. CopyInv => CopyIsUnderstood
    BY DEF CopyInv
  <1> QED
    BY <1>1, CopyStart, CopyStep, PTL DEF CopySpec

-----------------------------------------------------------------------------
(* Windows.                                                                 *)

\* Times, and times that may not have come yet.
Times == Nat \cup {Never}

Entry == [at : Nat, seen : Times]

\* The clock, the entries and the windows of entries are well typed, and no entry or
\* window lies in the future.
EntriesTyped ==
  /\ clk \in Nat
  /\ entries \in Seq(Entry)
  /\ edges \in Seq(Nat) /\ returned \in Seq(SUBSET Nat) /\ Len(returned) = Len(edges)
  /\ \A k \in 1..Len(edges) : edges[k] <= clk

\* An entry that a window holds is returned by it, or crowded out by newer ones of it.
CrowdedOut(i, k) ==
  /\ entries[i].at \in From(SubSeq(edges, 1, k - 1))..edges[k]
  /\ returned[k] # {} /\ \A j \in returned[k] : j > i
Accounted(i) ==
  \/ \E k \in 1..Len(edges) : i \in returned[k]
  \/ \E k \in 1..Len(edges) : entries[i].at < edges[k] /\ edges[k] <= entries[i].seen
  \/ \E k \in 1..Len(edges) : CrowdedOut(i, k)

\* A set of naturals that is bounded and not empty has a greatest element.
LEMMA Greatest ==
  ASSUME NEW S \in SUBSET Nat, NEW n \in Nat, S # {}, \A s \in S : s <= n
  PROVE  \E m \in S : \A s \in S : s <= m
  <1> DEFINE T == {b \in Nat : \A s \in S : s <= b}
  <1>1. T \subseteq Nat /\ T # {}
    OBVIOUS
  <1>2. PICK b \in T : \A y \in T : <<y, b>> \notin OpToRel(<, Nat)
    BY ONLY <1>1, WFMin, NatLessThanWellFounded, Zenon
  <1>3. \A y \in T : ~(y < b)
    BY <1>1, <1>2 DEF OpToRel
  <1>4. b \in S
    <2> SUFFICES ASSUME b \notin S PROVE FALSE
      OBVIOUS
    <2>1. PICK s \in S : TRUE
      OBVIOUS
    <2>2. b \in Nat /\ s \in Nat /\ s < b /\ \A t \in S : t \in Nat /\ t <= b /\ t # b
      OBVIOUS
    <2>3. b - 1 \in Nat /\ \A t \in S : t <= b - 1
      BY <2>2
    <2>4. b - 1 \in T
      BY <2>3
    <2> QED
      BY <1>3, <2>2, <2>4
  <1> QED
    BY <1>4

\* A limit that is not zero leaves something of what was found, and what it leaves out
\* is older than all of it.
LEMMA NewestAreNewer ==
  ASSUME NEW ids \in SUBSET Nat, NEW n \in Nat, \A i \in ids : i <= n,
         NEW limit \in Nat \ {0}, NEW i \in ids, i \notin NewestOf(ids, limit)
  PROVE  NewestOf(ids, limit) # {} /\ \A j \in NewestOf(ids, limit) : j > i
  <1> DEFINE After(j) == {h \in ids : h > j}
  <1>0. \A h \in ids : h \in Nat
    OBVIOUS
  <1>1. ASSUME NEW j \in ids PROVE IsFiniteSet(After(j)) /\ Cardinality(After(j)) \in Nat
    <2>1. IsFiniteSet(ids)
      BY FS_BoundedSetOfNaturals
    <2>2. IsFiniteSet(After(j))
      BY <2>1, FS_Subset
    <2> QED
      BY <2>2, FS_CardinalityType
  <1>2. NewestOf(ids, limit) # {}
    <2>1. PICK m \in ids : \A s \in ids : s <= m
      BY Greatest
    <2>2. After(m) = {}
      <3>1. \A h \in ids : ~(h > m)
        BY <1>0, <2>1
      <3> QED
        BY <3>1
    <2>3. Cardinality(After(m)) = 0
      BY <2>2, FS_EmptySet
    <2> QED
      BY <2>3 DEF NewestOf
  <1>3. ASSUME NEW j \in NewestOf(ids, limit), ~(j > i) PROVE FALSE
    <2>1. j \in ids /\ Cardinality(After(j)) < limit /\ ~(Cardinality(After(i)) < limit)
      BY DEF NewestOf
    <2>2. After(i) \subseteq After(j)
      <3>1. \A h \in ids : h > i => h > j
        BY <1>0, <1>3, <2>1
      <3> QED
        BY <3>1
    <2>3. Cardinality(After(i)) <= Cardinality(After(j))
      BY <1>1, <2>1, <2>2, FS_Subset
    <2> HIDE DEF After
    <2> QED
      BY <1>1, <2>1, <2>3
  <1> QED
    BY <1>2, <1>3

\* Appending a window keeps the earlier ones, and the window before each of them.
LEMMA EarlierWindows ==
  ASSUME NEW ends \in Seq(Nat), NEW to \in Nat, NEW k \in 1..Len(ends)
  PROVE  /\ Append(ends, to)[k] = ends[k]
         /\ SubSeq(Append(ends, to), 1, k - 1) = SubSeq(ends, 1, k - 1)
  <1> DEFINE more == Append(ends, to)
  <1>1. /\ more \in Seq(Nat) /\ Len(more) = Len(ends) + 1 /\ Len(ends) \in Nat
        /\ \A i \in 1..Len(ends) : more[i] = ends[i]
    OBVIOUS
  <1> HIDE DEF more
  <1>2. \A i \in 1..k - 1 : i \in 1..Len(ends)
    BY <1>1
  <1>3. SubSeq(more, 1, k - 1) = [i \in 1..k - 1 |-> ends[i]]
    BY <1>1, <1>2
  <1>4. SubSeq(ends, 1, k - 1) = [i \in 1..k - 1 |-> ends[i]]
    BY <1>1
  <1> QED
    BY <1>1, <1>3, <1>4 DEF more

\* The last window is the one whose beginning is the end of those before it.
LEMMA LastWindow ==
  ASSUME NEW ends \in Seq(Nat), NEW to \in Nat
  PROVE  /\ From(ends) \in Nat /\ From(Append(ends, to)) = to
         /\ Append(ends, to) \in Seq(Nat) /\ Len(Append(ends, to)) = Len(ends) + 1
         /\ Append(ends, to)[Len(ends) + 1] = to
         /\ SubSeq(Append(ends, to), 1, Len(ends)) = ends
  <1>1. From(ends) \in Nat
    BY DEF From
  <1> DEFINE more == Append(ends, to)
  <1>2. /\ more \in Seq(Nat) /\ Len(more) = Len(ends) + 1 /\ Len(ends) \in Nat
        /\ more[Len(more)] = to /\ \A i \in 1..Len(ends) : more[i] = ends[i]
    OBVIOUS
  <1> HIDE DEF more
  <1>3. From(more) = to
    BY <1>2 DEF From
  <1>4. SubSeq(more, 1, Len(ends)) = ends
    BY <1>2
  <1> QED
    BY <1>1, <1>2, <1>3, <1>4 DEF more

\* The times of an entry.
LEMMA EntryTimes ==
  ASSUME EntriesTyped, NEW i \in 1..Len(entries)
  PROVE  entries[i] \in Entry /\ entries[i].at \in Nat
  <1>1. entries[i] \in Entry
    BY DEF EntriesTyped
  <1> QED
    BY <1>1 DEF Entry

\* The end of the last window is no later than now, and there is one if it is not 0.
LEMMA LastEnd == ASSUME EntriesTyped
                 PROVE  /\ From(edges) \in Nat /\ From(edges) <= clk
                        /\ From(edges) # 0 => /\ Len(edges) \in 1..Len(edges)
                                              /\ edges[Len(edges)] = From(edges)
  <1>1. CASE edges = <<>>
    BY <1>1 DEF From, EntriesTyped
  <1>2. CASE edges # <<>>
    <2>1. Len(edges) \in 1..Len(edges)
      BY <1>2 DEF EntriesTyped
    <2> QED
      BY <1>2, <2>1 DEF From, EntriesTyped
  <1> QED
    BY <1>1, <1>2

\* A new window keeps what accounts for an entry.
LEMMA StillAccounted ==
  ASSUME EntriesTyped, NEW to \in Nat, NEW found,
         edges' = Append(edges, to), returned' = Append(returned, found), entries' = entries,
         NEW i \in 1..Len(entries), Accounted(i)
  PROVE  Accounted(i)'
  <1>1. /\ Len(edges) \in Nat /\ Len(edges') = Len(edges) + 1
        /\ Len(returned) = Len(edges)
    BY DEF EntriesTyped
  <1>2. ASSUME NEW k \in 1..Len(edges)
        PROVE  /\ k \in 1..Len(edges') /\ edges'[k] = edges[k]
               /\ returned'[k] = returned[k]
               /\ SubSeq(edges', 1, k - 1) = SubSeq(edges, 1, k - 1)
    BY <1>1, EarlierWindows DEF EntriesTyped
  <1>3. ASSUME NEW k \in 1..Len(edges), i \in returned[k] PROVE Accounted(i)'
    BY <1>2, <1>3 DEF Accounted
  <1>4. ASSUME NEW k \in 1..Len(edges),
               entries[i].at < edges[k] /\ edges[k] <= entries[i].seen
        PROVE  Accounted(i)'
    BY <1>2, <1>4 DEF Accounted
  <1>5. ASSUME NEW k \in 1..Len(edges), CrowdedOut(i, k) PROVE Accounted(i)'
    <2>1. CrowdedOut(i, k)'
      BY <1>2, <1>5 DEF CrowdedOut, From
    <2> QED
      BY <1>2, <2>1 DEF Accounted
  <1> QED
    BY <1>3, <1>4, <1>5 DEF Accounted

\* A query for a window keeps the types and accounts for the entries of that window.
LEMMA AsksAccounts ==
  ASSUME EntriesTyped, NoGap,
         NEW to \in Nat, NEW found \in SUBSET Nat, AsksEntries(to, found),
         \A i \in EntriesFromTo(From(edges), to) :
           i \in found \/ (found # {} /\ \A j \in found : j > i)
  PROVE  EntriesTyped' /\ NoGap'
  <1>1. /\ edges' = Append(edges, to) /\ returned' = Append(returned, found)
        /\ UNCHANGED <<clk, entries>> /\ to >= From(edges) /\ to <= clk
    BY LastEnd DEF AsksEntries, Asks, EntriesTyped
  <1>2. /\ From(edges) \in Nat /\ From(edges') = to /\ edges' \in Seq(Nat)
        /\ Len(edges') = Len(edges) + 1 /\ edges'[Len(edges')] = to
        /\ SubSeq(edges', 1, Len(edges') - 1) = edges /\ Len(edges) \in Nat
    BY <1>1, LastWindow DEF EntriesTyped
  <1>3. EntriesTyped'
    <2>1. returned' \in Seq(SUBSET Nat) /\ Len(returned') = Len(edges')
      BY <1>1, <1>2 DEF EntriesTyped
    <2>2. ASSUME NEW k \in 1..Len(edges') PROVE edges'[k] <= clk'
      <3>1. CASE k = Len(edges')
        BY <1>1, <1>2, <3>1
      <3>2. CASE k \in 1..Len(edges)
        BY <1>1, <3>2, EarlierWindows DEF EntriesTyped
      <3> QED
        BY <1>2, <3>1, <3>2
    <2> QED
      BY <1>1, <1>2, <2>1, <2>2 DEF EntriesTyped
  <1>4. ASSUME NEW i \in 1..Len(entries),
               entries[i].seen # Never, entries[i].at < to
        PROVE  Accounted(i)'
    <2>1. entries[i].at \in Nat
      BY EntryTimes
    <2>2. CASE entries[i].at < From(edges)
      <3>1. Accounted(i)
        BY <1>4, <2>2 DEF NoGap, Accounted, CrowdedOut
      <3> QED
        BY <1>1, <3>1, StillAccounted
    <2>3. CASE ~(entries[i].at < From(edges))
      <3>1. entries[i].at \in From(edges)..to
        BY <1>2, <1>4, <2>1, <2>3
      <3>2. i \in EntriesFromTo(From(edges), to)
        BY <1>4, <3>1 DEF EntriesFromTo
      <3>0. PICK k \in 1..Len(edges') : k = Len(edges')
        BY <1>2
      <3>3. returned'[k] = found
        BY <1>1, <1>2, <3>0 DEF EntriesTyped
      <3>4. From(SubSeq(edges', 1, k - 1)) = From(edges) /\ edges'[k] = to
        BY <1>2, <3>0
      <3>5. CASE i \in found
        BY <3>3, <3>5 DEF Accounted
      <3>6. CASE found # {} /\ \A j \in found : j > i
        <4>1. entries'[i].at \in From(edges)..to
          BY <1>1, <3>1
        <4>2. From(SubSeq(edges, 1, k - 1))' = From(SubSeq(edges', 1, k - 1))
          BY DEF From
        <4>3. CrowdedOut(i, k)'
          BY <3>3, <3>4, <3>6, <4>1, <4>2 DEF CrowdedOut
        <4> QED
          BY <3>3, <4>3 DEF Accounted
      <3> QED
        BY <3>2, <3>5, <3>6
    <2> QED
      BY <2>2, <2>3
  <1>5. NoGap'
    BY <1>1, <1>2, <1>4 DEF NoGap, Accounted, CrowdedOut
  <1> QED
    BY <1>3, <1>5

\* The invariant of the entries: every step keeps it.
EntriesInv == EntriesTyped /\ NoGap

LEMMA EntriesStart == WindowsInit => EntriesInv
  BY DEF WindowsInit, EntriesInv, EntriesTyped, NoGap

LEMMA EntriesSame == ASSUME EntriesInv, clk' \in Nat, clk' >= clk, UNCHANGED entryVars
                     PROVE  EntriesInv'
  <1>1. EntriesTyped'
    BY DEF EntriesInv, EntriesTyped, entryVars
  <1>2. NoGap'
    BY DEF EntriesInv, NoGap, entryVars, From
  <1> QED
    BY <1>1, <1>2 DEF EntriesInv

LEMMA EntriesStep == EntriesInv /\ [WindowsNext]_windowVars => EntriesInv'
  <1> SUFFICES ASSUME EntriesInv, [WindowsNext]_windowVars PROVE EntriesInv'
    OBVIOUS
  <1>1. clk \in Nat /\ EntriesTyped /\ NoGap
    BY DEF EntriesInv, EntriesTyped
  <1>2. CASE Passes
    BY <1>1, <1>2, EntriesSame DEF Passes
  <1>3. CASE BeginEntry
    <2>1. /\ entries' = Append(entries, [at |-> clk, seen |-> Never])
          /\ UNCHANGED <<clk, edges, returned>>
      BY <1>3 DEF BeginEntry
    <2>2. EntriesTyped'
      BY <1>1, <2>1 DEF EntriesTyped, Entry, Times
    <2>3. /\ Len(entries') = Len(entries) + 1 /\ Len(entries) \in Nat
          /\ entries'[Len(entries')].seen = Never
          /\ \A i \in 1..Len(entries) : entries'[i] = entries[i]
      BY <1>1, <2>1 DEF EntriesTyped
    <2>4. ASSUME NEW i \in 1..Len(entries'), entries'[i].seen # Never
          PROVE  i \in 1..Len(entries) /\ entries'[i] = entries[i]
      BY <2>3, <2>4
    <2>5. NoGap'
      BY <1>1, <2>1, <2>4 DEF NoGap, From
    <2> QED
      BY <2>2, <2>5 DEF EntriesInv
  <1>4. ASSUME NEW c \in 1..Len(entries), CommitEntry(c) PROVE EntriesInv'
    <2>1. /\ entries' = [entries EXCEPT ![c].seen = clk]
          /\ UNCHANGED <<clk, edges, returned>>
      BY <1>4 DEF CommitEntry
    <2>2. entries[c] \in Entry /\ entries[c].at \in Nat
      BY <1>1, EntryTimes
    <2>3. [entries[c] EXCEPT !.seen = clk] \in Entry
      BY <1>1, <2>2 DEF Entry, Times
    <2>4. entries \in Seq(Entry)
      BY <1>1 DEF EntriesTyped
    <2>5. /\ entries' \in Seq(Entry) /\ Len(entries') = Len(entries)
          /\ entries'[c] = [entries[c] EXCEPT !.seen = clk]
          /\ \A i \in 1..Len(entries) : i # c => entries'[i] = entries[i]
      BY <2>1, <2>3, <2>4
    <2>6. entries'[c].seen = clk /\ entries'[c].at = entries[c].at
      BY <2>2, <2>5 DEF Entry
    <2>7. EntriesTyped'
      BY <1>1, <2>1, <2>5 DEF EntriesTyped
    <2>8. ASSUME entries[c].at < From(edges)
          PROVE  \E k \in 1..Len(edges) : entries[c].at < edges[k] /\ edges[k] <= clk
      BY <1>1, <2>2, <2>8, LastEnd
    <2>9. ASSUME NEW i \in 1..Len(entries'), entries'[i].seen # Never,
                 entries'[i].at < From(edges)
          PROVE  Accounted(i)'
      <3>1. CASE i = c
        BY <2>1, <2>5, <2>6, <2>8, <2>9, <3>1 DEF Accounted
      <3>2. CASE i # c
        <4>1. Accounted(i) /\ entries'[i] = entries[i]
          BY <1>1, <2>5, <2>9, <3>2 DEF NoGap, Accounted, CrowdedOut
        <4> QED
          BY <2>1, <4>1 DEF Accounted, CrowdedOut, From
      <3> QED
        BY <3>1, <3>2
    <2>10. NoGap'
      BY <2>1, <2>9 DEF NoGap, Accounted, CrowdedOut, From
    <2> QED
      BY <2>7, <2>10 DEF EntriesInv
  <1>5. ASSUME NEW to \in 0..MaxClk, GetStats(to) PROVE EntriesInv'
    <2>1. EntriesFromTo(From(edges), to) \in SUBSET Nat /\ to \in Nat
      BY DEF EntriesFromTo
    <2>2. AsksEntries(to, EntriesFromTo(From(edges), to))
      BY <1>5 DEF GetStats
    <2>3. PICK found \in SUBSET Nat : found = EntriesFromTo(From(edges), to)
      BY <2>1
    <2>4. AsksEntries(to, found)
      BY <2>2, <2>3 DEF AsksEntries
    <2>5. \A i \in EntriesFromTo(From(edges), to) :
            i \in found \/ (found # {} /\ \A j \in found : j > i)
      BY <2>3
    <2>6. EntriesTyped' /\ NoGap'
      BY <1>1, <2>1, <2>4, <2>5, AsksAccounts
    <2> QED
      BY <2>6 DEF EntriesInv
  <1>6. ASSUME NEW to \in 0..MaxClk, NEW limit \in Limits, GetEvents(to, limit)
        PROVE  EntriesInv'
    <2> DEFINE ids == EntriesFromTo(From(edges), to)
    <2>1. ids \in SUBSET Nat /\ Len(entries) \in Nat /\ \A i \in ids : i <= Len(entries)
      BY <1>1 DEF EntriesFromTo, EntriesTyped
    <2>2. limit \in Nat \ {0} /\ NewestOf(ids, limit) \in SUBSET Nat
      BY <2>1, WindowsAssumption DEF WindowsAssumption, NewestOf
    <2> HIDE DEF ids
    <2>3. \A i \in ids : \/ i \in NewestOf(ids, limit)
                        \/ /\ NewestOf(ids, limit) # {}
                           /\ \A j \in NewestOf(ids, limit) : j > i
      BY <2>1, <2>2, NewestAreNewer
    <2>4. AsksEntries(to, NewestOf(ids, limit)) /\ to \in Nat
      BY <1>6 DEF GetEvents, ids
    <2>5. \A i \in EntriesFromTo(From(edges), to) :
            \/ i \in NewestOf(ids, limit)
            \/ (NewestOf(ids, limit) # {} /\ \A j \in NewestOf(ids, limit) : j > i)
      BY <2>3 DEF ids
    <2>6. PICK found \in SUBSET Nat : found = NewestOf(ids, limit)
      BY <2>2
    <2>7. AsksEntries(to, found)
      BY <2>4, <2>6 DEF AsksEntries
    <2>8. \A i \in EntriesFromTo(From(edges), to) :
            i \in found \/ (found # {} /\ \A j \in found : j > i)
      BY <2>5, <2>6
    <2>9. EntriesTyped' /\ NoGap'
      BY <1>1, <2>4, <2>7, <2>8, AsksAccounts
    <2> QED
      BY <2>9 DEF EntriesInv
  <1>7. ASSUME UNCHANGED <<clk, entryVars>> PROVE EntriesInv'
    BY <1>1, <1>7, EntriesSame
  <1>8. CASE BeginLog
    BY <1>7, <1>8 DEF BeginLog
  <1>9. ASSUME NEW l \in 1..Len(logFiles), WriteLog(l) PROVE EntriesInv'
    BY <1>7, <1>9 DEF WriteLog, LogStep
  <1>10. ASSUME NEW to \in 0..MaxClk, GetLogs(to) \/ ExportLogs(to) PROVE EntriesInv'
    BY <1>7, <1>10 DEF GetLogs, ExportLogs, ReadsLogs
  <1>11. CASE UNCHANGED windowVars
    BY <1>7, <1>11 DEF windowVars
  <1> QED
    BY <1>2, <1>3, <1>4, <1>5, <1>6, <1>8, <1>9, <1>10, <1>11
    DEF WindowsNext, EntriesNext, LogsNext

\* A client that asks for windows that meet misses no entry but those in flight when their
\* window ended and those that newer ones crowded out, however many entries and windows
\* there are and whatever the limits.
THEOREM WindowsLeaveNoGap == WindowsSpec => []NoGap
  <1>1. EntriesInv => NoGap
    BY DEF EntriesInv
  <1> QED
    BY <1>1, EntriesStart, EntriesStep, PTL DEF WindowsSpec

-----------------------------------------------------------------------------

\* A log that has begun: it is committed before its file is closed, and its end is the
\* time at which that was done.
LogFields == [start : Nat, seen : Times, closed : Times, end : Times, lines : Nat]
LogFile == {log \in LogFields :
              /\ log.closed # Never => log.seen # Never
              /\ log.end \in {Never, log.closed}}

\* The logs and the windows of logs are well typed, and no window lies in the future.
LogsTyped ==
  /\ clk \in Nat
  /\ logFiles \in Seq(LogFile) /\ fetched \in Seq(Nat) /\ Len(fetched) = Len(logFiles)
  /\ logEdges \in Seq(Nat) /\ \A k \in 1..Len(logEdges) : logEdges[k] <= clk

\* Some window of logs ends while the log is open.
Cut(l) == \E k \in 1..Len(logEdges) : /\ logFiles[l].start < logEdges[k]
                                      /\ logEdges[k] <= logFiles[l].closed

\* A log that was closed before the end of the last window is fetched, or was cut: whether
\* its row tells its end already makes no difference.
ClosedFetched ==
  \A l \in 1..Len(logFiles) :
    logFiles[l].closed # Never /\ logFiles[l].closed < From(logEdges) =>
      fetched[l] = logFiles[l].lines \/ Cut(l)

\* The invariant of the logs: every step keeps it.
LogsInv == LogsTyped /\ ClosedFetched

LEMMA LogsStart == WindowsInit => LogsInv
  BY DEF WindowsInit, LogsInv, LogsTyped, ClosedFetched

LEMMA LogsSame == ASSUME LogsInv, clk' \in Nat, clk' >= clk, UNCHANGED fileVars
                  PROVE  LogsInv'
  <1>1. LogsTyped'
    BY DEF LogsInv, LogsTyped, fileVars
  <1>2. ClosedFetched'
    BY DEF LogsInv, ClosedFetched, fileVars, From, Cut
  <1> QED
    BY <1>1, <1>2 DEF LogsInv

\* The fields of a log.
LEMMA FieldsOfLog ==
  ASSUME LogsTyped, NEW l \in 1..Len(logFiles)
  PROVE  /\ logFiles[l] \in LogFile
         /\ logFiles[l] \in LogFields
         /\ logFiles[l].start \in Nat /\ logFiles[l].lines \in Nat
         /\ logFiles[l].seen \in Times /\ logFiles[l].closed \in Times
         /\ logFiles[l].end \in {Never, logFiles[l].closed}
         /\ logFiles[l].closed # Never => logFiles[l].seen # Never
  <1>1. logFiles[l] \in LogFile
    BY DEF LogsTyped
  <1> QED
    BY <1>1 DEF LogFile, LogFields

\* The end of the last window of logs is no later than now.
LEMMA LastLogEnd == ASSUME LogsTyped
                    PROVE  /\ From(logEdges) \in Nat /\ From(logEdges) <= clk
                           /\ From(logEdges) # 0 => /\ Len(logEdges) \in 1..Len(logEdges)
                                                    /\ logEdges[Len(logEdges)] = From(logEdges)
  <1>1. CASE logEdges = <<>>
    BY <1>1 DEF From, LogsTyped
  <1>2. CASE logEdges # <<>>
    <2>1. Len(logEdges) \in 1..Len(logEdges)
      BY <1>2 DEF LogsTyped
    <2> QED
      BY <1>2, <2>1 DEF From, LogsTyped
  <1> QED
    BY <1>1, <1>2

\* A step of the writer changes one log, which it begins with, writes or closes now.
LEMMA WriterKeepsLogs ==
  ASSUME LogsInv, NEW l \in 1..Len(logFiles), NEW log \in LogFile, LogStep(l, log),
         log.start = logFiles[l].start,
         log.closed # Never => \/ log.closed = clk
                               \/ log.closed = logFiles[l].closed /\ log.lines = logFiles[l].lines
  PROVE  LogsInv'
  <1>1. /\ logFiles' = [logFiles EXCEPT ![l] = log]
        /\ UNCHANGED <<clk, logEdges, fetched>> /\ LogsTyped
    BY DEF LogStep, LogsInv
  <1>2. logFiles \in Seq(LogFile)
    BY <1>1 DEF LogsTyped
  <1>3. /\ logFiles' \in Seq(LogFile) /\ Len(logFiles') = Len(logFiles)
        /\ logFiles'[l] = log /\ \A m \in 1..Len(logFiles) : m # l => logFiles'[m] = logFiles[m]
    BY <1>1, <1>2
  <1>4. LogsTyped'
    BY <1>1, <1>3 DEF LogsTyped
  <1>5. ASSUME NEW m \in 1..Len(logFiles'),
               logFiles'[m].closed # Never, logFiles'[m].closed < From(logEdges)
        PROVE  fetched[m] = logFiles'[m].lines \/ Cut(m)'
    <2>1. CASE m # l
      <3>1. logFiles'[m] = logFiles[m] /\ m \in 1..Len(logFiles)
        BY <1>3, <2>1
      <3>2. fetched[m] = logFiles[m].lines \/ Cut(m)
        BY <1>5, <3>1 DEF LogsInv, ClosedFetched
      <3> QED
        BY <1>1, <3>1, <3>2 DEF Cut
    <2>2. CASE m = l
      <3>1. log.closed # clk
        <4>1. From(logEdges) \in Nat /\ From(logEdges) <= clk /\ clk \in Nat
          BY <1>1, LastLogEnd DEF LogsTyped
        <4> QED
          BY <1>3, <1>5, <2>2, <4>1
      <3>2. log.closed = logFiles[l].closed /\ log.lines = logFiles[l].lines
        BY <1>3, <1>5, <2>2, <3>1
      <3>3. fetched[l] = logFiles[l].lines \/ Cut(l)
        BY <1>3, <1>5, <2>2, <3>2 DEF LogsInv, ClosedFetched
      <3> QED
        BY <1>1, <1>3, <2>2, <3>2, <3>3 DEF Cut
    <2> QED
      BY <2>1, <2>2
  <1>6. ClosedFetched'
    BY <1>1, <1>5 DEF ClosedFetched, From
  <1> QED
    BY <1>4, <1>6 DEF LogsInv

\* The writer of a log keeps the invariant.
LEMMA WriteLogKeeps ==
  ASSUME LogsInv, NEW l \in 1..Len(logFiles), WriteLog(l) PROVE LogsInv'
  <1> DEFINE log == logFiles[l]
  <1>1. LogsTyped /\ clk \in Nat /\ clk \in Times /\ clk # Never
    BY DEF LogsInv, LogsTyped, Times, Never
  <1>2. /\ log \in LogFields /\ log.lines + 1 \in Nat
        /\ log.end \in {Never, log.closed}
        /\ log.closed # Never => log.seen # Never
    BY <1>1, FieldsOfLog
  <1> HIDE DEF log
  <1>3. CASE log.seen = Never /\ LogStep(l, [log EXCEPT !.seen = clk])
    <2>1. PICK new \in LogFields : new = [log EXCEPT !.seen = clk]
      BY <1>1, <1>2 DEF LogFields
    <2>2. /\ new.start = log.start
          /\ new.seen = clk
          /\ new.closed = log.closed
          /\ new.end = log.end
          /\ new.lines = log.lines
      BY <1>2, <2>1 DEF LogFields
    <2>3. new \in LogFile
      BY <1>1, <1>2, <1>3, <2>1, <2>2 DEF LogFile
    <2>4. LogStep(l, new)
      BY <1>3, <2>1 DEF LogStep
    <2> QED
      BY <2>2, <2>3, <2>4, WriterKeepsLogs DEF log
  <1>4. CASE log.closed = Never /\ LogStep(l, [log EXCEPT !.lines = @ + 1])
    <2>1. PICK new \in LogFields : new = [log EXCEPT !.lines = @ + 1]
      BY <1>1, <1>2 DEF LogFields
    <2>2. /\ new.start = log.start
          /\ new.seen = log.seen
          /\ new.closed = log.closed
          /\ new.end = log.end
          /\ new.lines = log.lines + 1
      BY <1>2, <2>1 DEF LogFields
    <2>3. new \in LogFile
      BY <1>1, <1>2, <1>4, <2>1, <2>2 DEF LogFile
    <2>4. LogStep(l, new)
      BY <1>4, <2>1 DEF LogStep
    <2> QED
      BY <1>4, <2>2, <2>3, <2>4, WriterKeepsLogs DEF log
  <1>5. CASE /\ log.seen # Never /\ log.closed = Never
             /\ LogStep(l, [log EXCEPT !.closed = clk])
    <2>1. PICK new \in LogFields : new = [log EXCEPT !.closed = clk]
      BY <1>1, <1>2 DEF LogFields
    <2>2. /\ new.start = log.start
          /\ new.seen = log.seen
          /\ new.closed = clk
          /\ new.end = log.end
          /\ new.lines = log.lines
      BY <1>2, <2>1 DEF LogFields
    <2>3. new \in LogFile
      BY <1>1, <1>2, <1>5, <2>1, <2>2 DEF LogFile
    <2>4. LogStep(l, new)
      BY <1>5, <2>1 DEF LogStep
    <2> QED
      BY <2>2, <2>3, <2>4, WriterKeepsLogs DEF log
  <1>6. CASE log.closed # Never /\ LogStep(l, [log EXCEPT !.end = log.closed])
    <2>1. PICK new \in LogFields : new = [log EXCEPT !.end = log.closed]
      BY <1>1, <1>2 DEF LogFields
    <2>2. /\ new.start = log.start
          /\ new.seen = log.seen
          /\ new.closed = log.closed
          /\ new.end = log.closed
          /\ new.lines = log.lines
      BY <1>2, <2>1 DEF LogFields
    <2>3. new \in LogFile
      BY <1>1, <1>2, <1>6, <2>1, <2>2 DEF LogFile
    <2>4. LogStep(l, new)
      BY <1>6, <2>1 DEF LogStep
    <2> QED
      BY <2>2, <2>3, <2>4, WriterKeepsLogs DEF log
  <1> QED
    BY <1>3, <1>4, <1>5, <1>6 DEF WriteLog, log

\* A new log is not closed.
LEMMA BeginLogKeeps == ASSUME LogsInv, BeginLog PROVE LogsInv'
  <1> DEFINE new == [start |-> clk, seen |-> Never, closed |-> Never, end |-> Never, lines |-> 0]
  <1>1. /\ logFiles' = Append(logFiles, new) /\ fetched' = Append(fetched, 0)
        /\ UNCHANGED <<clk, logEdges>> /\ LogsTyped
    BY DEF BeginLog, LogsInv
  <1>2. new \in LogFile /\ new.closed = Never
    BY <1>1 DEF LogFile, LogFields, LogsTyped, Times
  <1> HIDE DEF new
  <1>3. /\ logFiles' \in Seq(LogFile) /\ Len(logFiles') = Len(logFiles) + 1
        /\ logFiles'[Len(logFiles')] = new /\ Len(logFiles) \in Nat
        /\ fetched' \in Seq(Nat) /\ Len(fetched') = Len(fetched) + 1
        /\ \A m \in 1..Len(logFiles) : logFiles'[m] = logFiles[m] /\ fetched'[m] = fetched[m]
    BY <1>1, <1>2 DEF LogsTyped
  <1>4. LogsTyped'
    BY <1>1, <1>3 DEF LogsTyped
  <1>5. ASSUME NEW m \in 1..Len(logFiles'),
               logFiles'[m].closed # Never, logFiles'[m].closed < From(logEdges)
        PROVE  fetched'[m] = logFiles'[m].lines \/ Cut(m)'
    <2>1. m \in 1..Len(logFiles) /\ logFiles'[m] = logFiles[m] /\ fetched'[m] = fetched[m]
      BY <1>2, <1>3, <1>5
    <2>2. fetched[m] = logFiles[m].lines \/ Cut(m)
      BY <1>5, <2>1 DEF LogsInv, ClosedFetched
    <2> QED
      BY <1>1, <2>1, <2>2 DEF Cut
  <1>6. ClosedFetched'
    BY <1>1, <1>5 DEF ClosedFetched, From
  <1> QED
    BY <1>4, <1>6 DEF LogsInv

\* A request for a window fetches what was closed before its end, but for what the end of
\* the window before cut.
LEMMA ReadsLogsKeeps == ASSUME LogsInv, NEW to \in Nat, ReadsLogs(to) PROVE LogsInv'
  <1>1. /\ logEdges' = Append(logEdges, to) /\ UNCHANGED <<clk, logFiles>> /\ LogsTyped
        /\ to >= From(logEdges) /\ to <= clk
        /\ fetched' = [l \in 1..Len(logFiles) |->
                         IF l \in LogsFromTo(From(logEdges), to) THEN logFiles[l].lines
                         ELSE fetched[l]]
    BY LastLogEnd DEF ReadsLogs, Asks, LogsInv, LogsTyped
  <1>2. /\ From(logEdges) \in Nat /\ From(logEdges') = to /\ logEdges' \in Seq(Nat)
        /\ Len(logEdges') = Len(logEdges) + 1 /\ logEdges'[Len(logEdges')] = to
        /\ Len(logEdges) \in Nat
    BY <1>1, LastWindow DEF LogsTyped
  <1>3. \A k \in 1..Len(logEdges) : logEdges'[k] = logEdges[k]
    BY <1>1, EarlierWindows DEF LogsTyped
  <1>4. LogsTyped'
    <2>1. ASSUME NEW l \in 1..Len(logFiles) PROVE fetched'[l] \in Nat
      <3>1. logFiles[l].lines \in Nat /\ fetched[l] \in Nat
        BY <1>1, FieldsOfLog DEF LogsTyped
      <3> QED
        BY <1>1, <3>1
    <2>2. Len(logFiles) \in Nat
      BY <1>1 DEF LogsTyped
    <2>3. fetched' \in Seq(Nat) /\ Len(fetched') = Len(logFiles)
      BY <1>1, <2>1, <2>2
    <2>4. ASSUME NEW k \in 1..Len(logEdges') PROVE logEdges'[k] <= clk
      <3>1. CASE k = Len(logEdges')
        BY <1>1, <1>2, <3>1
      <3>2. CASE k \in 1..Len(logEdges)
        BY <1>1, <1>3, <3>2 DEF LogsTyped
      <3> QED
        BY <1>2, <3>1, <3>2
    <2> QED
      BY <1>1, <1>2, <2>3, <2>4 DEF LogsTyped
  <1>5. ASSUME NEW l \in 1..Len(logFiles),
               logFiles[l].closed # Never, logFiles[l].closed < to
        PROVE  fetched'[l] = logFiles[l].lines \/ Cut(l)'
    <2> DEFINE log == logFiles[l]
    <2>1. /\ log.start \in Nat /\ log.closed \in Nat /\ log.seen # Never
          /\ log.end \in {Never, log.closed}
      BY <1>1, <1>5, FieldsOfLog DEF Times
    <2>2. CASE log.start >= From(logEdges)
      <3>1. l \in LogsFromTo(From(logEdges), to)
        BY <1>1, <1>2, <1>5, <2>1, <2>2 DEF LogsFromTo
      <3> QED
        BY <1>1, <3>1
    <2>3. CASE log.start < From(logEdges) /\ From(logEdges) <= log.closed
      <3>1. Len(logEdges) \in 1..Len(logEdges) /\ logEdges[Len(logEdges)] = From(logEdges)
        BY <1>1, <1>2, <2>1, <2>3, LastLogEnd
      <3>2. Len(logEdges) \in 1..Len(logEdges') /\ logEdges'[Len(logEdges)] = From(logEdges)
        BY <1>2, <1>3, <3>1
      <3> QED
        BY <1>1, <2>3, <3>2 DEF Cut
    <2>4. CASE log.start < From(logEdges) /\ log.closed < From(logEdges)
      <3>1. fetched[l] = log.lines \/ Cut(l)
        BY <1>5, <2>4 DEF LogsInv, ClosedFetched
      <3>2. CASE fetched[l] = log.lines
        BY <1>1, <3>2
      <3>3. CASE Cut(l)
        <4>1. \A k \in 1..Len(logEdges) : k \in 1..Len(logEdges')
          BY <1>2
        <4> QED
          BY <1>1, <1>3, <3>3, <4>1 DEF Cut
      <3> QED
        BY <3>1, <3>2, <3>3
    <2> QED
      BY <1>2, <2>1, <2>2, <2>3, <2>4
  <1>6. ClosedFetched'
    BY <1>1, <1>2, <1>5 DEF ClosedFetched
  <1> QED
    BY <1>4, <1>6 DEF LogsInv

LEMMA LogsStep == LogsInv /\ [WindowsNext]_windowVars => LogsInv'
  <1> SUFFICES ASSUME LogsInv, [WindowsNext]_windowVars PROVE LogsInv'
    OBVIOUS
  <1>1. clk \in Nat
    BY DEF LogsInv, LogsTyped
  <1>2. CASE Passes
    BY <1>1, <1>2, LogsSame DEF Passes
  <1>3. ASSUME UNCHANGED <<clk, fileVars>> PROVE LogsInv'
    BY <1>1, <1>3, LogsSame
  <1>4. CASE BeginEntry
    BY <1>3, <1>4 DEF BeginEntry
  <1>5. ASSUME NEW i \in 1..Len(entries), CommitEntry(i) PROVE LogsInv'
    BY <1>3, <1>5 DEF CommitEntry
  <1>6. ASSUME NEW to \in 0..MaxClk, NEW limit \in Limits, GetStats(to) \/ GetEvents(to, limit)
        PROVE  LogsInv'
    BY <1>3, <1>6 DEF GetStats, GetEvents, AsksEntries
  <1>7. ASSUME NEW to \in 0..MaxClk, GetStats(to) PROVE LogsInv'
    BY <1>3, <1>7 DEF GetStats, AsksEntries
  <1>8. CASE BeginLog
    BY <1>8, BeginLogKeeps
  <1>9. ASSUME NEW l \in 1..Len(logFiles), WriteLog(l) PROVE LogsInv'
    BY <1>9, WriteLogKeeps
  <1>10. ASSUME NEW to \in 0..MaxClk, GetLogs(to) \/ ExportLogs(to) PROVE LogsInv'
    BY <1>10, ReadsLogsKeeps DEF GetLogs, ExportLogs
  <1>11. CASE UNCHANGED windowVars
    BY <1>3, <1>11 DEF windowVars
  <1> QED
    BY <1>2, <1>4, <1>5, <1>6, <1>7, <1>8, <1>9, <1>10, <1>11
    DEF WindowsNext, EntriesNext, LogsNext

\* A client that asks for windows that meet gets all lines of every log that no end of a
\* window cut, however many logs and windows there are.
THEOREM LogsComplete == WindowsSpec => []UncutLogsComplete
  <1>1. ASSUME LogsInv PROVE UncutLogsComplete
    <2> SUFFICES ASSUME NEW l \in 1..Len(logFiles),
                        logFiles[l].end # Never, logFiles[l].end < From(logEdges)
                 PROVE  \/ fetched[l] = logFiles[l].lines
                        \/ \E k \in 1..Len(logEdges) : /\ logFiles[l].start < logEdges[k]
                                                      /\ logEdges[k] <= logFiles[l].end
      BY DEF UncutLogsComplete
    <2>1. logFiles[l].end = logFiles[l].closed
      BY <1>1, FieldsOfLog DEF LogsInv
    <2> QED
      BY <1>1, <2>1 DEF LogsInv, ClosedFetched, Cut
  <1> QED
    BY <1>1, LogsStart, LogsStep, PTL DEF WindowsSpec
=============================================================================
