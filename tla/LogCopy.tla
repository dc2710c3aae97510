------------------------------- MODULE LogCopy -------------------------------
(***************************************************************************)
(* copyAndMarkRepeatedLines (api/logs.go), through which every log is read *)
(* for a client: a run of more than Threshold equal lines is replaced by   *)
(* one of them and a marker that tells how many they were.                 *)
(***************************************************************************)
EXTENDS Integers, Sequences

CONSTANTS
  Lines,         \* the lines a log file may have
  Threshold,     \* WriteRepeatedThreshold
  MaxFed         \* bound: lines of the file

ASSUME LogCopyAssumption == {Threshold, MaxFed} \subseteq Nat

VARIABLES
  fed,           \* the lines that were read
  partial,       \* has currentLine the first pieces of a line?
  lastLine,      \* lastLine, a sequence of one line, or of none before the first
  count,         \* how many times it was read in a row
  out,           \* what was written: lines, or markers with a number
  copying        \* has the end of the file not been reached?

copyVars == <<fed, partial, lastLine, count, out, copying>>

Plain(l) == [text |-> l, times |-> 0]
Marker(n) == [text |-> <<>>, times |-> n]
LineCopies(l, n) == [i \in 1..n |-> Plain(l)]

CopyInit == /\ fed = <<>> /\ partial = FALSE /\ copying = TRUE
            /\ lastLine = <<>> /\ count = 1 /\ out = <<>>

\* The last run of the file: a long one is only its marker, without the line.
LastRun == IF count > Threshold THEN <<Marker(count)>> ELSE LineCopies(lastLine, count)
\* A run that is over, written when a different line follows.
Run == IF count > Threshold THEN <<Plain(lastLine), Marker(count)>>
       ELSE LineCopies(lastLine, count)

\* ReadLine returns a piece of a line that is longer than its buffer.
ReadPrefix ==
  /\ copying /\ Len(fed) < MaxFed
  /\ partial' = TRUE
  /\ UNCHANGED <<fed, lastLine, count, out, copying>>

\* A different line that leaves the count as it is.
NextRunKeepsCount(l) == out' = out \o Run /\ lastLine' = <<l>> /\ UNCHANGED count
\* A line that differs from the last one.
NextRun(l) == out' = out \o Run /\ lastLine' = <<l>> /\ count' = 1

\* ReadLine returns a line, or the last piece of one.
ReadLine(l) ==
  /\ copying /\ Len(fed) < MaxFed
  /\ fed' = Append(fed, l) /\ partial' = FALSE
  /\ \/ lastLine = <<>> /\ lastLine' = <<l>> /\ UNCHANGED <<count, out>>
     \/ lastLine = <<l>> /\ count' = count + 1 /\ UNCHANGED <<lastLine, out>>
     \/ lastLine \notin {<<>>, <<l>>} /\ NextRun(l)
  /\ UNCHANGED copying

\* At the end of the file the last run is written, a long one only as its marker; an
\* empty file gives an empty line. Pieces that fill the buffer exactly and are followed
\* by nothing, not even a line feed, are dropped.
ReadEnd ==
  /\ copying /\ copying' = FALSE
  /\ out' = out \o LastRun
  /\ UNCHANGED <<fed, partial, lastLine, count>>

CopyNext == ReadPrefix \/ ReadEnd \/ \E l \in Lines : ReadLine(l)
CopySpec == CopyInit /\ [][CopyNext]_copyVars

-----------------------------------------------------------------------------

\* The variables have their types; there is no last line only before the first one.
CopyTypeOK ==
  /\ fed \in Seq(Lines) /\ partial \in BOOLEAN /\ copying \in BOOLEAN /\ count \in Nat \ {0}
  /\ IF fed = <<>> THEN lastLine = <<>> ELSE lastLine = <<fed[Len(fed)]>>

\* The count is exactly the length of the run of equal lines that ends what was read:
\* it neither reaches into an earlier run nor misses a line of this one.
RunIsCounted ==
  fed # <<>> =>
    /\ count <= Len(fed)
    /\ \A i \in 1..Len(fed) : i > Len(fed) - count => fed[i] = fed[Len(fed)]
    /\ count < Len(fed) => fed[Len(fed) - count] # fed[Len(fed)]

\* What a reader understands who repeats a line as often as the marker behind it says.
Read(text, o) == IF o.times = 0 \/ text = <<>> THEN Append(text, o.text)
                 ELSE text \o [i \in 1..o.times - 1 |-> text[Len(text)]]
Understanding(written) ==
  LET text[n \in 0..Len(written)] == IF n = 0 THEN <<>> ELSE Read(text[n - 1], written[n])
  IN  text[Len(written)]

\* The copy loses and invents nothing: it is understood as the lines that were read,
\* except that the line of a last run that is too long is missing behind its marker
\* (and an empty file gives an empty line).
CopyIsUnderstood ==
  ~copying /\ fed # <<>> /\ count <= Threshold =>
    Understanding(out) = [i \in 1..Len(fed) |-> <<fed[i]>>]
=============================================================================
