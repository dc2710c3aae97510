-------------------------------- MODULE Stdin --------------------------------
(***************************************************************************)
(* The standard input of the children of one runner (handleStdIn,          *)
(* PostStdin): one channel of lines, one reader for every child that was   *)
(* ever started.  A reader notices that its child has ended only when it   *)
(* fails to write the line that it has just taken.  Children come and go   *)
(* as Supervisor says, which Procsman implements.                          *)
(*                                                                         *)
(* Lines are numbered in the order in which the channel accepts them, so   *)
(* that the channel holds the lines taken+1..accepted.                     *)
(***************************************************************************)
EXTENDS Supervisor

CONSTANTS
  Posters,       \* the handlers that serve PostStdin
  StdInCap,      \* the capacity of the channel StdIn
  MaxChildren,   \* bound: children that are started
  MaxAccepted    \* bound: lines that the channel accepts

ASSUME StdinAssumption == {StdInCap, MaxChildren, MaxAccepted} \subseteq Nat

VARIABLES
  sending,       \* the handlers that have checked the row and wait to send
  accepted,      \* how many lines the channel has accepted
  taken,         \* how many lines readers have taken
  reader,        \* of each child: "none", "reading", "holding" or "gone"
  held,          \* the line a reader holds, or 0
  got,           \* the lines written to each child
  wasted         \* the line a reader failed to write, or 0

stdinVars == <<live, born, ended, sending, accepted, taken, reader, held, got, wasted>>
linesVars == <<sending, accepted, taken, held, got, wasted>>

Kids == 1..MaxChildren

StdinInit ==
  /\ SupervisorInit
  /\ sending = {} /\ accepted = 0 /\ taken = 0
  /\ reader = [g \in Kids |-> "none"]
  /\ held = [g \in Kids |-> 0] /\ wasted = [g \in Kids |-> 0]
  /\ got = [g \in Kids |-> {}]

\* startProcess starts a reader with the child; nobody stops the older ones.
StartsReader ==
  /\ born < MaxChildren /\ StartChild
  /\ reader' = [reader EXCEPT ![born'] = "reading"]
  /\ UNCHANGED linesVars

EndsChild == (ChildEnds \/ RunnerEnds) /\ UNCHANGED <<reader, linesVars>>

\* PostStdin finds the status RUNNING in the row, which may be that of a child that
\* has ended in the meantime.
ChecksRow(p) ==
  /\ p \notin sending /\ born > 0
  /\ sending' = sending \cup {p}
  /\ UNCHANGED <<live, born, ended, accepted, taken, reader, held, got, wasted>>

\* runner.StdIn <- text.
Accept(p) ==
  /\ p \in sending /\ accepted - taken < StdInCap /\ accepted < MaxAccepted
  /\ accepted' = accepted + 1
  /\ sending' = sending \ {p}
  /\ UNCHANGED <<live, born, ended, taken, reader, held, got, wasted>>

\* A reader that looks at a line without taking it from the channel.
Peek(g) ==
  /\ reader[g] = "reading" /\ taken < accepted
  /\ held' = [held EXCEPT ![g] = taken + 1]
  /\ reader' = [reader EXCEPT ![g] = "holding"]
  /\ UNCHANGED <<live, born, ended, sending, accepted, taken, got, wasted>>

\* for input := range pr.StdIn.
Take(g) ==
  /\ reader[g] = "reading" /\ taken < accepted
  /\ taken' = taken + 1
  /\ held' = [held EXCEPT ![g] = taken']
  /\ reader' = [reader EXCEPT ![g] = "holding"]
  /\ UNCHANGED <<live, born, ended, sending, accepted, got, wasted>>

\* A reader that serves one line.
WriteOkReturns(g) ==
  /\ reader[g] = "holding" /\ g \in live
  /\ got' = [got EXCEPT ![g] = @ \cup {held[g]}]
  /\ held' = [held EXCEPT ![g] = 0]
  /\ reader' = [reader EXCEPT ![g] = "gone"]
  /\ UNCHANGED <<live, born, ended, sending, accepted, taken, wasted>>
WriteOk(g) ==
  /\ reader[g] = "holding" /\ g \in live
  /\ got' = [got EXCEPT ![g] = @ \cup {held[g]}]
  /\ held' = [held EXCEPT ![g] = 0]
  /\ reader' = [reader EXCEPT ![g] = "reading"]
  /\ UNCHANGED <<live, born, ended, sending, accepted, taken, wasted>>

\* A reader that logs the failed write and goes on.
WriteFailsGoesOn(g) ==
  /\ reader[g] = "holding" /\ g \notin live
  /\ wasted' = [wasted EXCEPT ![g] = held[g]]
  /\ held' = [held EXCEPT ![g] = 0]
  /\ reader' = [reader EXCEPT ![g] = "reading"]
  /\ UNCHANGED <<live, born, ended, sending, accepted, taken, got>>

\* The child has closed its end of the pipe: the line is lost and the reader returns.
WriteFails(g) ==
  /\ reader[g] = "holding" /\ g \notin live
  /\ wasted' = [wasted EXCEPT ![g] = held[g]]
  /\ held' = [held EXCEPT ![g] = 0]
  /\ reader' = [reader EXCEPT ![g] = "gone"]
  /\ UNCHANGED <<live, born, ended, sending, accepted, taken, got>>

ReaderStep(g) == Take(g) \/ WriteOk(g) \/ WriteFails(g)
StdinNext == \/ StartsReader \/ EndsChild
             \/ \E p \in Posters : ChecksRow(p) \/ Accept(p)
             \/ \E g \in Kids : ReaderStep(g)
StdinSpec == StdinInit /\ [][StdinNext]_stdinVars

\* Readers and senders that can go on do; senders are served in order. A child reads
\* its standard input: one that does not keeps its reader, as if it had no line.
StdinFairness == /\ \A g \in Kids : WF_stdinVars(ReaderStep(g))
                 /\ \A p \in Posters : SF_stdinVars(Accept(p))

-----------------------------------------------------------------------------

Of(g) == got[g] \cup ({held[g], wasted[g]} \ {0})

\* Every variable has its type; only the child born last can be alive.
StdinTypeOK ==
  /\ live \subseteq {born} /\ born \in 0..MaxChildren /\ ended \in BOOLEAN
  /\ sending \subseteq Posters /\ accepted \in Nat /\ taken \in 0..accepted
  /\ accepted - taken <= StdInCap
  /\ reader \in [Kids -> {"none", "reading", "holding", "gone"}]
  /\ held \in [Kids -> Nat] /\ wasted \in [Kids -> Nat]
  /\ got \in [Kids -> SUBSET Nat]

\* No line that a reader took vanishes without a trace, ...
NoLineVanishes == \A n \in 1..taken : \E g \in Kids : n \in Of(g)

\* ... none is given to two children, and none that was lost is written as well.
NoLineTwice ==
  /\ \A g, h \in Kids : g # h => Of(g) \cap Of(h) = {}
  /\ \A g \in Kids : got[g] \cap ({held[g], wasted[g]} \ {0}) = {}

\* Of all the readers of children that have ended, each wastes at most one line: one
\* that has wasted a line takes no other.
OneLossPerChild == \A g \in Kids : wasted[g] # 0 => reader[g] = "gone" /\ g \notin live

\* A child gets its lines in the order in which the channel accepted them.
InOrder == \A g \in Kids : held[g] # 0 => \A n \in got[g] : n < held[g]

\* A client is not kept waiting while a child is alive: the line is accepted, or the
\* child ends, or the bound of the model is reached.
PostsAreServed ==
  \A p \in Posters : p \in sending ~> p \notin sending \/ live = {} \/ accepted = MaxAccepted
=============================================================================
