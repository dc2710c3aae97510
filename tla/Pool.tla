-------------------------------- MODULE Pool ---------------------------------
(***************************************************************************)
(* The pool of database connections (procsmanager.go) and the goroutines   *)
(* that take connections from it: a runner's Work, which needs a second    *)
(* connection while it holds one when it rotates its log, and the handlers *)
(* of the HTTP server, which use one at a time.  What else a transaction   *)
(* may wait for (a row lock, a channel) is in Procsman.                     *)
(***************************************************************************)
EXTENDS Integers, FiniteSets

CONSTANTS
  Rotators,      \* the goroutines that call retrieveCurrentLog
  Callers,       \* the handlers that use a connection
  MaxConns,      \* poolConfig.MaxConns
  MaxLeaks       \* bound: updates of a process that does not exist

ASSUME PoolAssumption ==
  /\ IsFiniteSet(Rotators) /\ IsFiniteSet(Callers)
  /\ MaxConns \in Nat \ {0} /\ MaxLeaks \in Nat

VARIABLES
  phase,         \* of each rotator: "idle", "outer", "inner" or "last"
  calling,       \* the handlers that hold a connection
  leaked         \* connections whose transaction nobody will end

poolVars == <<phase, calling, leaked>>

\* A rotator holds one connection from its first statement on, and a second one
\* while newLog runs.
Holding == {r \in Rotators : phase[r] # "idle"}
Nested == {r \in Rotators : phase[r] = "inner"}
Used == Cardinality(Holding) + Cardinality(Nested) + Cardinality(calling) + leaked
Free == Used < MaxConns

PoolInit == phase = [r \in Rotators |-> "idle"] /\ calling = {} /\ leaked = 0

Moves(r, from, to) == phase[r] = from /\ phase' = [phase EXCEPT ![r] = to]

\* retrieveCurrentLog, with a newLog to follow ("outer") or not, or a single
\* statement of Work.
Begin(r) == /\ Free
            /\ \E to \in {"outer", "last"} : Moves(r, "idle", to)
            /\ UNCHANGED <<calling, leaked>>
\* A newLog with a connection of its own.
BeginNestedAtOnce(r) == Moves(r, "outer", "inner") /\ UNCHANGED <<calling, leaked>>
\* newLog's OpenTx.
BeginNested(r) == Free /\ Moves(r, "outer", "inner") /\ UNCHANGED <<calling, leaked>>
EndNested(r) == Moves(r, "inner", "last") /\ UNCHANGED <<calling, leaked>>
End(r) == Moves(r, "last", "idle") /\ UNCHANGED <<calling, leaked>>

BeginCall(h) == /\ Free /\ h \notin calling
                /\ calling' = calling \cup {h}
                /\ UNCHANGED <<phase, leaked>>

\* A handler that returns after an error without a rollback.
EndCallLeaks(h) == /\ h \in calling
                   /\ calling' = calling \ {h}
                   /\ \E n \in {0, 1} : leaked' = leaked + n
                   /\ UNCHANGED phase

\* The statement is done, or the deferred function ends the transaction.
EndCall(h) == /\ h \in calling
              /\ calling' = calling \ {h}
              /\ UNCHANGED <<phase, leaked>>

\* UpdateProcess of an id that is not there returns before it defers the rollback.
UpdateUnknown == /\ Free /\ leaked < MaxLeaks
                 /\ leaked' = leaked + 1
                 /\ UNCHANGED <<phase, calling>>

Rotate(r) == BeginNested(r) \/ EndNested(r) \/ End(r)
PoolNext == \/ \E r \in Rotators : Begin(r) \/ Rotate(r)
            \/ \E h \in Callers : BeginCall(h) \/ EndCall(h)
            \/ UpdateUnknown
PoolSpec == PoolInit /\ [][PoolNext]_poolVars

\* The pool serves its waiters in the order in which they came.
PoolFairness == /\ \A r \in Rotators : SF_poolVars(Rotate(r))
                /\ \A h \in Callers : WF_poolVars(EndCall(h))

-----------------------------------------------------------------------------

\* Each runner with a connection, and each leak, and there is one more connection.
Enough == Cardinality(Rotators) + MaxLeaks < MaxConns

\* No variable leaves its type, and no more connections are used than there are.
PoolTypeOK == /\ phase \in [Rotators -> {"idle", "outer", "inner", "last"}]
              /\ calling \subseteq Callers
              /\ leaked \in 0..MaxLeaks
              /\ Used <= MaxConns

\* With enough connections the nested transactions never wait for each other alone:
\* when the pool is empty, some holder of a connection needs no other one to go on.
\* With as many runners as connections newLog's OpenTx blocks all of them for ever.
SomebodyGoesOn ==
  Enough /\ ~Free => calling # {} \/ \E r \in Rotators : phase[r] \in {"inner", "last"}

\* Then every rotation comes to its end.
RotationsEnd == \A r \in Rotators : Enough /\ phase[r] = "outer" ~> phase[r] = "idle"
=============================================================================
