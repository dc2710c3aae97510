----------------------------- MODULE Supervisor ------------------------------
(***************************************************************************)
(* What a ProcessRunner promises of the children it starts: a child is     *)
(* started only when no other one is alive, and once the runner has ended  *)
(* none is alive and none is started.                                      *)
(***************************************************************************)
EXTENDS Integers

VARIABLES
  live,      \* the children that are alive
  born,      \* how many were started
  ended      \* has the runner ended?

SupervisorInit == live = {} /\ born = 0 /\ ended = FALSE

StartChild == /\ ~ended /\ live = {}
              /\ born' = born + 1
              /\ live' = {born'}
              /\ UNCHANGED ended

ChildEnds == /\ live # {} /\ live' = {}
             /\ UNCHANGED <<born, ended>>

RunnerEnds == /\ ~ended /\ ended' = TRUE
              /\ live' = {}
              /\ UNCHANGED born

SupervisorNext == StartChild \/ ChildEnds \/ RunnerEnds

SupervisorSpec == SupervisorInit /\ [][SupervisorNext]_<<live, born, ended>>
=============================================================================
