------------------------------- MODULE MCParts -------------------------------
(* Small instances, for TLC, of the parts that have a model of their own beside the    *)
(* runner: the pool of connections, the groups, the copy of a log, windows of time,    *)
(* the manager itself, the standard input and the process tree of a runner's children. *)
(* Each behaviour is one of one part; the others rest in their initial state.          *)
EXTENDS Pool, Groups, LogCopy, Windows, Manager, Stdin, Tree

VARIABLE part

partsVars == <<part, poolVars, groupVars, copyVars, windowVars,
               managerVars, stdinVars, treeVars>>
Parts == {"pool", "groups", "copy", "entries", "logs", "manager", "stdin", "tree"}

PartsInit == /\ part \in Parts
             /\ PoolInit /\ GroupsInit /\ CopyInit /\ WindowsInit /\ ManagerInit
             /\ StdinInit /\ TreeInit

PartsNext ==
  /\ UNCHANGED part
  /\ \/ /\ part = "pool" /\ PoolNext
        /\ UNCHANGED <<groupVars, copyVars, windowVars, managerVars, stdinVars, treeVars>>
     \/ /\ part = "groups" /\ GroupsNext
        /\ UNCHANGED <<poolVars, copyVars, windowVars, managerVars, stdinVars, treeVars>>
     \/ /\ part = "copy" /\ CopyNext
        /\ UNCHANGED <<poolVars, groupVars, windowVars, managerVars, stdinVars, treeVars>>
     \/ /\ part = "entries" /\ EntriesNext
        /\ UNCHANGED <<poolVars, groupVars, copyVars, managerVars, stdinVars, treeVars>>
     \/ /\ part = "logs" /\ LogsNext
        /\ UNCHANGED <<poolVars, groupVars, copyVars, managerVars, stdinVars, treeVars>>
     \/ /\ part = "manager" /\ ManagerNext
        /\ UNCHANGED <<poolVars, groupVars, copyVars, windowVars, stdinVars, treeVars>>
     \/ /\ part = "stdin" /\ StdinNext
        /\ UNCHANGED <<poolVars, groupVars, copyVars, windowVars, managerVars, treeVars>>
     \/ /\ part = "tree" /\ TreeNext
        /\ UNCHANGED <<poolVars, groupVars, copyVars, windowVars, managerVars, stdinVars>>

\* PoolFairness and StdinFairness, each in the behaviours of its part.
PartsFairness ==
  /\ \A r \in Rotators : SF_poolVars(part = "pool" /\ Rotate(r))
  /\ \A h \in Callers : WF_poolVars(part = "pool" /\ EndCall(h))
  /\ \A g \in Kids : WF_stdinVars(part = "stdin" /\ ReaderStep(g))
  /\ \A p \in Posters : SF_stdinVars(part = "stdin" /\ Accept(p))

PartsSpec == PartsInit /\ [][PartsNext]_partsVars /\ PartsFairness

OneChat == [enabled : BOOLEAN, chats : {1}]
ThreePids == 1..3
=============================================================================
