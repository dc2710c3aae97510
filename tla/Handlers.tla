------------------------------ MODULE Handlers -------------------------------
(***************************************************************************)
(* The goroutines of the HTTP server that change one process               *)
(* (api/processes.go): start, stop and restart send a signal to the runner; *)
(* a deletion sends Deleted and then deletes the row; an update writes the *)
(* row in a transaction, sends Refresh while the transaction is open, and  *)
(* commits when the handler returns; and the AddProcess that created the   *)
(* runner, whose transaction commits after Work has been started.          *)
(***************************************************************************)
EXTENDS Process

VARIABLES
  hpc,           \* where each handler is
  hsignal,       \* the signal it has to send, or "none"
  hconfig        \* the configuration its transaction has to write

NoConfig == [enabled |-> FALSE]   \* no transaction has a configuration to write
handlerVars == <<hpc, hsignal, hconfig>>

HandlersInit ==
  /\ hpc = [h \in Handlers |-> "idle"]
  /\ hsignal = [h \in Handlers |-> "none"]
  /\ hconfig = [h \in Handlers |-> NoConfig]

HandlerAt(h, from, to) == hpc[h] = from /\ hpc' = [hpc EXCEPT ![h] = to]
Forget(h) == /\ hsignal' = [hsignal EXCEPT ![h] = "none"]
             /\ hconfig' = [hconfig EXCEPT ![h] = NoConfig]

\* startStopProcess and DeleteProcess, up to the send: the row must be there.
RequestSignal(h, s) ==
  /\ s \in Requests \ {"Refresh"} /\ rowState = "present"
  /\ HandlerAt(h, "idle", "send")
  /\ hsignal' = [hsignal EXCEPT ![h] = s]
  /\ UNCHANGED <<processVars, hconfig>>

\* needsRestart: does the request differ from the row as it is committed now?
NeedsRestart(c) == c # rowConfig

\* UpdateProcess, up to its UPDATE.
RequestUpdate(h, c) ==
  /\ "Refresh" \in Requests /\ rowState = "present"
  /\ HandlerAt(h, "idle", "update")
  /\ hsignal' = [hsignal EXCEPT ![h] = IF NeedsRestart(c) THEN "Refresh" ELSE "none"]
  /\ hconfig' = [hconfig EXCEPT ![h] = c]
  /\ UNCHANGED processVars

\* UPDATE process, which locks the row until the commit; without the row the
\* handler rolls back and answers with an error.
UpdateRow(h) ==
  /\ rowState = "present" /\ rowLock = NoHandler
  /\ HandlerAt(h, "update", IF hsignal[h] = "Refresh" THEN "send" ELSE "commit")
  /\ rowLock' = h
  /\ UNCHANGED <<signalIn, rowState, rowStatus, rowConfig, recent, hsignal, hconfig>>

UpdateFails(h) ==
  /\ rowState = "gone" \/ DbMayFail
  /\ HandlerAt(h, "update", "idle")
  /\ Forget(h)
  /\ UNCHANGED processVars

\* A DeleteProcess that deletes the row first and then tells the runner.
RemoveFirst(h) ==
  /\ hsignal[h] = "Deleted" /\ rowState = "present"
  /\ hpc[h] = "send" /\ rowLock = NoHandler
  /\ rowState' = "gone" /\ recent' = 0
  /\ UNCHANGED <<signalIn, rowStatus, rowConfig, rowLock, handlerVars>>
DeliverAfterRemove(h) ==
  \/ RemoveFirst(h)
  \/ /\ hsignal[h] = "Deleted" => rowState = "gone"
     /\ HandlerAt(h, "send", IF hsignal[h] = "Refresh" THEN "commit" ELSE "idle")
     /\ Send(hsignal[h])
     /\ IF hsignal[h] = "Refresh" THEN UNCHANGED <<hsignal, hconfig>> ELSE Forget(h)
     /\ UNCHANGED <<rowVars, recent>>

\* runner.SignalIn <- signal: it blocks while the buffer is full.
Deliver(h) ==
  /\ HandlerAt(h, "send", CASE hsignal[h] = "Refresh" -> "commit"
                            [] hsignal[h] = "Deleted" -> "remove"
                            [] OTHER -> "idle")
  /\ Send(hsignal[h])
  /\ IF hsignal[h] = "Refresh" THEN UNCHANGED <<hsignal, hconfig>> ELSE Forget(h)
  /\ UNCHANGED <<rowVars, recent>>

\* The deferred commit of UpdateProcess; it fails when the client has gone.
Commit(h) ==
  /\ HandlerAt(h, "commit", "idle")
  /\ rowLock' = NoHandler
  /\ \/ rowConfig' = hconfig[h]
     \/ DbMayFail /\ UNCHANGED rowConfig
  /\ Forget(h)
  /\ UNCHANGED <<signalIn, rowState, rowStatus, recent>>

\* DELETE FROM process, which waits for the row lock; the events go with the row.
Remove(h) ==
  /\ rowLock = NoHandler
  /\ HandlerAt(h, "remove", "idle")
  /\ \/ rowState' = "gone" /\ recent' = 0
     \/ DbMayFail /\ UNCHANGED <<rowState, recent>>
  /\ UNCHANGED <<signalIn, rowStatus, rowConfig, rowLock, hsignal, hconfig>>

\* The deferred commit of AddProcess.
AddCommits ==
  /\ rowState = "inserted"
  /\ \/ rowState' = "present"
     \/ DbMayFail /\ rowState' = "gone"
  /\ UNCHANGED <<signalIn, rowStatus, rowConfig, rowLock, recent, handlerVars>>

Serve(h) == UpdateRow(h) \/ UpdateFails(h) \/ Deliver(h) \/ Commit(h) \/ Remove(h)

Handle(h) == \/ \E s \in Requests : RequestSignal(h, s)
             \/ \E c \in Configs : RequestUpdate(h, c)
             \/ Serve(h)

HandlersTypeOK ==
  /\ hpc \in [Handlers -> {"idle", "send", "remove", "update", "commit"}]
  /\ hsignal \in [Handlers -> Signals \cup {"none"}]
  /\ hconfig \in [Handlers -> Configs \cup {NoConfig}]
  /\ \A h \in Handlers : hpc[h] = "send" => hsignal[h] \in Signals
  /\ \A h \in Handlers : hpc[h] \in {"update", "commit"} \/ hsignal[h] = "Refresh"
                           => hconfig[h] \in Configs
=============================================================================
