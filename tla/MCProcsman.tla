----------------------------- MODULE MCProcsman ------------------------------
(* Small instances of Procsman for TLC. *)
EXTENDS Procsman, TLC

Conf(enabled, stop, crash, frame, retries) ==
  [enabled |-> enabled, onStop |-> stop, onCrash |-> crash,
   frame |-> frame, maxRetries |-> retries]

Always == Conf(TRUE, TRUE, TRUE, 0, 0)
Budgeted == Conf(TRUE, FALSE, TRUE, 60, 1)
Disabled == Conf(FALSE, FALSE, FALSE, 0, 0)

Manual == Conf(TRUE, FALSE, FALSE, 0, 0)

AlwaysOnly == {Always}
BudgetedOnly == {Budgeted}
DisabledOnly == {Disabled}
BudgetedOrDisabled == {Budgeted, Disabled}
AlwaysOrBudgeted == {Always, Budgeted}
ManualOrDisabled == {Manual, Disabled}
=============================================================================
