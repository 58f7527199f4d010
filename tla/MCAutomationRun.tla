-------------------------- MODULE MCAutomationRun --------------------------
(* Model-checking instances of AutomationRun. *)
EXTENDS AutomationRun, TLC

Symmetry == Permutations(Workers) \cup Permutations(Replies)

\* Trouble budgets, by kind and together.
BudgetOf(crash, drop, stall, fault, stop, toggle, cancel, any) ==
  "crash" :> crash @@ "drop" :> drop @@ "stall" :> stall @@ "fault" :> fault
  @@ "stop" :> stop @@ "toggle" :> toggle @@ "cancel" :> cancel @@ "any" :> any

Troubled == BudgetOf(1, 1, 1, 1, 1, 1, 1, 2)   \* any two, as many as retries
Stalling == BudgetOf(0, 0, 1, 0, 0, 0, 0, 1)
Crashing == BudgetOf(1, 0, 0, 0, 0, 0, 0, 1)
Retrying == BudgetOf(1, 0, 0, 1, 1, 0, 0, 1)   \* one, as many as retries
=============================================================================
