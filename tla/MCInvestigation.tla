-------------------------- MODULE MCInvestigation --------------------------
(* Model-checking instances of Investigation. *)
EXTENDS Investigation, TLC

BudgetOf(crash, fault, overrun, any) ==
  "crash" :> crash @@ "fault" :> fault @@ "overrun" :> overrun @@ "any" :> any

Troubled == "event" :> BudgetOf(1, 1, 1, 1) @@ "replay" :> BudgetOf(2, 1, 1, 2)
============================================================================
