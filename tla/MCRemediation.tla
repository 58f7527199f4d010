--------------------------- MODULE MCRemediation ---------------------------
(* Model-checking instances of Remediation. *)
EXTENDS Remediation, TLC

BudgetOf(crash, fault, overrun, discard, any) ==
  "crash" :> crash @@ "fault" :> fault @@ "overrun" :> overrun @@ "discard" :> discard
  @@ "any" :> any

Troubled == BudgetOf(1, 1, 1, 1, 2)
============================================================================
