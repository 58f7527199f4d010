--------------------------- MODULE MCSandboxUsage ---------------------------
(* Model-checking instances of SandboxUsage. *)
EXTENDS SandboxUsage, TLC

BudgetOf(crash, fault, replan, slow) ==
  "crash" :> crash @@ "fault" :> fault @@ "replan" :> replan @@ "slow" :> slow

Failing    == BudgetOf(1, 1, 1, 1)
LostAnswer == BudgetOf(0, 1, 1, 0)
=============================================================================
