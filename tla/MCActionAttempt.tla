--------------------------- MODULE MCActionAttempt ---------------------------
(* Model-checking instances of ActionAttempt. *)
EXTENDS ActionAttempt, TLC

BudgetOf(crash, fault, takeover, any) ==
  "crash" :> crash @@ "fault" :> fault @@ "takeover" :> takeover @@ "any" :> any

Troubled == BudgetOf(1, 2, 1, 3)
=============================================================================
