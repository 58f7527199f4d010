--------------------------- MODULE MCModelUsage ---------------------------
(* Model-checking instances of ModelUsage. *)
EXTENDS ModelUsage, TLC

BudgetOf(crash, fault, delist) == "crash" :> crash @@ "fault" :> fault @@ "delist" :> delist

Troubled == {BudgetOf(1, 0, 1), BudgetOf(0, 1, 0)}
Faulty   == {BudgetOf(0, 1, 0)}

\* Requests use less than their estimate.
UseOne == [r \in Requests |-> 1]
===========================================================================
