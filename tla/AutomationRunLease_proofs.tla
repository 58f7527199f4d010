--------------------- MODULE AutomationRunLease_proofs ---------------------
(***************************************************************************)
(* The lease of an automation run, proved for every set of workers,        *)
(* replies and follow-ups and every budget of trouble: LeaseInv is         *)
(* inductive, only the holder of the lease ends a run, and the row keeps   *)
(* the promises of RunLease.                                               *)
(*                                                                         *)
(* One case analysis over the actions (StepMoves) says how a step may move *)
(* the handlers, the requests and the row; the three results follow from   *)
(* it without looking at the actions again.                                *)
(***************************************************************************)
EXTENDS AutomationRun_proofs

-----------------------------------------------------------------------------
(* How a step other than Claim may move the system. *)

\* The step meets a fault.
Faulted == trouble'["fault"] < trouble["fault"]

\* A handler keeps its lease or drops it; it does not enter a turn, and it
\* comes to FailUnqueuedTurn only by a fault.
Advance(w) ==
  /\ \/ handler'[w].lease = NoLease /\ handler'[w].pc \in Unclaimed
     \/ /\ handler'[w].lease = handler[w].lease
        /\ handler'[w].pc \notin Unclaimed => handler[w].pc \notin Unclaimed
        /\ handler'[w].pc \in InTurn => handler[w].pc \in InTurn
  /\ handler'[w].pc = "undo" => handler[w].pc = "undo" \/ Faulted

HandlersAdvance == \A w \in Workers : Advance(w)

\* A request comes to FailUnqueuedRequest only by a fault.
RequestsAdvance == \A r \in Requests : request'[r].pc = "undo" => request[r].pc = "undo" \/ Faulted

BudgetShrinks == trouble'["fault"] <= trouble["fault"]

\* The ways to write the row. A holder of the lease ends the run, or a repair
\* after a fault does.
Kept == /\ run'.status = run.status /\ run'.lease = run.lease
        /\ run'.live => run.live \/ (run.status = "running" /\ run.lease # NoLease)
Reopens  == run.status \in Terminal /\ run' = Reopened
Releases == /\ run.status = "running" /\ run.lease # NoLease
            /\ run'.status = "running" /\ run'.lease = NoLease /\ ~run'.live
Ends == /\ run'.status \in Terminal /\ run'.lease = run.lease /\ run'.live = run.live
EndsHeld == /\ Ends
            /\ \E w \in Workers : /\ Holds(w) /\ handler[w].pc \in InTurn
                                  /\ handler'[w].pc \notin InTurn
Repairs == Ends /\ ~Spared({"fault"})'

RowMoves == Kept \/ Reopens \/ Releases \/ EndsHeld \/ Repairs

Moves == HandlersAdvance /\ RequestsAdvance /\ BudgetShrinks /\ RowMoves /\ lastLease' = lastLease

-----------------------------------------------------------------------------
(* How the helpers move the system. *)

\* Going on to another step advances the handler.
LEMMA GotoAdvances ==
  ASSUME handler \in [Workers -> HandlerRow], NEW x \in Workers, NEW pc, Goto(x, pc),
         pc \in Unclaimed \/ handler[x].pc \notin Unclaimed,
         pc \in InTurn => handler[x].pc \in InTurn,
         pc = "undo" => Faulted
  PROVE  HandlersAdvance
BY DEF Goto, HandlersAdvance, Advance, HandlerRow

\* Going on with an outcome advances it too.
LEMMA EndAdvances ==
  ASSUME handler \in [Workers -> HandlerRow], NEW x \in Workers, NEW pc, NEW end, End(x, pc, end),
         handler[x].pc \notin Unclaimed,
         pc \in InTurn => handler[x].pc \in InTurn,
         pc # "undo"
  PROVE  HandlersAdvance
BY DEF End, HandlersAdvance, Advance, HandlerRow

\* Completing a job frees the handler and drops its lease.
LEMMA CompleteAdvances ==
  ASSUME handler \in [Workers -> HandlerRow], NEW x \in Workers, Complete(x)
  PROVE  HandlersAdvance
BY DEF Complete, Idle, HandlersAdvance, Advance, Unclaimed

\* A step of no handler advances all of them.
LEMMA SameAdvances == ASSUME UNCHANGED handler PROVE HandlersAdvance
BY DEF HandlersAdvance, Advance

\* A request goes on, to FailUnqueuedRequest only by a fault.
LEMMA StepAdvances ==
  ASSUME request \in [Requests -> RequestRow], NEW x \in Requests, NEW pc, Step(x, pc),
         pc = "undo" => Faulted
  PROVE  RequestsAdvance
BY DEF Step, RequestsAdvance, RequestRow

\* A step of no request advances all of them.
LEMMA SameRequests == ASSUME UNCHANGED request PROVE RequestsAdvance
BY DEF RequestsAdvance

\* Meeting a fault takes it from the budget.
LEMMA MeetFaults ==
  ASSUME trouble \in [Limits -> Nat], Meet("fault")
  PROVE  Faulted /\ BudgetShrinks
BY DEF Meet, Faulted, BudgetShrinks, Limits, TroubleKinds

\* Meeting any other trouble leaves the faults alone.
LEMMA MeetShrinks ==
  ASSUME trouble \in [Limits -> Nat], NEW k \in TroubleKinds, Meet(k)
  PROVE  BudgetShrinks
BY DEF Meet, BudgetShrinks, Limits, TroubleKinds

\* Without trouble the budget stays.
LEMMA SameBudget ==
  ASSUME trouble \in [Limits -> Nat], UNCHANGED trouble
  PROVE  BudgetShrinks
BY DEF BudgetShrinks, Limits, TroubleKinds

\* A row that is left alone is kept.
LEMMA SameRow == ASSUME UNCHANGED run PROVE RowMoves
BY DEF RowMoves, Kept

\* What is left of the faults and what there was of them are numbers.
LEMMA FaultNumbers ==
  ASSUME TypeOK
  PROVE  trouble["fault"] \in Nat /\ Budget["fault"] \in Nat
BY AutomationRunAssumption DEF TypeOK, Limits, TroubleKinds

\* Faults are spared when all of them are left.
LEMMA SparedFaults == Spared({"fault"}) <=> trouble["fault"] = Budget["fault"]
BY DEF Spared

\* After a fault the budget is no longer whole.
LEMMA FaultSpends ==
  ASSUME TypeOK, TypeOK', LeaseInv, Faulted
  PROVE  ~Spared({"fault"})'
<1>1. trouble["fault"] \in Nat /\ trouble'["fault"] \in Nat /\ Budget["fault"] \in Nat
  BY FaultNumbers DEF TypeOK, Limits, TroubleKinds
<1>2. trouble["fault"] <= Budget["fault"]
  BY DEF LeaseInv
<1>3. trouble'["fault"] # Budget["fault"]
  BY <1>1, <1>2 DEF Faulted
<1> QED
  BY <1>3 DEF Spared

\* Once spent, the budget never becomes whole again.
LEMMA SpentStays ==
  ASSUME TypeOK, TypeOK', LeaseInv, BudgetShrinks, ~Spared({"fault"})
  PROVE  ~Spared({"fault"})'
<1>1. trouble["fault"] \in Nat /\ trouble'["fault"] \in Nat /\ Budget["fault"] \in Nat
  BY FaultNumbers DEF TypeOK, Limits, TroubleKinds
<1>2. trouble["fault"] <= Budget["fault"] /\ trouble["fault"] # Budget["fault"]
  BY SparedFaults DEF LeaseInv
<1>3. trouble'["fault"] # Budget["fault"]
  BY <1>1, <1>2 DEF BudgetShrinks
<1> QED
  BY <1>3 DEF Spared

\* A status write that names the lease of a handler in its turn, which leaves
\* the turn, ends the run or does nothing.
LEMMA SetStatusMoves ==
  ASSUME run \in RunRow, NEW x \in Workers, NEW s \in Terminal, SetStatusWithLease(x, s),
         handler[x].pc \in InTurn, handler'[x].pc \notin InTurn
  PROVE  RowMoves
<1>1. CASE Holds(x)
  BY <1>1 DEF SetStatusWithLease, RowMoves, EndsHeld, Ends, RunRow
<1>2. CASE ~Holds(x)
  BY <1>2, SameRow DEF SetStatusWithLease
<1> QED
  BY <1>1, <1>2

-----------------------------------------------------------------------------
(* The case analysis. *)

\* Every step but Claim moves the system as described above.
LEMMA StepMoves ==
  ASSUME TypeOK, TypeOK', LeaseInv, [Next]_vars, \A w \in Workers : ~Claim(w)
  PROVE  Moves
<1> USE DEF TypeOK
<1>1. ASSUME NEW x \in Workers, Fetch(x) PROVE Moves
  <2>1. HandlersAdvance
    BY <1>1 DEF Fetch, Idle, HandlersAdvance, Advance, Unclaimed, HandlerRow
  <2>2. RequestsAdvance /\ BudgetShrinks
    BY <1>1, SameRequests, SameBudget DEF Fetch
  <2>3. RowMoves
    BY <1>1, SameRow DEF Fetch, row
  <2> QED
    BY <1>1, <2>1, <2>2, <2>3 DEF Fetch, row, Moves
<1>2. ASSUME NEW x \in Workers, ClaimNothing(x) PROVE Moves
  <2>1. HandlersAdvance
    BY <1>2, GotoAdvances DEF ClaimNothing, Unclaimed, InTurn, Abortable
  <2>2. RequestsAdvance /\ BudgetShrinks
    BY <1>2, SameRequests, SameBudget DEF ClaimNothing, TroubleKinds
  <2>3. RowMoves
    BY <1>2, SameRow DEF ClaimNothing, row
  <2> QED
    BY <1>2, <2>1, <2>2, <2>3 DEF ClaimNothing, row, Moves
<1>3. ASSUME NEW x \in Workers, ReclaimNothing(x) PROVE Moves
  <2>1. HandlersAdvance
    BY <1>3, CompleteAdvances DEF ReclaimNothing, Unclaimed, InTurn, Abortable
  <2>2. RequestsAdvance /\ BudgetShrinks
    BY <1>3, SameRequests, SameBudget DEF ReclaimNothing, TroubleKinds
  <2>3. RowMoves
    BY <1>3, SameRow DEF ReclaimNothing, row
  <2> QED
    BY <1>3, <2>1, <2>2, <2>3 DEF ReclaimNothing, row, Moves
<1>4. ASSUME NEW x \in Workers, LoadConfiguration(x) PROVE Moves
  <2>1. HandlersAdvance
    BY <1>4, GotoAdvances DEF LoadConfiguration, Unclaimed, InTurn, Abortable
  <2>2. RequestsAdvance /\ BudgetShrinks
    BY <1>4, SameRequests, SameBudget DEF LoadConfiguration, TroubleKinds
  <2>3. RowMoves
    BY <1>4, SameRow DEF LoadConfiguration, row
  <2> QED
    BY <1>4, <2>1, <2>2, <2>3 DEF LoadConfiguration, row, Moves
<1>5. ASSUME NEW x \in Workers, ConfigurationUnavailable(x) PROVE Moves
  <2>1. HandlersAdvance /\ handler'[x].pc \notin InTurn
    BY <1>5 DEF ConfigurationUnavailable, Idle, HandlersAdvance, Advance, Unclaimed, HandlerRow, InTurn
  <2>2. RequestsAdvance /\ BudgetShrinks
    BY <1>5, SameRequests, SameBudget DEF ConfigurationUnavailable
  <2>3. RowMoves
    BY <1>5, <2>1, SetStatusMoves DEF ConfigurationUnavailable, InTurn, Terminal
  <2> QED
    BY <1>5, <2>1, <2>2, <2>3 DEF ConfigurationUnavailable, Moves
<1>6. ASSUME NEW x \in Workers, LookAtLease(x) PROVE Moves
  <2>1. HandlersAdvance
    BY <1>6, GotoAdvances DEF LookAtLease, Unclaimed, InTurn, Abortable
  <2>2. RequestsAdvance /\ BudgetShrinks
    BY <1>6, SameRequests, SameBudget DEF LookAtLease, TroubleKinds
  <2>3. RowMoves
    BY <1>6, SameRow DEF LookAtLease, row
  <2> QED
    BY <1>6, <2>1, <2>2, <2>3 DEF LookAtLease, row, Moves
<1>7. ASSUME NEW x \in Workers, Wake(x) PROVE Moves
  <2>1. HandlersAdvance
    BY <1>7, GotoAdvances DEF Wake, Unclaimed, InTurn, Abortable
  <2>2. RequestsAdvance /\ BudgetShrinks
    BY <1>7, SameRequests, SameBudget DEF Wake, TroubleKinds
  <2>3. RowMoves
    BY <1>7, SameRow DEF Wake, row
  <2> QED
    BY <1>7, <2>1, <2>2, <2>3 DEF Wake, row, Moves
<1>8. ASSUME NEW x \in Workers, StartTurn(x) PROVE Moves
  <2>1. HandlersAdvance
    BY <1>8, GotoAdvances DEF StartTurn, Unclaimed, InTurn, Abortable
  <2>2. RequestsAdvance /\ BudgetShrinks
    BY <1>8, SameRequests, SameBudget DEF StartTurn, TroubleKinds
  <2>3. RowMoves
    BY <1>8 DEF StartTurn, HeartbeatMatches, Holds, LeaseInv, Unclaimed, RowMoves, Kept, RunRow
  <2> QED
    BY <1>8, <2>1, <2>2, <2>3 DEF StartTurn, row, Moves
<1>9. ASSUME NEW x \in Workers, LoseLease(x) PROVE Moves
  <2>1. HandlersAdvance
    BY <1>9, EndAdvances DEF LoseLease, Unclaimed, InTurn, Abortable
  <2>2. RequestsAdvance /\ BudgetShrinks
    BY <1>9, SameRequests, SameBudget DEF LoseLease, TroubleKinds
  <2>3. RowMoves
    BY <1>9, SameRow DEF LoseLease, row
  <2> QED
    BY <1>9, <2>1, <2>2, <2>3 DEF LoseLease, row, Moves
<1>10. ASSUME NEW x \in Workers, ReadConversation(x) PROVE Moves
  <2>1. HandlersAdvance
    <3>1. /\ \A w \in Workers : handler'[w].lease = handler[w].lease
          /\ \A w \in Workers \ {x} : handler'[w].pc = handler[w].pc
          /\ handler[x].pc = "read" /\ handler'[x].pc = "grant"
      BY <1>10 DEF ReadConversation, HandlerRow
    <3> QED
      BY <3>1 DEF HandlersAdvance, Advance, Unclaimed, InTurn
  <2>2. RequestsAdvance /\ BudgetShrinks
    BY <1>10, SameRequests, SameBudget DEF ReadConversation
  <2>3. RowMoves
    BY <1>10, SameRow DEF ReadConversation, row
  <2> QED
    BY <1>10, <2>1, <2>2, <2>3 DEF ReadConversation, row, Moves
<1>11. ASSUME NEW x \in Workers, CreateGrant(x) PROVE Moves
  <2>1. HandlersAdvance
    BY <1>11, GotoAdvances DEF CreateGrant, Unclaimed, InTurn, Abortable
  <2>2. RequestsAdvance /\ BudgetShrinks
    BY <1>11, SameRequests, SameBudget DEF CreateGrant, TroubleKinds
  <2>3. RowMoves
    BY <1>11, SameRow DEF CreateGrant, row
  <2> QED
    BY <1>11, <2>1, <2>2, <2>3 DEF CreateGrant, row, Moves
<1>12. ASSUME NEW x \in Workers, HarnessSucceeds(x) PROVE Moves
  <2>1. HandlersAdvance
    BY <1>12, GotoAdvances DEF HarnessSucceeds, Unclaimed, InTurn, Abortable
  <2>2. RequestsAdvance /\ BudgetShrinks
    BY <1>12, SameRequests, SameBudget DEF HarnessSucceeds, TroubleKinds
  <2>3. RowMoves
    BY <1>12, SameRow DEF HarnessSucceeds, row
  <2> QED
    BY <1>12, <2>1, <2>2, <2>3 DEF HarnessSucceeds, row, Moves
<1>13. ASSUME NEW x \in Workers, TurnFails(x) PROVE Moves
  <2>1. HandlersAdvance
    BY <1>13, GotoAdvances DEF TurnFails, Unclaimed, InTurn, Abortable
  <2>2. RequestsAdvance /\ BudgetShrinks
    BY <1>13, SameRequests, SameBudget DEF TurnFails, TroubleKinds
  <2>3. RowMoves
    BY <1>13, SameRow DEF TurnFails, row
  <2> QED
    BY <1>13, <2>1, <2>2, <2>3 DEF TurnFails, row, Moves
<1>14. ASSUME NEW x \in Workers, PollCancellation(x) PROVE Moves
  <2>1. HandlersAdvance
    BY <1>14, EndAdvances DEF PollCancellation, Unclaimed, InTurn, Abortable
  <2>2. RequestsAdvance /\ BudgetShrinks
    BY <1>14, SameRequests, SameBudget DEF PollCancellation, TroubleKinds
  <2>3. RowMoves
    BY <1>14, SameRow DEF PollCancellation, row
  <2> QED
    BY <1>14, <2>1, <2>2, <2>3 DEF PollCancellation, row, Moves
<1>15. ASSUME NEW x \in Workers, CheckCancellation(x) PROVE Moves
  <2>1. HandlersAdvance
    BY <1>15, GotoAdvances, EndAdvances DEF CheckCancellation, Unclaimed, InTurn, Abortable
  <2>2. RequestsAdvance /\ BudgetShrinks
    BY <1>15, SameRequests, SameBudget DEF CheckCancellation, TroubleKinds
  <2>3. RowMoves
    BY <1>15, SameRow DEF CheckCancellation, row
  <2> QED
    BY <1>15, <2>1, <2>2, <2>3 DEF CheckCancellation, row, Moves
<1>16. ASSUME NEW x \in Workers, Succeed(x) PROVE Moves
  <2>1. HandlersAdvance
    BY <1>16, EndAdvances DEF Succeed, Unclaimed, InTurn
  <2>2. RequestsAdvance /\ BudgetShrinks
    BY <1>16, SameRequests, SameBudget DEF Succeed
  <2>3. handler[x].pc \in InTurn /\ handler'[x].pc \notin InTurn
    BY <1>16 DEF Succeed, End, InTurn, HandlerRow
  <2>4. RowMoves
    BY <1>16, <2>3, SetStatusMoves DEF Succeed, Terminal
  <2> QED
    BY <1>16, <2>1, <2>2, <2>4 DEF Succeed, Moves
<1>17. ASSUME NEW x \in Workers, CancelTurn(x) PROVE Moves
  <2>1. HandlersAdvance
    BY <1>17, EndAdvances DEF CancelTurn, Unclaimed, InTurn
  <2>2. RequestsAdvance /\ BudgetShrinks
    BY <1>17, SameRequests, SameBudget DEF CancelTurn
  <2>3. handler[x].pc \in InTurn /\ handler'[x].pc \notin InTurn
    BY <1>17 DEF CancelTurn, End, InTurn, HandlerRow
  <2>4. RowMoves
    BY <1>17, <2>3, SetStatusMoves DEF CancelTurn, Terminal
  <2> QED
    BY <1>17, <2>1, <2>2, <2>4 DEF CancelTurn, Moves
<1>18. ASSUME NEW x \in Workers, FailTurn(x) PROVE Moves
  <2>1. HandlersAdvance
    BY <1>18, EndAdvances DEF FailTurn, Unclaimed, InTurn
  <2>2. RequestsAdvance /\ BudgetShrinks
    BY <1>18, SameRequests, SameBudget DEF FailTurn
  <2>3. handler[x].pc \in InTurn /\ handler'[x].pc \notin InTurn
    BY <1>18 DEF FailTurn, End, InTurn, HandlerRow
  <2>4. RowMoves
    BY <1>18, <2>3, SetStatusMoves DEF FailTurn, Terminal
  <2> QED
    BY <1>18, <2>1, <2>2, <2>4 DEF FailTurn, Moves
<1>19. ASSUME NEW x \in Workers, RecordEnd(x) PROVE Moves
  <2>1. HandlersAdvance
    BY <1>19, GotoAdvances DEF RecordEnd, Unclaimed, InTurn, Abortable
  <2>2. RequestsAdvance /\ BudgetShrinks
    BY <1>19, SameRequests, SameBudget, MeetFaults DEF RecordEnd, TroubleKinds
  <2>3. RowMoves
    BY <1>19, SameRow DEF RecordEnd, row
  <2> QED
    BY <1>19, <2>1, <2>2, <2>3 DEF RecordEnd, row, Moves
<1>20. ASSUME NEW x \in Workers, Cleanup(x) PROVE Moves
  <2>1. HandlersAdvance
    BY <1>20, EndAdvances, CompleteAdvances DEF Cleanup, Unclaimed, InTurn, Abortable
  <2>2. RequestsAdvance /\ BudgetShrinks
    BY <1>20, SameRequests, SameBudget, MeetFaults DEF Cleanup, TroubleKinds
  <2>3. RowMoves
    BY <1>20, SameRow DEF Cleanup, row
  <2> QED
    BY <1>20, <2>1, <2>2, <2>3 DEF Cleanup, row, Moves
<1>21. ASSUME NEW x \in Workers, Notify(x) PROVE Moves
  <2>1. HandlersAdvance
    BY <1>21, GotoAdvances, CompleteAdvances DEF Notify, Unclaimed, InTurn, Abortable
  <2>2. RequestsAdvance /\ BudgetShrinks
    BY <1>21, SameRequests, SameBudget DEF Notify, TroubleKinds
  <2>3. RowMoves
    BY <1>21, SameRow DEF Notify, row
  <2> QED
    BY <1>21, <2>1, <2>2, <2>3 DEF Notify, row, Moves
<1>22. ASSUME NEW x \in Workers, AnswerNewMessages(x) PROVE Moves
  <2>1. HandlersAdvance
    BY <1>22, GotoAdvances, CompleteAdvances DEF AnswerNewMessages, Unclaimed, InTurn, Abortable
  <2>2. RequestsAdvance /\ BudgetShrinks
    BY <1>22, SameRequests, SameBudget DEF AnswerNewMessages, TroubleKinds
  <2>3. RowMoves
    BY <1>22, SameRow DEF AnswerNewMessages, row
  <2> QED
    BY <1>22, <2>1, <2>2, <2>3 DEF AnswerNewMessages, row, Moves
<1>23. ASSUME NEW x \in Workers, ReopenAfterTurn(x) PROVE Moves
  <2>1. HandlersAdvance
    BY <1>23, GotoAdvances DEF ReopenAfterTurn, Unclaimed, InTurn, Abortable
  <2>2. RequestsAdvance /\ BudgetShrinks
    BY <1>23, SameRequests, SameBudget DEF ReopenAfterTurn, TroubleKinds
  <2>3. RowMoves
    BY <1>23 DEF ReopenAfterTurn, RowMoves, Reopens, Reopenable
  <2> QED
    BY <1>23, <2>1, <2>2, <2>3 DEF ReopenAfterTurn, row, Moves
<1>24. ASSUME NEW x \in Workers, LeaveToOthers(x) PROVE Moves
  <2>1. HandlersAdvance
    BY <1>24, CompleteAdvances DEF LeaveToOthers, Unclaimed, InTurn, Abortable
  <2>2. RequestsAdvance /\ BudgetShrinks
    BY <1>24, SameRequests, SameBudget DEF LeaveToOthers, TroubleKinds
  <2>3. RowMoves
    BY <1>24, SameRow DEF LeaveToOthers, row
  <2> QED
    BY <1>24, <2>1, <2>2, <2>3 DEF LeaveToOthers, row, Moves
<1>25. ASSUME NEW x \in Workers, RequeueTurn(x) PROVE Moves
  <2>1. HandlersAdvance
    BY <1>25, GotoAdvances, CompleteAdvances, MeetFaults DEF RequeueTurn, Unclaimed, InTurn, Abortable
  <2>2. RequestsAdvance /\ BudgetShrinks
    BY <1>25, SameRequests, SameBudget, MeetFaults DEF RequeueTurn, TroubleKinds
  <2>3. RowMoves
    BY <1>25, SameRow DEF RequeueTurn, row
  <2> QED
    BY <1>25, <2>1, <2>2, <2>3 DEF RequeueTurn, row, Moves
<1>26. ASSUME NEW x \in Workers, FailUnqueuedTurn(x) PROVE Moves
  <2>1. HandlersAdvance
    BY <1>26, CompleteAdvances DEF FailUnqueuedTurn, Unclaimed, InTurn, Abortable
  <2>2. RequestsAdvance /\ BudgetShrinks
    BY <1>26, SameRequests, SameBudget DEF FailUnqueuedTurn, TroubleKinds
  <2>3. RowMoves
    BY <1>26, SpentStays, <2>2 DEF FailUnqueuedTurn, LeaseInv, RowMoves, Repairs, Ends, RunRow, Terminal, Spared
  <2> QED
    BY <1>26, <2>1, <2>2, <2>3 DEF FailUnqueuedTurn, row, Moves
<1>27. ASSUME NEW x \in Workers, ReleaseLease(x) PROVE Moves
  <2>1. HandlersAdvance
    BY <1>27, GotoAdvances DEF ReleaseLease, Unclaimed, InTurn, Abortable
  <2>2. RequestsAdvance /\ BudgetShrinks
    BY <1>27, SameRequests, SameBudget DEF ReleaseLease, TroubleKinds
  <2>3. RowMoves
    BY <1>27 DEF ReleaseLease, HeartbeatMatches, Holds, LeaseInv, Unclaimed, RowMoves, Releases, RunRow
  <2> QED
    BY <1>27, <2>1, <2>2, <2>3 DEF ReleaseLease, row, Moves
<1>28. ASSUME NEW x \in Workers, ReleaseNothing(x) PROVE Moves
  <2>1. HandlersAdvance
    BY <1>28, CompleteAdvances DEF ReleaseNothing, Unclaimed, InTurn, Abortable
  <2>2. RequestsAdvance /\ BudgetShrinks
    BY <1>28, SameRequests, SameBudget DEF ReleaseNothing, TroubleKinds
  <2>3. RowMoves
    BY <1>28, SameRow DEF ReleaseNothing, row
  <2> QED
    BY <1>28, <2>1, <2>2, <2>3 DEF ReleaseNothing, row, Moves
<1>29. ASSUME NEW x \in Workers, RequeueHandedBack(x) PROVE Moves
  <2>1. HandlersAdvance
    BY <1>29, CompleteAdvances DEF RequeueHandedBack, Unclaimed, InTurn, Abortable
  <2>2. RequestsAdvance /\ BudgetShrinks
    BY <1>29, SameRequests, SameBudget, MeetFaults DEF RequeueHandedBack, TroubleKinds
  <2>3. RowMoves
    BY <1>29, SameRow DEF RequeueHandedBack, row
  <2> QED
    BY <1>29, <2>1, <2>2, <2>3 DEF RequeueHandedBack, row, Moves
<1>30. ASSUME NEW x \in Workers, Renew(x) PROVE Moves
  <2>1. HandlersAdvance
    BY <1>30, SameAdvances DEF Renew, Unclaimed, InTurn, Abortable
  <2>2. RequestsAdvance /\ BudgetShrinks
    BY <1>30, SameRequests, SameBudget DEF Renew, TroubleKinds
  <2>3. RowMoves
    BY <1>30 DEF Renew, HeartbeatMatches, Holds, LeaseInv, Unclaimed, RowMoves, Kept, RunRow, InTurn, HandlerRow
  <2> QED
    BY <1>30, <2>1, <2>2, <2>3 DEF Renew, row, Moves
<1>31. ASSUME NEW x \in Workers, TurnFailsUnread(x) PROVE Moves
  <2>1. HandlersAdvance
    BY <1>31, GotoAdvances DEF TurnFailsUnread, Unclaimed, InTurn, Abortable
  <2>2. RequestsAdvance /\ BudgetShrinks
    BY <1>31, SameRequests, MeetFaults DEF TurnFailsUnread, TroubleKinds
  <2>3. RowMoves
    BY <1>31, SameRow DEF TurnFailsUnread, row
  <2> QED
    BY <1>31, <2>1, <2>2, <2>3 DEF TurnFailsUnread, row, Moves
<1>32. ASSUME NEW x \in Workers, HandBack(x) PROVE Moves
  <2>1. HandlersAdvance
    BY <1>32, GotoAdvances, EndAdvances DEF HandBack, Unclaimed, InTurn, Abortable
  <2>2. RequestsAdvance /\ BudgetShrinks
    BY <1>32, SameRequests, MeetShrinks DEF HandBack, TroubleKinds
  <2>3. RowMoves
    BY <1>32, SameRow DEF HandBack, row
  <2> QED
    BY <1>32, <2>1, <2>2, <2>3 DEF HandBack, row, Moves
<1>33. ASSUME NEW x \in Workers, StatusWriteThrows(x) PROVE Moves
  <2>1. HandlersAdvance
    BY <1>33, GotoAdvances, EndAdvances DEF StatusWriteThrows, Unclaimed, InTurn
  <2>2. RequestsAdvance /\ BudgetShrinks /\ Faulted
    BY <1>33, SameRequests, MeetFaults DEF StatusWriteThrows
  <2>3. UNCHANGED run \/ \E s \in Terminal : SetStatusWithLease(x, s)
    BY <1>33 DEF StatusWriteThrows, Terminal
  <2>4. RowMoves
    BY <2>2, <2>3, SameRow, FaultSpends DEF SetStatusWithLease, RowMoves, Repairs, Ends, RunRow
  <2> QED
    BY <1>33, <2>1, <2>2, <2>4 DEF StatusWriteThrows, Moves
<1>34. ASSUME NEW x \in Workers, Crash(x) PROVE Moves
  <2>1. HandlersAdvance
    BY <1>34, CompleteAdvances DEF Crash, Unclaimed, InTurn, Abortable
  <2>2. RequestsAdvance /\ BudgetShrinks
    BY <1>34, SameRequests, MeetShrinks DEF Crash, TroubleKinds
  <2>3. RowMoves
    BY <1>34, SameRow DEF Crash, row
  <2> QED
    BY <1>34, <2>1, <2>2, <2>3 DEF Crash, row, Moves
<1>35. ASSUME NEW x \in Workers, LoseTouch(x) PROVE Moves
  <2>1. HandlersAdvance
    BY <1>35 DEF LoseTouch, HandlersAdvance, Advance, HandlerRow
  <2>2. RequestsAdvance /\ BudgetShrinks
    BY <1>35, SameRequests, MeetShrinks DEF LoseTouch, TroubleKinds
  <2>3. RowMoves
    BY <1>35, SameRow DEF LoseTouch, row
  <2> QED
    BY <1>35, <2>1, <2>2, <2>3 DEF LoseTouch, row, Moves
<1>36. ASSUME NEW x \in Deliveries, AddReply(x) PROVE Moves
  <2>1. x \in Requests
    BY DEF Requests
  <2>2. RequestsAdvance
    <3>1. CASE Step(x, "done")
      BY <2>1, <3>1, StepAdvances
    <3>2. CASE request' = [request EXCEPT ![x] = [pc |-> "inserted", id |-> lastEvent + 1]]
      BY <3>2 DEF RequestsAdvance
    <3> QED
      BY <1>36, <3>1, <3>2 DEF AddReply
  <2>3. HandlersAdvance /\ BudgetShrinks /\ RowMoves
    BY <1>36, SameAdvances, SameBudget, SameRow DEF AddReply, row
  <2> QED
    BY <1>36, <2>2, <2>3 DEF AddReply, row, Moves
<1>37. ASSUME NEW x \in Deliveries, CommitReply(x) PROVE Moves
  <2>0. x \in Requests
    BY DEF Requests
  <2>1. HandlersAdvance /\ BudgetShrinks
    BY <1>37, SameAdvances, SameBudget DEF CommitReply, TroubleKinds
  <2>2. RequestsAdvance
    BY <1>37, <2>0, StepAdvances, MeetFaults DEF CommitReply
  <2>3. RowMoves
    BY <1>37, SameRow DEF CommitReply, row
  <2> QED
    BY <1>37, <2>1, <2>2, <2>3 DEF CommitReply, row, Moves
<1>38. ASSUME NEW x \in Deliveries, ReopenForReply(x) PROVE Moves
  <2>0. x \in Requests
    BY DEF Requests
  <2>1. HandlersAdvance /\ BudgetShrinks
    BY <1>38, SameAdvances, SameBudget DEF ReopenForReply, TroubleKinds
  <2>2. RequestsAdvance
    BY <1>38, <2>0, StepAdvances, MeetFaults DEF ReopenForReply
  <2>3. RowMoves
    BY <1>38, SameRow DEF ReopenForReply, RowMoves, Reopens, Reopenable
  <2> QED
    BY <1>38, <2>1, <2>2, <2>3 DEF ReopenForReply, row, Moves
<1>39. ASSUME NEW x \in FollowUps, FollowUp(x) PROVE Moves
  <2>0. x \in Requests
    BY DEF Requests
  <2>1. HandlersAdvance /\ BudgetShrinks
    BY <1>39, SameAdvances, SameBudget DEF FollowUp, TroubleKinds
  <2>2. RequestsAdvance
    <3>1. CASE \E pc \in {"error", "done"} : Step(x, pc)
      BY <2>0, <3>1, StepAdvances
    <3>2. CASE request' = [request EXCEPT ![x] = [pc |-> "sending", id |-> lastEvent + 1]]
      BY <3>2 DEF RequestsAdvance
    <3> QED
      BY <1>39, <3>1, <3>2 DEF FollowUp
  <2>3. RowMoves
    BY <1>39, SameRow DEF FollowUp, RowMoves, Reopens, Reopenable
  <2> QED
    BY <1>39, <2>1, <2>2, <2>3 DEF FollowUp, row, Moves
<1>40. ASSUME NEW x \in Requests, SendJob(x) PROVE Moves
  <2>1. HandlersAdvance /\ BudgetShrinks
    BY <1>40, SameAdvances, SameBudget, MeetFaults DEF SendJob, TroubleKinds
  <2>2. RequestsAdvance
    BY <1>40, StepAdvances, MeetFaults DEF SendJob
  <2>3. RowMoves
    BY <1>40, SameRow DEF SendJob, row
  <2> QED
    BY <1>40, <2>1, <2>2, <2>3 DEF SendJob, row, Moves
<1>41. ASSUME NEW x \in Requests, FailUnqueuedRequest(x) PROVE Moves
  <2>1. HandlersAdvance /\ BudgetShrinks
    BY <1>41, SameAdvances, SameBudget DEF FailUnqueuedRequest, TroubleKinds
  <2>2. RequestsAdvance
    BY <1>41, StepAdvances, MeetFaults DEF FailUnqueuedRequest
  <2>3. RowMoves
    BY <1>41, SpentStays, <2>1 DEF FailUnqueuedRequest, LeaseInv, RowMoves, Repairs, Ends, RunRow, Terminal, Spared
  <2> QED
    BY <1>41, <2>1, <2>2, <2>3 DEF FailUnqueuedRequest, row, Moves
<1>42. ASSUME NEW x \in Requests, DropRequest(x) PROVE Moves
  <2>1. HandlersAdvance /\ BudgetShrinks
    BY <1>42, SameAdvances, MeetShrinks DEF DropRequest, TroubleKinds
  <2>2. RequestsAdvance
    BY <1>42, StepAdvances, MeetFaults DEF DropRequest
  <2>3. RowMoves
    BY <1>42, SameRow DEF DropRequest, row
  <2> QED
    BY <1>42, <2>1, <2>2, <2>3 DEF DropRequest, row, Moves
<1>43. CASE LeaseExpires
  <2>1. HandlersAdvance /\ RequestsAdvance /\ BudgetShrinks
    BY <1>43, SameAdvances, SameRequests, SameBudget DEF LeaseExpires, TroubleKinds
  <2>2. RowMoves
    BY <1>43 DEF LeaseExpires, RowMoves, Kept, RunRow
  <2> QED
    BY <1>43, <2>1, <2>2 DEF LeaseExpires, Moves, row
<1>44. CASE RequestCancellation
  <2>1. HandlersAdvance /\ RequestsAdvance /\ BudgetShrinks
    BY <1>44, SameAdvances, SameRequests, MeetShrinks DEF RequestCancellation, TroubleKinds
  <2>2. RowMoves
    BY <1>44 DEF RequestCancellation, RowMoves, Kept, RunRow
  <2> QED
    BY <1>44, <2>1, <2>2 DEF RequestCancellation, Moves, row
<1>45. CASE ToggleAutomation
  <2>1. HandlersAdvance /\ RequestsAdvance /\ BudgetShrinks
    BY <1>45, SameAdvances, SameRequests, MeetShrinks DEF ToggleAutomation, TroubleKinds
  <2>2. RowMoves
    BY <1>45, SameRow DEF ToggleAutomation
  <2> QED
    BY <1>45, <2>1, <2>2 DEF ToggleAutomation, Moves, row
<1>46. CASE Rest
  <2>1. HandlersAdvance /\ RequestsAdvance /\ BudgetShrinks
    BY <1>46, SameAdvances, SameRequests, SameBudget DEF Rest, TroubleKinds, vars
  <2>2. RowMoves
    BY <1>46, SameRow DEF Rest, vars
  <2> QED
    BY <1>46, <2>1, <2>2 DEF Rest, Moves, row, vars
<1>47. CASE UNCHANGED vars
  <2>1. HandlersAdvance /\ RequestsAdvance /\ BudgetShrinks
    BY <1>47, SameAdvances, SameRequests, SameBudget DEF vars
  <2>2. RowMoves
    BY <1>47, SameRow DEF vars
  <2> QED
    BY <1>47, <2>1, <2>2 DEF Moves, vars
<1> QED
  BY <1>1, <1>2, <1>3, <1>4, <1>5, <1>6, <1>7, <1>8, <1>9, <1>10, <1>11, <1>12, <1>13,
     <1>14, <1>15, <1>16, <1>17, <1>18, <1>19, <1>20, <1>21, <1>22, <1>23, <1>24, <1>25,
     <1>26, <1>27, <1>28, <1>29, <1>30, <1>31, <1>32, <1>33, <1>34, <1>35, <1>36, <1>37,
     <1>38, <1>39, <1>40, <1>41, <1>42, <1>43, <1>44, <1>45, <1>46, <1>47
     DEF Next, HandlerStep, ClaimStep, TurnStep, AfterStep, TroubleStep, RequestStep, ReplyStep

-----------------------------------------------------------------------------
(* The inductive invariant. *)

\* The queued run satisfies the lease invariant.
LEMMA LeaseInit == Init => LeaseInv
BY AutomationRunAssumption
   DEF Init, LeaseInv, HolderRuns, Idle, NoLease, Unclaimed, InTurn, Limits, TroubleKinds, Spared

\* A claim keeps it: the lease is fresh and the run becomes running.
LEMMA ClaimKeepsLease ==
  ASSUME TypeOK, LeaseInv, NEW x \in Workers, Claim(x)
  PROVE  LeaseInv'
<1> USE DEF TypeOK
<1>1. /\ run'.status = "running" /\ run'.lease = lastLease + 1 /\ lastLease' = lastLease + 1
      /\ UNCHANGED <<trouble, request>>
  BY DEF Claim, RunRow
<1>2. /\ handler'[x].lease = lastLease + 1 /\ handler'[x].pc \in {"config", "reconfig"}
      /\ \A w \in Workers \ {x} : handler'[w] = handler[w]
  BY DEF Claim, HandlerRow
<1>3. /\ lastLease \in Nat
      /\ \A w \in Workers : handler[w].lease \in Nat /\ handler[w].lease <= lastLease
  BY DEF LeaseInv, HandlerRow
<1>4. \A w \in Workers :
        /\ handler'[w].lease <= lastLease'
        /\ handler'[w].pc \notin Unclaimed => handler'[w].lease # NoLease
        /\ \A v \in Workers \ {w} :
             handler'[w].lease # NoLease => handler'[v].lease # handler'[w].lease
  <2> SUFFICES ASSUME NEW w \in Workers
               PROVE  /\ handler'[w].lease <= lastLease'
                      /\ handler'[w].pc \notin Unclaimed => handler'[w].lease # NoLease
                      /\ \A v \in Workers \ {w} :
                           handler'[w].lease # NoLease => handler'[v].lease # handler'[w].lease
    OBVIOUS
  <2>1. CASE w = x
    BY <1>1, <1>2, <1>3, <2>1 DEF NoLease
  <2>2. CASE w # x
    <3>1. /\ handler'[w] = handler[w] /\ handler[w].lease # lastLease + 1
          /\ handler'[w].lease <= lastLease'
      BY <1>1, <1>2, <1>3, <2>2
    <3>2. ASSUME NEW v \in Workers \ {w}, handler[w].lease # NoLease
          PROVE  handler'[v].lease # handler[w].lease
      <4>1. CASE v = x
        BY <1>2, <3>1, <4>1
      <4>2. CASE v # x
        BY <1>2, <3>2, <4>2 DEF LeaseInv
      <4> QED
        BY <4>1, <4>2
    <3> QED
      BY <3>1, <3>2 DEF LeaseInv
  <2> QED
    BY <2>1, <2>2
<1>5. HolderRuns'
  BY <1>1 DEF HolderRuns
<1>6. Spared({"fault"})' => /\ \A w \in Workers : handler'[w].pc # "undo"
                            /\ \A r \in Requests : request'[r].pc # "undo"
  BY <1>1, <1>2 DEF LeaseInv, Spared
<1> QED
  BY <1>1, <1>3, <1>4, <1>5, <1>6 DEF LeaseInv, NoLease

\* So does every other move.
LEMMA MovesKeepLease ==
  ASSUME TypeOK, TypeOK', LeaseInv, Moves
  PROVE  LeaseInv'
<1> USE DEF TypeOK
<1>1. Spared({"fault"})' => Spared({"fault"}) /\ ~Faulted
  BY SpentStays, FaultSpends DEF Moves
<1>2. /\ run'.status = "pending" \/ run'.lease = NoLease => ~run'.live
      /\ run'.status = "pending" => run'.lease = NoLease
      /\ run'.lease <= lastLease'
  BY DEF Moves, RowMoves, Kept, Reopens, Releases, EndsHeld, Repairs, Ends, Reopened, LeaseInv,
         NoLease, Terminal, RunRow
<1>3. \A w \in Workers :
        /\ handler'[w].lease <= lastLease'
        /\ handler'[w].pc \notin Unclaimed => handler'[w].lease # NoLease
        /\ \A v \in Workers \ {w} :
             handler'[w].lease # NoLease => handler'[v].lease # handler'[w].lease
  BY DEF Moves, HandlersAdvance, Advance, LeaseInv, NoLease, HandlerRow
<1>4. trouble'["fault"] <= Budget["fault"]
  <2>1. trouble["fault"] \in Nat /\ trouble'["fault"] \in Nat /\ Budget["fault"] \in Nat
    BY FaultNumbers DEF TypeOK, Limits, TroubleKinds
  <2> QED
    BY <2>1 DEF Moves, BudgetShrinks, LeaseInv
<1>5. Spared({"fault"})' => /\ \A w \in Workers : handler'[w].pc # "undo"
                            /\ \A r \in Requests : request'[r].pc # "undo"
  BY <1>1 DEF Moves, HandlersAdvance, Advance, RequestsAdvance, LeaseInv
<1>6. HolderRuns'
  <2> SUFFICES ASSUME Spared({"fault"})', NEW w \in Workers, handler'[w].pc \in InTurn,
                      run'.lease = handler'[w].lease
               PROVE  run'.status = "running"
    BY DEF HolderRuns, Holds
  <2>1. /\ handler[w].pc \in InTurn /\ handler'[w].lease = handler[w].lease
        /\ handler[w].lease # NoLease
    BY DEF Moves, HandlersAdvance, Advance, Unclaimed, InTurn, LeaseInv
  <2>2. CASE Kept
    BY <1>1, <2>1, <2>2 DEF Kept, LeaseInv, HolderRuns, Holds
  <2>3. CASE Reopens \/ Releases
    BY <2>1, <2>3 DEF Reopens, Releases, Reopened
  <2>4. CASE EndsHeld
    BY <2>1, <2>4 DEF EndsHeld, Ends, Holds, LeaseInv
  <2>5. CASE Repairs
    BY <2>5 DEF Repairs
  <2> QED
    BY <2>2, <2>3, <2>4, <2>5 DEF Moves, RowMoves
<1> QED
  BY <1>2, <1>3, <1>4, <1>5, <1>6 DEF LeaseInv

\* So every step keeps the lease invariant.
LEMMA LeaseNext == TypeOK /\ TypeOK' /\ LeaseInv /\ [Next]_vars => LeaseInv'
BY ClaimKeepsLease, StepMoves, MovesKeepLease

\* Leases are unique, a pending run has none, and a handler whose lease the row
\* still names works on a running run.
THEOREM LeaseCorrect == Spec => []LeaseInv
BY TypeCorrect, LeaseInit, LeaseNext, PTL DEF Spec

\* Until a database or queue call fails, a handler whose turn is under way and
\* whose lease the row still names works on a running run.
THEOREM HolderRunsCorrect == Spec => []HolderRuns
<1>1. LeaseInv => HolderRuns
  BY DEF LeaseInv
<1> QED
  BY <1>1, LeaseCorrect, PTL

-----------------------------------------------------------------------------
(* What follows for the row. *)

EndedByHolder ==
  Spared({"fault"})' /\ run.status = "running" /\ run'.status \in Terminal
    => \E w \in Workers : /\ Holds(w)
                          /\ handler[w].pc \in InTurn
                          /\ handler'[w] # handler[w]

\* Until a call fails, a running run reaches a terminal status only by the step
\* of the worker that holds its lease.
THEOREM OnlyHolderEndsCorrect == Spec => OnlyHolderEnds
<1>1. ASSUME TypeOK, TypeOK', LeaseInv, [Next]_vars PROVE [EndedByHolder]_vars
  <2>1. ASSUME NEW x \in Workers, Claim(x) PROVE EndedByHolder
    BY <1>1, <2>1 DEF Claim, EndedByHolder, TypeOK, RunRow, Terminal
  <2>2. CASE \A w \in Workers : ~Claim(w)
    <3>1. Moves
      BY <1>1, <2>2, StepMoves
    <3> QED
      BY <3>1 DEF Moves, RowMoves, Kept, Reopens, Releases, EndsHeld, Repairs, Terminal,
         EndedByHolder
  <2> QED
    BY <2>1, <2>2
<1> QED
  BY <1>1, TypeCorrect, LeaseCorrect, PTL DEF Spec, OnlyHolderEnds, EndedByHolder

\* A claim takes the run in the abstract protocol.
LEMMA ClaimTakes ==
  ASSUME TypeOK, NEW x \in Workers, Claim(x)
  PROVE  Lease!Take
BY DEF Claim, Claimable, Lease!Take, TypeOK, RunRow

\* Every other move is an abstract action or a stutter.
LEMMA MovesImplement ==
  ASSUME TypeOK, TypeOK', LeaseInv, Moves
  PROVE  [Lease!LeaseNext]_(Lease!leaseVars)
<1> USE DEF TypeOK, RunRow, Lease!LeaseNext, Lease!leaseVars, Lease!Nobody, Lease!Ended, NoLease, Terminal
<1>1. CASE Kept
  <2>1. CASE run'.live = run.live
    BY <1>1, <2>1 DEF Kept, Moves
  <2>2. CASE run'.live /\ ~run.live
    BY <1>1, <2>2 DEF Kept, Moves, Lease!Renew
  <2>3. CASE run.live /\ ~run'.live
    BY <1>1, <2>3 DEF Kept, Moves, Lease!Expire
  <2> QED
    BY <2>1, <2>2, <2>3
<1>2. CASE Reopens
  BY <1>2 DEF Moves, Reopens, Reopened, Lease!Reopen
<1>3. CASE Releases
  BY <1>3 DEF Moves, Releases, Lease!Release
<1>4. CASE EndsHeld /\ Spared({"fault"})
  BY <1>4 DEF Moves, EndsHeld, Ends, Holds, LeaseInv, HolderRuns, InTurn, Unclaimed, Lease!Finish
<1>5. CASE Ends /\ ~Spared({"fault"})'
  <2>1. Budget["fault"] > 0
    <3>1. trouble["fault"] \in Nat /\ trouble'["fault"] \in Nat /\ Budget["fault"] \in Nat
      BY FaultNumbers DEF TypeOK, Limits, TroubleKinds
    <3>2. trouble'["fault"] # Budget["fault"]
      BY <1>5 DEF Spared
    <3> QED
      BY <3>1, <3>2 DEF Moves, BudgetShrinks, LeaseInv
  <2> QED
    BY <1>5, <2>1 DEF Moves, Ends, Lease!Repair
<1> QED
  BY <1>1, <1>2, <1>3, <1>4, <1>5, SpentStays DEF Moves, RowMoves, EndsHeld, Repairs

\* The row of an automation run keeps the promises of RunLease.
THEOREM LeaseImplemented == Spec => ImplementsRunLease
<1>1. Init => Lease!LeaseInit
  BY DEF Init, Lease!LeaseInit, Lease!Nobody, NoLease
<1>2. ASSUME TypeOK, TypeOK', LeaseInv, [Next]_vars PROVE [Lease!LeaseNext]_(Lease!leaseVars)
  BY <1>2, ClaimTakes, StepMoves, MovesImplement DEF Lease!LeaseNext
<1> QED
  BY <1>1, <1>2, TypeCorrect, LeaseCorrect, PTL DEF Spec, ImplementsRunLease, Lease!LeaseSpec
=============================================================================
