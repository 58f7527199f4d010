------------------------ MODULE AutomationRun_proofs ------------------------
(***************************************************************************)
(* Machine-checked proofs about AutomationRun, for every set of workers,   *)
(* replies and follow-ups and every budget of trouble.                     *)
(***************************************************************************)
EXTENDS AutomationRun, TLAPS

-----------------------------------------------------------------------------
(* Types of the helpers. *)

\* A handler that moves on keeps a well-formed row.
LEMMA GotoType ==
  ASSUME handler \in [Workers -> HandlerRow], NEW w \in Workers, NEW pc \in PC, Goto(w, pc)
  PROVE  handler' \in [Workers -> HandlerRow]
BY DEF Goto, HandlerRow

\* So does one that moves on with an outcome.
LEMMA EndType ==
  ASSUME handler \in [Workers -> HandlerRow], NEW w \in Workers, NEW pc \in PC,
         NEW end \in Outcome, End(w, pc, end)
  PROVE  handler' \in [Workers -> HandlerRow]
BY ZenonT(40) DEF End, HandlerRow

\* A free handler is well-formed.
LEMMA IdleType == Idle \in HandlerRow
BY AutomationRunAssumption DEF Idle, HandlerRow, PC, Outcome, NoLease, Unread

\* So is a reopened run.
LEMMA ReopenedType == Reopened \in RunRow
BY DEF Reopened, RunRow, Active, NoLease

\* A handler that completes its job is well-formed.
LEMMA CompleteType ==
  ASSUME handler \in [Workers -> HandlerRow], NEW w \in Workers, Complete(w)
  PROVE  handler' \in [Workers -> HandlerRow]
BY IdleType DEF Complete

\* A retry stays within the retry limit.
LEMMA RetryType ==
  ASSUME ready \in [0..RetryLimit -> Nat], handler \in [Workers -> HandlerRow],
         NEW w \in Workers, Retry(w)
  PROVE  ready' \in [0..RetryLimit -> Nat]
<1>1. handler[w].tries \in 0..RetryLimit /\ RetryLimit \in Nat
  BY AutomationRunAssumption DEF HandlerRow
<1>2. CASE handler[w].owned /\ handler[w].tries < RetryLimit
  <2>1. handler[w].tries + 1 \in 0..RetryLimit
    BY <1>1, <1>2
  <2>2. ready' = [ready EXCEPT ![handler[w].tries + 1] = @ + 1]
    BY <1>2 DEF Retry
  <2> QED
    BY <2>1, <2>2
<1>3. CASE ~(handler[w].owned /\ handler[w].tries < RetryLimit)
  BY <1>3 DEF Retry
<1> QED
  BY <1>2, <1>3

\* Sending a job adds one that was never retried.
LEMMA SendType ==
  ASSUME ready \in [0..RetryLimit -> Nat], Send
  PROVE  ready' \in [0..RetryLimit -> Nat]
BY AutomationRunAssumption DEF Send

\* Meeting trouble never overdraws the budget.
LEMMA MeetType ==
  ASSUME trouble \in [Limits -> Nat], NEW k \in TroubleKinds, Meet(k)
  PROVE  trouble' \in [Limits -> Nat]
BY DEF Meet, Limits, TroubleKinds

\* A lease-guarded status write keeps the row well-formed.
LEMMA SetStatusType ==
  ASSUME run \in RunRow, NEW w, NEW s \in Terminal, SetStatusWithLease(w, s)
  PROVE  run' \in RunRow
BY DEF SetStatusWithLease, RunRow

\* A request that moves on is well-formed.
LEMMA StepType ==
  ASSUME request \in [Requests -> RequestRow], NEW r \in Requests,
         NEW pc \in {"new", "inserted", "stored", "sending", "undo", "done", "error"},
         Step(r, pc)
  PROVE  request' \in [Requests -> RequestRow]
BY DEF Step, RequestRow

-----------------------------------------------------------------------------
(* Type correctness. *)

\* The initial state is well-typed.
LEMMA TypeInit == Init => TypeOK
<1> SUFFICES ASSUME Init PROVE TypeOK
  OBVIOUS
<1>1. run \in RunRow
  BY DEF Init, RunRow, Active, NoLease
<1>2. ready \in [0..RetryLimit -> Nat] /\ trouble \in [Limits -> Nat]
  BY AutomationRunAssumption DEF Init
<1>3. handler \in [Workers -> HandlerRow]
  BY IdleType DEF Init
<1>4. request \in [Requests -> RequestRow]
  BY DEF Init, RequestRow
<1> QED
  BY <1>1, <1>2, <1>3, <1>4 DEF Init, TypeOK

\* Every step keeps the types.
LEMMA TypeNext == TypeOK /\ [Next]_vars => TypeOK'
<1> SUFFICES ASSUME TypeOK, [Next]_vars PROVE TypeOK'
  OBVIOUS
<1> USE DEF TypeOK
<1>1. ASSUME NEW x \in Workers, Fetch(x) PROVE TypeOK'
  <2> PICK k \in 0..RetryLimit :
        /\ ready' = [ready EXCEPT ![k] = @ - 1]
        /\ ready[k] > 0
        /\ handler' = [handler EXCEPT
             ![x] = [Idle EXCEPT !.pc = "claim", !.tries = k, !.owned = TRUE]]
    BY <1>1 DEF Fetch
  <2>1. ready' \in [0..RetryLimit -> Nat]
    BY AutomationRunAssumption
  <2>2. [Idle EXCEPT !.pc = "claim", !.tries = k, !.owned = TRUE] \in HandlerRow
    BY IdleType DEF HandlerRow, PC
  <2>3. handler' \in [Workers -> HandlerRow]
    BY <2>2
  <2> QED
    BY <1>1, <2>1, <2>3 DEF Fetch, row, events, history
<1>2. ASSUME NEW x \in Workers, Claim(x) PROVE TypeOK'
  <2>1. handler' \in [Workers -> HandlerRow]
    <3> DEFINE pc == IF handler[x].pc = "claim" THEN "config" ELSE "reconfig"
    <3>1. pc \in PC /\ lastLease + 1 \in Nat
      BY DEF PC
    <3> HIDE DEF pc
    <3>2. handler' = [handler EXCEPT ![x].lease = lastLease + 1, ![x].pc = pc]
      BY <1>2 DEF Claim, pc
    <3> QED
      BY ZenonT(40), <3>1, <3>2 DEF HandlerRow
  <2>2. run' \in RunRow
    <3>1. lastLease + 1 \in Nat /\ "running" \in Active
      BY DEF Active
    <3> QED
      BY <1>2, <3>1 DEF Claim, RunRow
  <2> QED
    BY <1>2, <2>1, <2>2 DEF Claim, events, history
<1>3. ASSUME NEW x \in Workers, ClaimNothing(x) PROVE TypeOK'
  BY <1>3, GotoType DEF ClaimNothing, row, events, history, PC
<1>4. ASSUME NEW x \in Workers, ReclaimNothing(x) PROVE TypeOK'
  BY <1>4, CompleteType DEF ReclaimNothing, row, events, history
<1>5. ASSUME NEW x \in Workers, LoadConfiguration(x) PROVE TypeOK'
  BY <1>5, GotoType DEF LoadConfiguration, row, events, history, PC
<1>6. ASSUME NEW x \in Workers, ConfigurationUnavailable(x) PROVE TypeOK'
  <2>1. run' \in RunRow
    BY <1>6, SetStatusType DEF ConfigurationUnavailable, Terminal
  <2>2. handler' \in [Workers -> HandlerRow]
    <3>1. [handler[x] EXCEPT !.pc = "look", !.lease = NoLease] \in HandlerRow
      BY ZenonT(40) DEF HandlerRow, PC, NoLease
    <3> QED
      BY <1>6, <3>1, IdleType DEF ConfigurationUnavailable
  <2> QED
    BY <1>6, <2>1, <2>2 DEF ConfigurationUnavailable, events, history
<1>7. ASSUME NEW x \in Workers, LookAtLease(x) PROVE TypeOK'
  BY <1>7, GotoType DEF LookAtLease, row, events, history, PC
<1>8. ASSUME NEW x \in Workers, Wake(x) PROVE TypeOK'
  BY <1>8, GotoType DEF Wake, row, events, history, PC
<1>9. ASSUME NEW x \in Workers, StartTurn(x) PROVE TypeOK'
  BY <1>9, GotoType DEF StartTurn, events, history, PC, RunRow, Active, Terminal, NoLease
<1>10. ASSUME NEW x \in Workers, LoseLease(x) PROVE TypeOK'
  BY <1>10, EndType DEF LoseLease, row, events, history, PC, Outcome
<1>11. ASSUME NEW x \in Workers, ReadConversation(x) PROVE TypeOK'
  <2>1. handler' \in [Workers -> HandlerRow]
    <3>1. "grant" \in PC /\ newest \in Nat \cup {Unread}
      BY DEF PC
    <3>2. PICK first \in BOOLEAN :
            handler' = [handler EXCEPT ![x].pc = "grant", ![x].thru = newest, ![x].first = first]
      BY <1>11, Zenon DEF ReadConversation
    <3>3. [handler[x] EXCEPT !.pc = "grant", !.thru = newest, !.first = first] \in HandlerRow
      BY <3>1 DEF HandlerRow
    <3> QED
      BY <3>2, <3>3
  <2> QED
    BY <1>11, <2>1 DEF ReadConversation, row, events
<1>12. ASSUME NEW x \in Workers, CreateGrant(x) PROVE TypeOK'
  <2>1. handler' \in [Workers -> HandlerRow]
    BY <1>12, GotoType DEF CreateGrant, PC
  <2>2. grants' \in SUBSET Nat
    BY <1>12 DEF CreateGrant, HandlerRow
  <2> QED
    BY <1>12, <2>1, <2>2 DEF CreateGrant, events, history
<1>13. ASSUME NEW x \in Workers, HarnessSucceeds(x) PROVE TypeOK'
  BY <1>13, GotoType DEF HarnessSucceeds, row, history, PC, NextEventId
<1>14. ASSUME NEW x \in Workers, TurnFails(x) PROVE TypeOK'
  BY <1>14, GotoType DEF TurnFails, row, events, history, PC
<1>15. ASSUME NEW x \in Workers, PollCancellation(x) PROVE TypeOK'
  BY <1>15, EndType DEF PollCancellation, row, events, history, PC, Outcome
<1>16. ASSUME NEW x \in Workers, CheckCancellation(x) PROVE TypeOK'
  BY <1>16, GotoType, EndType DEF CheckCancellation, row, events, history, PC, Outcome
<1>17. ASSUME NEW x \in Workers, Succeed(x) PROVE TypeOK'
  BY <1>17, EndType, SetStatusType DEF Succeed, events, history, PC, Outcome, Terminal
<1>18. ASSUME NEW x \in Workers, CancelTurn(x) PROVE TypeOK'
  BY <1>18, EndType, SetStatusType DEF CancelTurn, events, history, PC, Outcome, Terminal
<1>19. ASSUME NEW x \in Workers, FailTurn(x) PROVE TypeOK'
  BY <1>19, EndType, SetStatusType DEF FailTurn, events, history, PC, Outcome, Terminal
<1>20. ASSUME NEW x \in Workers, RecordEnd(x) PROVE TypeOK'
  BY <1>20, GotoType, MeetType DEF RecordEnd, row, history, PC, TroubleKinds
<1>21. ASSUME NEW x \in Workers, Cleanup(x) PROVE TypeOK'
  BY <1>21, EndType, CompleteType, RetryType, MeetType DEF Cleanup, events, history, PC,
       Outcome, TroubleKinds
<1>22. ASSUME NEW x \in Workers, Notify(x) PROVE TypeOK'
  BY <1>22, GotoType, CompleteType DEF Notify, row, events, PC
<1>23. ASSUME NEW x \in Workers, AnswerNewMessages(x) PROVE TypeOK'
  BY <1>23, GotoType, CompleteType DEF AnswerNewMessages, row, events, history, PC
<1>24. ASSUME NEW x \in Workers, ReopenAfterTurn(x) PROVE TypeOK'
  BY <1>24, GotoType DEF ReopenAfterTurn, events, history, PC, Reopened, RunRow, Active,
       Terminal, NoLease
<1>25. ASSUME NEW x \in Workers, LeaveToOthers(x) PROVE TypeOK'
  BY <1>25, CompleteType DEF LeaveToOthers, row, events, history
<1>26. ASSUME NEW x \in Workers, RequeueTurn(x) PROVE TypeOK'
  BY <1>26, GotoType, CompleteType, SendType, MeetType DEF RequeueTurn, row, events,
       history, PC, TroubleKinds
<1>27. ASSUME NEW x \in Workers, FailUnqueuedTurn(x) PROVE TypeOK'
  BY <1>27, CompleteType DEF FailUnqueuedTurn, events, history, RunRow, Active, Terminal,
       NoLease
<1>28. ASSUME NEW x \in Workers, ReleaseLease(x) PROVE TypeOK'
  BY <1>28, GotoType DEF ReleaseLease, events, history, PC, RunRow, Active, Terminal,
       NoLease
<1>29. ASSUME NEW x \in Workers, ReleaseNothing(x) PROVE TypeOK'
  BY <1>29, CompleteType, RetryType DEF ReleaseNothing, row, events, history
<1>30. ASSUME NEW x \in Workers, RequeueHandedBack(x) PROVE TypeOK'
  BY <1>30, CompleteType, SendType, RetryType, MeetType DEF RequeueHandedBack, row, events,
       history, TroubleKinds
<1>31. ASSUME NEW x \in Workers, Renew(x) PROVE TypeOK'
  BY <1>31 DEF Renew, events, history, RunRow, Active, Terminal, NoLease
<1>32. ASSUME NEW x \in Workers, TurnFailsUnread(x) PROVE TypeOK'
  BY <1>32, GotoType, MeetType DEF TurnFailsUnread, row, events, history, PC, TroubleKinds
<1>33. ASSUME NEW x \in Workers, HandBack(x) PROVE TypeOK'
  BY <1>33, GotoType, EndType, MeetType DEF HandBack, row, events, history, PC, Outcome,
       TroubleKinds
<1>34. ASSUME NEW x \in Workers, StatusWriteThrows(x) PROVE TypeOK'
  BY <1>34, GotoType, EndType, MeetType, SetStatusType DEF StatusWriteThrows, events,
       history, PC, Outcome, TroubleKinds, Terminal
<1>35. ASSUME NEW x \in Workers, Crash(x) PROVE TypeOK'
  BY <1>35, CompleteType, RetryType, MeetType DEF Crash, row, events, history, TroubleKinds
<1>36. ASSUME NEW x \in Workers, LoseTouch(x) PROVE TypeOK'
  BY ZenonT(40), <1>36, RetryType, MeetType, IdleType DEF LoseTouch, row, events, history, TroubleKinds,
       HandlerRow, PC, Unread, NoLease
<1>37. ASSUME NEW x \in Deliveries, AddReply(x) PROVE TypeOK'
  <2>1. x \in Requests
    BY DEF Requests
  <2>2. CASE UNCHANGED lastEvent /\ Step(x, "done")
    BY <1>37, <2>1, <2>2, StepType DEF AddReply, row, history
  <2>3. CASE /\ NextEventId
             /\ request' = [request EXCEPT ![x] = [pc |-> "inserted", id |-> lastEvent + 1]]
    <3>1. lastEvent' \in Nat /\ [pc |-> "inserted", id |-> lastEvent + 1] \in RequestRow
      BY <2>3 DEF NextEventId, RequestRow
    <3>2. request' \in [Requests -> RequestRow]
      BY <2>3, <3>1
    <3> QED
      BY <1>37, <3>1, <3>2 DEF AddReply, row, history
  <2> QED
    BY <1>37, <2>2, <2>3 DEF AddReply
<1>38. ASSUME NEW x \in Deliveries, CommitReply(x) PROVE TypeOK'
  <2>1. x \in Requests
    BY DEF Requests
  <2>2. request[x].id \in Nat
    BY <2>1 DEF RequestRow
  <2>3. request' \in [Requests -> RequestRow]
    BY <1>38, <2>1, StepType DEF CommitReply
  <2>4. newest' \in Nat /\ messages' \in SUBSET Nat /\ overtaken' \in SUBSET Nat
    BY <1>38, <2>2 DEF CommitReply, Later
  <2> QED
    BY <1>38, <2>3, <2>4 DEF CommitReply, row, history
<1>39. ASSUME NEW x \in Deliveries, ReopenForReply(x) PROVE TypeOK'
  <2>1. x \in Requests
    BY DEF Requests
  <2>2. run' \in RunRow
    BY <1>39, ReopenedType DEF ReopenForReply
  <2>3. request' \in [Requests -> RequestRow]
    BY <1>39, <2>1, StepType DEF ReopenForReply
  <2> QED
    BY <1>39, <2>2, <2>3 DEF ReopenForReply, events, history
<1>40. ASSUME NEW x \in FollowUps, FollowUp(x) PROVE TypeOK'
  <2>1. x \in Requests
    BY DEF Requests
  <2>2. CASE ~(Reopenable /\ ~LeaseReferenced)
    <3>1. request' \in [Requests -> RequestRow]
      BY <1>40, <2>1, <2>2, StepType DEF FollowUp
    <3> QED
      BY <1>40, <2>2, <3>1 DEF FollowUp, history
  <2>3. CASE Reopenable /\ ~LeaseReferenced
    <3>1. run' \in RunRow
      BY <1>40, <2>3, ReopenedType DEF FollowUp
    <3>2. lastEvent + 1 \in Nat /\ [pc |-> "sending", id |-> lastEvent + 1] \in RequestRow
      BY DEF RequestRow
    <3>4. lastEvent' \in Nat /\ newest' \in Nat /\ messages' \in SUBSET Nat
      BY ZenonT(40), <1>40, <2>3, <3>2 DEF FollowUp, NextEventId
    <3>3. request' \in [Requests -> RequestRow]
      BY <1>40, <2>3, <3>2 DEF FollowUp
    <3> QED
      BY <1>40, <3>1, <3>3, <3>4 DEF FollowUp, history
  <2> QED
    BY <2>2, <2>3
<1>41. ASSUME NEW x \in Requests, SendJob(x) PROVE TypeOK'
  BY <1>41, SendType, MeetType, StepType DEF SendJob, row, events, history, TroubleKinds
<1>42. ASSUME NEW x \in Requests, FailUnqueuedRequest(x) PROVE TypeOK'
  BY <1>42, StepType DEF FailUnqueuedRequest, events, history, RunRow, Active, Terminal,
       NoLease
<1>43. ASSUME NEW x \in Requests, DropRequest(x) PROVE TypeOK'
  BY <1>43, MeetType, StepType DEF DropRequest, row, events, history, TroubleKinds
<1>44. CASE LeaseExpires
  BY <1>44 DEF LeaseExpires, RunRow, events, history
<1>45. CASE RequestCancellation
  BY <1>45, MeetType DEF RequestCancellation, RunRow, TroubleKinds, events, history
<1>46. CASE ToggleAutomation
  BY <1>46, MeetType DEF ToggleAutomation, TroubleKinds, events, history
<1>47. CASE Rest
  BY <1>47 DEF Rest, vars
<1>48. CASE UNCHANGED vars
  BY <1>48 DEF vars
<1> QED
  BY <1>1, <1>2, <1>3, <1>4, <1>5, <1>6, <1>7, <1>8, <1>9, <1>10, <1>11, <1>12, <1>13,
     <1>14, <1>15, <1>16, <1>17, <1>18, <1>19, <1>20, <1>21, <1>22, <1>23, <1>24, <1>25,
     <1>26, <1>27, <1>28, <1>29, <1>30, <1>31, <1>32, <1>33, <1>34, <1>35, <1>36, <1>37,
     <1>38, <1>39, <1>40, <1>41, <1>42, <1>43, <1>44, <1>45, <1>46, <1>47, <1>48
     DEF Next, HandlerStep, ClaimStep, TurnStep, AfterStep, TroubleStep, RequestStep, ReplyStep

\* Every state of the run is well-typed.
THEOREM TypeCorrect == Spec => []TypeOK
BY TypeInit, TypeNext, PTL DEF Spec
=============================================================================
