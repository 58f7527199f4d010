--------------------- MODULE AutomationRunEvents_proofs ---------------------
(***************************************************************************)
(* What a run keeps for others, proved for every set of workers, replies   *)
(* and follow-ups and every budget of trouble: its events hold a reply     *)
(* once, its model broker grants go with their turns, somebody carries it  *)
(* on until it ends (Fresh, Tried, Parted, Manned), and a reply to it gets *)
(* into the prompt of a turn (ReadIt, Ended, Expected).                    *)
(***************************************************************************)
EXTENDS AutomationRunLease_proofs

-----------------------------------------------------------------------------
(* Replies. *)

\* Ids are given out once, and one reply at a time is inserted: one that no
\* other delivery has stored.
Stored ==
  /\ \A m \in messages : m # 0 /\ m <= lastEvent
  /\ \A r \in Requests : request[r].id <= lastEvent
  /\ \A r \in Requests : request[r].pc = "inserted" => request[r].id # 0
  /\ \A r, s \in Requests : request[r].id = request[s].id => r = s \/ request[r].id = 0
  /\ \A r, s \in Requests : request[r].pc = "inserted" /\ request[s].pc = "inserted" => r = s
  /\ \A d, e \in Deliveries :
       d[1] = e[1] /\ request[d].pc = "inserted" => request[e].id \notin messages
  /\ ReplyStoredOnce

\* Nothing is stored before the first reply.
LEMMA StoredInit == Init => Stored
BY DEF Init, Stored, ReplyStoredOnce, Requests

\* A step that only takes an id from the sequence stores nothing.
LEMMA StoredFrame ==
  ASSUME TypeOK, Stored, UNCHANGED <<messages, request>>, lastEvent' \in {lastEvent, lastEvent + 1}
  PROVE  Stored'
<1>1. /\ \A m \in messages : m # 0 /\ m <= lastEvent'
      /\ \A r \in Requests : request[r].id <= lastEvent'
  BY DEF TypeOK, Stored, RequestRow
<1> QED
  BY <1>1 DEF Stored, ReplyStoredOnce

\* A request that goes on without an insert stores nothing.
LEMMA StoredStep ==
  ASSUME TypeOK, Stored, NEW x \in Requests, NEW pc, pc # "inserted", Step(x, pc),
         UNCHANGED <<messages, lastEvent>>
  PROVE  Stored'
<1>1. \A r \in Requests : /\ request'[r].id = request[r].id
                          /\ request'[r].pc = "inserted" => request[r].pc = "inserted"
  BY DEF TypeOK, Step, RequestRow
<1>2. messages' = messages /\ lastEvent' = lastEvent
  OBVIOUS
<1>3. Deliveries \subseteq Requests
  BY DEF Requests
<1> QED
  BY <1>1, <1>2, <1>3 DEF Stored, ReplyStoredOnce

\* A reply is inserted when no delivery of it is stored and no insert is open.
LEMMA StoredAdd ==
  ASSUME TypeOK, Stored, NEW d \in Deliveries, AddReply(d)
  PROVE  Stored'
<1>0. d \in Requests
  BY DEF Requests
<1>1. CASE Step(d, "done") /\ UNCHANGED lastEvent
  BY <1>0, <1>1, StoredStep DEF AddReply
<1>2. CASE /\ request' = [request EXCEPT ![d] = [pc |-> "inserted", id |-> lastEvent + 1]]
           /\ lastEvent' = lastEvent + 1
           /\ \A e \in Deliveries : e[1] = d[1] => request[e].id \notin messages
  <2>1. /\ request'[d] = [pc |-> "inserted", id |-> lastEvent + 1]
        /\ \A r \in Requests \ {d} : request'[r] = request[r]
        /\ \A r \in Requests : request[r].pc # "inserted"
        /\ messages' = messages
    BY <1>0, <1>2 DEF AddReply, TypeOK, NoInsertOpen
  <2>2. lastEvent \in Nat /\ \A r \in Requests : request[r].id \in Nat
    BY DEF TypeOK, RequestRow
  <2>3. lastEvent + 1 \notin messages /\ \A r \in Requests : request[r].id # lastEvent + 1
    BY <2>2 DEF Stored
  <2>4. /\ \A m \in messages' : m # 0 /\ m <= lastEvent'
        /\ \A r \in Requests : request'[r].id <= lastEvent'
        /\ \A r \in Requests : request'[r].pc = "inserted" => request'[r].id # 0
    BY <1>2, <2>1, <2>2 DEF Stored, TypeOK
  <2>5. /\ \A r, s \in Requests : request'[r].id = request'[s].id => r = s \/ request'[r].id = 0
        /\ \A r, s \in Requests : request'[r].pc = "inserted" /\ request'[s].pc = "inserted" => r = s
    BY <2>1, <2>3 DEF Stored
  <2>6. \A c, e \in Deliveries :
          c[1] = e[1] /\ request'[c].pc = "inserted" => request'[e].id \notin messages'
    BY <1>2, <2>1, <2>3 DEF Requests
  <2>7. ReplyStoredOnce'
    BY <2>1, <2>3 DEF Stored, ReplyStoredOnce, Requests
  <2> QED
    BY <2>4, <2>5, <2>6, <2>7 DEF Stored
<1> QED
  BY <1>1, <1>2 DEF AddReply, NextEventId

\* The one reply that is inserted is stored.
LEMMA StoredCommit ==
  ASSUME TypeOK, Stored, NEW d \in Deliveries, CommitReply(d)
  PROVE  Stored'
<1>0. d \in Requests
  BY DEF Requests
<1>1. /\ \A r \in Requests : request'[r].id = request[r].id
      /\ \A r \in Requests : request'[r].pc # "inserted"
  BY <1>0 DEF TypeOK, Stored, CommitReply, Step, RequestRow
<1>2. messages' = messages \cup {request[d].id} /\ request[d].pc = "inserted" /\ lastEvent' = lastEvent
  BY DEF CommitReply
<1>3. \A m \in messages' : m # 0 /\ m <= lastEvent'
  BY <1>0, <1>2 DEF Stored
<1>4. ReplyStoredOnce'
  BY <1>0, <1>1, <1>2 DEF Stored, ReplyStoredOnce, Requests
<1> QED
  BY <1>1, <1>2, <1>3, <1>4 DEF Stored, Requests

\* A follow-up stores its own message at once.
LEMMA StoredFollowUp ==
  ASSUME TypeOK, Stored, NEW f \in FollowUps, FollowUp(f)
  PROVE  Stored'
<1>0. f \in Requests /\ f \notin Deliveries
  BY AutomationRunAssumption DEF Requests, Deliveries
<1>1. CASE UNCHANGED <<lastEvent, messages>> /\ \E pc \in {"error", "done"} : Step(f, pc)
  <2> PICK pc \in {"error", "done"} : Step(f, pc)
    BY <1>1
  <2> QED
    BY <1>0, <1>1, StoredStep
<1>2. CASE /\ request' = [request EXCEPT ![f] = [pc |-> "sending", id |-> lastEvent + 1]]
           /\ lastEvent' = lastEvent + 1 /\ messages' = messages \cup {lastEvent + 1}
  <2>1. /\ request'[f] = [pc |-> "sending", id |-> lastEvent + 1]
        /\ \A r \in Requests \ {f} : request'[r] = request[r]
    BY <1>0, <1>2 DEF TypeOK
  <2>2. lastEvent \in Nat /\ \A r \in Requests : request[r].id \in Nat /\ request[r].id # lastEvent + 1
    BY DEF TypeOK, RequestRow, Stored
  <2>3. /\ \A m \in messages' : m # 0 /\ m <= lastEvent'
        /\ \A r \in Requests : request'[r].id <= lastEvent'
        /\ \A r \in Requests : request'[r].pc = "inserted" => request'[r].id # 0
    BY <1>2, <2>1, <2>2 DEF Stored, TypeOK
  <2>4. /\ \A r, s \in Requests : request'[r].id = request'[s].id => r = s \/ request'[r].id = 0
        /\ \A r, s \in Requests : request'[r].pc = "inserted" /\ request'[s].pc = "inserted" => r = s
    BY <2>1, <2>2 DEF Stored
  <2>5. \A d \in Deliveries : /\ request'[d] = request[d]
                              /\ request[d].id \in messages' => request[d].id \in messages
    BY <1>0, <1>2, <2>1, <2>2 DEF Requests
  <2>6. /\ \A d, e \in Deliveries :
             d[1] = e[1] /\ request'[d].pc = "inserted" => request'[e].id \notin messages'
        /\ ReplyStoredOnce'
    BY <2>5 DEF Stored, ReplyStoredOnce
  <2> QED
    BY <2>3, <2>4, <2>6 DEF Stored
<1> QED
  BY <1>1, <1>2 DEF FollowUp, NextEventId

\* Every step keeps what is stored.
LEMMA StoredNext == TypeOK /\ Stored /\ [Next]_vars => Stored'
<1> SUFFICES ASSUME TypeOK, Stored, [Next]_vars PROVE Stored'
  OBVIOUS
<1>1. ASSUME NEW x \in Workers, Fetch(x) \/ HandlerStep(x) \/ TroubleStep(x) PROVE Stored'
  <2>1. UNCHANGED <<messages, request>>
    BY <1>1 DEF HandlerStep, ClaimStep, TurnStep, AfterStep, TroubleStep, events,
       Fetch, Claim, ClaimNothing, ReclaimNothing, LoadConfiguration, ConfigurationUnavailable,
       LookAtLease, Wake, StartTurn, LoseLease, ReadConversation, CreateGrant,
       HarnessSucceeds, TurnFails, PollCancellation, CheckCancellation, Succeed, CancelTurn,
       FailTurn, RecordEnd, Cleanup, Notify, AnswerNewMessages, ReopenAfterTurn,
       LeaveToOthers, RequeueTurn, FailUnqueuedTurn, ReleaseLease, ReleaseNothing, RequeueHandedBack,
       Renew, TurnFailsUnread, HandBack, StatusWriteThrows, Crash, LoseTouch
  <2>2. lastEvent' \in {lastEvent, lastEvent + 1}
    BY <1>1 DEF HandlerStep, ClaimStep, TurnStep, AfterStep, TroubleStep, events, NextEventId,
       Fetch, Claim, ClaimNothing, ReclaimNothing, LoadConfiguration, ConfigurationUnavailable,
       LookAtLease, Wake, StartTurn, LoseLease, ReadConversation, CreateGrant,
       HarnessSucceeds, TurnFails, PollCancellation, CheckCancellation, Succeed, CancelTurn,
       FailTurn, RecordEnd, Cleanup, Notify, AnswerNewMessages, ReopenAfterTurn,
       LeaveToOthers, RequeueTurn, FailUnqueuedTurn, ReleaseLease, ReleaseNothing, RequeueHandedBack,
       Renew, TurnFailsUnread, HandBack, StatusWriteThrows, Crash, LoseTouch
  <2> QED
    BY <2>1, <2>2, StoredFrame
<1>2. ASSUME NEW d \in Deliveries, ReopenForReply(d) PROVE Stored'
  BY <1>2, StoredStep DEF ReopenForReply, events, Requests
<1>3. ASSUME NEW r \in Requests, SendJob(r) \/ FailUnqueuedRequest(r) \/ DropRequest(r) PROVE Stored'
  BY <1>3, StoredStep DEF SendJob, FailUnqueuedRequest, DropRequest, events
<1>4. CASE LeaseExpires \/ RequestCancellation \/ ToggleAutomation \/ Rest \/ UNCHANGED vars
  BY <1>4, StoredFrame DEF LeaseExpires, RequestCancellation, ToggleAutomation, Rest, vars, events
<1> QED
  BY <1>1, <1>2, <1>3, <1>4, StoredAdd, StoredCommit, StoredFollowUp
     DEF Next, RequestStep, ReplyStep

\* However often Slack delivers a reply, and whatever fails, its run stores it
\* once.
THEOREM ReplyStoredOnceCorrect == Spec => []ReplyStoredOnce
<1>1. Stored => ReplyStoredOnce
  BY DEF Stored
<1> QED
  BY <1>1, StoredInit, StoredNext, TypeCorrect, PTL DEF Spec

-----------------------------------------------------------------------------
(* Model broker grants. *)

\* A turn holds its grant in these steps, up to the clean-up that revokes it.
Granted == {"harness", "check", "succeed", "cancel", "fail", "record", "cleanup"}

\* As long as no worker died and no call failed, a grant belongs to a turn.
Held ==
  /\ \A k \in TroubleKinds : trouble[k] <= Budget[k]
  /\ Spared({"crash", "fault"}) =>
       \A g \in grants : \E w \in Workers : handler[w].lease = g /\ handler[w].pc \in Granted

\* A step of worker x leaves the other handlers alone, keeps the grant of x in
\* its turn or takes it away, and adds none but that of x.
Tends(x) ==
  /\ \A w \in Workers \ {x} : handler'[w] = handler[w]
  /\ \A g \in grants' :
       \/ g \in grants /\ (g # handler[x].lease \/ handler[x].pc \notin Granted)
       \/ handler'[x].lease = g /\ handler'[x].pc \in Granted

\* There are no grants before the first turn.
LEMMA HeldInit == Init => Held
BY AutomationRunAssumption DEF Init, Held, Limits

\* What is spent of the budget stays spent.
LEMMA BudgetKept ==
  ASSUME TypeOK, Held, UNCHANGED trouble \/ \E k \in TroubleKinds : Meet(k)
  PROVE  /\ \A k \in TroubleKinds : trouble'[k] <= Budget[k]
         /\ \A k \in TroubleKinds : trouble'[k] <= trouble[k]
         /\ Spared({"crash", "fault"})' => Spared({"crash", "fault"})
<1>1. \A k \in TroubleKinds : trouble[k] \in Nat /\ Budget[k] \in Nat /\ trouble[k] <= Budget[k]
  BY AutomationRunAssumption DEF TypeOK, Held, Limits
<1>2. \A k \in TroubleKinds : trouble'[k] \in Int /\ trouble'[k] <= trouble[k]
  <2>1. CASE UNCHANGED trouble
    BY <1>1, <2>1
  <2>2. ASSUME NEW k \in TroubleKinds, Meet(k)
        PROVE  \A l \in TroubleKinds : trouble'[l] \in Int /\ trouble'[l] <= trouble[l]
    <3>1. \A l \in TroubleKinds : l \in Limits /\ l # "any"
      BY DEF Limits, TroubleKinds
    <3> QED
      BY <1>1, <2>2, <3>1 DEF Meet, TypeOK
  <2> QED
    BY <2>1, <2>2
<1>3. "crash" \in TroubleKinds /\ "fault" \in TroubleKinds
  BY DEF TroubleKinds
<1> QED
  BY <1>1, <1>2, <1>3 DEF Spared

\* A worker that dies or a call that fails is not spared.
LEMMA Spent ==
  ASSUME TypeOK, Held, NEW k \in {"crash", "fault"}, Meet(k)
  PROVE  ~Spared({"crash", "fault"})'
<1>1. trouble[k] \in Nat /\ Budget[k] \in Nat /\ trouble[k] <= Budget[k] /\ k \in TroubleKinds
  BY AutomationRunAssumption DEF TypeOK, Held, Limits, TroubleKinds
<1>2. trouble'[k] = trouble[k] - 1
  BY <1>1 DEF Meet, TypeOK, Limits, TroubleKinds
<1> QED
  BY <1>1, <1>2 DEF Spared

\* A worker's step keeps grants with their turns.
LEMMA HeldTends ==
  ASSUME TypeOK, Held, NEW x \in Workers, UNCHANGED trouble \/ \E k \in TroubleKinds : Meet(k),
         Spared({"crash", "fault"})' => Tends(x)
  PROVE  Held'
<1>1. ASSUME Spared({"crash", "fault"})', NEW g \in grants'
      PROVE  \E w \in Workers : handler'[w].lease = g /\ handler'[w].pc \in Granted
  <2>1. Spared({"crash", "fault"}) /\ Tends(x)
    BY <1>1, BudgetKept
  <2>2. CASE handler'[x].lease = g /\ handler'[x].pc \in Granted
    BY <2>2
  <2>3. CASE g \in grants /\ (g # handler[x].lease \/ handler[x].pc \notin Granted)
    <3>1. PICK w \in Workers : handler[w].lease = g /\ handler[w].pc \in Granted
      BY <2>1, <2>3 DEF Held
    <3> QED
      BY <2>1, <2>3, <3>1 DEF Tends
  <2> QED
    BY <1>1, <2>1, <2>2, <2>3 DEF Tends
<1> QED
  BY <1>1, BudgetKept DEF Held, Spared

\* Going on within a turn, or outside of it, keeps the grant.
LEMMA GotoTends ==
  ASSUME TypeOK, NEW x \in Workers, NEW pc, Goto(x, pc) \/ \E end : End(x, pc, end),
         handler[x].pc \in Granted => pc \in Granted, grants' \subseteq grants
  PROVE  Tends(x)
<1>1. /\ \A w \in Workers \ {x} : handler'[w] = handler[w]
      /\ handler'[x].pc = pc /\ handler'[x].lease = handler[x].lease
  BY DEF TypeOK, HandlerRow, Goto, End
<1> QED
  BY <1>1 DEF Tends

\* A handler outside of its turn may end.
LEMMA CompleteTends ==
  ASSUME TypeOK, NEW x \in Workers, Complete(x), handler[x].pc \notin Granted, grants' \subseteq grants
  PROVE  Tends(x)
BY DEF TypeOK, Complete, Tends

\* A step of no worker keeps grants with their turns.
LEMMA HeldFrame ==
  ASSUME TypeOK, Held, UNCHANGED <<handler, grants>>,
         UNCHANGED trouble \/ \E k \in TroubleKinds : Meet(k)
  PROVE  Held'
BY BudgetKept DEF Held, Spared

\* Every step keeps grants with their turns.
LEMMA HeldNext == TypeOK /\ Held /\ [Next]_vars => Held'
<1> SUFFICES ASSUME TypeOK, Held, [Next]_vars PROVE Held'
  OBVIOUS
<1> USE DEF Granted
<1>1. ASSUME NEW x \in Workers, Fetch(x) PROVE Held'
  <2>1. UNCHANGED trouble \/ \E k \in TroubleKinds : Meet(k)
    BY <1>1 DEF Fetch, TroubleKinds
  <2>2. Tends(x)
    BY <1>1 DEF Fetch, row, Tends, TypeOK, HandlerRow, Idle
  <2> QED
    BY <2>1, <2>2, HeldTends
<1>2. ASSUME NEW x \in Workers, Claim(x) PROVE Held'
  <2>1. UNCHANGED trouble \/ \E k \in TroubleKinds : Meet(k)
    BY <1>2 DEF Claim, TroubleKinds
  <2>2. Tends(x)
    BY <1>2 DEF Claim, row, Tends, TypeOK, HandlerRow, Idle
  <2> QED
    BY <2>1, <2>2, HeldTends
<1>3. ASSUME NEW x \in Workers, ClaimNothing(x) PROVE Held'
  <2>1. UNCHANGED trouble \/ \E k \in TroubleKinds : Meet(k)
    BY <1>3 DEF ClaimNothing, TroubleKinds
  <2>2. Tends(x)
    BY <1>3, GotoTends DEF ClaimNothing, row, Abortable
  <2> QED
    BY <2>1, <2>2, HeldTends
<1>4. ASSUME NEW x \in Workers, ReclaimNothing(x) PROVE Held'
  <2>1. UNCHANGED trouble \/ \E k \in TroubleKinds : Meet(k)
    BY <1>4 DEF ReclaimNothing, TroubleKinds
  <2>2. Tends(x)
    BY <1>4, CompleteTends DEF ReclaimNothing, row, Abortable
  <2> QED
    BY <2>1, <2>2, HeldTends
<1>5. ASSUME NEW x \in Workers, LoadConfiguration(x) PROVE Held'
  <2>1. UNCHANGED trouble \/ \E k \in TroubleKinds : Meet(k)
    BY <1>5 DEF LoadConfiguration, TroubleKinds
  <2>2. Tends(x)
    BY <1>5, GotoTends DEF LoadConfiguration, row, Abortable
  <2> QED
    BY <2>1, <2>2, HeldTends
<1>6. ASSUME NEW x \in Workers, ConfigurationUnavailable(x) PROVE Held'
  <2>1. UNCHANGED trouble \/ \E k \in TroubleKinds : Meet(k)
    BY <1>6 DEF ConfigurationUnavailable, TroubleKinds
  <2>2. Tends(x)
    BY <1>6 DEF ConfigurationUnavailable, row, Tends, TypeOK, HandlerRow, Idle
  <2> QED
    BY <2>1, <2>2, HeldTends
<1>7. ASSUME NEW x \in Workers, LookAtLease(x) PROVE Held'
  <2>1. UNCHANGED trouble \/ \E k \in TroubleKinds : Meet(k)
    BY <1>7 DEF LookAtLease, TroubleKinds
  <2>2. Tends(x)
    BY <1>7, GotoTends DEF LookAtLease, row, Abortable
  <2> QED
    BY <2>1, <2>2, HeldTends
<1>8. ASSUME NEW x \in Workers, Wake(x) PROVE Held'
  <2>1. UNCHANGED trouble \/ \E k \in TroubleKinds : Meet(k)
    BY <1>8 DEF Wake, TroubleKinds
  <2>2. Tends(x)
    BY <1>8, GotoTends DEF Wake, row, Abortable
  <2> QED
    BY <2>1, <2>2, HeldTends
<1>9. ASSUME NEW x \in Workers, StartTurn(x) PROVE Held'
  <2>1. UNCHANGED trouble \/ \E k \in TroubleKinds : Meet(k)
    BY <1>9 DEF StartTurn, TroubleKinds
  <2>2. Tends(x)
    BY <1>9, GotoTends DEF StartTurn, row, Abortable
  <2> QED
    BY <2>1, <2>2, HeldTends
<1>10. ASSUME NEW x \in Workers, LoseLease(x) PROVE Held'
  <2>1. UNCHANGED trouble \/ \E k \in TroubleKinds : Meet(k)
    BY <1>10 DEF LoseLease, TroubleKinds
  <2>2. Tends(x)
    BY <1>10, GotoTends DEF LoseLease, row, Abortable
  <2> QED
    BY <2>1, <2>2, HeldTends
<1>11. ASSUME NEW x \in Workers, ReadConversation(x) PROVE Held'
  <2>1. UNCHANGED trouble \/ \E k \in TroubleKinds : Meet(k)
    BY <1>11 DEF ReadConversation, TroubleKinds
  <2>2. Tends(x)
    BY <1>11 DEF ReadConversation, row, Tends, TypeOK, HandlerRow, Idle
  <2> QED
    BY <2>1, <2>2, HeldTends
<1>12. ASSUME NEW x \in Workers, CreateGrant(x) PROVE Held'
  <2>1. UNCHANGED trouble \/ \E k \in TroubleKinds : Meet(k)
    BY <1>12 DEF CreateGrant, TroubleKinds
  <2>2. Tends(x)
    <3>1. CASE Holds(x)
      <4>1. handler' = [handler EXCEPT ![x].pc = "harness"] /\ grants' = grants \cup {handler[x].lease}
        BY <1>12, <3>1 DEF CreateGrant, Goto
      <4> QED
        BY <4>1 DEF Tends, TypeOK, HandlerRow
    <3>2. CASE ~Holds(x)
      <4>1. Goto(x, "fail") /\ grants' = grants
        BY <1>12, <3>2 DEF CreateGrant
      <4> QED
        BY <4>1, GotoTends
    <3> QED
      BY <3>1, <3>2
  <2> QED
    BY <2>1, <2>2, HeldTends
<1>13. ASSUME NEW x \in Workers, HarnessSucceeds(x) PROVE Held'
  <2>1. UNCHANGED trouble \/ \E k \in TroubleKinds : Meet(k)
    BY <1>13 DEF HarnessSucceeds, TroubleKinds
  <2>2. Tends(x)
    BY <1>13, GotoTends DEF HarnessSucceeds, row, Abortable
  <2> QED
    BY <2>1, <2>2, HeldTends
<1>14. ASSUME NEW x \in Workers, TurnFails(x) PROVE Held'
  <2>1. UNCHANGED trouble \/ \E k \in TroubleKinds : Meet(k)
    BY <1>14 DEF TurnFails, TroubleKinds
  <2>2. Tends(x)
    BY <1>14, GotoTends DEF TurnFails, row, Abortable
  <2> QED
    BY <2>1, <2>2, HeldTends
<1>15. ASSUME NEW x \in Workers, PollCancellation(x) PROVE Held'
  <2>1. UNCHANGED trouble \/ \E k \in TroubleKinds : Meet(k)
    BY <1>15 DEF PollCancellation, TroubleKinds
  <2>2. Tends(x)
    BY <1>15, GotoTends DEF PollCancellation, row, Abortable
  <2> QED
    BY <2>1, <2>2, HeldTends
<1>16. ASSUME NEW x \in Workers, CheckCancellation(x) PROVE Held'
  <2>1. UNCHANGED trouble \/ \E k \in TroubleKinds : Meet(k)
    BY <1>16 DEF CheckCancellation, TroubleKinds
  <2>2. Tends(x)
    BY <1>16, GotoTends DEF CheckCancellation, row, Abortable
  <2> QED
    BY <2>1, <2>2, HeldTends
<1>17. ASSUME NEW x \in Workers, Succeed(x) PROVE Held'
  <2>1. UNCHANGED trouble \/ \E k \in TroubleKinds : Meet(k)
    BY <1>17 DEF Succeed, TroubleKinds
  <2>2. Tends(x)
    BY <1>17, GotoTends DEF Succeed, row, Abortable
  <2> QED
    BY <2>1, <2>2, HeldTends
<1>18. ASSUME NEW x \in Workers, CancelTurn(x) PROVE Held'
  <2>1. UNCHANGED trouble \/ \E k \in TroubleKinds : Meet(k)
    BY <1>18 DEF CancelTurn, TroubleKinds
  <2>2. Tends(x)
    BY <1>18, GotoTends DEF CancelTurn, row, Abortable
  <2> QED
    BY <2>1, <2>2, HeldTends
<1>19. ASSUME NEW x \in Workers, FailTurn(x) PROVE Held'
  <2>1. UNCHANGED trouble \/ \E k \in TroubleKinds : Meet(k)
    BY <1>19 DEF FailTurn, TroubleKinds
  <2>2. Tends(x)
    BY <1>19, GotoTends DEF FailTurn, row, Abortable
  <2> QED
    BY <2>1, <2>2, HeldTends
<1>20. ASSUME NEW x \in Workers, RecordEnd(x) PROVE Held'
  <2>1. UNCHANGED trouble \/ \E k \in TroubleKinds : Meet(k)
    BY <1>20 DEF RecordEnd, TroubleKinds
  <2>2. Tends(x)
    BY <1>20, GotoTends DEF RecordEnd, row, Abortable
  <2> QED
    BY <2>1, <2>2, HeldTends
<1>21. ASSUME NEW x \in Workers, Cleanup(x) PROVE Held'
  <2>1. UNCHANGED trouble \/ \E k \in TroubleKinds : Meet(k)
    BY <1>21 DEF Cleanup, TroubleKinds
  <2>2. ASSUME Spared({"crash", "fault"})' PROVE Tends(x)
    <3>1. grants' = grants \ {handler[x].lease}
      BY <1>21, <2>2, Spent DEF Cleanup
    <3>2. \A w \in Workers \ {x} : handler'[w] = handler[w]
      BY <1>21 DEF Cleanup, End, Complete, TypeOK
    <3> QED
      BY <3>1, <3>2 DEF Tends
  <2> QED
    BY <2>1, <2>2, HeldTends
<1>22. ASSUME NEW x \in Workers, Notify(x) PROVE Held'
  <2>1. UNCHANGED trouble \/ \E k \in TroubleKinds : Meet(k)
    BY <1>22 DEF Notify, TroubleKinds
  <2>2. Tends(x)
    BY <1>22, GotoTends, CompleteTends DEF Notify, row, Abortable
  <2> QED
    BY <2>1, <2>2, HeldTends
<1>23. ASSUME NEW x \in Workers, AnswerNewMessages(x) PROVE Held'
  <2>1. UNCHANGED trouble \/ \E k \in TroubleKinds : Meet(k)
    BY <1>23 DEF AnswerNewMessages, TroubleKinds
  <2>2. Tends(x)
    BY <1>23, GotoTends, CompleteTends DEF AnswerNewMessages, row, Abortable
  <2> QED
    BY <2>1, <2>2, HeldTends
<1>24. ASSUME NEW x \in Workers, ReopenAfterTurn(x) PROVE Held'
  <2>1. UNCHANGED trouble \/ \E k \in TroubleKinds : Meet(k)
    BY <1>24 DEF ReopenAfterTurn, TroubleKinds
  <2>2. Tends(x)
    BY <1>24, GotoTends DEF ReopenAfterTurn, row, Abortable
  <2> QED
    BY <2>1, <2>2, HeldTends
<1>25. ASSUME NEW x \in Workers, LeaveToOthers(x) PROVE Held'
  <2>1. UNCHANGED trouble \/ \E k \in TroubleKinds : Meet(k)
    BY <1>25 DEF LeaveToOthers, TroubleKinds
  <2>2. Tends(x)
    BY <1>25, CompleteTends DEF LeaveToOthers, row, Abortable
  <2> QED
    BY <2>1, <2>2, HeldTends
<1>26. ASSUME NEW x \in Workers, RequeueTurn(x) PROVE Held'
  <2>1. UNCHANGED trouble \/ \E k \in TroubleKinds : Meet(k)
    BY <1>26 DEF RequeueTurn, TroubleKinds
  <2>2. Tends(x)
    BY <1>26, GotoTends, CompleteTends DEF RequeueTurn, row, Abortable
  <2> QED
    BY <2>1, <2>2, HeldTends
<1>27. ASSUME NEW x \in Workers, FailUnqueuedTurn(x) PROVE Held'
  <2>1. UNCHANGED trouble \/ \E k \in TroubleKinds : Meet(k)
    BY <1>27 DEF FailUnqueuedTurn, TroubleKinds
  <2>2. Tends(x)
    BY <1>27, CompleteTends DEF FailUnqueuedTurn, row, Abortable
  <2> QED
    BY <2>1, <2>2, HeldTends
<1>28. ASSUME NEW x \in Workers, ReleaseLease(x) PROVE Held'
  <2>1. UNCHANGED trouble \/ \E k \in TroubleKinds : Meet(k)
    BY <1>28 DEF ReleaseLease, TroubleKinds
  <2>2. Tends(x)
    BY <1>28, GotoTends DEF ReleaseLease, row, Abortable
  <2> QED
    BY <2>1, <2>2, HeldTends
<1>29. ASSUME NEW x \in Workers, ReleaseNothing(x) PROVE Held'
  <2>1. UNCHANGED trouble \/ \E k \in TroubleKinds : Meet(k)
    BY <1>29 DEF ReleaseNothing, TroubleKinds
  <2>2. Tends(x)
    BY <1>29, CompleteTends DEF ReleaseNothing, row, Abortable
  <2> QED
    BY <2>1, <2>2, HeldTends
<1>30. ASSUME NEW x \in Workers, RequeueHandedBack(x) PROVE Held'
  <2>1. UNCHANGED trouble \/ \E k \in TroubleKinds : Meet(k)
    BY <1>30 DEF RequeueHandedBack, TroubleKinds
  <2>2. Tends(x)
    BY <1>30, CompleteTends DEF RequeueHandedBack, row, Abortable
  <2> QED
    BY <2>1, <2>2, HeldTends
<1>31. ASSUME NEW x \in Workers, TurnFailsUnread(x) PROVE Held'
  <2>1. UNCHANGED trouble \/ \E k \in TroubleKinds : Meet(k)
    BY <1>31 DEF TurnFailsUnread, TroubleKinds
  <2>2. Tends(x)
    BY <1>31, GotoTends DEF TurnFailsUnread, row, Abortable
  <2> QED
    BY <2>1, <2>2, HeldTends
<1>32. ASSUME NEW x \in Workers, HandBack(x) PROVE Held'
  <2>1. UNCHANGED trouble \/ \E k \in TroubleKinds : Meet(k)
    BY <1>32 DEF HandBack, TroubleKinds
  <2>2. Tends(x)
    BY <1>32, GotoTends DEF HandBack, row, Abortable
  <2> QED
    BY <2>1, <2>2, HeldTends
<1>33. ASSUME NEW x \in Workers, StatusWriteThrows(x) \/ Crash(x) PROVE Held'
  <2>1. \E k \in {"crash", "fault"} : Meet(k)
    BY <1>33 DEF StatusWriteThrows, Crash
  <2>2. ~Spared({"crash", "fault"})'
    BY <2>1, Spent
  <2> QED
    BY <2>1, <2>2, BudgetKept DEF Held, TroubleKinds, Spared
<1>34. ASSUME NEW x \in Workers, LoseTouch(x) PROVE Held'
  <2>1. UNCHANGED trouble \/ \E k \in TroubleKinds : Meet(k)
    BY <1>34 DEF LoseTouch, TroubleKinds
  <2>2. Tends(x)
    BY <1>34 DEF LoseTouch, row, Tends, TypeOK, HandlerRow
  <2> QED
    BY <2>1, <2>2, HeldTends
<1>35. ASSUME NEW x \in Workers, Renew(x) PROVE Held'
  BY <1>35, HeldFrame DEF Renew
<1>36. ASSUME NEW r \in Requests, RequestStep(r) \/ DropRequest(r) PROVE Held'
  <2>1. UNCHANGED trouble \/ \E k \in TroubleKinds : Meet(k)
    BY <1>36 DEF RequestStep, ReplyStep, AddReply, CommitReply, ReopenForReply, FollowUp, SendJob,
       FailUnqueuedRequest, DropRequest, TroubleKinds
  <2>2. UNCHANGED <<handler, grants>>
    BY <1>36 DEF RequestStep, ReplyStep, AddReply, CommitReply, ReopenForReply, FollowUp, SendJob,
       FailUnqueuedRequest, DropRequest, row
  <2> QED
    BY <2>1, <2>2, HeldFrame
<1>37. CASE LeaseExpires \/ RequestCancellation \/ ToggleAutomation \/ Rest \/ UNCHANGED vars
  <2>1. UNCHANGED trouble \/ \E k \in TroubleKinds : Meet(k)
    BY <1>37 DEF LeaseExpires, RequestCancellation, ToggleAutomation, Rest, vars, TroubleKinds
  <2>2. UNCHANGED <<handler, grants>>
    BY <1>37 DEF LeaseExpires, RequestCancellation, ToggleAutomation, Rest, vars
  <2> QED
    BY <2>1, <2>2, HeldFrame
<1> QED
  BY <1>1, <1>2, <1>3, <1>4, <1>5, <1>6, <1>7, <1>8, <1>9, <1>10, <1>11, <1>12, <1>13,
     <1>14, <1>15, <1>16, <1>17, <1>18, <1>19, <1>20, <1>21, <1>22, <1>23, <1>24, <1>25, <1>26,
     <1>27, <1>28, <1>29, <1>30, <1>31, <1>32, <1>33, <1>34, <1>35, <1>36, <1>37
     DEF Next, HandlerStep, ClaimStep, TurnStep, AfterStep, TroubleStep

\* Unless a worker died or a call failed, no broker grant outlives the turns
\* of its run: when everything is at rest none is left.
THEOREM NoStrayGrantCorrect == Spec => []NoStrayGrant
<1>1. TypeOK /\ Held => NoStrayGrant
  BY DEF Held, NoStrayGrant, Quiet, Granted
<1> QED
  BY <1>1, HeldInit, HeldNext, TypeCorrect, PTL DEF Spec
-----------------------------------------------------------------------------
(* What trouble leaves of the budget. *)

\* A step meets one kind of trouble at most.
LEMMA MeetsOne ==
  ASSUME [Next]_vars
  PROVE  UNCHANGED trouble \/ \E k \in TroubleKinds : Meet(k)
<1>1. ASSUME NEW x \in Workers, Fetch(x) \/ HandlerStep(x) \/ TroubleStep(x)
      PROVE  UNCHANGED trouble \/ \E k \in TroubleKinds : Meet(k)
  BY <1>1 DEF HandlerStep, ClaimStep, TurnStep, AfterStep, TroubleStep, TroubleKinds,
     Fetch, Claim, ClaimNothing, ReclaimNothing, LoadConfiguration, ConfigurationUnavailable,
     LookAtLease, Wake, StartTurn, LoseLease, ReadConversation, CreateGrant,
     HarnessSucceeds, TurnFails, PollCancellation, CheckCancellation, Succeed, CancelTurn,
     FailTurn, RecordEnd, Cleanup, Notify, AnswerNewMessages, ReopenAfterTurn,
     LeaveToOthers, RequeueTurn, FailUnqueuedTurn, ReleaseLease, ReleaseNothing, RequeueHandedBack,
     Renew, TurnFailsUnread, HandBack, StatusWriteThrows, Crash, LoseTouch
<1>2. ASSUME NEW r \in Requests, RequestStep(r) \/ DropRequest(r)
      PROVE  UNCHANGED trouble \/ \E k \in TroubleKinds : Meet(k)
  BY <1>2 DEF RequestStep, ReplyStep, AddReply, CommitReply, ReopenForReply, FollowUp, SendJob,
     FailUnqueuedRequest, DropRequest, TroubleKinds
<1>3. CASE LeaseExpires \/ RequestCancellation \/ ToggleAutomation \/ Rest \/ UNCHANGED vars
  BY <1>3 DEF LeaseExpires, RequestCancellation, ToggleAutomation, Rest, vars, TroubleKinds
<1> QED
  BY <1>1, <1>2, <1>3 DEF Next

\* Kinds that a step leaves spared were spared before it.
LEMMA SparedBefore ==
  ASSUME TypeOK, Held, [Next]_vars, NEW K \in SUBSET TroubleKinds, Spared(K)'
  PROVE  Spared(K)
<1>1. \A k \in TroubleKinds : trouble'[k] <= trouble[k] /\ trouble[k] <= Budget[k]
  BY MeetsOne, BudgetKept DEF Held
<1>2. \A k \in TroubleKinds : trouble[k] \in Nat /\ Budget[k] \in Nat
  BY AutomationRunAssumption DEF TypeOK, Limits
<1> QED
  BY <1>1, <1>2 DEF Spared

\* A kind that a step meets is not spared.
LEMMA SpentKind ==
  ASSUME TypeOK, Held, NEW K, NEW k \in K, k \in TroubleKinds, Meet(k)
  PROVE  ~Spared(K)'
<1>1. trouble[k] \in Nat /\ Budget[k] \in Nat /\ trouble[k] <= Budget[k] /\ k \in Limits /\ k # "any"
  BY AutomationRunAssumption DEF TypeOK, Held, Limits, TroubleKinds
<1>2. trouble'[k] = trouble[k] - 1
  BY <1>1 DEF Meet, TypeOK
<1> QED
  BY <1>1, <1>2 DEF Spared

\* How often a worker died or a call failed: the trouble that can fail a job.
Met == (Budget["crash"] - trouble["crash"]) + (Budget["fault"] - trouble["fault"])

\* It never shrinks, grows with either trouble and stays within the budget.
LEMMA MetGrows ==
  ASSUME TypeOK, TypeOK', Held, [Next]_vars
  PROVE  /\ Met \in Nat /\ Met' \in Nat /\ Met <= Met'
         /\ Meet("crash") \/ Meet("fault") => Met < Met'
         /\ Met' <= Budget["crash"] + Budget["fault"]
<1>1. /\ "crash" \in TroubleKinds /\ "fault" \in TroubleKinds
      /\ "crash" \in Limits /\ "fault" \in Limits
  BY DEF TroubleKinds, Limits
<1>2. /\ trouble'["crash"] <= trouble["crash"] /\ trouble'["fault"] <= trouble["fault"]
      /\ trouble["crash"] <= Budget["crash"] /\ trouble["fault"] <= Budget["fault"]
  BY <1>1, MeetsOne, BudgetKept DEF Held
<1>3. /\ trouble["crash"] \in Nat /\ trouble'["crash"] \in Nat /\ Budget["crash"] \in Nat
      /\ trouble["fault"] \in Nat /\ trouble'["fault"] \in Nat /\ Budget["fault"] \in Nat
  BY <1>1, AutomationRunAssumption DEF TypeOK
<1>4. Meet("crash") => trouble'["crash"] = trouble["crash"] - 1
  BY <1>1 DEF Meet, TypeOK
<1>5. Meet("fault") => trouble'["fault"] = trouble["fault"] - 1
  BY <1>1 DEF Meet, TypeOK
<1> QED
  BY <1>2, <1>3, <1>4, <1>5 DEF Met

-----------------------------------------------------------------------------
(* How the steps of a worker change its row. *)

\* A handler that goes on keeps all but its place.
LEMMA GotoRow ==
  ASSUME TypeOK, NEW x \in Workers, NEW pc, Goto(x, pc)
  PROVE  /\ \A w \in Workers \ {x} : handler'[w] = handler[w]
         /\ handler'[x].pc = pc /\ handler'[x].lease = handler[x].lease
         /\ handler'[x].tries = handler[x].tries /\ handler'[x].owned = handler[x].owned
         /\ handler'[x].thru = handler[x].thru /\ handler'[x].end = handler[x].end
BY DEF TypeOK, HandlerRow, Goto

\* One that goes on with an outcome keeps all but these two.
LEMMA EndRow ==
  ASSUME TypeOK, NEW x \in Workers, NEW pc, NEW end, End(x, pc, end)
  PROVE  /\ \A w \in Workers \ {x} : handler'[w] = handler[w]
         /\ handler'[x].pc = pc /\ handler'[x].lease = handler[x].lease
         /\ handler'[x].tries = handler[x].tries /\ handler'[x].owned = handler[x].owned
         /\ handler'[x].thru = handler[x].thru /\ handler'[x].end = end
BY DEF TypeOK, HandlerRow, End

\* One that completes its job is free.
LEMMA CompleteRow ==
  ASSUME TypeOK, NEW x \in Workers, Complete(x)
  PROVE  /\ \A w \in Workers \ {x} : handler'[w] = handler[w]
         /\ handler'[x] = Idle
BY DEF TypeOK, Complete

\* A new job was never retried.
LEMMA SendJobs ==
  ASSUME TypeOK, Send
  PROVE  /\ \A k \in 0..RetryLimit : ready'[k] >= ready[k]
         /\ \A k \in 0..RetryLimit : ready'[k] > 0 => ready[k] > 0 \/ k = 0
         /\ \E k \in 0..RetryLimit : ready'[k] > 0
<1>1. 0 \in 0..RetryLimit /\ \A k \in 0..RetryLimit : ready[k] \in Nat
  BY AutomationRunAssumption DEF TypeOK
<1> QED
  BY <1>1 DEF Send, TypeOK

\* A failed job is queued again with one retry more, or not at all.
LEMMA RetryJobs ==
  ASSUME TypeOK, NEW x \in Workers, Retry(x)
  PROVE  /\ \A k \in 0..RetryLimit : ready'[k] >= ready[k]
         /\ \A k \in 0..RetryLimit : ready'[k] > 0 => ready[k] > 0 \/ k = handler[x].tries + 1
         /\ handler[x].owned /\ handler[x].tries < RetryLimit =>
              \E k \in 0..RetryLimit : ready'[k] > 0
<1>1. \A k \in 0..RetryLimit : ready[k] \in Nat
  BY DEF TypeOK
<1>2. handler[x].tries \in 0..RetryLimit /\ RetryLimit \in Nat
  BY AutomationRunAssumption DEF TypeOK, HandlerRow
<1>3. CASE handler[x].owned /\ handler[x].tries < RetryLimit
  <2> DEFINE n == handler[x].tries + 1
  <2>1. n \in 0..RetryLimit
    BY <1>2, <1>3
  <2>2. ready' = [ready EXCEPT ![n] = @ + 1]
    BY <1>3 DEF Retry
  <2>3. DOMAIN ready = 0..RetryLimit
    BY DEF TypeOK
  <2> HIDE DEF n
  <2>4. /\ ready'[n] = ready[n] + 1
        /\ \A k \in 0..RetryLimit : k # n => ready'[k] = ready[k]
    BY <2>1, <2>2, <2>3
  <2>5. \A k \in 0..RetryLimit : ready'[k] >= ready[k] /\ (ready'[k] > 0 => ready[k] > 0 \/ k = n)
    BY <1>1, <2>1, <2>4
  <2>6. ready'[n] > 0
    BY <1>1, <2>1, <2>4
  <2> QED
    BY <2>1, <2>5, <2>6 DEF n
<1>4. CASE ~(handler[x].owned /\ handler[x].tries < RetryLimit)
  <2>1. ready' = ready
    BY <1>4 DEF Retry
  <2> QED
    BY <1>1, <1>4, <2>1
<1> QED
  BY <1>3, <1>4

-----------------------------------------------------------------------------
(* Jobs are retried for the trouble that failed them. *)

\* The steps between a claim and the grant of its turn.
Opening == {"config", "reconfig", "start"}

\* No grant names a lease that was not issued, or whose turn has not begun.
Fresh ==
  /\ \A g \in grants : g <= lastLease
  /\ \A w \in Workers : handler[w].pc \in Opening => handler[w].lease \notin grants

\* The job that w processes was retried once for every death and failed call at
\* most, and less often if it is about to be failed for one of them.
Job(w) ==
  handler[w].pc # "idle" =>
    /\ handler[w].owned
    /\ handler[w].tries <= Met
    /\ handler[w].pc = "cleanup" /\ handler[w].end = "error" => handler[w].tries < Met
    /\ handler[w].pc = "release" /\ handler[w].lease \in grants => handler[w].tries < Met
    /\ handler[w].pc = "record" => handler[w].end # "error"

\* As long as no worker lost touch with the queue, jobs are retried for trouble
\* that was met.
Tried ==
  Spared({"stall"}) => /\ \A k \in 0..RetryLimit : ready[k] > 0 => k <= Met
                       /\ \A w \in Workers : Job(w)

\* Before the first job is handed out nothing was retried.
LEMMA TriedInit == Init => Fresh /\ Tried
<1> SUFFICES ASSUME Init PROVE Fresh /\ Tried
  OBVIOUS
<1>1. Met = 0
  BY AutomationRunAssumption DEF Init, Met, Limits, TroubleKinds
<1> QED
  BY <1>1, AutomationRunAssumption DEF Init, Fresh, Tried, Job, Idle, Opening

\* A step that adds no grant and opens no turn keeps leases fresh.
LEMMA FreshStep ==
  ASSUME Fresh, grants' \subseteq grants, lastLease' = lastLease,
         \A w \in Workers : handler'[w].pc \in Opening =>
           handler[w].pc \in Opening /\ handler'[w].lease = handler[w].lease
  PROVE  Fresh'
BY DEF Fresh

\* Every step keeps leases fresh.
LEMMA FreshNext == TypeOK /\ LeaseInv /\ Fresh /\ [Next]_vars => Fresh'
<1> SUFFICES ASSUME TypeOK, LeaseInv, Fresh, [Next]_vars PROVE Fresh'
  OBVIOUS
<1>1. ASSUME NEW x \in Workers, Claim(x) PROVE Fresh'
  <2>1. /\ lastLease' = lastLease + 1 /\ grants' \subseteq grants
        /\ handler'[x].lease = lastLease + 1
        /\ \A w \in Workers \ {x} : handler'[w] = handler[w]
    BY <1>1 DEF Claim, TypeOK, HandlerRow
  <2>2. lastLease \in Nat /\ \A g \in grants : g \in Nat
    BY DEF TypeOK
  <2>3. \A w \in Workers : handler'[w].pc \in Opening => handler'[w].lease \notin grants
    BY <2>1, <2>2 DEF Fresh
  <2>4. \A g \in grants' : g <= lastLease'
    BY <2>1, <2>2 DEF Fresh
  <2> QED
    BY <2>1, <2>3, <2>4 DEF Fresh
<1>2. ASSUME NEW x \in Workers, CreateGrant(x) PROVE Fresh'
  <2>1. /\ \A w \in Workers \ {x} : handler'[w] = handler[w]
        /\ handler'[x].pc \notin Opening
        /\ grants' \subseteq grants \cup {handler[x].lease} /\ lastLease' = lastLease
    BY <1>2, GotoRow DEF CreateGrant, Opening
  <2>2. /\ handler[x].lease <= lastLease
        /\ \A w \in Workers \ {x} : handler[w].pc \in Opening => handler[w].lease # handler[x].lease
    BY DEF LeaseInv, Opening, Unclaimed
  <2>3. \A w \in Workers : handler'[w].pc \in Opening => handler'[w].lease \notin grants'
    BY <2>1, <2>2 DEF Fresh
  <2> QED
    BY <2>1, <2>2, <2>3 DEF Fresh
<1>3. ASSUME NEW x \in Workers, Fetch(x) PROVE Fresh'
  <2>1. \A v \in Workers : handler'[v].pc \in Opening =>
          handler[v].pc \in Opening /\ handler'[v].lease = handler[v].lease
    BY <1>3 DEF Fetch, row, Idle, TypeOK, HandlerRow, Opening
  <2>2. grants' \subseteq grants /\ lastLease' = lastLease
    BY <1>3 DEF Fetch, row
  <2> QED
    BY <2>1, <2>2, FreshStep
<1>4. ASSUME NEW x \in Workers, ClaimNothing(x) PROVE Fresh'
  <2>1. \A v \in Workers : handler'[v].pc \in Opening =>
          handler[v].pc \in Opening /\ handler'[v].lease = handler[v].lease
    BY <1>4, GotoRow, EndRow, CompleteRow DEF ClaimNothing, row, Idle, Opening
  <2>2. grants' \subseteq grants /\ lastLease' = lastLease
    BY <1>4 DEF ClaimNothing, row
  <2> QED
    BY <2>1, <2>2, FreshStep
<1>5. ASSUME NEW x \in Workers, ReclaimNothing(x) PROVE Fresh'
  <2>1. \A v \in Workers : handler'[v].pc \in Opening =>
          handler[v].pc \in Opening /\ handler'[v].lease = handler[v].lease
    BY <1>5, GotoRow, EndRow, CompleteRow DEF ReclaimNothing, row, Idle, Opening
  <2>2. grants' \subseteq grants /\ lastLease' = lastLease
    BY <1>5 DEF ReclaimNothing, row
  <2> QED
    BY <2>1, <2>2, FreshStep
<1>6. ASSUME NEW x \in Workers, LoadConfiguration(x) PROVE Fresh'
  <2>1. \A v \in Workers : handler'[v].pc \in Opening =>
          handler[v].pc \in Opening /\ handler'[v].lease = handler[v].lease
    BY <1>6, GotoRow, EndRow, CompleteRow DEF LoadConfiguration, row, Opening
  <2>2. grants' \subseteq grants /\ lastLease' = lastLease
    BY <1>6 DEF LoadConfiguration, row
  <2> QED
    BY <2>1, <2>2, FreshStep
<1>7. ASSUME NEW x \in Workers, ConfigurationUnavailable(x) PROVE Fresh'
  <2>1. \A v \in Workers : handler'[v].pc \in Opening =>
          handler[v].pc \in Opening /\ handler'[v].lease = handler[v].lease
    BY <1>7 DEF ConfigurationUnavailable, Idle, TypeOK, HandlerRow, Opening
  <2>2. grants' \subseteq grants /\ lastLease' = lastLease
    BY <1>7 DEF ConfigurationUnavailable
  <2> QED
    BY <2>1, <2>2, FreshStep
<1>8. ASSUME NEW x \in Workers, LookAtLease(x) PROVE Fresh'
  <2>1. \A v \in Workers : handler'[v].pc \in Opening =>
          handler[v].pc \in Opening /\ handler'[v].lease = handler[v].lease
    BY <1>8, GotoRow, EndRow, CompleteRow DEF LookAtLease, row, Idle, Opening
  <2>2. grants' \subseteq grants /\ lastLease' = lastLease
    BY <1>8 DEF LookAtLease, row
  <2> QED
    BY <2>1, <2>2, FreshStep
<1>9. ASSUME NEW x \in Workers, Wake(x) PROVE Fresh'
  <2>1. \A v \in Workers : handler'[v].pc \in Opening =>
          handler[v].pc \in Opening /\ handler'[v].lease = handler[v].lease
    BY <1>9, GotoRow, EndRow, CompleteRow DEF Wake, row, Idle, Opening
  <2>2. grants' \subseteq grants /\ lastLease' = lastLease
    BY <1>9 DEF Wake, row
  <2> QED
    BY <2>1, <2>2, FreshStep
<1>10. ASSUME NEW x \in Workers, StartTurn(x) PROVE Fresh'
  <2>1. \A v \in Workers : handler'[v].pc \in Opening =>
          handler[v].pc \in Opening /\ handler'[v].lease = handler[v].lease
    BY <1>10, GotoRow, EndRow, CompleteRow DEF StartTurn, row, Idle, Opening
  <2>2. grants' \subseteq grants /\ lastLease' = lastLease
    BY <1>10 DEF StartTurn, row
  <2> QED
    BY <2>1, <2>2, FreshStep
<1>11. ASSUME NEW x \in Workers, LoseLease(x) PROVE Fresh'
  <2>1. \A v \in Workers : handler'[v].pc \in Opening =>
          handler[v].pc \in Opening /\ handler'[v].lease = handler[v].lease
    BY <1>11, GotoRow, EndRow, CompleteRow DEF LoseLease, row, Idle, Opening
  <2>2. grants' \subseteq grants /\ lastLease' = lastLease
    BY <1>11 DEF LoseLease, row
  <2> QED
    BY <2>1, <2>2, FreshStep
<1>12. ASSUME NEW x \in Workers, ReadConversation(x) PROVE Fresh'
  <2>1. \A v \in Workers : handler'[v].pc \in Opening =>
          handler[v].pc \in Opening /\ handler'[v].lease = handler[v].lease
    BY <1>12 DEF ReadConversation, row, TypeOK, HandlerRow, Opening
  <2>2. grants' \subseteq grants /\ lastLease' = lastLease
    BY <1>12 DEF ReadConversation, row
  <2> QED
    BY <2>1, <2>2, FreshStep
<1>13. ASSUME NEW x \in Workers, HarnessSucceeds(x) PROVE Fresh'
  <2>1. \A v \in Workers : handler'[v].pc \in Opening =>
          handler[v].pc \in Opening /\ handler'[v].lease = handler[v].lease
    BY <1>13, GotoRow, EndRow, CompleteRow DEF HarnessSucceeds, row, Idle, Opening
  <2>2. grants' \subseteq grants /\ lastLease' = lastLease
    BY <1>13 DEF HarnessSucceeds, row
  <2> QED
    BY <2>1, <2>2, FreshStep
<1>14. ASSUME NEW x \in Workers, TurnFails(x) PROVE Fresh'
  <2>1. \A v \in Workers : handler'[v].pc \in Opening =>
          handler[v].pc \in Opening /\ handler'[v].lease = handler[v].lease
    BY <1>14, GotoRow, EndRow, CompleteRow DEF TurnFails, row, Idle, Opening
  <2>2. grants' \subseteq grants /\ lastLease' = lastLease
    BY <1>14 DEF TurnFails, row
  <2> QED
    BY <2>1, <2>2, FreshStep
<1>15. ASSUME NEW x \in Workers, PollCancellation(x) PROVE Fresh'
  <2>1. \A v \in Workers : handler'[v].pc \in Opening =>
          handler[v].pc \in Opening /\ handler'[v].lease = handler[v].lease
    BY <1>15, GotoRow, EndRow, CompleteRow DEF PollCancellation, row, Idle, Opening
  <2>2. grants' \subseteq grants /\ lastLease' = lastLease
    BY <1>15 DEF PollCancellation, row
  <2> QED
    BY <2>1, <2>2, FreshStep
<1>16. ASSUME NEW x \in Workers, CheckCancellation(x) PROVE Fresh'
  <2>1. \A v \in Workers : handler'[v].pc \in Opening =>
          handler[v].pc \in Opening /\ handler'[v].lease = handler[v].lease
    BY <1>16, GotoRow, EndRow, CompleteRow DEF CheckCancellation, row, Idle, Opening
  <2>2. grants' \subseteq grants /\ lastLease' = lastLease
    BY <1>16 DEF CheckCancellation, row
  <2> QED
    BY <2>1, <2>2, FreshStep
<1>17. ASSUME NEW x \in Workers, Succeed(x) PROVE Fresh'
  <2>1. \A v \in Workers : handler'[v].pc \in Opening =>
          handler[v].pc \in Opening /\ handler'[v].lease = handler[v].lease
    BY <1>17, GotoRow, EndRow, CompleteRow DEF Succeed, row, Idle, Opening
  <2>2. grants' \subseteq grants /\ lastLease' = lastLease
    BY <1>17 DEF Succeed, row
  <2> QED
    BY <2>1, <2>2, FreshStep
<1>18. ASSUME NEW x \in Workers, CancelTurn(x) PROVE Fresh'
  <2>1. \A v \in Workers : handler'[v].pc \in Opening =>
          handler[v].pc \in Opening /\ handler'[v].lease = handler[v].lease
    BY <1>18, GotoRow, EndRow, CompleteRow DEF CancelTurn, row, Idle, Opening
  <2>2. grants' \subseteq grants /\ lastLease' = lastLease
    BY <1>18 DEF CancelTurn, row
  <2> QED
    BY <2>1, <2>2, FreshStep
<1>19. ASSUME NEW x \in Workers, FailTurn(x) PROVE Fresh'
  <2>1. \A v \in Workers : handler'[v].pc \in Opening =>
          handler[v].pc \in Opening /\ handler'[v].lease = handler[v].lease
    BY <1>19, GotoRow, EndRow, CompleteRow DEF FailTurn, row, Idle, Opening
  <2>2. grants' \subseteq grants /\ lastLease' = lastLease
    BY <1>19 DEF FailTurn, row
  <2> QED
    BY <2>1, <2>2, FreshStep
<1>20. ASSUME NEW x \in Workers, RecordEnd(x) PROVE Fresh'
  <2>1. \A v \in Workers : handler'[v].pc \in Opening =>
          handler[v].pc \in Opening /\ handler'[v].lease = handler[v].lease
    BY <1>20, GotoRow, EndRow, CompleteRow DEF RecordEnd, row, Idle, Opening
  <2>2. grants' \subseteq grants /\ lastLease' = lastLease
    BY <1>20 DEF RecordEnd, row
  <2> QED
    BY <2>1, <2>2, FreshStep
<1>21. ASSUME NEW x \in Workers, Cleanup(x) PROVE Fresh'
  <2>1. \A v \in Workers : handler'[v].pc \in Opening =>
          handler[v].pc \in Opening /\ handler'[v].lease = handler[v].lease
    BY <1>21, GotoRow, EndRow, CompleteRow DEF Cleanup, row, Idle, Opening
  <2>2. grants' \subseteq grants /\ lastLease' = lastLease
    BY <1>21 DEF Cleanup, row
  <2> QED
    BY <2>1, <2>2, FreshStep
<1>22. ASSUME NEW x \in Workers, Notify(x) PROVE Fresh'
  <2>1. \A v \in Workers : handler'[v].pc \in Opening =>
          handler[v].pc \in Opening /\ handler'[v].lease = handler[v].lease
    BY <1>22, GotoRow, EndRow, CompleteRow DEF Notify, row, Idle, Opening
  <2>2. grants' \subseteq grants /\ lastLease' = lastLease
    BY <1>22 DEF Notify, row
  <2> QED
    BY <2>1, <2>2, FreshStep
<1>23. ASSUME NEW x \in Workers, AnswerNewMessages(x) PROVE Fresh'
  <2>1. \A v \in Workers : handler'[v].pc \in Opening =>
          handler[v].pc \in Opening /\ handler'[v].lease = handler[v].lease
    BY <1>23, GotoRow, EndRow, CompleteRow DEF AnswerNewMessages, row, Idle, Opening
  <2>2. grants' \subseteq grants /\ lastLease' = lastLease
    BY <1>23 DEF AnswerNewMessages, row
  <2> QED
    BY <2>1, <2>2, FreshStep
<1>24. ASSUME NEW x \in Workers, ReopenAfterTurn(x) PROVE Fresh'
  <2>1. \A v \in Workers : handler'[v].pc \in Opening =>
          handler[v].pc \in Opening /\ handler'[v].lease = handler[v].lease
    BY <1>24, GotoRow, EndRow, CompleteRow DEF ReopenAfterTurn, row, Idle, Opening
  <2>2. grants' \subseteq grants /\ lastLease' = lastLease
    BY <1>24 DEF ReopenAfterTurn, row
  <2> QED
    BY <2>1, <2>2, FreshStep
<1>25. ASSUME NEW x \in Workers, LeaveToOthers(x) PROVE Fresh'
  <2>1. \A v \in Workers : handler'[v].pc \in Opening =>
          handler[v].pc \in Opening /\ handler'[v].lease = handler[v].lease
    BY <1>25, GotoRow, EndRow, CompleteRow DEF LeaveToOthers, row, Idle, Opening
  <2>2. grants' \subseteq grants /\ lastLease' = lastLease
    BY <1>25 DEF LeaveToOthers, row
  <2> QED
    BY <2>1, <2>2, FreshStep
<1>26. ASSUME NEW x \in Workers, RequeueTurn(x) PROVE Fresh'
  <2>1. \A v \in Workers : handler'[v].pc \in Opening =>
          handler[v].pc \in Opening /\ handler'[v].lease = handler[v].lease
    BY <1>26, GotoRow, EndRow, CompleteRow DEF RequeueTurn, row, Idle, Opening
  <2>2. grants' \subseteq grants /\ lastLease' = lastLease
    BY <1>26 DEF RequeueTurn, row
  <2> QED
    BY <2>1, <2>2, FreshStep
<1>27. ASSUME NEW x \in Workers, FailUnqueuedTurn(x) PROVE Fresh'
  <2>1. \A v \in Workers : handler'[v].pc \in Opening =>
          handler[v].pc \in Opening /\ handler'[v].lease = handler[v].lease
    BY <1>27, GotoRow, EndRow, CompleteRow DEF FailUnqueuedTurn, row, Idle, Opening
  <2>2. grants' \subseteq grants /\ lastLease' = lastLease
    BY <1>27 DEF FailUnqueuedTurn, row
  <2> QED
    BY <2>1, <2>2, FreshStep
<1>28. ASSUME NEW x \in Workers, ReleaseLease(x) PROVE Fresh'
  <2>1. \A v \in Workers : handler'[v].pc \in Opening =>
          handler[v].pc \in Opening /\ handler'[v].lease = handler[v].lease
    BY <1>28, GotoRow, EndRow, CompleteRow DEF ReleaseLease, row, Idle, Opening
  <2>2. grants' \subseteq grants /\ lastLease' = lastLease
    BY <1>28 DEF ReleaseLease, row
  <2> QED
    BY <2>1, <2>2, FreshStep
<1>29. ASSUME NEW x \in Workers, ReleaseNothing(x) PROVE Fresh'
  <2>1. \A v \in Workers : handler'[v].pc \in Opening =>
          handler[v].pc \in Opening /\ handler'[v].lease = handler[v].lease
    BY <1>29, GotoRow, EndRow, CompleteRow DEF ReleaseNothing, row, Idle, Opening
  <2>2. grants' \subseteq grants /\ lastLease' = lastLease
    BY <1>29 DEF ReleaseNothing, row
  <2> QED
    BY <2>1, <2>2, FreshStep
<1>30. ASSUME NEW x \in Workers, RequeueHandedBack(x) PROVE Fresh'
  <2>1. \A v \in Workers : handler'[v].pc \in Opening =>
          handler[v].pc \in Opening /\ handler'[v].lease = handler[v].lease
    BY <1>30, GotoRow, EndRow, CompleteRow DEF RequeueHandedBack, row, Idle, Opening
  <2>2. grants' \subseteq grants /\ lastLease' = lastLease
    BY <1>30 DEF RequeueHandedBack, row
  <2> QED
    BY <2>1, <2>2, FreshStep
<1>31. ASSUME NEW x \in Workers, Renew(x) PROVE Fresh'
  <2>1. \A v \in Workers : handler'[v].pc \in Opening =>
          handler[v].pc \in Opening /\ handler'[v].lease = handler[v].lease
    BY <1>31 DEF Renew
  <2>2. grants' \subseteq grants /\ lastLease' = lastLease
    BY <1>31 DEF Renew, row
  <2> QED
    BY <2>1, <2>2, FreshStep
<1>32. ASSUME NEW x \in Workers, TurnFailsUnread(x) PROVE Fresh'
  <2>1. \A v \in Workers : handler'[v].pc \in Opening =>
          handler[v].pc \in Opening /\ handler'[v].lease = handler[v].lease
    BY <1>32, GotoRow, EndRow, CompleteRow DEF TurnFailsUnread, row, Idle, Opening
  <2>2. grants' \subseteq grants /\ lastLease' = lastLease
    BY <1>32 DEF TurnFailsUnread, row
  <2> QED
    BY <2>1, <2>2, FreshStep
<1>33. ASSUME NEW x \in Workers, HandBack(x) PROVE Fresh'
  <2>1. \A v \in Workers : handler'[v].pc \in Opening =>
          handler[v].pc \in Opening /\ handler'[v].lease = handler[v].lease
    BY <1>33, GotoRow, EndRow, CompleteRow DEF HandBack, row, Idle, Opening
  <2>2. grants' \subseteq grants /\ lastLease' = lastLease
    BY <1>33 DEF HandBack, row
  <2> QED
    BY <2>1, <2>2, FreshStep
<1>34. ASSUME NEW x \in Workers, StatusWriteThrows(x) PROVE Fresh'
  <2>1. \A v \in Workers : handler'[v].pc \in Opening =>
          handler[v].pc \in Opening /\ handler'[v].lease = handler[v].lease
    BY <1>34, GotoRow, EndRow, CompleteRow DEF StatusWriteThrows, row, Idle, Opening
  <2>2. grants' \subseteq grants /\ lastLease' = lastLease
    BY <1>34 DEF StatusWriteThrows, row
  <2> QED
    BY <2>1, <2>2, FreshStep
<1>35. ASSUME NEW x \in Workers, Crash(x) PROVE Fresh'
  <2>1. \A v \in Workers : handler'[v].pc \in Opening =>
          handler[v].pc \in Opening /\ handler'[v].lease = handler[v].lease
    BY <1>35, GotoRow, EndRow, CompleteRow DEF Crash, row, Idle, Opening
  <2>2. grants' \subseteq grants /\ lastLease' = lastLease
    BY <1>35 DEF Crash, row
  <2> QED
    BY <2>1, <2>2, FreshStep
<1>36. ASSUME NEW x \in Workers, LoseTouch(x) PROVE Fresh'
  <2>1. \A v \in Workers : handler'[v].pc \in Opening =>
          handler[v].pc \in Opening /\ handler'[v].lease = handler[v].lease
    BY <1>36 DEF LoseTouch, row, TypeOK, HandlerRow
  <2>2. grants' \subseteq grants /\ lastLease' = lastLease
    BY <1>36 DEF LoseTouch, row
  <2> QED
    BY <2>1, <2>2, FreshStep
<1>37. ASSUME NEW r \in Requests, RequestStep(r) \/ DropRequest(r) PROVE Fresh'
  <2>1. UNCHANGED <<handler, grants, lastLease>>
    BY <1>37 DEF RequestStep, ReplyStep, AddReply, CommitReply, ReopenForReply, FollowUp, SendJob,
       FailUnqueuedRequest, DropRequest, row
  <2> QED
    BY <2>1, FreshStep
<1>38. CASE LeaseExpires \/ RequestCancellation \/ ToggleAutomation \/ Rest \/ UNCHANGED vars
  <2>1. UNCHANGED <<handler, grants, lastLease>>
    BY <1>38 DEF LeaseExpires, RequestCancellation, ToggleAutomation, Rest, vars
  <2> QED
    BY <2>1, FreshStep
<1> QED
    BY <1>1, <1>2, <1>3, <1>4, <1>5, <1>6, <1>7, <1>8, <1>9, <1>10, <1>11, <1>12, <1>13,
     <1>14, <1>15, <1>16, <1>17, <1>18, <1>19, <1>20, <1>21, <1>22, <1>23, <1>24, <1>25,
     <1>26, <1>27, <1>28, <1>29, <1>30, <1>31, <1>32, <1>33, <1>34, <1>35, <1>36, <1>37,
     <1>38
     DEF Next, HandlerStep, ClaimStep, TurnStep, AfterStep, TroubleStep

\* Retries are counted from 0.
LEMMA TriesNat == TypeOK => \A w \in Workers : handler[w].tries \in Nat
BY DEF TypeOK, HandlerRow

\* Worker x leaves the jobs of the others alone and grants at most its own lease.
Minds(x) ==
  /\ \A w \in Workers \ {x} : handler'[w] = handler[w]
  /\ grants' \subseteq grants \cup {handler[x].lease}
  /\ handler[x].pc \in Unclaimed => grants' \subseteq grants

\* What it makes of its own job, and of the queue, is retried for trouble.
Retries(x) ==
  /\ Job(x)'
  /\ \A k \in 0..RetryLimit : ready'[k] > 0 => ready[k] > 0 \/ k <= Met'

\* A worker's step keeps jobs retried for trouble.
LEMMA TriedStep ==
  ASSUME TypeOK, TypeOK', Held, LeaseInv, Tried, [Next]_vars, NEW x \in Workers, Minds(x),
         Spared({"stall"}) /\ Spared({"stall"})' => Retries(x)
  PROVE  Tried'
<1> SUFFICES ASSUME Spared({"stall"})'
             PROVE  /\ \A k \in 0..RetryLimit : ready'[k] > 0 => k <= Met'
                    /\ \A w \in Workers : Job(w)'
  BY DEF Tried, Spared
<1>1. Spared({"stall"}) /\ Retries(x)
  BY SparedBefore DEF TroubleKinds
<1>2. Met \in Nat /\ Met' \in Nat /\ Met <= Met'
  BY MetGrows
<1>3. \A k \in 0..RetryLimit : ready'[k] > 0 => k <= Met'
  BY <1>1, <1>2 DEF Retries, Tried
<1>4. ASSUME NEW w \in Workers PROVE Job(w)'
  <2>1. CASE w = x
    BY <1>1, <2>1 DEF Retries
  <2>2. CASE w # x
    <3>1. handler'[w] = handler[w] /\ Job(w) /\ handler[w].tries \in Int
      BY <1>1, <2>2 DEF Minds, Tried, TypeOK, HandlerRow
    <3>2. handler[w].pc = "release" /\ handler[w].lease \in grants' => handler[w].lease \in grants
      BY <2>2 DEF Minds, LeaseInv, Unclaimed
    <3> QED
      BY <1>2, <3>1, <3>2 DEF Job
  <2> QED
    BY <2>1, <2>2
<1> QED
  BY <1>3, <1>4

\* A job that fails was retried less often than trouble was met.
LEMMA FailsForTrouble ==
  ASSUME TypeOK, TypeOK', Held, Tried, Spared({"stall"}), [Next]_vars, NEW x \in Workers,
         \/ handler[x].pc = "cleanup" /\ handler[x].end = "error"
         \/ handler[x].pc = "release" /\ handler[x].lease \in grants
         \/ handler[x].pc # "idle" /\ (Meet("crash") \/ Meet("fault"))
  PROVE  handler[x].owned /\ handler[x].tries < Met'
<1>1. /\ Met \in Nat /\ Met' \in Nat /\ Met <= Met'
      /\ Meet("crash") \/ Meet("fault") => Met < Met'
  BY MetGrows
<1>2. Job(x) /\ handler[x].tries \in Nat /\ handler[x].pc # "idle"
  BY TriesNat DEF Tried
<1> QED
  BY <1>1, <1>2 DEF Job

\* A handler that goes on to a step from which its job does not fail minds it.
LEMMA GoesOn ==
  ASSUME TypeOK, TypeOK', Held, Tried, Spared({"stall"}), [Next]_vars, NEW x \in Workers,
         handler[x].pc # "idle", handler'[x].tries = handler[x].tries,
         handler'[x].owned = handler[x].owned,
         handler'[x].pc = "cleanup" => handler'[x].end # "error",
         handler'[x].pc = "record" => handler'[x].end # "error",
         handler'[x].pc # "release", UNCHANGED ready
  PROVE  Retries(x)
<1>1. Met \in Nat /\ Met' \in Nat /\ Met <= Met'
  BY MetGrows
<1>2. Job(x) /\ handler[x].tries \in Int
  BY DEF Tried, TypeOK, HandlerRow
<1>3. Job(x)'
  BY <1>1, <1>2 DEF Job
<1> QED
  BY <1>3 DEF Retries

\* So does one that completes its job, or fails it for trouble.
LEMMA GivesUp ==
  ASSUME TypeOK, TypeOK', Held, Tried, Spared({"stall"}), [Next]_vars, NEW x \in Workers, Complete(x),
         UNCHANGED ready \/ Send \/ (Retry(x) /\ handler[x].tries < Met')
  PROVE  Retries(x)
<1>1. Met' \in Nat /\ handler[x].tries \in Nat
  BY MetGrows, TriesNat
<1>2. Job(x)'
  BY CompleteRow DEF Job, Idle
<1>3. \A k \in 0..RetryLimit : ready'[k] > 0 => ready[k] > 0 \/ k <= Met'
  BY <1>1, SendJobs, RetryJobs
<1> QED
  BY <1>2, <1>3 DEF Retries

\* A step of no worker, or one that leaves its job where it is, keeps jobs
\* retried for trouble.
LEMMA TriedFrame ==
  ASSUME TypeOK, TypeOK', Held, Tried, [Next]_vars, UNCHANGED <<handler, grants>>,
         \A k \in 0..RetryLimit : ready'[k] > 0 => ready[k] > 0 \/ k = 0
  PROVE  Tried'
<1> SUFFICES ASSUME Spared({"stall"})'
             PROVE  /\ \A k \in 0..RetryLimit : ready'[k] > 0 => k <= Met'
                    /\ \A w \in Workers : Job(w)'
  BY DEF Tried, Spared
<1>1. Spared({"stall"}) /\ Tried
  BY SparedBefore DEF TroubleKinds
<1>2. Met \in Nat /\ Met' \in Nat /\ Met <= Met'
  BY MetGrows
<1>3. ASSUME NEW w \in Workers PROVE Job(w)'
  <2>1. Job(w) /\ handler[w].tries \in Int
    BY <1>1 DEF Tried, TypeOK, HandlerRow
  <2> QED
    BY <1>2, <2>1 DEF Job
<1> QED
  BY <1>1, <1>2, <1>3 DEF Tried

\* Every step keeps jobs retried for trouble.
LEMMA TriedNext == TypeOK /\ TypeOK' /\ Held /\ LeaseInv /\ Fresh /\ Tried /\ [Next]_vars => Tried'
<1> SUFFICES ASSUME TypeOK, TypeOK', Held, LeaseInv, Fresh, Tried, [Next]_vars PROVE Tried'
  OBVIOUS
<1>1. ASSUME NEW x \in Workers, ClaimNothing(x) PROVE Tried'
  <2>1. Minds(x)
    BY <1>1, GotoRow, EndRow, CompleteRow DEF ClaimNothing, row, Minds, Unclaimed
  <2>2. ASSUME Spared({"stall"}), Spared({"stall"})' PROVE Retries(x)
    <3>1. /\ handler'[x].tries = handler[x].tries /\ handler'[x].owned = handler[x].owned
          /\ handler'[x].pc \in {"cleanup", "record"} => handler'[x].end # "error"
          /\ handler[x].pc # "idle" /\ handler'[x].pc # "release"
      BY <1>1, GotoRow, EndRow DEF ClaimNothing, Abortable
    <3> QED
      BY <1>1, <2>2, <3>1, GoesOn DEF ClaimNothing
  <2> QED
    BY <2>1, <2>2, TriedStep
<1>2. ASSUME NEW x \in Workers, LoadConfiguration(x) PROVE Tried'
  <2>1. Minds(x)
    BY <1>2, GotoRow, EndRow, CompleteRow DEF LoadConfiguration, row, Minds, Unclaimed
  <2>2. ASSUME Spared({"stall"}), Spared({"stall"})' PROVE Retries(x)
    <3>1. /\ handler'[x].tries = handler[x].tries /\ handler'[x].owned = handler[x].owned
          /\ handler'[x].pc \in {"cleanup", "record"} => handler'[x].end # "error"
          /\ handler[x].pc # "idle" /\ handler'[x].pc # "release"
      BY <1>2, GotoRow, EndRow DEF LoadConfiguration, Abortable
    <3> QED
      BY <1>2, <2>2, <3>1, GoesOn DEF LoadConfiguration
  <2> QED
    BY <2>1, <2>2, TriedStep
<1>3. ASSUME NEW x \in Workers, LookAtLease(x) PROVE Tried'
  <2>1. Minds(x)
    BY <1>3, GotoRow, EndRow, CompleteRow DEF LookAtLease, row, Minds, Unclaimed
  <2>2. ASSUME Spared({"stall"}), Spared({"stall"})' PROVE Retries(x)
    <3>1. /\ handler'[x].tries = handler[x].tries /\ handler'[x].owned = handler[x].owned
          /\ handler'[x].pc \in {"cleanup", "record"} => handler'[x].end # "error"
          /\ handler[x].pc # "idle" /\ handler'[x].pc # "release"
      BY <1>3, GotoRow, EndRow DEF LookAtLease, Abortable
    <3> QED
      BY <1>3, <2>2, <3>1, GoesOn DEF LookAtLease
  <2> QED
    BY <2>1, <2>2, TriedStep
<1>4. ASSUME NEW x \in Workers, Wake(x) PROVE Tried'
  <2>1. Minds(x)
    BY <1>4, GotoRow, EndRow, CompleteRow DEF Wake, row, Minds, Unclaimed
  <2>2. ASSUME Spared({"stall"}), Spared({"stall"})' PROVE Retries(x)
    <3>1. /\ handler'[x].tries = handler[x].tries /\ handler'[x].owned = handler[x].owned
          /\ handler'[x].pc \in {"cleanup", "record"} => handler'[x].end # "error"
          /\ handler[x].pc # "idle" /\ handler'[x].pc # "release"
      BY <1>4, GotoRow, EndRow DEF Wake, Abortable
    <3> QED
      BY <1>4, <2>2, <3>1, GoesOn DEF Wake
  <2> QED
    BY <2>1, <2>2, TriedStep
<1>5. ASSUME NEW x \in Workers, StartTurn(x) PROVE Tried'
  <2>1. Minds(x)
    BY <1>5, GotoRow, EndRow, CompleteRow DEF StartTurn, row, Minds, Unclaimed
  <2>2. ASSUME Spared({"stall"}), Spared({"stall"})' PROVE Retries(x)
    <3>1. /\ handler'[x].tries = handler[x].tries /\ handler'[x].owned = handler[x].owned
          /\ handler'[x].pc \in {"cleanup", "record"} => handler'[x].end # "error"
          /\ handler[x].pc # "idle" /\ handler'[x].pc # "release"
      BY <1>5, GotoRow, EndRow DEF StartTurn, Abortable
    <3> QED
      BY <1>5, <2>2, <3>1, GoesOn DEF StartTurn
  <2> QED
    BY <2>1, <2>2, TriedStep
<1>6. ASSUME NEW x \in Workers, LoseLease(x) PROVE Tried'
  <2>1. Minds(x)
    BY <1>6, GotoRow, EndRow, CompleteRow DEF LoseLease, row, Minds, Unclaimed
  <2>2. ASSUME Spared({"stall"}), Spared({"stall"})' PROVE Retries(x)
    <3>1. /\ handler'[x].tries = handler[x].tries /\ handler'[x].owned = handler[x].owned
          /\ handler'[x].pc \in {"cleanup", "record"} => handler'[x].end # "error"
          /\ handler[x].pc # "idle" /\ handler'[x].pc # "release"
      BY <1>6, GotoRow, EndRow DEF LoseLease, Abortable
    <3> QED
      BY <1>6, <2>2, <3>1, GoesOn DEF LoseLease
  <2> QED
    BY <2>1, <2>2, TriedStep
<1>7. ASSUME NEW x \in Workers, CreateGrant(x) PROVE Tried'
  <2>1. Minds(x)
    BY <1>7, GotoRow, EndRow, CompleteRow DEF CreateGrant, row, Minds, Unclaimed
  <2>2. ASSUME Spared({"stall"}), Spared({"stall"})' PROVE Retries(x)
    <3>1. /\ handler'[x].tries = handler[x].tries /\ handler'[x].owned = handler[x].owned
          /\ handler'[x].pc \in {"cleanup", "record"} => handler'[x].end # "error"
          /\ handler[x].pc # "idle" /\ handler'[x].pc # "release"
      BY <1>7, GotoRow, EndRow DEF CreateGrant, Abortable
    <3> QED
      BY <1>7, <2>2, <3>1, GoesOn DEF CreateGrant
  <2> QED
    BY <2>1, <2>2, TriedStep
<1>8. ASSUME NEW x \in Workers, HarnessSucceeds(x) PROVE Tried'
  <2>1. Minds(x)
    BY <1>8, GotoRow, EndRow, CompleteRow DEF HarnessSucceeds, row, Minds, Unclaimed
  <2>2. ASSUME Spared({"stall"}), Spared({"stall"})' PROVE Retries(x)
    <3>1. /\ handler'[x].tries = handler[x].tries /\ handler'[x].owned = handler[x].owned
          /\ handler'[x].pc \in {"cleanup", "record"} => handler'[x].end # "error"
          /\ handler[x].pc # "idle" /\ handler'[x].pc # "release"
      BY <1>8, GotoRow, EndRow DEF HarnessSucceeds, Abortable
    <3> QED
      BY <1>8, <2>2, <3>1, GoesOn DEF HarnessSucceeds
  <2> QED
    BY <2>1, <2>2, TriedStep
<1>9. ASSUME NEW x \in Workers, TurnFails(x) PROVE Tried'
  <2>1. Minds(x)
    BY <1>9, GotoRow, EndRow, CompleteRow DEF TurnFails, row, Minds, Unclaimed
  <2>2. ASSUME Spared({"stall"}), Spared({"stall"})' PROVE Retries(x)
    <3>1. /\ handler'[x].tries = handler[x].tries /\ handler'[x].owned = handler[x].owned
          /\ handler'[x].pc \in {"cleanup", "record"} => handler'[x].end # "error"
          /\ handler[x].pc # "idle" /\ handler'[x].pc # "release"
      BY <1>9, GotoRow, EndRow DEF TurnFails, Abortable
    <3> QED
      BY <1>9, <2>2, <3>1, GoesOn DEF TurnFails
  <2> QED
    BY <2>1, <2>2, TriedStep
<1>10. ASSUME NEW x \in Workers, PollCancellation(x) PROVE Tried'
  <2>1. Minds(x)
    BY <1>10, GotoRow, EndRow, CompleteRow DEF PollCancellation, row, Minds, Unclaimed
  <2>2. ASSUME Spared({"stall"}), Spared({"stall"})' PROVE Retries(x)
    <3>1. /\ handler'[x].tries = handler[x].tries /\ handler'[x].owned = handler[x].owned
          /\ handler'[x].pc \in {"cleanup", "record"} => handler'[x].end # "error"
          /\ handler[x].pc # "idle" /\ handler'[x].pc # "release"
      BY <1>10, GotoRow, EndRow DEF PollCancellation, Abortable
    <3> QED
      BY <1>10, <2>2, <3>1, GoesOn DEF PollCancellation
  <2> QED
    BY <2>1, <2>2, TriedStep
<1>11. ASSUME NEW x \in Workers, CheckCancellation(x) PROVE Tried'
  <2>1. Minds(x)
    BY <1>11, GotoRow, EndRow, CompleteRow DEF CheckCancellation, row, Minds, Unclaimed
  <2>2. ASSUME Spared({"stall"}), Spared({"stall"})' PROVE Retries(x)
    <3>1. /\ handler'[x].tries = handler[x].tries /\ handler'[x].owned = handler[x].owned
          /\ handler'[x].pc \in {"cleanup", "record"} => handler'[x].end # "error"
          /\ handler[x].pc # "idle" /\ handler'[x].pc # "release"
      BY <1>11, GotoRow, EndRow DEF CheckCancellation, Abortable
    <3> QED
      BY <1>11, <2>2, <3>1, GoesOn DEF CheckCancellation
  <2> QED
    BY <2>1, <2>2, TriedStep
<1>12. ASSUME NEW x \in Workers, Succeed(x) PROVE Tried'
  <2>1. Minds(x)
    BY <1>12, GotoRow, EndRow, CompleteRow DEF Succeed, Minds, Unclaimed
  <2>2. ASSUME Spared({"stall"}), Spared({"stall"})' PROVE Retries(x)
    <3>1. /\ handler'[x].tries = handler[x].tries /\ handler'[x].owned = handler[x].owned
          /\ handler'[x].pc \in {"cleanup", "record"} => handler'[x].end # "error"
          /\ handler[x].pc # "idle" /\ handler'[x].pc # "release"
      BY <1>12, GotoRow, EndRow DEF Succeed, Abortable
    <3> QED
      BY <1>12, <2>2, <3>1, GoesOn DEF Succeed
  <2> QED
    BY <2>1, <2>2, TriedStep
<1>13. ASSUME NEW x \in Workers, CancelTurn(x) PROVE Tried'
  <2>1. Minds(x)
    BY <1>13, GotoRow, EndRow, CompleteRow DEF CancelTurn, Minds, Unclaimed
  <2>2. ASSUME Spared({"stall"}), Spared({"stall"})' PROVE Retries(x)
    <3>1. /\ handler'[x].tries = handler[x].tries /\ handler'[x].owned = handler[x].owned
          /\ handler'[x].pc \in {"cleanup", "record"} => handler'[x].end # "error"
          /\ handler[x].pc # "idle" /\ handler'[x].pc # "release"
      BY <1>13, GotoRow, EndRow DEF CancelTurn, Abortable
    <3> QED
      BY <1>13, <2>2, <3>1, GoesOn DEF CancelTurn
  <2> QED
    BY <2>1, <2>2, TriedStep
<1>14. ASSUME NEW x \in Workers, FailTurn(x) PROVE Tried'
  <2>1. Minds(x)
    BY <1>14, GotoRow, EndRow, CompleteRow DEF FailTurn, Minds, Unclaimed
  <2>2. ASSUME Spared({"stall"}), Spared({"stall"})' PROVE Retries(x)
    <3>1. /\ handler'[x].tries = handler[x].tries /\ handler'[x].owned = handler[x].owned
          /\ handler'[x].pc \in {"cleanup", "record"} => handler'[x].end # "error"
          /\ handler[x].pc # "idle" /\ handler'[x].pc # "release"
      BY <1>14, GotoRow, EndRow DEF FailTurn, Abortable
    <3> QED
      BY <1>14, <2>2, <3>1, GoesOn DEF FailTurn
  <2> QED
    BY <2>1, <2>2, TriedStep
<1>15. ASSUME NEW x \in Workers, ReopenAfterTurn(x) PROVE Tried'
  <2>1. Minds(x)
    BY <1>15, GotoRow, EndRow, CompleteRow DEF ReopenAfterTurn, row, Minds, Unclaimed
  <2>2. ASSUME Spared({"stall"}), Spared({"stall"})' PROVE Retries(x)
    <3>1. /\ handler'[x].tries = handler[x].tries /\ handler'[x].owned = handler[x].owned
          /\ handler'[x].pc \in {"cleanup", "record"} => handler'[x].end # "error"
          /\ handler[x].pc # "idle" /\ handler'[x].pc # "release"
      BY <1>15, GotoRow, EndRow DEF ReopenAfterTurn, Abortable
    <3> QED
      BY <1>15, <2>2, <3>1, GoesOn DEF ReopenAfterTurn
  <2> QED
    BY <2>1, <2>2, TriedStep
<1>16. ASSUME NEW x \in Workers, ReleaseLease(x) PROVE Tried'
  <2>1. Minds(x)
    BY <1>16, GotoRow, EndRow, CompleteRow DEF ReleaseLease, row, Minds, Unclaimed
  <2>2. ASSUME Spared({"stall"}), Spared({"stall"})' PROVE Retries(x)
    <3>1. /\ handler'[x].tries = handler[x].tries /\ handler'[x].owned = handler[x].owned
          /\ handler'[x].pc \in {"cleanup", "record"} => handler'[x].end # "error"
          /\ handler[x].pc # "idle" /\ handler'[x].pc # "release"
      BY <1>16, GotoRow, EndRow DEF ReleaseLease, Abortable
    <3> QED
      BY <1>16, <2>2, <3>1, GoesOn DEF ReleaseLease
  <2> QED
    BY <2>1, <2>2, TriedStep
<1>17. ASSUME NEW x \in Workers, TurnFailsUnread(x) PROVE Tried'
  <2>1. Minds(x)
    BY <1>17, GotoRow, EndRow, CompleteRow DEF TurnFailsUnread, row, Minds, Unclaimed
  <2>2. ASSUME Spared({"stall"}), Spared({"stall"})' PROVE Retries(x)
    <3>1. /\ handler'[x].tries = handler[x].tries /\ handler'[x].owned = handler[x].owned
          /\ handler'[x].pc \in {"cleanup", "record"} => handler'[x].end # "error"
          /\ handler[x].pc # "idle" /\ handler'[x].pc # "release"
      BY <1>17, GotoRow, EndRow DEF TurnFailsUnread, Abortable
    <3> QED
      BY <1>17, <2>2, <3>1, GoesOn DEF TurnFailsUnread
  <2> QED
    BY <2>1, <2>2, TriedStep
<1>18. ASSUME NEW x \in Workers, Claim(x) PROVE Tried'
  <2>1. Minds(x)
    BY <1>18 DEF Claim, row, TypeOK, HandlerRow, Minds, Unclaimed
  <2>2. ASSUME Spared({"stall"}), Spared({"stall"})' PROVE Retries(x)
    <3>1. /\ handler'[x].tries = handler[x].tries /\ handler'[x].owned = handler[x].owned
          /\ handler'[x].pc \notin {"cleanup", "record", "release"} /\ handler[x].pc # "idle"
      BY <1>18 DEF Claim, TypeOK, HandlerRow
    <3> QED
      BY <1>18, <2>2, <3>1, GoesOn DEF Claim
  <2> QED
    BY <2>1, <2>2, TriedStep
<1>19. ASSUME NEW x \in Workers, ReadConversation(x) PROVE Tried'
  <2>1. Minds(x)
    BY <1>19 DEF ReadConversation, row, TypeOK, HandlerRow, Minds, Unclaimed
  <2>2. ASSUME Spared({"stall"}), Spared({"stall"})' PROVE Retries(x)
    <3>1. /\ handler'[x].tries = handler[x].tries /\ handler'[x].owned = handler[x].owned
          /\ handler'[x].pc \notin {"cleanup", "record", "release"} /\ handler[x].pc # "idle"
      BY <1>19 DEF ReadConversation, TypeOK, HandlerRow
    <3> QED
      BY <1>19, <2>2, <3>1, GoesOn DEF ReadConversation
  <2> QED
    BY <2>1, <2>2, TriedStep
<1>20. ASSUME NEW x \in Workers, Fetch(x) PROVE Tried'
  <2>1. Minds(x)
    BY <1>20 DEF Fetch, row, TypeOK, HandlerRow, Minds, Unclaimed
  <2>2. ASSUME Spared({"stall"}), Spared({"stall"})' PROVE Retries(x)
    <3> PICK k \in 0..RetryLimit :
           /\ ready[k] > 0 /\ ready' = [ready EXCEPT ![k] = @ - 1]
           /\ handler' = [handler EXCEPT
                ![x] = [Idle EXCEPT !.pc = "claim", !.tries = k, !.owned = TRUE]]
      BY <1>20 DEF Fetch
    <3>1. handler'[x].pc = "claim" /\ handler'[x].tries = k /\ handler'[x].owned
      BY DEF TypeOK, HandlerRow, Idle
    <3>2. k <= Met /\ Met \in Nat /\ Met' \in Nat /\ Met <= Met'
      BY <2>2, MetGrows DEF Tried
    <3>3. Job(x)'
      BY <3>1, <3>2 DEF Job
    <3>4. \A j \in 0..RetryLimit : ready'[j] > 0 => ready[j] > 0
      BY DEF TypeOK
    <3> QED
      BY <3>3, <3>4 DEF Retries
  <2> QED
    BY <2>1, <2>2, TriedStep
<1>21. ASSUME NEW x \in Workers, ConfigurationUnavailable(x) PROVE Tried'
  <2>1. Minds(x)
    BY <1>21 DEF ConfigurationUnavailable, TypeOK, Minds, Unclaimed
  <2>2. ASSUME Spared({"stall"}), Spared({"stall"})' PROVE Retries(x)
    <3>1. CASE handler[x].pc = "config"
      <4>1. /\ handler'[x].tries = handler[x].tries /\ handler'[x].owned = handler[x].owned
            /\ handler'[x].pc = "look"
        BY <1>21, <3>1 DEF ConfigurationUnavailable, TypeOK, HandlerRow
      <4> QED
        BY <1>21, <2>2, <3>1, <4>1, GoesOn DEF ConfigurationUnavailable
    <3>2. CASE handler[x].pc # "config"
      <4>1. Complete(x)
        BY <1>21, <3>2 DEF ConfigurationUnavailable, Complete, TypeOK
      <4> QED
        BY <1>21, <2>2, <4>1, GivesUp DEF ConfigurationUnavailable
    <3> QED
      BY <3>1, <3>2
  <2> QED
    BY <2>1, <2>2, TriedStep
<1>22. ASSUME NEW x \in Workers, ReclaimNothing(x) PROVE Tried'
  <2>1. Minds(x)
    BY <1>22, GotoRow, EndRow, CompleteRow DEF ReclaimNothing, row, Minds, Unclaimed
  <2>2. ASSUME Spared({"stall"}), Spared({"stall"})' PROVE Retries(x)
    BY <1>22, <2>2, GivesUp DEF ReclaimNothing
  <2> QED
    BY <2>1, <2>2, TriedStep
<1>23. ASSUME NEW x \in Workers, LeaveToOthers(x) PROVE Tried'
  <2>1. Minds(x)
    BY <1>23, GotoRow, EndRow, CompleteRow DEF LeaveToOthers, row, Minds, Unclaimed
  <2>2. ASSUME Spared({"stall"}), Spared({"stall"})' PROVE Retries(x)
    BY <1>23, <2>2, GivesUp DEF LeaveToOthers
  <2> QED
    BY <2>1, <2>2, TriedStep
<1>24. ASSUME NEW x \in Workers, FailUnqueuedTurn(x) PROVE Tried'
  <2>1. Minds(x)
    BY <1>24, GotoRow, EndRow, CompleteRow DEF FailUnqueuedTurn, row, Minds, Unclaimed
  <2>2. ASSUME Spared({"stall"}), Spared({"stall"})' PROVE Retries(x)
    BY <1>24, <2>2, GivesUp DEF FailUnqueuedTurn
  <2> QED
    BY <2>1, <2>2, TriedStep
<1>25. ASSUME NEW x \in Workers, Notify(x) PROVE Tried'
  <2>1. Minds(x)
    BY <1>25, GotoRow, EndRow, CompleteRow DEF Notify, row, Minds, Unclaimed
  <2>2. ASSUME Spared({"stall"}), Spared({"stall"})' PROVE Retries(x)
    <3>1. CASE Complete(x)
      BY <1>25, <2>2, <3>1, GivesUp DEF Notify
    <3>2. CASE \E pc \in {"answer", "reopen"} : Goto(x, pc)
      <4>1. /\ handler'[x].tries = handler[x].tries /\ handler'[x].owned = handler[x].owned
            /\ handler'[x].pc \in {"answer", "reopen"}
        BY <3>2, GotoRow
      <4> QED
        BY <1>25, <2>2, <4>1, GoesOn DEF Notify
    <3> QED
      BY <1>25, <3>1, <3>2 DEF Notify
  <2> QED
    BY <2>1, <2>2, TriedStep
<1>26. ASSUME NEW x \in Workers, AnswerNewMessages(x) PROVE Tried'
  <2>1. Minds(x)
    BY <1>26, GotoRow, EndRow, CompleteRow DEF AnswerNewMessages, row, Minds, Unclaimed
  <2>2. ASSUME Spared({"stall"}), Spared({"stall"})' PROVE Retries(x)
    <3>1. CASE Complete(x)
      BY <1>26, <2>2, <3>1, GivesUp DEF AnswerNewMessages
    <3>2. CASE \E pc \in {"answer", "reopen"} : Goto(x, pc)
      <4>1. /\ handler'[x].tries = handler[x].tries /\ handler'[x].owned = handler[x].owned
            /\ handler'[x].pc \in {"answer", "reopen"}
        BY <3>2, GotoRow
      <4> QED
        BY <1>26, <2>2, <4>1, GoesOn DEF AnswerNewMessages
    <3> QED
      BY <1>26, <3>1, <3>2 DEF AnswerNewMessages
  <2> QED
    BY <2>1, <2>2, TriedStep
<1>27. ASSUME NEW x \in Workers, RecordEnd(x) PROVE Tried'
  <2>1. Minds(x)
    BY <1>27, GotoRow, EndRow, CompleteRow DEF RecordEnd, row, Minds, Unclaimed
  <2>2. ASSUME Spared({"stall"}), Spared({"stall"})' PROVE Retries(x)
    <3>1. /\ handler'[x].tries = handler[x].tries /\ handler'[x].owned = handler[x].owned
          /\ handler'[x].pc = "cleanup" /\ handler[x].pc = "record" /\ handler'[x].end = handler[x].end
      BY <1>27, GotoRow DEF RecordEnd
    <3>2. handler[x].end # "error"
      BY <2>2, <3>1 DEF Tried, Job
    <3> QED
      BY <1>27, <2>2, <3>1, <3>2, GoesOn DEF RecordEnd
  <2> QED
    BY <2>1, <2>2, TriedStep
<1>28. ASSUME NEW x \in Workers, Cleanup(x) PROVE Tried'
  <2>1. Minds(x)
    BY <1>28, GotoRow, EndRow, CompleteRow DEF Cleanup, row, Minds, Unclaimed
  <2>2. ASSUME Spared({"stall"}), Spared({"stall"})' PROVE Retries(x)
    <3>1. Met \in Nat /\ Met' \in Nat /\ Met <= Met' /\ (Meet("fault") => Met < Met')
      BY MetGrows
    <3>2. Job(x) /\ handler[x].tries \in Nat /\ handler[x].pc = "cleanup"
      BY <1>28, <2>2 DEF Tried, TypeOK, HandlerRow, Cleanup
    <3>3. CASE End(x, "notify", "none") /\ UNCHANGED ready
      BY <2>2, <3>2, <3>3, EndRow, GoesOn
    <3>4. CASE End(x, "release", "none") /\ UNCHANGED ready
      <4>1. /\ handler'[x].tries = handler[x].tries /\ handler'[x].owned = handler[x].owned
            /\ handler'[x].pc = "release" /\ handler'[x].lease = handler[x].lease
        BY <3>4, EndRow
      <4>2. handler[x].lease \in grants' => Met < Met'
        BY <1>28, <3>1 DEF Cleanup
      <4>3. Job(x)'
        BY <3>1, <3>2, <4>1, <4>2 DEF Job
      <4> QED
        BY <3>4, <4>3 DEF Retries
    <3>5. CASE handler[x].end = "error" /\ Complete(x) /\ Retry(x)
      BY <2>2, <3>2, <3>5, FailsForTrouble, GivesUp
    <3>6. CASE Complete(x) /\ UNCHANGED ready
      BY <2>2, <3>6, GivesUp
    <3> QED
      BY <1>28, <3>3, <3>4, <3>5, <3>6 DEF Cleanup
  <2> QED
    BY <2>1, <2>2, TriedStep
<1>29. ASSUME NEW x \in Workers, RequeueTurn(x) PROVE Tried'
  <2>1. Minds(x)
    BY <1>29, GotoRow, EndRow, CompleteRow DEF RequeueTurn, row, Minds, Unclaimed
  <2>2. ASSUME Spared({"stall"}), Spared({"stall"})' PROVE Retries(x)
    <3>1. CASE Send /\ Complete(x)
      BY <2>2, <3>1, GivesUp
    <3>2. CASE Goto(x, "undo") /\ (Send \/ UNCHANGED ready)
      <4>1. Job(x) /\ handler[x].tries \in Nat /\ Met \in Nat /\ Met' \in Nat /\ Met <= Met'
        BY <2>2, MetGrows, TriesNat DEF Tried
      <4>2. Job(x)'
        BY <1>29, <3>2, <4>1, GotoRow DEF Job, RequeueTurn
      <4>3. \A k \in 0..RetryLimit : ready'[k] > 0 => ready[k] > 0 \/ k <= Met'
        BY <3>2, <4>1, SendJobs
      <4> QED
        BY <4>2, <4>3 DEF Retries
    <3> QED
      BY <1>29, <3>1, <3>2 DEF RequeueTurn
  <2> QED
    BY <2>1, <2>2, TriedStep
<1>30. ASSUME NEW x \in Workers, ReleaseNothing(x) PROVE Tried'
  <2>1. Minds(x)
    BY <1>30, GotoRow, EndRow, CompleteRow DEF ReleaseNothing, row, Minds, Unclaimed
  <2>2. ASSUME Spared({"stall"}), Spared({"stall"})' PROVE Retries(x)
    <3>1. CASE Retry(x) /\ HeartbeatMatches(x)
      <4>1. handler[x].pc = "release" /\ handler[x].lease \in grants
        BY <1>30, <3>1 DEF ReleaseNothing, LeaseReferenced, HeartbeatMatches, Holds
      <4> QED
        BY <1>30, <2>2, <3>1, <4>1, FailsForTrouble, GivesUp DEF ReleaseNothing
    <3>2. CASE UNCHANGED ready
      BY <1>30, <2>2, <3>2, GivesUp DEF ReleaseNothing
    <3> QED
      BY <1>30, <3>1, <3>2 DEF ReleaseNothing
  <2> QED
    BY <2>1, <2>2, TriedStep
<1>31. ASSUME NEW x \in Workers, RequeueHandedBack(x) PROVE Tried'
  <2>1. Minds(x)
    BY <1>31, GotoRow, EndRow, CompleteRow DEF RequeueHandedBack, row, Minds, Unclaimed
  <2>2. ASSUME Spared({"stall"}), Spared({"stall"})' PROVE Retries(x)
    <3>1. CASE Meet("fault") /\ Retry(x)
      BY <1>31, <2>2, <3>1, FailsForTrouble, GivesUp DEF RequeueHandedBack
    <3>2. CASE Send
      BY <1>31, <2>2, <3>2, GivesUp DEF RequeueHandedBack
    <3> QED
      BY <1>31, <3>1, <3>2 DEF RequeueHandedBack
  <2> QED
    BY <2>1, <2>2, TriedStep
<1>32. ASSUME NEW x \in Workers, Crash(x) PROVE Tried'
  <2>1. Minds(x)
    BY <1>32, GotoRow, EndRow, CompleteRow DEF Crash, row, Minds, Unclaimed
  <2>2. ASSUME Spared({"stall"}), Spared({"stall"})' PROVE Retries(x)
    <3>1. CASE Meet("crash") /\ Retry(x)
      BY <1>32, <2>2, <3>1, FailsForTrouble, GivesUp DEF Crash
    <3> QED
      BY <1>32, <3>1 DEF Crash
  <2> QED
    BY <2>1, <2>2, TriedStep
<1>33. ASSUME NEW x \in Workers, HandBack(x) PROVE Tried'
  <2>1. Minds(x)
    BY <1>33, GotoRow, EndRow, CompleteRow DEF HandBack, row, Minds, Unclaimed
  <2>2. ASSUME Spared({"stall"}), Spared({"stall"})' PROVE Retries(x)
    <3>1. CASE handler[x].pc = "start"
      <4>1. Job(x) /\ handler[x].tries \in Nat /\ Met \in Nat /\ Met' \in Nat /\ Met <= Met'
        BY <2>2, MetGrows, TriesNat DEF Tried
      <4>2. handler[x].lease \notin grants'
        BY <1>33, <3>1 DEF HandBack, row, Fresh, Opening
      <4>3. Job(x)'
        BY <1>33, <3>1, <4>1, <4>2, GotoRow DEF Job, HandBack
      <4> QED
        BY <1>33, <4>3 DEF Retries, HandBack
    <3>2. CASE End(x, "cleanup", "handedback")
      BY <1>33, <2>2, <3>2, EndRow, GoesOn DEF HandBack, Abortable
    <3> QED
      BY <1>33, <3>1, <3>2 DEF HandBack
  <2> QED
    BY <2>1, <2>2, TriedStep
<1>34. ASSUME NEW x \in Workers, StatusWriteThrows(x) PROVE Tried'
  <2>1. Minds(x)
    BY <1>34, GotoRow, EndRow, CompleteRow DEF StatusWriteThrows, Minds, Unclaimed
  <2>2. ASSUME Spared({"stall"}), Spared({"stall"})' PROVE Retries(x)
    <3>1. Job(x) /\ handler[x].tries \in Nat /\ Met \in Nat /\ Met' \in Nat /\ Met < Met'
      BY <1>34, <2>2, MetGrows, TriesNat DEF Tried, StatusWriteThrows
    <3>2. /\ handler'[x].tries = handler[x].tries /\ handler'[x].owned = handler[x].owned
          /\ handler[x].pc # "idle" /\ handler'[x].pc \in {"cleanup", "cancel", "fail"}
      BY <1>34, GotoRow, EndRow DEF StatusWriteThrows
    <3>3. Job(x)'
      BY <3>1, <3>2 DEF Job
    <3> QED
      BY <1>34, <3>3 DEF Retries, StatusWriteThrows
  <2> QED
    BY <2>1, <2>2, TriedStep
<1>35. ASSUME NEW x \in Workers, LoseTouch(x) PROVE Tried'
  <2>1. ~Spared({"stall"})'
    BY <1>35, SpentKind DEF LoseTouch, TroubleKinds
  <2> QED
    BY <2>1 DEF Tried, Spared
<1>36. ASSUME NEW x \in Workers, Renew(x) PROVE Tried'
  BY <1>36, TriedFrame DEF Renew
<1>37. ASSUME NEW r \in Requests, RequestStep(r) \/ DropRequest(r) PROVE Tried'
  <2>1. UNCHANGED <<handler, grants>>
    BY <1>37 DEF RequestStep, ReplyStep, AddReply, CommitReply, ReopenForReply, FollowUp, SendJob,
       FailUnqueuedRequest, DropRequest, row
  <2>2. UNCHANGED ready \/ Send
    BY <1>37 DEF RequestStep, ReplyStep, AddReply, CommitReply, ReopenForReply, FollowUp, SendJob,
       FailUnqueuedRequest, DropRequest, row
  <2> QED
    BY <2>1, <2>2, SendJobs, TriedFrame
<1>38. CASE LeaseExpires \/ RequestCancellation \/ ToggleAutomation \/ Rest \/ UNCHANGED vars
  <2>1. UNCHANGED <<handler, grants, ready>>
    BY <1>38 DEF LeaseExpires, RequestCancellation, ToggleAutomation, Rest, vars
  <2> QED
    BY <2>1, TriedFrame
<1> QED
  BY <1>1, <1>2, <1>3, <1>4, <1>5, <1>6, <1>7, <1>8, <1>9, <1>10, <1>11, <1>12, <1>13,
     <1>14, <1>15, <1>16, <1>17, <1>18, <1>19, <1>20, <1>21, <1>22, <1>23, <1>24, <1>25,
     <1>26, <1>27, <1>28, <1>29, <1>30, <1>31, <1>32, <1>33, <1>34, <1>35, <1>36, <1>37,
     <1>38
     DEF Next, HandlerStep, ClaimStep, TurnStep, AfterStep, TroubleStep

-----------------------------------------------------------------------------
(* A run that is pending or running is attended. *)

\* The handler's turn is over, as far as the row is concerned.
Past(w) ==
  \/ handler[w].pc \in {"record", "notify", "answer", "reopen"}
  \/ handler[w].pc = "cleanup" /\ handler[w].end \in {"succeeded", "failed", "cancelled", "lost"}

\* A handler whose turn is over does not hold the lease of a running run.
Parted == \A w \in Workers : Past(w) => ~HeartbeatMatches(w)

\* There is no turn at first.
LEMMA PartedInit == Init => Parted
BY DEF Init, Parted, Past, Idle

\* A handler that does not hold a running run never comes to hold it with the
\* lease it has.
LEMMA PartedStays ==
  ASSUME TypeOK, TypeOK', LeaseInv, [Next]_vars, NEW w \in Workers, handler[w].lease # NoLease,
         handler'[w].lease = handler[w].lease, ~HeartbeatMatches(w)
  PROVE  ~HeartbeatMatches(w)'
<1>1. ASSUME NEW x \in Workers, Claim(x) PROVE ~HeartbeatMatches(w)'
  <2>1. run'.lease = lastLease + 1 /\ lastLease \in Nat
    BY <1>1 DEF Claim, TypeOK, RunRow
  <2>2. handler[w].lease \in Nat /\ handler[w].lease <= lastLease
    BY DEF TypeOK, HandlerRow, LeaseInv
  <2> QED
    BY <2>1, <2>2 DEF HeartbeatMatches, Holds
<1>2. CASE \A x \in Workers : ~Claim(x)
  <2>1. RowMoves
    BY <1>2, StepMoves DEF Moves
  <2> QED
    BY <2>1 DEF RowMoves, Kept, Reopens, Releases, EndsHeld, Repairs, Ends, Reopened,
       HeartbeatMatches, Holds, Terminal
<1> QED
  BY <1>1, <1>2

\* A turn that was over stays over, a turn that ends has parted from the run.
LEMMA PartedStep ==
  ASSUME TypeOK, TypeOK', LeaseInv, Parted, [Next]_vars,
         \A w \in Workers : Past(w)' => \/ Past(w) /\ handler'[w].lease = handler[w].lease
                                        \/ ~HeartbeatMatches(w)'
  PROVE  Parted'
<1>1. \A w \in Workers : Past(w) => handler[w].lease # NoLease
  BY DEF Past, LeaseInv, Unclaimed
<1> QED
  BY <1>1, PartedStays DEF Parted

\* Every step keeps the turns that are over parted from the run.
LEMMA PartedNext == TypeOK /\ TypeOK' /\ LeaseInv /\ Parted /\ [Next]_vars => Parted'
<1> SUFFICES ASSUME TypeOK, TypeOK', LeaseInv, Parted, [Next]_vars PROVE Parted'
  OBVIOUS
<1> DEFINE Over(v) == Past(v) /\ handler'[v].lease = handler[v].lease
<1>1. ASSUME NEW x \in Workers, Fetch(x) PROVE Parted'
  <2>1. \A v \in Workers : Past(v)' => Over(v)
    BY <1>1 DEF Fetch, Past, TypeOK, HandlerRow, Idle
  <2> QED
    BY <2>1, PartedStep
<1>2. ASSUME NEW x \in Workers, Claim(x) PROVE Parted'
  <2>1. \A v \in Workers : Past(v)' => Over(v)
    BY <1>2 DEF Claim, Past, TypeOK, HandlerRow, Idle
  <2> QED
    BY <2>1, PartedStep
<1>3. ASSUME NEW x \in Workers, ClaimNothing(x) PROVE Parted'
  <2>1. \A v \in Workers : Past(v)' => Over(v)
    BY <1>3, GotoRow, EndRow, CompleteRow DEF ClaimNothing, Past, Idle, Abortable
  <2> QED
    BY <2>1, PartedStep
<1>4. ASSUME NEW x \in Workers, ReclaimNothing(x) PROVE Parted'
  <2>1. \A v \in Workers : Past(v)' => Over(v)
    BY <1>4, GotoRow, EndRow, CompleteRow DEF ReclaimNothing, Past, Idle, Abortable
  <2> QED
    BY <2>1, PartedStep
<1>5. ASSUME NEW x \in Workers, LoadConfiguration(x) PROVE Parted'
  <2>1. \A v \in Workers : Past(v)' => Over(v)
    BY <1>5, GotoRow, EndRow, CompleteRow DEF LoadConfiguration, Past, Idle, Abortable
  <2> QED
    BY <2>1, PartedStep
<1>6. ASSUME NEW x \in Workers, ConfigurationUnavailable(x) PROVE Parted'
  <2>1. \A v \in Workers : Past(v)' => Over(v)
    BY <1>6 DEF ConfigurationUnavailable, Past, TypeOK, HandlerRow, Idle
  <2> QED
    BY <2>1, PartedStep
<1>7. ASSUME NEW x \in Workers, LookAtLease(x) PROVE Parted'
  <2>1. \A v \in Workers : Past(v)' => Over(v)
    BY <1>7, GotoRow, EndRow, CompleteRow DEF LookAtLease, Past, Idle, Abortable
  <2> QED
    BY <2>1, PartedStep
<1>8. ASSUME NEW x \in Workers, Wake(x) PROVE Parted'
  <2>1. \A v \in Workers : Past(v)' => Over(v)
    BY <1>8, GotoRow, EndRow, CompleteRow DEF Wake, Past, Idle, Abortable
  <2> QED
    BY <2>1, PartedStep
<1>9. ASSUME NEW x \in Workers, StartTurn(x) PROVE Parted'
  <2>1. \A v \in Workers : Past(v)' => Over(v)
    BY <1>9, GotoRow, EndRow, CompleteRow DEF StartTurn, Past, Idle, Abortable
  <2> QED
    BY <2>1, PartedStep
<1>10. ASSUME NEW x \in Workers, LoseLease(x) PROVE Parted'
  <2>1. ~HeartbeatMatches(x)'
    BY <1>10, EndRow DEF LoseLease, HeartbeatMatches, Holds, row
  <2>2. \A v \in Workers \ {x} : Past(v)' => Over(v)
    BY <1>10, EndRow DEF LoseLease, Past
  <2> QED
    BY <2>1, <2>2, PartedStep
<1>11. ASSUME NEW x \in Workers, ReadConversation(x) PROVE Parted'
  <2>1. \A v \in Workers : Past(v)' => Over(v)
    BY <1>11 DEF ReadConversation, Past, TypeOK, HandlerRow, Idle
  <2> QED
    BY <2>1, PartedStep
<1>12. ASSUME NEW x \in Workers, CreateGrant(x) PROVE Parted'
  <2>1. \A v \in Workers : Past(v)' => Over(v)
    BY <1>12, GotoRow, EndRow, CompleteRow DEF CreateGrant, Past, Idle, Abortable
  <2> QED
    BY <2>1, PartedStep
<1>13. ASSUME NEW x \in Workers, HarnessSucceeds(x) PROVE Parted'
  <2>1. \A v \in Workers : Past(v)' => Over(v)
    BY <1>13, GotoRow, EndRow, CompleteRow DEF HarnessSucceeds, Past, Idle, Abortable
  <2> QED
    BY <2>1, PartedStep
<1>14. ASSUME NEW x \in Workers, TurnFails(x) PROVE Parted'
  <2>1. \A v \in Workers : Past(v)' => Over(v)
    BY <1>14, GotoRow, EndRow, CompleteRow DEF TurnFails, Past, Idle, Abortable
  <2> QED
    BY <2>1, PartedStep
<1>15. ASSUME NEW x \in Workers, PollCancellation(x) PROVE Parted'
  <2>1. \A v \in Workers : Past(v)' => Over(v)
    BY <1>15, GotoRow, EndRow, CompleteRow DEF PollCancellation, Past, Idle, Abortable
  <2> QED
    BY <2>1, PartedStep
<1>16. ASSUME NEW x \in Workers, CheckCancellation(x) PROVE Parted'
  <2>1. \A v \in Workers : Past(v)' => Over(v)
    BY <1>16, GotoRow, EndRow, CompleteRow DEF CheckCancellation, Past, Idle, Abortable
  <2> QED
    BY <2>1, PartedStep
<1>17. ASSUME NEW x \in Workers, Succeed(x) PROVE Parted'
  <2>1. handler'[x].lease = handler[x].lease /\ SetStatusWithLease(x, "succeeded")
    BY <1>17, EndRow DEF Succeed
  <2>2. ~HeartbeatMatches(x)'
    BY <2>1 DEF SetStatusWithLease, HeartbeatMatches, Holds, TypeOK, RunRow
  <2>3. \A v \in Workers \ {x} : Past(v)' => Over(v)
    BY <1>17, EndRow DEF Succeed, Past
  <2> QED
    BY <2>2, <2>3, PartedStep
<1>18. ASSUME NEW x \in Workers, CancelTurn(x) PROVE Parted'
  <2>1. handler'[x].lease = handler[x].lease /\ SetStatusWithLease(x, "cancelled")
    BY <1>18, EndRow DEF CancelTurn
  <2>2. ~HeartbeatMatches(x)'
    BY <2>1 DEF SetStatusWithLease, HeartbeatMatches, Holds, TypeOK, RunRow
  <2>3. \A v \in Workers \ {x} : Past(v)' => Over(v)
    BY <1>18, EndRow DEF CancelTurn, Past
  <2> QED
    BY <2>2, <2>3, PartedStep
<1>19. ASSUME NEW x \in Workers, FailTurn(x) PROVE Parted'
  <2>1. handler'[x].lease = handler[x].lease /\ SetStatusWithLease(x, "failed")
    BY <1>19, EndRow DEF FailTurn
  <2>2. ~HeartbeatMatches(x)'
    BY <2>1 DEF SetStatusWithLease, HeartbeatMatches, Holds, TypeOK, RunRow
  <2>3. \A v \in Workers \ {x} : Past(v)' => Over(v)
    BY <1>19, EndRow DEF FailTurn, Past
  <2> QED
    BY <2>2, <2>3, PartedStep
<1>20. ASSUME NEW x \in Workers, RecordEnd(x) PROVE Parted'
  <2>1. \A v \in Workers : Past(v)' => Over(v)
    BY <1>20, GotoRow, EndRow, CompleteRow DEF RecordEnd, Past, Idle, Abortable
  <2> QED
    BY <2>1, PartedStep
<1>21. ASSUME NEW x \in Workers, Cleanup(x) PROVE Parted'
  <2>1. \A v \in Workers : Past(v)' => Over(v)
    BY <1>21, GotoRow, EndRow, CompleteRow DEF Cleanup, Past, Idle, Abortable
  <2> QED
    BY <2>1, PartedStep
<1>22. ASSUME NEW x \in Workers, Notify(x) PROVE Parted'
  <2>1. \A v \in Workers : Past(v)' => Over(v)
    BY <1>22, GotoRow, EndRow, CompleteRow DEF Notify, Past, Idle, Abortable
  <2> QED
    BY <2>1, PartedStep
<1>23. ASSUME NEW x \in Workers, AnswerNewMessages(x) PROVE Parted'
  <2>1. \A v \in Workers : Past(v)' => Over(v)
    BY <1>23, GotoRow, EndRow, CompleteRow DEF AnswerNewMessages, Past, Idle, Abortable
  <2> QED
    BY <2>1, PartedStep
<1>24. ASSUME NEW x \in Workers, ReopenAfterTurn(x) PROVE Parted'
  <2>1. \A v \in Workers : Past(v)' => Over(v)
    BY <1>24, GotoRow, EndRow, CompleteRow DEF ReopenAfterTurn, Past, Idle, Abortable
  <2> QED
    BY <2>1, PartedStep
<1>25. ASSUME NEW x \in Workers, LeaveToOthers(x) PROVE Parted'
  <2>1. \A v \in Workers : Past(v)' => Over(v)
    BY <1>25, GotoRow, EndRow, CompleteRow DEF LeaveToOthers, Past, Idle, Abortable
  <2> QED
    BY <2>1, PartedStep
<1>26. ASSUME NEW x \in Workers, RequeueTurn(x) PROVE Parted'
  <2>1. \A v \in Workers : Past(v)' => Over(v)
    BY <1>26, GotoRow, EndRow, CompleteRow DEF RequeueTurn, Past, Idle, Abortable
  <2> QED
    BY <2>1, PartedStep
<1>27. ASSUME NEW x \in Workers, FailUnqueuedTurn(x) PROVE Parted'
  <2>1. \A v \in Workers : Past(v)' => Over(v)
    BY <1>27, GotoRow, EndRow, CompleteRow DEF FailUnqueuedTurn, Past, Idle, Abortable
  <2> QED
    BY <2>1, PartedStep
<1>28. ASSUME NEW x \in Workers, ReleaseLease(x) PROVE Parted'
  <2>1. \A v \in Workers : Past(v)' => Over(v)
    BY <1>28, GotoRow, EndRow, CompleteRow DEF ReleaseLease, Past, Idle, Abortable
  <2> QED
    BY <2>1, PartedStep
<1>29. ASSUME NEW x \in Workers, ReleaseNothing(x) PROVE Parted'
  <2>1. \A v \in Workers : Past(v)' => Over(v)
    BY <1>29, GotoRow, EndRow, CompleteRow DEF ReleaseNothing, Past, Idle, Abortable
  <2> QED
    BY <2>1, PartedStep
<1>30. ASSUME NEW x \in Workers, RequeueHandedBack(x) PROVE Parted'
  <2>1. \A v \in Workers : Past(v)' => Over(v)
    BY <1>30, GotoRow, EndRow, CompleteRow DEF RequeueHandedBack, Past, Idle, Abortable
  <2> QED
    BY <2>1, PartedStep
<1>31. ASSUME NEW x \in Workers, Renew(x) PROVE Parted'
  <2>1. \A v \in Workers : Past(v)' => Over(v)
    BY <1>31 DEF Renew, Past
  <2> QED
    BY <2>1, PartedStep
<1>32. ASSUME NEW x \in Workers, TurnFailsUnread(x) PROVE Parted'
  <2>1. \A v \in Workers : Past(v)' => Over(v)
    BY <1>32, GotoRow, EndRow, CompleteRow DEF TurnFailsUnread, Past, Idle, Abortable
  <2> QED
    BY <2>1, PartedStep
<1>33. ASSUME NEW x \in Workers, HandBack(x) PROVE Parted'
  <2>1. \A v \in Workers : Past(v)' => Over(v)
    BY <1>33, GotoRow, EndRow, CompleteRow DEF HandBack, Past, Idle, Abortable
  <2> QED
    BY <2>1, PartedStep
<1>34. ASSUME NEW x \in Workers, StatusWriteThrows(x) PROVE Parted'
  <2>1. \A v \in Workers \ {x} : Past(v)' => Over(v)
    BY <1>34, GotoRow, EndRow DEF StatusWriteThrows, Past
  <2>2. CASE handler'[x].pc = "cleanup" /\ handler'[x].end = "lost"
    <3>1. handler'[x].lease = handler[x].lease
      BY <1>34, GotoRow, EndRow DEF StatusWriteThrows
    <3>2. ~(run'.lease = handler[x].lease /\ run'.status = "running")
      BY <1>34, <2>2, GotoRow, EndRow DEF StatusWriteThrows
    <3>3. ~HeartbeatMatches(x)'
      BY <3>1, <3>2 DEF HeartbeatMatches, Holds
    <3> QED
      BY <2>1, <3>3, PartedStep
  <2>3. CASE ~(handler'[x].pc = "cleanup" /\ handler'[x].end = "lost")
    <3>1. ~Past(x)'
      BY <1>34, <2>3, GotoRow, EndRow DEF StatusWriteThrows, Past
    <3> QED
      BY <2>1, <3>1, PartedStep
  <2> QED
    BY <2>2, <2>3
<1>35. ASSUME NEW x \in Workers, Crash(x) PROVE Parted'
  <2>1. \A v \in Workers : Past(v)' => Over(v)
    BY <1>35, GotoRow, EndRow, CompleteRow DEF Crash, Past, Idle, Abortable
  <2> QED
    BY <2>1, PartedStep
<1>36. ASSUME NEW x \in Workers, LoseTouch(x) PROVE Parted'
  <2>1. \A v \in Workers : Past(v)' => Over(v)
    BY <1>36 DEF LoseTouch, Past, TypeOK, HandlerRow, Idle
  <2> QED
    BY <2>1, PartedStep
<1>37. ASSUME NEW r \in Requests, RequestStep(r) \/ DropRequest(r) PROVE Parted'
  <2>1. UNCHANGED handler
    BY <1>37 DEF RequestStep, ReplyStep, AddReply, CommitReply, ReopenForReply, FollowUp, SendJob,
       FailUnqueuedRequest, DropRequest
  <2> QED
    BY <2>1, PartedStep DEF Past
<1>38. CASE LeaseExpires \/ RequestCancellation \/ ToggleAutomation \/ Rest \/ UNCHANGED vars
  <2>1. UNCHANGED handler
    BY <1>38 DEF LeaseExpires, RequestCancellation, ToggleAutomation, Rest, vars
  <2> QED
    BY <2>1, PartedStep DEF Past
<1> QED
  BY <1>1, <1>2, <1>3, <1>4, <1>5, <1>6, <1>7, <1>8, <1>9, <1>10, <1>11, <1>12, <1>13,
     <1>14, <1>15, <1>16, <1>17, <1>18, <1>19, <1>20, <1>21, <1>22, <1>23, <1>24, <1>25,
     <1>26, <1>27, <1>28, <1>29, <1>30, <1>31, <1>32, <1>33, <1>34, <1>35, <1>36, <1>37,
     <1>38
     DEF Next, HandlerStep, ClaimStep, TurnStep, AfterStep, TroubleStep

Queued == \E k \in 0..RetryLimit : ready[k] > 0

\* The handler will wait for the lease, or its turn has the lease.
Works(w) ==
  \/ handler[w].pc \in {"claim", "look", "sleep"}
  \/ handler[w].pc \notin Unclaimed /\ Holds(w)

\* A live lease of a running run has a holder, or someone who comes for it.
Manned ==
  Spared({"drop", "stall"}) /\ run.status = "running" /\ run.live =>
    Queued \/ \E w \in Workers : Works(w)

\* The handler is one of those that Attended counts.
Serves(w) ==
  \/ handler[w].pc \in {"claim", "look", "sleep", "reclaim", "requeue", "undo", "handback"}
  \/ handler[w].pc # "idle" /\ Holds(w)

\* So is the request.
Sends(r) == request[r].pc \in {"sending", "undo"}

\* The queue is willing to retry a job for all the trouble of the budget.
Patient == Budget["crash"] + Budget["fault"] <= RetryLimit

\* Attended, in these words.
LEMMA AttendedBy ==
  Attended <=> Queued \/ (\E w \in Workers : Serves(w)) \/ (\E r \in Requests : Sends(r))
BY DEF Attended, Queued, Serves, Sends

\* The first job waits for a worker.
LEMMA MannedInit == Init => Manned /\ NoStrandedRun
BY AutomationRunAssumption DEF Init, Manned, NoStrandedRun, Attended

\* A job that was failed for trouble is queued again.
LEMMA Requeues ==
  ASSUME TypeOK, TypeOK', Held, Patient, [Next]_vars, NEW x \in Workers,
         handler[x].owned, handler[x].tries < Met', Retry(x)
  PROVE  Queued'
<1>1. /\ Met' \in Nat /\ Met' <= Budget["crash"] + Budget["fault"] /\ handler[x].tries \in Nat
      /\ RetryLimit \in Nat /\ Budget["crash"] \in Nat /\ Budget["fault"] \in Nat
  BY MetGrows, TriesNat, AutomationRunAssumption DEF Limits, TroubleKinds
<1>2. handler[x].tries < RetryLimit
  BY <1>1 DEF Patient
<1> QED
  BY <1>2, RetryJobs DEF Queued

\* Jobs that are sent or retried take none from the queue.
LEMMA QueueGrows ==
  ASSUME TypeOK, UNCHANGED ready \/ Send \/ \E x \in Workers : Retry(x)
  PROVE  /\ Queued => Queued'
         /\ Send => Queued'
<1>1. UNCHANGED ready \/ \A k \in 0..RetryLimit : ready'[k] >= ready[k]
  BY SendJobs, RetryJobs
<1>2. \A k \in 0..RetryLimit : ready[k] \in Nat
  BY DEF TypeOK
<1>3. TypeOK /\ Send => Queued'
  BY SendJobs DEF Queued
<1>4. Queued => Queued'
  <2>1. CASE UNCHANGED ready
    BY <2>1 DEF Queued
  <2>2. CASE \A k \in 0..RetryLimit : ready'[k] >= ready[k]
    <3> SUFFICES ASSUME NEW k \in 0..RetryLimit, ready[k] > 0, ready' \in [0..RetryLimit -> Int]
                 PROVE  Queued'
      BY <1>2, SendType, RetryType DEF Queued, TypeOK
    <3> QED
      BY <1>2, <2>2 DEF Queued
  <2> QED
    BY <1>1, <2>1, <2>2
<1> QED
  BY <1>3, <1>4

\* The row names the same lease, is as it was, and is alive only if it was, or
\* if worker x holds it.
RowStays(x) ==
  /\ run'.status = run.status /\ run'.lease = run.lease
  /\ run'.live => run.live \/ Works(x)'

Replaced(x) == Queued' \/ \E w \in Workers \ {x} : Works(w)

\* Worker x goes on with the run, or leaves it to another.
Relays(x) ==
  /\ \A w \in Workers \ {x} : handler'[w] = handler[w]
  /\ UNCHANGED request
  /\ Queued => Queued' \/ (Serves(x)' /\ Works(x)')
  /\ run.status \in Active /\ Serves(x) => Serves(x)' \/ Replaced(x)
  /\ run.status = "running" /\ run'.live /\ Works(x) => Works(x)' \/ Replaced(x)

\* Such a step leaves the run attended.
LEMMA RelayStep ==
  ASSUME TypeOK, Held, Manned, NoStrandedRun, [Next]_vars, NEW x \in Workers, RowStays(x),
         Spared({"drop", "stall"}) /\ Spared({"drop", "stall"})' => Relays(x)
  PROVE  Manned' /\ NoStrandedRun'
<1>1. SUFFICES ASSUME Spared({"drop", "stall"})'
               PROVE  /\ run'.status = "running" /\ run'.live => Queued' \/ \E w \in Workers : Works(w)'
                      /\ run'.status \in Active => Attended'
  BY DEF Manned, NoStrandedRun, Spared
<1>2. Spared({"drop", "stall"}) /\ Relays(x)
  BY <1>1, SparedBefore DEF TroubleKinds
<1>3. \A w \in Workers \ {x} : /\ Works(w)' <=> Works(w)
                               /\ Serves(w)' <=> Serves(w)
                               /\ Works(w) => Serves(w)
  BY <1>2 DEF Relays, RowStays, Works, Serves, Holds, Unclaimed
<1>4. ASSUME run'.status = "running", run'.live PROVE Queued' \/ \E w \in Workers : Works(w)'
  <2>1. CASE Works(x)'
    BY <2>1
  <2>2. CASE ~Works(x)'
    <3>1. Queued \/ \E w \in Workers : Works(w)
      BY <1>2, <1>4, <2>2 DEF RowStays, Manned
    <3> QED
      BY <1>2, <1>3, <1>4, <2>2, <3>1 DEF Relays, RowStays, Replaced
  <2> QED
    BY <2>1, <2>2
<1>5. ASSUME run'.status \in Active PROVE Attended'
  <2>1. Queued \/ (\E w \in Workers : Serves(w)) \/ (\E r \in Requests : Sends(r))
    BY <1>2, <1>5, AttendedBy DEF RowStays, NoStrandedRun
  <2>2. Queued' \/ (\E w \in Workers : Serves(w)') \/ (\E r \in Requests : Sends(r)')
    BY <1>2, <1>3, <1>5, <2>1 DEF Relays, RowStays, Replaced, Sends
  <2> QED
    BY <2>2 DEF Attended, Queued, Serves, Sends
<1> QED
  BY <1>4, <1>5

\* A run that ended needs no one.
LEMMA NeedsNone ==
  ASSUME run'.status \notin Active
  PROVE  Manned' /\ NoStrandedRun'
BY DEF Manned, NoStrandedRun, Active

\* One whose lease is not live needs someone to carry it on.
LEMMA NeedsOne ==
  ASSUME ~run'.live, Attended'
  PROVE  Manned' /\ NoStrandedRun'
BY DEF Manned, NoStrandedRun

\* A handler whose turn is over, or that lost its lease, may leave.
LEMMA MayLeave ==
  ASSUME TypeOK, LeaseInv, NEW x \in Workers, ~HeartbeatMatches(x), run.status \in Active,
         handler[x].pc \notin Unclaimed
  PROVE  ~Holds(x) /\ ~Works(x)
BY DEF HeartbeatMatches, Holds, LeaseInv, Active, Works, Unclaimed

\* A step of no worker leaves the run attended if the requests do.
LEMMA MannedFrame ==
  ASSUME TypeOK, Held, Manned, NoStrandedRun, [Next]_vars, UNCHANGED handler,
         run'.status = run.status, run'.lease = run.lease, run'.live => run.live,
         Queued => Queued',
         Spared({"drop", "stall"})' /\ (\E r \in Requests : Sends(r)) =>
           Queued' \/ \E r \in Requests : Sends(r)'
  PROVE  Manned' /\ NoStrandedRun'
<1>1. SUFFICES ASSUME Spared({"drop", "stall"})'
               PROVE  /\ run'.status = "running" /\ run'.live => Queued' \/ \E w \in Workers : Works(w)'
                      /\ run'.status \in Active => Attended'
  BY DEF Manned, NoStrandedRun, Spared
<1>2. Spared({"drop", "stall"})
  BY <1>1, SparedBefore DEF TroubleKinds
<1>3. \A w \in Workers : /\ Works(w)' <=> Works(w)
                         /\ Serves(w)' <=> Serves(w)
  BY DEF Works, Serves, Holds
<1>4. run'.status = "running" /\ run'.live => Queued' \/ \E w \in Workers : Works(w)'
  BY <1>2, <1>3 DEF Manned
<1>5. ASSUME run'.status \in Active PROVE Attended'
  <2>1. Queued \/ (\E w \in Workers : Serves(w)) \/ (\E r \in Requests : Sends(r))
    BY <1>2, <1>5, AttendedBy DEF NoStrandedRun
  <2>2. Queued' \/ (\E w \in Workers : Serves(w)') \/ (\E r \in Requests : Sends(r)')
    BY <1>1, <1>3, <2>1
  <2> QED
    BY <2>2 DEF Attended, Queued, Serves, Sends
<1> QED
  BY <1>4, <1>5

\* Every step leaves a pending or running run attended.
LEMMA MannedNext ==
  ASSUME TypeOK, TypeOK', Held, LeaseInv, Tried, Parted, Manned, NoStrandedRun, Patient, [Next]_vars
  PROVE  Manned' /\ NoStrandedRun'
<1> DEFINE Goal == Manned' /\ NoStrandedRun' 
<1>1. ASSUME NEW x \in Workers, LoadConfiguration(x) PROVE Goal
  <2>1. RowStays(x)
    BY <1>1 DEF LoadConfiguration, row, RowStays
  <2>2. ASSUME Spared({"drop", "stall"}), Spared({"drop", "stall"})' PROVE Relays(x)
    <3>1. /\ \A w \in Workers \ {x} : handler'[w] = handler[w]
          /\ handler'[x].lease = handler[x].lease
          /\ handler'[x].pc \notin Unclaimed
          /\ handler[x].pc \notin Unclaimed \cup {"requeue", "undo", "handback"}
      BY <1>1, GotoRow, EndRow DEF LoadConfiguration, Abortable, Unclaimed
    <3>2. UNCHANGED <<request, ready>>
      BY <1>1 DEF LoadConfiguration
    <3> QED
      BY <2>1, <3>1, <3>2 DEF Relays, RowStays, Serves, Works, Holds, Queued, Unclaimed
  <2> QED
    BY <2>1, <2>2, RelayStep
<1>2. ASSUME NEW x \in Workers, LoseLease(x) PROVE Goal
  <2>1. RowStays(x)
    BY <1>2 DEF LoseLease, row, RowStays
  <2>2. ASSUME Spared({"drop", "stall"}), Spared({"drop", "stall"})' PROVE Relays(x)
    <3>1. /\ \A w \in Workers \ {x} : handler'[w] = handler[w]
          /\ handler'[x].lease = handler[x].lease
          /\ handler'[x].pc \notin Unclaimed
          /\ handler[x].pc \notin Unclaimed \cup {"requeue", "undo", "handback"}
      BY <1>2, GotoRow, EndRow DEF LoseLease, Abortable, Unclaimed
    <3>2. UNCHANGED <<request, ready>>
      BY <1>2 DEF LoseLease
    <3> QED
      BY <2>1, <3>1, <3>2 DEF Relays, RowStays, Serves, Works, Holds, Queued, Unclaimed
  <2> QED
    BY <2>1, <2>2, RelayStep
<1>3. ASSUME NEW x \in Workers, ReadConversation(x) PROVE Goal
  <2>1. RowStays(x)
    BY <1>3 DEF ReadConversation, row, RowStays
  <2>2. ASSUME Spared({"drop", "stall"}), Spared({"drop", "stall"})' PROVE Relays(x)
    <3>1. /\ \A w \in Workers \ {x} : handler'[w] = handler[w]
          /\ handler'[x].lease = handler[x].lease
          /\ handler'[x].pc \notin Unclaimed
          /\ handler[x].pc \notin Unclaimed \cup {"requeue", "undo", "handback"}
      BY <1>3 DEF ReadConversation, Abortable, Unclaimed, TypeOK, HandlerRow
    <3>2. UNCHANGED <<request, ready>>
      BY <1>3 DEF ReadConversation
    <3> QED
      BY <2>1, <3>1, <3>2 DEF Relays, RowStays, Serves, Works, Holds, Queued, Unclaimed
  <2> QED
    BY <2>1, <2>2, RelayStep
<1>4. ASSUME NEW x \in Workers, CreateGrant(x) PROVE Goal
  <2>1. RowStays(x)
    BY <1>4 DEF CreateGrant, row, RowStays
  <2>2. ASSUME Spared({"drop", "stall"}), Spared({"drop", "stall"})' PROVE Relays(x)
    <3>1. /\ \A w \in Workers \ {x} : handler'[w] = handler[w]
          /\ handler'[x].lease = handler[x].lease
          /\ handler'[x].pc \notin Unclaimed
          /\ handler[x].pc \notin Unclaimed \cup {"requeue", "undo", "handback"}
      BY <1>4, GotoRow, EndRow DEF CreateGrant, Abortable, Unclaimed
    <3>2. UNCHANGED <<request, ready>>
      BY <1>4 DEF CreateGrant
    <3> QED
      BY <2>1, <3>1, <3>2 DEF Relays, RowStays, Serves, Works, Holds, Queued, Unclaimed
  <2> QED
    BY <2>1, <2>2, RelayStep
<1>5. ASSUME NEW x \in Workers, HarnessSucceeds(x) PROVE Goal
  <2>1. RowStays(x)
    BY <1>5 DEF HarnessSucceeds, row, RowStays
  <2>2. ASSUME Spared({"drop", "stall"}), Spared({"drop", "stall"})' PROVE Relays(x)
    <3>1. /\ \A w \in Workers \ {x} : handler'[w] = handler[w]
          /\ handler'[x].lease = handler[x].lease
          /\ handler'[x].pc \notin Unclaimed
          /\ handler[x].pc \notin Unclaimed \cup {"requeue", "undo", "handback"}
      BY <1>5, GotoRow, EndRow DEF HarnessSucceeds, Abortable, Unclaimed
    <3>2. UNCHANGED <<request, ready>>
      BY <1>5 DEF HarnessSucceeds
    <3> QED
      BY <2>1, <3>1, <3>2 DEF Relays, RowStays, Serves, Works, Holds, Queued, Unclaimed
  <2> QED
    BY <2>1, <2>2, RelayStep
<1>6. ASSUME NEW x \in Workers, TurnFails(x) PROVE Goal
  <2>1. RowStays(x)
    BY <1>6 DEF TurnFails, row, RowStays
  <2>2. ASSUME Spared({"drop", "stall"}), Spared({"drop", "stall"})' PROVE Relays(x)
    <3>1. /\ \A w \in Workers \ {x} : handler'[w] = handler[w]
          /\ handler'[x].lease = handler[x].lease
          /\ handler'[x].pc \notin Unclaimed
          /\ handler[x].pc \notin Unclaimed \cup {"requeue", "undo", "handback"}
      BY <1>6, GotoRow, EndRow DEF TurnFails, Abortable, Unclaimed
    <3>2. UNCHANGED <<request, ready>>
      BY <1>6 DEF TurnFails
    <3> QED
      BY <2>1, <3>1, <3>2 DEF Relays, RowStays, Serves, Works, Holds, Queued, Unclaimed
  <2> QED
    BY <2>1, <2>2, RelayStep
<1>7. ASSUME NEW x \in Workers, PollCancellation(x) PROVE Goal
  <2>1. RowStays(x)
    BY <1>7 DEF PollCancellation, row, RowStays
  <2>2. ASSUME Spared({"drop", "stall"}), Spared({"drop", "stall"})' PROVE Relays(x)
    <3>1. /\ \A w \in Workers \ {x} : handler'[w] = handler[w]
          /\ handler'[x].lease = handler[x].lease
          /\ handler'[x].pc \notin Unclaimed
          /\ handler[x].pc \notin Unclaimed \cup {"requeue", "undo", "handback"}
      BY <1>7, GotoRow, EndRow DEF PollCancellation, Abortable, Unclaimed
    <3>2. UNCHANGED <<request, ready>>
      BY <1>7 DEF PollCancellation
    <3> QED
      BY <2>1, <3>1, <3>2 DEF Relays, RowStays, Serves, Works, Holds, Queued, Unclaimed
  <2> QED
    BY <2>1, <2>2, RelayStep
<1>8. ASSUME NEW x \in Workers, CheckCancellation(x) PROVE Goal
  <2>1. RowStays(x)
    BY <1>8 DEF CheckCancellation, row, RowStays
  <2>2. ASSUME Spared({"drop", "stall"}), Spared({"drop", "stall"})' PROVE Relays(x)
    <3>1. /\ \A w \in Workers \ {x} : handler'[w] = handler[w]
          /\ handler'[x].lease = handler[x].lease
          /\ handler'[x].pc \notin Unclaimed
          /\ handler[x].pc \notin Unclaimed \cup {"requeue", "undo", "handback"}
      BY <1>8, GotoRow, EndRow DEF CheckCancellation, Abortable, Unclaimed
    <3>2. UNCHANGED <<request, ready>>
      BY <1>8 DEF CheckCancellation
    <3> QED
      BY <2>1, <3>1, <3>2 DEF Relays, RowStays, Serves, Works, Holds, Queued, Unclaimed
  <2> QED
    BY <2>1, <2>2, RelayStep
<1>9. ASSUME NEW x \in Workers, RecordEnd(x) PROVE Goal
  <2>1. RowStays(x)
    BY <1>9 DEF RecordEnd, row, RowStays
  <2>2. ASSUME Spared({"drop", "stall"}), Spared({"drop", "stall"})' PROVE Relays(x)
    <3>1. /\ \A w \in Workers \ {x} : handler'[w] = handler[w]
          /\ handler'[x].lease = handler[x].lease
          /\ handler'[x].pc \notin Unclaimed
          /\ handler[x].pc \notin Unclaimed \cup {"requeue", "undo", "handback"}
      BY <1>9, GotoRow, EndRow DEF RecordEnd, Abortable, Unclaimed
    <3>2. UNCHANGED <<request, ready>>
      BY <1>9 DEF RecordEnd
    <3> QED
      BY <2>1, <3>1, <3>2 DEF Relays, RowStays, Serves, Works, Holds, Queued, Unclaimed
  <2> QED
    BY <2>1, <2>2, RelayStep
<1>10. ASSUME NEW x \in Workers, TurnFailsUnread(x) PROVE Goal
  <2>1. RowStays(x)
    BY <1>10 DEF TurnFailsUnread, row, RowStays
  <2>2. ASSUME Spared({"drop", "stall"}), Spared({"drop", "stall"})' PROVE Relays(x)
    <3>1. /\ \A w \in Workers \ {x} : handler'[w] = handler[w]
          /\ handler'[x].lease = handler[x].lease
          /\ handler'[x].pc \notin Unclaimed
          /\ handler[x].pc \notin Unclaimed \cup {"requeue", "undo", "handback"}
      BY <1>10, GotoRow, EndRow DEF TurnFailsUnread, Abortable, Unclaimed
    <3>2. UNCHANGED <<request, ready>>
      BY <1>10 DEF TurnFailsUnread
    <3> QED
      BY <2>1, <3>1, <3>2 DEF Relays, RowStays, Serves, Works, Holds, Queued, Unclaimed
  <2> QED
    BY <2>1, <2>2, RelayStep
<1>11. ASSUME NEW x \in Workers, HandBack(x) PROVE Goal
  <2>1. RowStays(x)
    BY <1>11 DEF HandBack, row, RowStays
  <2>2. ASSUME Spared({"drop", "stall"}), Spared({"drop", "stall"})' PROVE Relays(x)
    <3>1. /\ \A w \in Workers \ {x} : handler'[w] = handler[w]
          /\ handler'[x].lease = handler[x].lease
          /\ handler'[x].pc \notin Unclaimed
          /\ handler[x].pc \notin Unclaimed \cup {"requeue", "undo", "handback"}
      BY <1>11, GotoRow, EndRow DEF HandBack, Abortable, Unclaimed
    <3>2. UNCHANGED <<request, ready>>
      BY <1>11 DEF HandBack
    <3> QED
      BY <2>1, <3>1, <3>2 DEF Relays, RowStays, Serves, Works, Holds, Queued, Unclaimed
  <2> QED
    BY <2>1, <2>2, RelayStep
<1>12. ASSUME NEW x \in Workers, StartTurn(x) PROVE Goal
  <2>0. /\ \A w \in Workers \ {x} : handler'[w] = handler[w]
        /\ handler'[x].lease = handler[x].lease /\ handler'[x].pc \in {"cancel", "read"}
    BY <1>12, GotoRow DEF StartTurn
  <2>1. RowStays(x) /\ Works(x)' /\ Serves(x)'
    BY <1>12, <2>0 DEF StartTurn, HeartbeatMatches, Holds, RowStays, Works, Serves,
       Unclaimed, TypeOK, RunRow
  <2>2. Relays(x)
    BY <1>12, <2>0, <2>1 DEF StartTurn, Relays
  <2> QED
    BY <2>1, <2>2, RelayStep
<1>13. ASSUME NEW x \in Workers, Renew(x) PROVE Goal
  <2>1. /\ run'.status = run.status /\ run'.lease = run.lease /\ UNCHANGED <<handler, request, ready>>
    BY <1>13 DEF Renew, TypeOK, RunRow
  <2>2. handler[x].pc \notin Unclaimed /\ Holds(x)
    BY <1>13 DEF Renew, HeartbeatMatches, InTurn, Unclaimed
  <2>3. RowStays(x) /\ Relays(x)
    BY <2>1, <2>2 DEF RowStays, Relays, Works, Serves, Holds, Unclaimed
  <2> QED
    BY <2>3, RelayStep
<1>14. ASSUME NEW x \in Workers, Fetch(x) PROVE Goal
  <2>1. RowStays(x)
    BY <1>14 DEF Fetch, row, RowStays
  <2>2. Relays(x)
    <3>1. /\ \A w \in Workers \ {x} : handler'[w] = handler[w]
          /\ handler'[x].pc = "claim" /\ UNCHANGED request
      BY <1>14 DEF Fetch, TypeOK, HandlerRow, Idle
    <3> QED
      BY <3>1 DEF Relays, Serves, Works
  <2> QED
    BY <2>1, <2>2, RelayStep
<1>15. ASSUME NEW x \in Workers, Claim(x) PROVE Goal
  <2>1. /\ handler'[x].lease = run'.lease /\ handler'[x].pc \in {"config", "reconfig"}
    BY <1>15 DEF Claim, TypeOK, HandlerRow, RunRow
  <2>2. Works(x)' /\ Serves(x)'
    BY <2>1 DEF Works, Serves, Holds, Unclaimed
  <2> QED
    BY <2>2 DEF Manned, NoStrandedRun, Attended, Serves
<1>16. ASSUME NEW x \in Workers, ClaimNothing(x) PROVE Goal
  <2>1. RowStays(x)
    BY <1>16 DEF ClaimNothing, row, RowStays
  <2>2. Relays(x)
    <3>1. /\ \A w \in Workers \ {x} : handler'[w] = handler[w]
          /\ handler'[x].pc = "look" /\ UNCHANGED <<request, ready>>
      BY <1>16, GotoRow DEF ClaimNothing
    <3> QED
      BY <3>1 DEF Relays, Serves, Works, Queued
  <2> QED
    BY <2>1, <2>2, RelayStep
<1>17. ASSUME NEW x \in Workers, LookAtLease(x) PROVE Goal
  <2>1. RowStays(x)
    BY <1>17 DEF LookAtLease, row, RowStays
  <2>2. Relays(x)
    <3>1. /\ \A w \in Workers \ {x} : handler'[w] = handler[w]
          /\ handler'[x].pc \in {"sleep", "reclaim"} /\ UNCHANGED <<run, request, ready>>
          /\ run.status = "running" /\ run.live => handler'[x].pc = "sleep"
      BY <1>17, GotoRow DEF LookAtLease, row
    <3> QED
      BY <3>1 DEF Relays, Serves, Works, Queued
  <2> QED
    BY <2>1, <2>2, RelayStep
<1>18. ASSUME NEW x \in Workers, Wake(x) PROVE Goal
  <2>1. RowStays(x)
    BY <1>18 DEF Wake, row, RowStays
  <2>2. Relays(x)
    <3>1. /\ \A w \in Workers \ {x} : handler'[w] = handler[w]
          /\ handler'[x].pc = "reclaim" /\ UNCHANGED <<run, request, ready>>
      BY <1>18, GotoRow DEF Wake, row
    <3>2. run.live => \E v \in Workers \ {x} : Works(v)
      BY <1>18 DEF Wake, Beating, InTurn, Works, Holds, Unclaimed
    <3> QED
      BY <3>1, <3>2 DEF Relays, Replaced, Serves, Queued
  <2> QED
    BY <2>1, <2>2, RelayStep
<1>19. ASSUME NEW x \in Workers, ReclaimNothing(x) PROVE Goal
  <2>1. RowStays(x)
    BY <1>19 DEF ReclaimNothing, row, RowStays
  <2>2. ASSUME Spared({"drop", "stall"}), Spared({"drop", "stall"})' PROVE Relays(x)
    <3>1. /\ \A w \in Workers \ {x} : handler'[w] = handler[w]
          /\ UNCHANGED <<run, request, ready>>
      BY <1>19, CompleteRow DEF ReclaimNothing, row
    <3>2. ~Works(x)
      BY <1>19 DEF ReclaimNothing, Works, Unclaimed
    <3>3. run.status \in Active => run.status = "running" /\ run.live
      BY <1>19 DEF ReclaimNothing, Claimable, Active
    <3>4. run.status \in Active => Replaced(x)
      BY <2>2, <3>1, <3>2, <3>3 DEF Manned, Replaced, Queued
    <3> QED
      BY <3>1, <3>2, <3>4 DEF Relays, Queued
  <2> QED
    BY <2>1, <2>2, RelayStep
<1>20. ASSUME NEW x \in Workers, ConfigurationUnavailable(x) PROVE Goal
  <2>1. CASE Holds(x)
    <3>1. run'.status = "failed"
      BY <1>20, <2>1 DEF ConfigurationUnavailable, SetStatusWithLease, TypeOK, RunRow
    <3> QED
      BY <3>1, NeedsNone DEF Active
  <2>2. CASE ~Holds(x)
    <3>1. /\ \A w \in Workers \ {x} : handler'[w] = handler[w]
          /\ UNCHANGED <<run, request, ready>>
      BY <1>20, <2>2 DEF ConfigurationUnavailable, SetStatusWithLease, TypeOK
    <3>2. ~Works(x) /\ ~Serves(x)
      BY <1>20, <2>2 DEF ConfigurationUnavailable, Works, Serves
    <3>3. RowStays(x) /\ Relays(x)
      BY <3>1, <3>2 DEF RowStays, Relays, Queued
    <3> QED
      BY <3>3, RelayStep
  <2> QED
    BY <2>1, <2>2
<1>21. ASSUME NEW x \in Workers, Succeed(x) PROVE Goal
  <2>1. CASE Holds(x)
    <3>1. run'.status = "succeeded"
      BY <1>21, <2>1 DEF Succeed, SetStatusWithLease, TypeOK, RunRow
    <3> QED
      BY <3>1, NeedsNone DEF Active
  <2>2. CASE ~Holds(x)
    <3>1. /\ \A w \in Workers \ {x} : handler'[w] = handler[w]
          /\ UNCHANGED <<run, request, ready>>
      BY <1>21, <2>2, EndRow DEF Succeed, SetStatusWithLease
    <3>2. ~Works(x) /\ ~Serves(x)
      BY <1>21, <2>2 DEF Succeed, Works, Serves
    <3>3. RowStays(x) /\ Relays(x)
      BY <3>1, <3>2 DEF RowStays, Relays, Queued
    <3> QED
      BY <3>3, RelayStep
  <2> QED
    BY <2>1, <2>2
<1>22. ASSUME NEW x \in Workers, CancelTurn(x) PROVE Goal
  <2>1. CASE Holds(x)
    <3>1. run'.status = "cancelled"
      BY <1>22, <2>1 DEF CancelTurn, SetStatusWithLease, TypeOK, RunRow
    <3> QED
      BY <3>1, NeedsNone DEF Active
  <2>2. CASE ~Holds(x)
    <3>1. /\ \A w \in Workers \ {x} : handler'[w] = handler[w]
          /\ UNCHANGED <<run, request, ready>>
      BY <1>22, <2>2, EndRow DEF CancelTurn, SetStatusWithLease
    <3>2. ~Works(x) /\ ~Serves(x)
      BY <1>22, <2>2 DEF CancelTurn, Works, Serves
    <3>3. RowStays(x) /\ Relays(x)
      BY <3>1, <3>2 DEF RowStays, Relays, Queued
    <3> QED
      BY <3>3, RelayStep
  <2> QED
    BY <2>1, <2>2
<1>23. ASSUME NEW x \in Workers, FailTurn(x) PROVE Goal
  <2>1. CASE Holds(x)
    <3>1. run'.status = "failed"
      BY <1>23, <2>1 DEF FailTurn, SetStatusWithLease, TypeOK, RunRow
    <3> QED
      BY <3>1, NeedsNone DEF Active
  <2>2. CASE ~Holds(x)
    <3>1. /\ \A w \in Workers \ {x} : handler'[w] = handler[w]
          /\ UNCHANGED <<run, request, ready>>
      BY <1>23, <2>2, EndRow DEF FailTurn, SetStatusWithLease
    <3>2. ~Works(x) /\ ~Serves(x)
      BY <1>23, <2>2 DEF FailTurn, Works, Serves
    <3>3. RowStays(x) /\ Relays(x)
      BY <3>1, <3>2 DEF RowStays, Relays, Queued
    <3> QED
      BY <3>3, RelayStep
  <2> QED
    BY <2>1, <2>2
<1>24. ASSUME NEW x \in Workers, StatusWriteThrows(x) PROVE Goal
  <2>1. CASE UNCHANGED run
    <3>1. /\ \A w \in Workers \ {x} : handler'[w] = handler[w]
          /\ handler'[x].lease = handler[x].lease
          /\ handler'[x].pc \notin Unclaimed
          /\ handler[x].pc \notin Unclaimed \cup {"requeue", "undo", "handback"}
      BY <1>24, GotoRow, EndRow DEF StatusWriteThrows, Unclaimed
    <3>2. UNCHANGED <<request, ready>>
      BY <1>24 DEF StatusWriteThrows
    <3>3. RowStays(x) /\ Relays(x)
      BY <2>1, <3>1, <3>2 DEF Relays, RowStays, Serves, Works, Holds, Queued, Unclaimed
    <3> QED
      BY <3>3, RelayStep
  <2>2. CASE run' # run
    <3>1. run'.status \in Terminal
      BY <1>24, <2>2 DEF StatusWriteThrows, SetStatusWithLease, TypeOK, RunRow, Terminal
    <3> QED
      BY <3>1, NeedsNone DEF Terminal, Active
  <2> QED
    BY <2>1, <2>2
<1>25. ASSUME NEW x \in Workers, Cleanup(x) PROVE Goal
  <2>1. RowStays(x)
    BY <1>25 DEF Cleanup, row, RowStays
  <2>2. ASSUME Spared({"drop", "stall"}), Spared({"drop", "stall"})' PROVE Relays(x)
    <3>1. /\ \A w \in Workers \ {x} : handler'[w] = handler[w]
          /\ handler[x].pc \notin Unclaimed \cup {"requeue", "undo", "handback"}
          /\ UNCHANGED request
      BY <1>25, EndRow, CompleteRow DEF Cleanup, Unclaimed
    <3>2. CASE handler[x].end \in {"succeeded", "failed", "handedback"}
      <4>1. /\ handler'[x].lease = handler[x].lease /\ handler'[x].pc \notin Unclaimed
            /\ UNCHANGED ready
        BY <1>25, <3>2, EndRow DEF Cleanup, Unclaimed
      <4> QED
        BY <2>1, <3>1, <4>1 DEF Relays, RowStays, Serves, Works, Holds, Queued, Unclaimed
    <3>3. CASE handler[x].end = "error"
      <4>1. handler[x].pc = "cleanup" /\ Retry(x) /\ Spared({"stall"})
        BY <1>25, <2>2, <3>3 DEF Cleanup, Spared
      <4>2. Queued'
        BY <3>3, <4>1, FailsForTrouble, Requeues
      <4> QED
        BY <3>1, <4>2 DEF Relays, Replaced
    <3>4. CASE handler[x].end \in {"cancelled", "lost"}
      <4>1. ~HeartbeatMatches(x) /\ UNCHANGED ready
        BY <1>25, <3>4 DEF Cleanup, Parted, Past
      <4>2. run.status \in Active => ~Works(x) /\ ~Serves(x)
        BY <3>1, <4>1, MayLeave DEF Serves, Unclaimed
      <4> QED
        BY <3>1, <4>1, <4>2 DEF Relays, Queued, Active
    <3> QED
      BY <1>25, <3>2, <3>3, <3>4 DEF Cleanup
  <2> QED
    BY <2>1, <2>2, RelayStep
<1>26. ASSUME NEW x \in Workers, Notify(x) PROVE Goal
  <2>1. RowStays(x)
    BY <1>26 DEF Notify, row, RowStays
  <2>2. ASSUME Spared({"drop", "stall"}), Spared({"drop", "stall"})' PROVE Relays(x)
    <3>1. /\ \A w \in Workers \ {x} : handler'[w] = handler[w]
          /\ handler[x].pc \notin Unclaimed \cup {"requeue", "undo", "handback"}
          /\ UNCHANGED request
      BY <1>26, GotoRow, CompleteRow DEF Notify, Unclaimed
    <3>2. ~HeartbeatMatches(x) /\ UNCHANGED ready
      BY <1>26 DEF Notify, Parted, Past
    <3>3. run.status \in Active => ~Works(x) /\ ~Serves(x)
      BY <3>1, <3>2, MayLeave DEF Serves, Unclaimed
    <3> QED
      BY <3>1, <3>2, <3>3 DEF Relays, Queued, Active
  <2> QED
    BY <2>1, <2>2, RelayStep
<1>27. ASSUME NEW x \in Workers, AnswerNewMessages(x) PROVE Goal
  <2>1. RowStays(x)
    BY <1>27 DEF AnswerNewMessages, row, RowStays
  <2>2. ASSUME Spared({"drop", "stall"}), Spared({"drop", "stall"})' PROVE Relays(x)
    <3>1. /\ \A w \in Workers \ {x} : handler'[w] = handler[w]
          /\ handler[x].pc \notin Unclaimed \cup {"requeue", "undo", "handback"}
          /\ UNCHANGED request
      BY <1>27, GotoRow, CompleteRow DEF AnswerNewMessages, Unclaimed
    <3>2. ~HeartbeatMatches(x) /\ UNCHANGED ready
      BY <1>27 DEF AnswerNewMessages, Parted, Past
    <3>3. run.status \in Active => ~Works(x) /\ ~Serves(x)
      BY <3>1, <3>2, MayLeave DEF Serves, Unclaimed
    <3> QED
      BY <3>1, <3>2, <3>3 DEF Relays, Queued, Active
  <2> QED
    BY <2>1, <2>2, RelayStep
<1>28. ASSUME NEW x \in Workers, LeaveToOthers(x) PROVE Goal
  <2>1. RowStays(x)
    BY <1>28 DEF LeaveToOthers, row, RowStays
  <2>2. ASSUME Spared({"drop", "stall"}), Spared({"drop", "stall"})' PROVE Relays(x)
    <3>1. /\ \A w \in Workers \ {x} : handler'[w] = handler[w]
          /\ handler[x].pc \notin Unclaimed \cup {"requeue", "undo", "handback"}
          /\ UNCHANGED request
      BY <1>28, GotoRow, CompleteRow DEF LeaveToOthers, Unclaimed
    <3>2. ~HeartbeatMatches(x) /\ UNCHANGED ready
      BY <1>28 DEF LeaveToOthers, Parted, Past
    <3>3. run.status \in Active => ~Works(x) /\ ~Serves(x)
      BY <3>1, <3>2, MayLeave DEF Serves, Unclaimed
    <3> QED
      BY <3>1, <3>2, <3>3 DEF Relays, Queued, Active
  <2> QED
    BY <2>1, <2>2, RelayStep
<1>29. ASSUME NEW x \in Workers, ReopenAfterTurn(x) PROVE Goal
  <2>1. ~run'.live /\ handler'[x].pc = "requeue"
    BY <1>29, GotoRow DEF ReopenAfterTurn, Reopened
  <2> QED
    BY <2>1, NeedsOne DEF Attended
<1>30. ASSUME NEW x \in Workers, RequeueTurn(x) PROVE Goal
  <2>1. RowStays(x)
    BY <1>30 DEF RequeueTurn, row, RowStays
  <2>2. ASSUME Spared({"drop", "stall"}), Spared({"drop", "stall"})' PROVE Relays(x)
    <3>1. (\A w \in Workers \ {x} : handler'[w] = handler[w]) /\ UNCHANGED request
      BY <1>30, GotoRow, CompleteRow DEF RequeueTurn
    <3>2. CASE Send
      BY <3>1, <3>2, QueueGrows DEF Relays, Replaced
    <3>3. CASE Goto(x, "undo") /\ UNCHANGED ready
      <4>1. handler'[x].pc = "undo" /\ handler'[x].lease = handler[x].lease /\ handler[x].pc = "requeue"
        BY <1>30, <3>3, GotoRow DEF RequeueTurn
      <4> QED
        BY <2>1, <3>1, <3>3, <4>1 DEF Relays, RowStays, Serves, Works, Holds, Queued, Unclaimed
    <3> QED
      BY <1>30, <3>2, <3>3 DEF RequeueTurn
  <2> QED
    BY <2>1, <2>2, RelayStep
<1>31. ASSUME NEW x \in Workers, FailUnqueuedTurn(x) PROVE Goal
  <2>1. run'.status = "failed"
    BY <1>31 DEF FailUnqueuedTurn, TypeOK, RunRow
  <2> QED
    BY <2>1, NeedsNone DEF Active
<1>32. ASSUME NEW x \in Workers, ReleaseLease(x) PROVE Goal
  <2>1. ~run'.live /\ handler'[x].pc = "handback"
    BY <1>32, GotoRow DEF ReleaseLease, TypeOK, RunRow
  <2> QED
    BY <2>1, NeedsOne DEF Attended
<1>33. ASSUME NEW x \in Workers, ReleaseNothing(x) PROVE Goal
  <2>1. RowStays(x)
    BY <1>33 DEF ReleaseNothing, row, RowStays
  <2>2. ASSUME Spared({"drop", "stall"}), Spared({"drop", "stall"})' PROVE Relays(x)
    <3>1. /\ \A w \in Workers \ {x} : handler'[w] = handler[w]
          /\ handler[x].pc \notin Unclaimed \cup {"requeue", "undo", "handback"}
          /\ UNCHANGED request
      BY <1>33, CompleteRow DEF ReleaseNothing, Unclaimed
    <3>2. CASE HeartbeatMatches(x)
      <4>1. /\ handler[x].pc = "release" /\ handler[x].lease \in grants /\ Retry(x)
            /\ Spared({"stall"})
        BY <1>33, <2>2, <3>2 DEF ReleaseNothing, LeaseReferenced, HeartbeatMatches, Holds, Spared
      <4>2. Queued'
        BY <4>1, FailsForTrouble, Requeues
      <4> QED
        BY <3>1, <4>2 DEF Relays, Replaced
    <3>3. CASE ~HeartbeatMatches(x)
      <4>1. UNCHANGED ready
        BY <1>33, <3>3 DEF ReleaseNothing
      <4>2. run.status \in Active => ~Works(x) /\ ~Serves(x)
        BY <3>1, <3>3, MayLeave DEF Serves, Unclaimed
      <4> QED
        BY <3>1, <4>1, <4>2 DEF Relays, Queued, Active
    <3> QED
      BY <3>2, <3>3
  <2> QED
    BY <2>1, <2>2, RelayStep
<1>34. ASSUME NEW x \in Workers, RequeueHandedBack(x) PROVE Goal
  <2>1. RowStays(x)
    BY <1>34 DEF RequeueHandedBack, row, RowStays
  <2>2. ASSUME Spared({"drop", "stall"}), Spared({"drop", "stall"})' PROVE Relays(x)
    <3>1. (\A w \in Workers \ {x} : handler'[w] = handler[w]) /\ UNCHANGED request
      BY <1>34, CompleteRow DEF RequeueHandedBack
    <3>2. CASE Meet("fault") /\ Retry(x)
      <4>1. handler[x].pc # "idle" /\ Spared({"stall"})
        BY <1>34, <2>2 DEF RequeueHandedBack, Spared
      <4>2. Queued'
        BY <3>2, <4>1, FailsForTrouble, Requeues
      <4> QED
        BY <3>1, <4>2 DEF Relays, Replaced
    <3>3. CASE Send
      BY <3>1, <3>3, QueueGrows DEF Relays, Replaced
    <3> QED
      BY <1>34, <3>2, <3>3 DEF RequeueHandedBack
  <2> QED
    BY <2>1, <2>2, RelayStep
<1>35. ASSUME NEW x \in Workers, Crash(x) PROVE Goal
  <2>1. RowStays(x)
    BY <1>35 DEF Crash, row, RowStays
  <2>2. ASSUME Spared({"drop", "stall"}), Spared({"drop", "stall"})' PROVE Relays(x)
    <3>1. (\A w \in Workers \ {x} : handler'[w] = handler[w]) /\ UNCHANGED request
      BY <1>35, CompleteRow DEF Crash
    <3>2. CASE Meet("crash") /\ Retry(x)
      <4>1. handler[x].pc # "idle" /\ Spared({"stall"})
        BY <1>35, <2>2 DEF Crash, Spared
      <4>2. Queued'
        BY <3>2, <4>1, FailsForTrouble, Requeues
      <4> QED
        BY <3>1, <4>2 DEF Relays, Replaced
    <3> QED
      BY <1>35, <3>2 DEF Crash
  <2> QED
    BY <2>1, <2>2, RelayStep
<1>36. ASSUME NEW x \in Workers, LoseTouch(x) PROVE Goal
  <2>1. ~Spared({"drop", "stall"})'
    BY <1>36, SpentKind DEF LoseTouch, TroubleKinds
  <2> QED
    BY <2>1 DEF Manned, NoStrandedRun, Spared
<1>37. ASSUME NEW r \in Deliveries, AddReply(r) PROVE Goal
  <2>1. r \in Requests /\ UNCHANGED <<run, ready, handler>>
    BY <1>37 DEF AddReply, Requests, row
  <2>2. \A s \in Requests : Sends(s) => Sends(s)'
    BY <1>37, <2>1 DEF AddReply, Step, Sends, TypeOK, RequestRow
  <2> QED
    BY <2>1, <2>2, MannedFrame DEF Queued
<1>38. ASSUME NEW r \in Deliveries, CommitReply(r) PROVE Goal
  <2>1. r \in Requests /\ UNCHANGED <<run, ready, handler>>
    BY <1>38 DEF CommitReply, Requests, row
  <2>2. \A s \in Requests : Sends(s) => Sends(s)'
    BY <1>38, <2>1 DEF CommitReply, Step, Sends, TypeOK, RequestRow
  <2> QED
    BY <2>1, <2>2, MannedFrame DEF Queued
<1>39. ASSUME NEW r \in Deliveries, ReopenForReply(r) PROVE Goal
  <2>0. r \in Requests
    BY DEF Requests
  <2>1. CASE Reopenable /\ ~LeaseReferenced
    <3>1. ~run'.live /\ Sends(r)'
      BY <1>39, <2>0, <2>1 DEF ReopenForReply, Reopened, Step, Sends, TypeOK, RequestRow
    <3> QED
      BY <2>0, <3>1, NeedsOne DEF Attended, Sends
  <2>2. CASE ~(Reopenable /\ ~LeaseReferenced)
    <3>1. UNCHANGED <<run, ready, handler>>
      BY <1>39, <2>2 DEF ReopenForReply
    <3>2. \A s \in Requests : Sends(s) => Sends(s)'
      BY <1>39, <2>0, <2>2 DEF ReopenForReply, Step, Sends, TypeOK, RequestRow
    <3> QED
      BY <3>1, <3>2, MannedFrame DEF Queued
  <2> QED
    BY <2>1, <2>2
<1>40. ASSUME NEW r \in FollowUps, FollowUp(r) PROVE Goal
  <2>0. r \in Requests
    BY DEF Requests
  <2>1. CASE Reopenable /\ ~LeaseReferenced
    <3>1. ~run'.live /\ Sends(r)'
      BY <1>40, <2>0, <2>1 DEF FollowUp, Reopened, Step, Sends, TypeOK, RequestRow
    <3> QED
      BY <2>0, <3>1, NeedsOne DEF Attended, Sends
  <2>2. CASE ~(Reopenable /\ ~LeaseReferenced)
    <3>1. UNCHANGED <<run, ready, handler>>
      BY <1>40, <2>2 DEF FollowUp
    <3>2. \A s \in Requests : Sends(s) => Sends(s)'
      BY <1>40, <2>0, <2>2 DEF FollowUp, Step, Sends, TypeOK, RequestRow
    <3> QED
      BY <3>1, <3>2, MannedFrame DEF Queued
  <2> QED
    BY <2>1, <2>2
<1>41. ASSUME NEW r \in Requests, SendJob(r) PROVE Goal
  <2>1. UNCHANGED <<run, handler>> /\ (Send \/ UNCHANGED ready)
    BY <1>41 DEF SendJob, row
  <2>2. Queued' \/ \A s \in Requests : Sends(s) => Sends(s)'
    <3>1. CASE Send
      BY <3>1, QueueGrows
    <3>2. CASE Step(r, "undo")
      BY <3>2 DEF Step, Sends, TypeOK, RequestRow
    <3> QED
      BY <1>41, <3>1, <3>2 DEF SendJob
  <2>3. Queued => Queued'
    BY <2>1, QueueGrows
  <2> QED
    BY <2>1, <2>2, <2>3, MannedFrame
<1>42. ASSUME NEW r \in Requests, FailUnqueuedRequest(r) PROVE Goal
  <2>1. run'.status = "failed"
    BY <1>42 DEF FailUnqueuedRequest, TypeOK, RunRow
  <2> QED
    BY <2>1, NeedsNone DEF Active
<1>43. ASSUME NEW r \in Requests, DropRequest(r) PROVE Goal
  <2>1. ~Spared({"drop", "stall"})'
    BY <1>43, SpentKind DEF DropRequest, TroubleKinds
  <2> QED
    BY <2>1 DEF Manned, NoStrandedRun, Spared
<1>44. CASE LeaseExpires \/ RequestCancellation \/ ToggleAutomation \/ Rest \/ UNCHANGED vars
  <2>1. /\ run'.status = run.status /\ run'.lease = run.lease
        /\ run'.live => run.live
    BY <1>44 DEF LeaseExpires, RequestCancellation, ToggleAutomation, Rest, vars, TypeOK, RunRow
  <2>2. UNCHANGED <<handler, ready, request>>
    BY <1>44 DEF LeaseExpires, RequestCancellation, ToggleAutomation, Rest, vars
  <2> QED
    BY <2>1, <2>2, MannedFrame DEF Queued, Sends
<1> QED
  BY <1>1, <1>2, <1>3, <1>4, <1>5, <1>6, <1>7, <1>8, <1>9, <1>10, <1>11, <1>12, <1>13,
     <1>14, <1>15, <1>16, <1>17, <1>18, <1>19, <1>20, <1>21, <1>22, <1>23, <1>24, <1>25,
     <1>26, <1>27, <1>28, <1>29, <1>30, <1>31, <1>32, <1>33, <1>34, <1>35, <1>36, <1>37,
     <1>38, <1>39, <1>40, <1>41, <1>42, <1>43, <1>44
     DEF Next, HandlerStep, ClaimStep, TurnStep, AfterStep, TroubleStep, RequestStep, ReplyStep

\* If the queue retries a job as often as workers may die and calls may fail,
\* no run is left pending or running with nobody to carry it on, unless a
\* control-plane process died on its way to the queue or a worker lost touch.
THEOREM NoStrandedRunCorrect ==
  Budget["crash"] + Budget["fault"] <= RetryLimit => (Spec => []NoStrandedRun)
<1> SUFFICES ASSUME Patient PROVE Spec => []NoStrandedRun
  BY DEF Patient
<1> DEFINE Inv == Held /\ LeaseInv /\ Fresh /\ Tried /\ Parted /\ Manned /\ NoStrandedRun
<1>1. Init => Inv
  BY HeldInit, LeaseInit, TriedInit, PartedInit, MannedInit
<1>2. TypeOK /\ TypeOK' /\ Inv /\ [Next]_vars => Inv'
  BY HeldNext, LeaseNext, FreshNext, TriedNext, PartedNext, MannedNext
<1>3. Inv => NoStrandedRun
  OBVIOUS
<1> HIDE DEF Inv
<1> QED
  BY <1>1, <1>2, <1>3, TypeCorrect, PTL DEF Spec

-----------------------------------------------------------------------------
(* No reply is left behind. *)

\* A prompt covers what it has read, and what shows later has a later id unless
\* it was overtaken.
ReadIt ==
  /\ newest <= lastEvent
  /\ \A w \in Workers : handler[w].thru <= newest
  /\ \A m \in messages \ (answered \cup overtaken), w \in Workers : m > handler[w].thru

\* A turn gets here only with its conversation read.
Read == {"grant", "harness", "check", "succeed", "fail", "notify", "answer", "reopen"}

Closing(w) == handler[w].pc \in {"record", "cleanup"}

\* What a handler knows of the conversation, and of the row if it has its lease.
Reached(w) ==
  /\ \/ handler[w].pc \in Read
     \/ Closing(w) /\ handler[w].end \in {"succeeded", "failed"}
     => handler[w].thru # Unread
  /\ Closing(w) => handler[w].end # "error"
  /\ Closing(w) /\ Holds(w) => /\ handler[w].end # "lost"
                               /\ handler[w].end = "cancelled" => run.status = "cancelled"
                               /\ handler[w].end = "handedback" => run.status = "running"

Ended == Spared({"fault"}) => \A w \in Workers : Reached(w)

\* The automation stays on while nobody turns it off.
StaysOn == Spared({"toggle"}) => enabled

\* The handler will look for new messages before it leaves the run.
Looking(w) == Holds(w) /\ handler[w].pc \in {"record", "cleanup", "notify", "answer", "reopen"}

\* The request that stored the message will look at the run.
Comes(m) == \E d \in Deliveries : request[d].id = m /\ request[d].pc = "stored"

\* Nothing that could lose a reply was met.
Quietly == Spared({"crash", "drop", "fault", "toggle"})

\* A message that no prompt has included is still looked for after the turn.
Awaited ==
  run.status \in {"succeeded", "failed"} =>
    \A m \in messages \ (answered \cup overtaken) : Comes(m) \/ \E w \in Workers : Looking(w)
Expected == Quietly => Awaited

\* There are no messages at first.
LEMMA ExpectedInit == Init => ReadIt /\ Ended /\ StaysOn /\ Expected
BY DEF Init, ReadIt, Ended, Reached, Closing, Read, StaysOn, Expected, Awaited, Idle, Unread

\* A step that brings no message and no prompt covers what was read.
LEMMA ReadItStep ==
  ASSUME TypeOK, TypeOK', ReadIt, UNCHANGED <<messages, newest>>,
         lastEvent' \in {lastEvent, lastEvent + 1},
         answered \subseteq answered', UNCHANGED overtaken,
         \A w \in Workers : handler'[w].thru \in {handler[w].thru, Unread}
  PROVE  ReadIt'
<1>1. newest \in Nat /\ lastEvent \in Nat /\ \A m \in messages : m \in Nat
  BY DEF TypeOK
<1>2. /\ newest' = newest /\ messages' = messages /\ newest' <= lastEvent'
  BY <1>1 DEF ReadIt
<1>3. \A w \in Workers : handler'[w].thru <= newest'
  BY <1>1, <1>2 DEF ReadIt, Unread
<1>4. \A m \in messages' \ (answered' \cup overtaken'), w \in Workers : m > handler'[w].thru
  BY <1>1, <1>2 DEF ReadIt, Unread
<1> QED
  BY <1>2, <1>3, <1>4 DEF ReadIt

\* Every step covers what was read.
LEMMA ReadItNext == TypeOK /\ TypeOK' /\ Stored /\ ReadIt /\ [Next]_vars => ReadIt'
<1> SUFFICES ASSUME TypeOK, TypeOK', Stored, ReadIt, [Next]_vars PROVE ReadIt'
  OBVIOUS
<1>1. ASSUME NEW x \in Workers, Fetch(x) PROVE ReadIt'
  <2>1. \A v \in Workers : handler'[v].thru \in {handler[v].thru, Unread}
    BY <1>1 DEF Fetch, Idle, TypeOK, HandlerRow
  <2> QED
    BY <1>1, <2>1, ReadItStep DEF Fetch, events, history
<1>2. ASSUME NEW x \in Workers, Claim(x) PROVE ReadIt'
  <2>1. \A v \in Workers : handler'[v].thru \in {handler[v].thru, Unread}
    BY <1>2 DEF Claim, TypeOK, HandlerRow
  <2> QED
    BY <1>2, <2>1, ReadItStep DEF Claim, events, history
<1>3. ASSUME NEW x \in Workers, ClaimNothing(x) PROVE ReadIt'
  <2>1. \A v \in Workers : handler'[v].thru \in {handler[v].thru, Unread}
    BY <1>3, GotoRow, EndRow, CompleteRow DEF ClaimNothing, Idle
  <2> QED
    BY <1>3, <2>1, ReadItStep DEF ClaimNothing, events, history
<1>4. ASSUME NEW x \in Workers, ReclaimNothing(x) PROVE ReadIt'
  <2>1. \A v \in Workers : handler'[v].thru \in {handler[v].thru, Unread}
    BY <1>4, GotoRow, EndRow, CompleteRow DEF ReclaimNothing, Idle
  <2> QED
    BY <1>4, <2>1, ReadItStep DEF ReclaimNothing, events, history
<1>5. ASSUME NEW x \in Workers, LoadConfiguration(x) PROVE ReadIt'
  <2>1. \A v \in Workers : handler'[v].thru \in {handler[v].thru, Unread}
    BY <1>5, GotoRow, EndRow, CompleteRow DEF LoadConfiguration, Idle
  <2> QED
    BY <1>5, <2>1, ReadItStep DEF LoadConfiguration, events, history
<1>6. ASSUME NEW x \in Workers, ConfigurationUnavailable(x) PROVE ReadIt'
  <2>1. \A v \in Workers : handler'[v].thru \in {handler[v].thru, Unread}
    BY <1>6 DEF ConfigurationUnavailable, Idle, TypeOK, HandlerRow
  <2> QED
    BY <1>6, <2>1, ReadItStep DEF ConfigurationUnavailable, events, history
<1>7. ASSUME NEW x \in Workers, LookAtLease(x) PROVE ReadIt'
  <2>1. \A v \in Workers : handler'[v].thru \in {handler[v].thru, Unread}
    BY <1>7, GotoRow, EndRow, CompleteRow DEF LookAtLease, Idle
  <2> QED
    BY <1>7, <2>1, ReadItStep DEF LookAtLease, events, history
<1>8. ASSUME NEW x \in Workers, Wake(x) PROVE ReadIt'
  <2>1. \A v \in Workers : handler'[v].thru \in {handler[v].thru, Unread}
    BY <1>8, GotoRow, EndRow, CompleteRow DEF Wake, Idle
  <2> QED
    BY <1>8, <2>1, ReadItStep DEF Wake, events, history
<1>9. ASSUME NEW x \in Workers, StartTurn(x) PROVE ReadIt'
  <2>1. \A v \in Workers : handler'[v].thru \in {handler[v].thru, Unread}
    BY <1>9, GotoRow, EndRow, CompleteRow DEF StartTurn, Idle
  <2> QED
    BY <1>9, <2>1, ReadItStep DEF StartTurn, events, history
<1>10. ASSUME NEW x \in Workers, LoseLease(x) PROVE ReadIt'
  <2>1. \A v \in Workers : handler'[v].thru \in {handler[v].thru, Unread}
    BY <1>10, GotoRow, EndRow, CompleteRow DEF LoseLease, Idle
  <2> QED
    BY <1>10, <2>1, ReadItStep DEF LoseLease, events, history
<1>11. ASSUME NEW x \in Workers, CreateGrant(x) PROVE ReadIt'
  <2>1. \A v \in Workers : handler'[v].thru \in {handler[v].thru, Unread}
    BY <1>11, GotoRow, EndRow, CompleteRow DEF CreateGrant, Idle
  <2> QED
    BY <1>11, <2>1, ReadItStep DEF CreateGrant, events, history
<1>12. ASSUME NEW x \in Workers, TurnFails(x) PROVE ReadIt'
  <2>1. \A v \in Workers : handler'[v].thru \in {handler[v].thru, Unread}
    BY <1>12, GotoRow, EndRow, CompleteRow DEF TurnFails, Idle
  <2> QED
    BY <1>12, <2>1, ReadItStep DEF TurnFails, events, history
<1>13. ASSUME NEW x \in Workers, PollCancellation(x) PROVE ReadIt'
  <2>1. \A v \in Workers : handler'[v].thru \in {handler[v].thru, Unread}
    BY <1>13, GotoRow, EndRow, CompleteRow DEF PollCancellation, Idle
  <2> QED
    BY <1>13, <2>1, ReadItStep DEF PollCancellation, events, history
<1>14. ASSUME NEW x \in Workers, CheckCancellation(x) PROVE ReadIt'
  <2>1. \A v \in Workers : handler'[v].thru \in {handler[v].thru, Unread}
    BY <1>14, GotoRow, EndRow, CompleteRow DEF CheckCancellation, Idle
  <2> QED
    BY <1>14, <2>1, ReadItStep DEF CheckCancellation, events, history
<1>15. ASSUME NEW x \in Workers, Succeed(x) PROVE ReadIt'
  <2>1. \A v \in Workers : handler'[v].thru \in {handler[v].thru, Unread}
    BY <1>15, GotoRow, EndRow, CompleteRow DEF Succeed, Idle
  <2> QED
    BY <1>15, <2>1, ReadItStep DEF Succeed, events, history
<1>16. ASSUME NEW x \in Workers, CancelTurn(x) PROVE ReadIt'
  <2>1. \A v \in Workers : handler'[v].thru \in {handler[v].thru, Unread}
    BY <1>16, GotoRow, EndRow, CompleteRow DEF CancelTurn, Idle
  <2> QED
    BY <1>16, <2>1, ReadItStep DEF CancelTurn, events, history
<1>17. ASSUME NEW x \in Workers, FailTurn(x) PROVE ReadIt'
  <2>1. \A v \in Workers : handler'[v].thru \in {handler[v].thru, Unread}
    BY <1>17, GotoRow, EndRow, CompleteRow DEF FailTurn, Idle
  <2> QED
    BY <1>17, <2>1, ReadItStep DEF FailTurn, events, history
<1>18. ASSUME NEW x \in Workers, RecordEnd(x) PROVE ReadIt'
  <2>1. \A v \in Workers : handler'[v].thru \in {handler[v].thru, Unread}
    BY <1>18, GotoRow, EndRow, CompleteRow DEF RecordEnd, Idle
  <2> QED
    BY <1>18, <2>1, ReadItStep DEF RecordEnd, events, history
<1>19. ASSUME NEW x \in Workers, Cleanup(x) PROVE ReadIt'
  <2>1. \A v \in Workers : handler'[v].thru \in {handler[v].thru, Unread}
    BY <1>19, GotoRow, EndRow, CompleteRow DEF Cleanup, Idle
  <2> QED
    BY <1>19, <2>1, ReadItStep DEF Cleanup, events, history
<1>20. ASSUME NEW x \in Workers, Notify(x) PROVE ReadIt'
  <2>1. \A v \in Workers : handler'[v].thru \in {handler[v].thru, Unread}
    BY <1>20, GotoRow, EndRow, CompleteRow DEF Notify, Idle
  <2> QED
    BY <1>20, <2>1, ReadItStep DEF Notify, events, history
<1>21. ASSUME NEW x \in Workers, AnswerNewMessages(x) PROVE ReadIt'
  <2>1. \A v \in Workers : handler'[v].thru \in {handler[v].thru, Unread}
    BY <1>21, GotoRow, EndRow, CompleteRow DEF AnswerNewMessages, Idle
  <2> QED
    BY <1>21, <2>1, ReadItStep DEF AnswerNewMessages, events, history
<1>22. ASSUME NEW x \in Workers, ReopenAfterTurn(x) PROVE ReadIt'
  <2>1. \A v \in Workers : handler'[v].thru \in {handler[v].thru, Unread}
    BY <1>22, GotoRow, EndRow, CompleteRow DEF ReopenAfterTurn, Idle
  <2> QED
    BY <1>22, <2>1, ReadItStep DEF ReopenAfterTurn, events, history
<1>23. ASSUME NEW x \in Workers, LeaveToOthers(x) PROVE ReadIt'
  <2>1. \A v \in Workers : handler'[v].thru \in {handler[v].thru, Unread}
    BY <1>23, GotoRow, EndRow, CompleteRow DEF LeaveToOthers, Idle
  <2> QED
    BY <1>23, <2>1, ReadItStep DEF LeaveToOthers, events, history
<1>24. ASSUME NEW x \in Workers, RequeueTurn(x) PROVE ReadIt'
  <2>1. \A v \in Workers : handler'[v].thru \in {handler[v].thru, Unread}
    BY <1>24, GotoRow, EndRow, CompleteRow DEF RequeueTurn, Idle
  <2> QED
    BY <1>24, <2>1, ReadItStep DEF RequeueTurn, events, history
<1>25. ASSUME NEW x \in Workers, FailUnqueuedTurn(x) PROVE ReadIt'
  <2>1. \A v \in Workers : handler'[v].thru \in {handler[v].thru, Unread}
    BY <1>25, GotoRow, EndRow, CompleteRow DEF FailUnqueuedTurn, Idle
  <2> QED
    BY <1>25, <2>1, ReadItStep DEF FailUnqueuedTurn, events, history
<1>26. ASSUME NEW x \in Workers, ReleaseLease(x) PROVE ReadIt'
  <2>1. \A v \in Workers : handler'[v].thru \in {handler[v].thru, Unread}
    BY <1>26, GotoRow, EndRow, CompleteRow DEF ReleaseLease, Idle
  <2> QED
    BY <1>26, <2>1, ReadItStep DEF ReleaseLease, events, history
<1>27. ASSUME NEW x \in Workers, ReleaseNothing(x) PROVE ReadIt'
  <2>1. \A v \in Workers : handler'[v].thru \in {handler[v].thru, Unread}
    BY <1>27, GotoRow, EndRow, CompleteRow DEF ReleaseNothing, Idle
  <2> QED
    BY <1>27, <2>1, ReadItStep DEF ReleaseNothing, events, history
<1>28. ASSUME NEW x \in Workers, RequeueHandedBack(x) PROVE ReadIt'
  <2>1. \A v \in Workers : handler'[v].thru \in {handler[v].thru, Unread}
    BY <1>28, GotoRow, EndRow, CompleteRow DEF RequeueHandedBack, Idle
  <2> QED
    BY <1>28, <2>1, ReadItStep DEF RequeueHandedBack, events, history
<1>29. ASSUME NEW x \in Workers, Renew(x) PROVE ReadIt'
  <2>1. \A v \in Workers : handler'[v].thru \in {handler[v].thru, Unread}
    BY <1>29 DEF Renew
  <2> QED
    BY <1>29, <2>1, ReadItStep DEF Renew, events, history
<1>30. ASSUME NEW x \in Workers, TurnFailsUnread(x) PROVE ReadIt'
  <2>1. \A v \in Workers : handler'[v].thru \in {handler[v].thru, Unread}
    BY <1>30, GotoRow, EndRow, CompleteRow DEF TurnFailsUnread, Idle
  <2> QED
    BY <1>30, <2>1, ReadItStep DEF TurnFailsUnread, events, history
<1>31. ASSUME NEW x \in Workers, HandBack(x) PROVE ReadIt'
  <2>1. \A v \in Workers : handler'[v].thru \in {handler[v].thru, Unread}
    BY <1>31, GotoRow, EndRow, CompleteRow DEF HandBack, Idle
  <2> QED
    BY <1>31, <2>1, ReadItStep DEF HandBack, events, history
<1>32. ASSUME NEW x \in Workers, StatusWriteThrows(x) PROVE ReadIt'
  <2>1. \A v \in Workers : handler'[v].thru \in {handler[v].thru, Unread}
    BY <1>32, GotoRow, EndRow, CompleteRow DEF StatusWriteThrows, Idle
  <2> QED
    BY <1>32, <2>1, ReadItStep DEF StatusWriteThrows, events, history
<1>33. ASSUME NEW x \in Workers, Crash(x) PROVE ReadIt'
  <2>1. \A v \in Workers : handler'[v].thru \in {handler[v].thru, Unread}
    BY <1>33, GotoRow, EndRow, CompleteRow DEF Crash, Idle
  <2> QED
    BY <1>33, <2>1, ReadItStep DEF Crash, events, history
<1>34. ASSUME NEW x \in Workers, LoseTouch(x) PROVE ReadIt'
  <2>1. \A v \in Workers : handler'[v].thru \in {handler[v].thru, Unread}
    BY <1>34 DEF LoseTouch, TypeOK, HandlerRow
  <2> QED
    BY <1>34, <2>1, ReadItStep DEF LoseTouch, events, history
<1>35. ASSUME NEW x \in Workers, ReadConversation(x) PROVE ReadIt'
  <2>1. /\ handler'[x].thru = newest /\ \A v \in Workers \ {x} : handler'[v] = handler[v]
        /\ UNCHANGED <<messages, newest, lastEvent, overtaken>> /\ answered' = answered \cup messages
    BY <1>35 DEF ReadConversation, events, TypeOK, HandlerRow
  <2>2. newest \in Nat
    BY DEF TypeOK
  <2> QED
    BY <2>1, <2>2 DEF ReadIt
<1>36. ASSUME NEW x \in Workers, HarnessSucceeds(x) PROVE ReadIt'
  <2>1. /\ \A v \in Workers : handler'[v].thru = handler[v].thru
        /\ UNCHANGED <<messages, answered, overtaken>>
        /\ newest' = lastEvent + 1 /\ lastEvent' = lastEvent + 1
    BY <1>36, GotoRow DEF HarnessSucceeds, NextEventId, history
  <2>2. newest \in Nat /\ lastEvent \in Nat /\ handler \in [Workers -> HandlerRow]
    BY DEF TypeOK
  <2>3. \A v \in Workers : handler[v].thru \in Int
    BY <2>2 DEF HandlerRow, Unread
  <2> QED
    BY <2>1, <2>2, <2>3 DEF ReadIt
<1>37. ASSUME NEW d \in Deliveries, AddReply(d) PROVE ReadIt'
  BY <1>37, ReadItStep DEF AddReply, NextEventId, history
<1>38. ASSUME NEW d \in Deliveries, CommitReply(d) PROVE ReadIt'
  <2>0. d \in Requests
    BY DEF Requests
  <2>1. /\ request[d].pc = "inserted" /\ messages' = messages \cup {request[d].id}
        /\ newest' = Later(newest, request[d].id) /\ UNCHANGED <<handler, lastEvent, answered>>
        /\ overtaken' = IF Overtaken(request[d].id) THEN overtaken \cup {request[d].id} ELSE overtaken
    BY <1>38 DEF CommitReply
  <2>2. /\ newest \in Nat /\ lastEvent \in Nat /\ request[d].id \in Nat /\ request[d].id <= lastEvent
        /\ \A v \in Workers : handler[v].thru \in Int
    <3>1. /\ newest \in Nat /\ lastEvent \in Nat
          /\ handler \in [Workers -> HandlerRow] /\ request \in [Requests -> RequestRow]
      BY DEF TypeOK
    <3>2. request[d].id \in 0..lastEvent
      BY <2>0, <3>1 DEF RequestRow, Stored
    <3>3. \A v \in Workers : handler[v].thru \in Int
      BY <3>1 DEF HandlerRow, Unread
    <3> QED
      BY <3>1, <3>2, <3>3
  <2>3. /\ newest' \in Nat /\ newest <= newest' /\ newest' <= lastEvent
    BY <2>1, <2>2 DEF Later, ReadIt
  <2>4. \A v \in Workers : handler'[v].thru <= newest'
    BY <2>1, <2>2, <2>3 DEF ReadIt
  <2>5. request[d].id \in overtaken' \/ \A v \in Workers : request[d].id > handler[v].thru
    BY <2>1, <2>2 DEF Overtaken
  <2>6. \A m \in messages' \ (answered' \cup overtaken'), v \in Workers : m > handler'[v].thru
    BY <2>1, <2>5 DEF ReadIt
  <2> QED
    BY <2>1, <2>3, <2>4, <2>6 DEF ReadIt
<1>39. ASSUME NEW f \in FollowUps, FollowUp(f) PROVE ReadIt'
  <2>1. CASE UNCHANGED <<lastEvent, messages, newest>>
    BY <1>39, <2>1, ReadItStep DEF FollowUp, history
  <2>2. CASE NextEventId /\ messages' = messages \cup {lastEvent + 1} /\ newest' = lastEvent + 1
    <3>1. lastEvent' = lastEvent + 1 /\ UNCHANGED <<handler, answered, overtaken>>
      BY <1>39, <2>2 DEF FollowUp, NextEventId, history
    <3>2. newest \in Nat /\ lastEvent \in Nat /\ \A v \in Workers : handler[v].thru \in Int
      <4>1. newest \in Nat /\ lastEvent \in Nat /\ handler \in [Workers -> HandlerRow]
        BY DEF TypeOK
      <4> QED
        BY <4>1 DEF HandlerRow, Unread
    <3>3. \A v \in Workers : handler'[v].thru <= newest' /\ lastEvent + 1 > handler'[v].thru
      BY <2>2, <3>1, <3>2 DEF ReadIt
    <3>4. \A m \in messages' \ (answered' \cup overtaken'), v \in Workers : m > handler'[v].thru
      BY <2>2, <3>1, <3>3 DEF ReadIt
    <3> QED
      BY <2>2, <3>1, <3>2, <3>3, <3>4 DEF ReadIt
  <2> QED
    BY <1>39, <2>1, <2>2 DEF FollowUp
<1>40. ASSUME NEW r \in Requests, SendJob(r) \/ FailUnqueuedRequest(r) \/ DropRequest(r) PROVE ReadIt'
  BY <1>40, ReadItStep DEF SendJob, FailUnqueuedRequest, DropRequest, events, history
<1>41. ASSUME NEW d \in Deliveries, ReopenForReply(d) PROVE ReadIt'
  BY <1>41, ReadItStep DEF ReopenForReply, events, history
<1>42. CASE LeaseExpires \/ RequestCancellation \/ ToggleAutomation \/ Rest \/ UNCHANGED vars
  BY <1>42, ReadItStep DEF LeaseExpires, RequestCancellation, ToggleAutomation, Rest, vars, events,
     history
<1> QED
  BY <1>1, <1>2, <1>3, <1>4, <1>5, <1>6, <1>7, <1>8, <1>9, <1>10, <1>11, <1>12, <1>13,
     <1>14, <1>15, <1>16, <1>17, <1>18, <1>19, <1>20, <1>21, <1>22, <1>23, <1>24, <1>25,
     <1>26, <1>27, <1>28, <1>29, <1>30, <1>31, <1>32, <1>33, <1>34, <1>35, <1>36, <1>37,
     <1>38, <1>39, <1>40, <1>41, <1>42
     DEF Next, HandlerStep, ClaimStep, TurnStep, AfterStep, TroubleStep, RequestStep, ReplyStep

\* A handler whose turn is closing, and which has its lease, finds the row as it
\* was.
LEMMA ClosingRow ==
  ASSUME TypeOK, TypeOK', LeaseInv, [Next]_vars, Spared({"fault"})', NEW w \in Workers, Closing(w),
         handler'[w].lease = handler[w].lease, Holds(w)'
  PROVE  Holds(w) /\ run'.status = run.status
<1>1. handler[w].lease # NoLease /\ handler[w].pc \notin InTurn
  BY DEF Closing, LeaseInv, Unclaimed, InTurn
<1>2. ASSUME NEW x \in Workers, Claim(x) PROVE FALSE
  <2>1. run'.lease = lastLease + 1 /\ lastLease \in Nat
    BY <1>2 DEF Claim, TypeOK, RunRow
  <2>2. handler[w].lease \in Nat /\ handler[w].lease <= lastLease
    BY DEF TypeOK, HandlerRow, LeaseInv
  <2> QED
    BY <2>1, <2>2 DEF Holds
<1>3. CASE \A x \in Workers : ~Claim(x)
  <2>1. RowMoves
    BY <1>3, StepMoves DEF Moves
  <2>2. CASE Kept
    BY <2>2 DEF Kept, Holds
  <2>3. CASE Reopens \/ Releases
    BY <1>1, <2>3 DEF Reopens, Releases, Reopened, Holds
  <2>4. CASE EndsHeld
    BY <1>1, <2>4 DEF EndsHeld, Ends, Holds, LeaseInv
  <2>5. CASE Repairs
    BY <2>5 DEF Repairs
  <2> QED
    BY <2>1, <2>2, <2>3, <2>4, <2>5 DEF RowMoves
<1> QED
  BY <1>2, <1>3

\* A handler that goes no further than it was knows what it knew.
LEMMA ReachedStays ==
  ASSUME TypeOK, TypeOK', LeaseInv, [Next]_vars, Spared({"fault"})', NEW w \in Workers, Reached(w),
         handler'[w].thru = handler[w].thru, handler'[w].end = handler[w].end,
         handler'[w].lease = handler[w].lease,
         handler'[w].pc \in Read => handler[w].pc \in Read,
         Closing(w)' => Closing(w)
  PROVE  Reached(w)'
<1>1. Closing(w)' /\ Holds(w)' => Holds(w) /\ run'.status = run.status
  BY ClosingRow
<1> QED
  BY <1>1 DEF Reached

\* A worker's step keeps what the handlers know.
LEMMA EndedStep ==
  ASSUME TypeOK, TypeOK', Held, LeaseInv, Ended, [Next]_vars, NEW x \in Workers,
         \A v \in Workers \ {x} : handler'[v] = handler[v],
         Spared({"fault"}) /\ Spared({"fault"})' => Reached(x)'
  PROVE  Ended'
<1>1. SUFFICES ASSUME Spared({"fault"})', NEW v \in Workers PROVE Reached(v)'
  BY DEF Ended, Spared
<1>2. Spared({"fault"})
  BY <1>1, SparedBefore DEF TroubleKinds
<1>3. CASE v = x
  BY <1>1, <1>2, <1>3
<1>4. CASE v # x
  BY <1>1, <1>2, <1>4, ReachedStays DEF Ended, Closing
<1> QED
  BY <1>3, <1>4

\* Elsewhere a handler need not know anything.
LEMMA ReachedElsewhere ==
  ASSUME NEW x \in Workers, handler'[x].pc \notin Read \cup {"record", "cleanup"}
  PROVE  Reached(x)'
BY DEF Reached, Closing

\* Every step keeps what the handlers know.
LEMMA EndedNext == TypeOK /\ TypeOK' /\ Held /\ LeaseInv /\ Ended /\ [Next]_vars => Ended'
<1> SUFFICES ASSUME TypeOK, TypeOK', Held, LeaseInv, Ended, [Next]_vars PROVE Ended'
  OBVIOUS
<1>1. ASSUME NEW x \in Workers, Fetch(x) PROVE Ended'
  <2>1. \A v \in Workers \ {x} : handler'[v] = handler[v]
    BY <1>1 DEF Fetch, TypeOK
  <2>2. Reached(x)'
    <3>1. handler'[x].pc \in {"claim", "config", "reconfig", "look", "idle"}
      BY <1>1 DEF Fetch, TypeOK, HandlerRow, Idle
    <3> QED
      BY <3>1, ReachedElsewhere DEF Read
  <2> QED
    BY <2>1, <2>2, EndedStep
<1>2. ASSUME NEW x \in Workers, Claim(x) PROVE Ended'
  <2>1. \A v \in Workers \ {x} : handler'[v] = handler[v]
    BY <1>2 DEF Claim, TypeOK
  <2>2. Reached(x)'
    <3>1. handler'[x].pc \in {"claim", "config", "reconfig", "look", "idle"}
      BY <1>2 DEF Claim, TypeOK, HandlerRow, Idle
    <3> QED
      BY <3>1, ReachedElsewhere DEF Read
  <2> QED
    BY <2>1, <2>2, EndedStep
<1>3. ASSUME NEW x \in Workers, ConfigurationUnavailable(x) PROVE Ended'
  <2>1. \A v \in Workers \ {x} : handler'[v] = handler[v]
    BY <1>3 DEF ConfigurationUnavailable, TypeOK
  <2>2. Reached(x)'
    <3>1. handler'[x].pc \in {"claim", "config", "reconfig", "look", "idle"}
      BY <1>3 DEF ConfigurationUnavailable, TypeOK, HandlerRow, Idle
    <3> QED
      BY <3>1, ReachedElsewhere DEF Read
  <2> QED
    BY <2>1, <2>2, EndedStep
<1>4. ASSUME NEW x \in Workers, ClaimNothing(x) PROVE Ended'
  <2>1. \A v \in Workers \ {x} : handler'[v] = handler[v]
    BY <1>4, GotoRow, EndRow, CompleteRow DEF ClaimNothing
  <2>2. Reached(x)'
    BY <1>4, GotoRow, EndRow, CompleteRow, ReachedElsewhere DEF ClaimNothing, Read, Idle
  <2> QED
    BY <2>1, <2>2, EndedStep
<1>5. ASSUME NEW x \in Workers, ReclaimNothing(x) PROVE Ended'
  <2>1. \A v \in Workers \ {x} : handler'[v] = handler[v]
    BY <1>5, GotoRow, EndRow, CompleteRow DEF ReclaimNothing
  <2>2. Reached(x)'
    BY <1>5, GotoRow, EndRow, CompleteRow, ReachedElsewhere DEF ReclaimNothing, Read, Idle
  <2> QED
    BY <2>1, <2>2, EndedStep
<1>6. ASSUME NEW x \in Workers, LoadConfiguration(x) PROVE Ended'
  <2>1. \A v \in Workers \ {x} : handler'[v] = handler[v]
    BY <1>6, GotoRow, EndRow, CompleteRow DEF LoadConfiguration
  <2>2. Reached(x)'
    BY <1>6, GotoRow, EndRow, CompleteRow, ReachedElsewhere DEF LoadConfiguration, Read, Idle
  <2> QED
    BY <2>1, <2>2, EndedStep
<1>7. ASSUME NEW x \in Workers, LookAtLease(x) PROVE Ended'
  <2>1. \A v \in Workers \ {x} : handler'[v] = handler[v]
    BY <1>7, GotoRow, EndRow, CompleteRow DEF LookAtLease
  <2>2. Reached(x)'
    BY <1>7, GotoRow, EndRow, CompleteRow, ReachedElsewhere DEF LookAtLease, Read, Idle
  <2> QED
    BY <2>1, <2>2, EndedStep
<1>8. ASSUME NEW x \in Workers, Wake(x) PROVE Ended'
  <2>1. \A v \in Workers \ {x} : handler'[v] = handler[v]
    BY <1>8, GotoRow, EndRow, CompleteRow DEF Wake
  <2>2. Reached(x)'
    BY <1>8, GotoRow, EndRow, CompleteRow, ReachedElsewhere DEF Wake, Read, Idle
  <2> QED
    BY <2>1, <2>2, EndedStep
<1>9. ASSUME NEW x \in Workers, StartTurn(x) PROVE Ended'
  <2>1. \A v \in Workers \ {x} : handler'[v] = handler[v]
    BY <1>9, GotoRow, EndRow, CompleteRow DEF StartTurn
  <2>2. Reached(x)'
    BY <1>9, GotoRow, EndRow, CompleteRow, ReachedElsewhere DEF StartTurn, Read, Idle
  <2> QED
    BY <2>1, <2>2, EndedStep
<1>10. ASSUME NEW x \in Workers, PollCancellation(x) PROVE Ended'
  <2>1. \A v \in Workers \ {x} : handler'[v] = handler[v]
    BY <1>10, GotoRow, EndRow, CompleteRow DEF PollCancellation
  <2>2. Reached(x)'
    BY <1>10, GotoRow, EndRow, CompleteRow, ReachedElsewhere DEF PollCancellation, Read, Idle
  <2> QED
    BY <2>1, <2>2, EndedStep
<1>11. ASSUME NEW x \in Workers, ReopenAfterTurn(x) PROVE Ended'
  <2>1. \A v \in Workers \ {x} : handler'[v] = handler[v]
    BY <1>11, GotoRow, EndRow, CompleteRow DEF ReopenAfterTurn
  <2>2. Reached(x)'
    BY <1>11, GotoRow, EndRow, CompleteRow, ReachedElsewhere DEF ReopenAfterTurn, Read, Idle
  <2> QED
    BY <2>1, <2>2, EndedStep
<1>12. ASSUME NEW x \in Workers, LeaveToOthers(x) PROVE Ended'
  <2>1. \A v \in Workers \ {x} : handler'[v] = handler[v]
    BY <1>12, GotoRow, EndRow, CompleteRow DEF LeaveToOthers
  <2>2. Reached(x)'
    BY <1>12, GotoRow, EndRow, CompleteRow, ReachedElsewhere DEF LeaveToOthers, Read, Idle
  <2> QED
    BY <2>1, <2>2, EndedStep
<1>13. ASSUME NEW x \in Workers, RequeueTurn(x) PROVE Ended'
  <2>1. \A v \in Workers \ {x} : handler'[v] = handler[v]
    BY <1>13, GotoRow, EndRow, CompleteRow DEF RequeueTurn
  <2>2. Reached(x)'
    BY <1>13, GotoRow, EndRow, CompleteRow, ReachedElsewhere DEF RequeueTurn, Read, Idle
  <2> QED
    BY <2>1, <2>2, EndedStep
<1>14. ASSUME NEW x \in Workers, FailUnqueuedTurn(x) PROVE Ended'
  <2>1. \A v \in Workers \ {x} : handler'[v] = handler[v]
    BY <1>14, GotoRow, EndRow, CompleteRow DEF FailUnqueuedTurn
  <2>2. Reached(x)'
    BY <1>14, GotoRow, EndRow, CompleteRow, ReachedElsewhere DEF FailUnqueuedTurn, Read, Idle
  <2> QED
    BY <2>1, <2>2, EndedStep
<1>15. ASSUME NEW x \in Workers, ReleaseLease(x) PROVE Ended'
  <2>1. \A v \in Workers \ {x} : handler'[v] = handler[v]
    BY <1>15, GotoRow, EndRow, CompleteRow DEF ReleaseLease
  <2>2. Reached(x)'
    BY <1>15, GotoRow, EndRow, CompleteRow, ReachedElsewhere DEF ReleaseLease, Read, Idle
  <2> QED
    BY <2>1, <2>2, EndedStep
<1>16. ASSUME NEW x \in Workers, ReleaseNothing(x) PROVE Ended'
  <2>1. \A v \in Workers \ {x} : handler'[v] = handler[v]
    BY <1>16, GotoRow, EndRow, CompleteRow DEF ReleaseNothing
  <2>2. Reached(x)'
    BY <1>16, GotoRow, EndRow, CompleteRow, ReachedElsewhere DEF ReleaseNothing, Read, Idle
  <2> QED
    BY <2>1, <2>2, EndedStep
<1>17. ASSUME NEW x \in Workers, RequeueHandedBack(x) PROVE Ended'
  <2>1. \A v \in Workers \ {x} : handler'[v] = handler[v]
    BY <1>17, GotoRow, EndRow, CompleteRow DEF RequeueHandedBack
  <2>2. Reached(x)'
    BY <1>17, GotoRow, EndRow, CompleteRow, ReachedElsewhere DEF RequeueHandedBack, Read, Idle
  <2> QED
    BY <2>1, <2>2, EndedStep
<1>18. ASSUME NEW x \in Workers, Crash(x) PROVE Ended'
  <2>1. \A v \in Workers \ {x} : handler'[v] = handler[v]
    BY <1>18, GotoRow, EndRow, CompleteRow DEF Crash
  <2>2. Reached(x)'
    BY <1>18, GotoRow, EndRow, CompleteRow, ReachedElsewhere DEF Crash, Read, Idle
  <2> QED
    BY <2>1, <2>2, EndedStep
<1>19. ASSUME NEW x \in Workers, CreateGrant(x) PROVE Ended'
  <2>1. \A v \in Workers \ {x} : handler'[v] = handler[v]
    BY <1>19, GotoRow, EndRow, CompleteRow DEF CreateGrant
  <2>2. ASSUME Spared({"fault"}), Spared({"fault"})' PROVE Reached(x)'
    <3>1. CASE handler'[x].pc \in Read \cup {"record", "cleanup"}
      <4>1. /\ handler'[x].thru = handler[x].thru /\ handler'[x].lease = handler[x].lease
            /\ handler'[x].end = handler[x].end
            /\ handler'[x].pc \in Read => handler[x].pc \in Read
            /\ Closing(x)' => Closing(x)
        BY <1>19, <3>1, GotoRow, EndRow, CompleteRow DEF CreateGrant, Read, Closing, Idle
      <4> QED
        BY <2>2, <4>1, ReachedStays DEF Ended
    <3>2. CASE handler'[x].pc \notin Read \cup {"record", "cleanup"}
      BY <3>2, ReachedElsewhere
    <3> QED
      BY <3>1, <3>2
  <2> QED
    BY <2>1, <2>2, EndedStep
<1>20. ASSUME NEW x \in Workers, HarnessSucceeds(x) PROVE Ended'
  <2>1. \A v \in Workers \ {x} : handler'[v] = handler[v]
    BY <1>20, GotoRow, EndRow, CompleteRow DEF HarnessSucceeds
  <2>2. ASSUME Spared({"fault"}), Spared({"fault"})' PROVE Reached(x)'
    <3>1. CASE handler'[x].pc \in Read \cup {"record", "cleanup"}
      <4>1. /\ handler'[x].thru = handler[x].thru /\ handler'[x].lease = handler[x].lease
            /\ handler'[x].end = handler[x].end
            /\ handler'[x].pc \in Read => handler[x].pc \in Read
            /\ Closing(x)' => Closing(x)
        BY <1>20, <3>1, GotoRow, EndRow, CompleteRow DEF HarnessSucceeds, Read, Closing, Idle
      <4> QED
        BY <2>2, <4>1, ReachedStays DEF Ended
    <3>2. CASE handler'[x].pc \notin Read \cup {"record", "cleanup"}
      BY <3>2, ReachedElsewhere
    <3> QED
      BY <3>1, <3>2
  <2> QED
    BY <2>1, <2>2, EndedStep
<1>21. ASSUME NEW x \in Workers, TurnFails(x) PROVE Ended'
  <2>1. \A v \in Workers \ {x} : handler'[v] = handler[v]
    BY <1>21, GotoRow, EndRow, CompleteRow DEF TurnFails
  <2>2. ASSUME Spared({"fault"}), Spared({"fault"})' PROVE Reached(x)'
    <3>1. CASE handler'[x].pc \in Read \cup {"record", "cleanup"}
      <4>1. /\ handler'[x].thru = handler[x].thru /\ handler'[x].lease = handler[x].lease
            /\ handler'[x].end = handler[x].end
            /\ handler'[x].pc \in Read => handler[x].pc \in Read
            /\ Closing(x)' => Closing(x)
        BY <1>21, <3>1, GotoRow, EndRow, CompleteRow DEF TurnFails, Abortable, Read, Closing, Idle
      <4> QED
        BY <2>2, <4>1, ReachedStays DEF Ended
    <3>2. CASE handler'[x].pc \notin Read \cup {"record", "cleanup"}
      BY <3>2, ReachedElsewhere
    <3> QED
      BY <3>1, <3>2
  <2> QED
    BY <2>1, <2>2, EndedStep
<1>22. ASSUME NEW x \in Workers, CheckCancellation(x) PROVE Ended'
  <2>1. \A v \in Workers \ {x} : handler'[v] = handler[v]
    BY <1>22, GotoRow, EndRow, CompleteRow DEF CheckCancellation
  <2>2. ASSUME Spared({"fault"}), Spared({"fault"})' PROVE Reached(x)'
    <3>1. CASE handler'[x].pc \in Read \cup {"record", "cleanup"}
      <4>1. /\ handler'[x].thru = handler[x].thru /\ handler'[x].lease = handler[x].lease
            /\ handler'[x].end = handler[x].end
            /\ handler'[x].pc \in Read => handler[x].pc \in Read
            /\ Closing(x)' => Closing(x)
        BY <1>22, <3>1, GotoRow, EndRow, CompleteRow DEF CheckCancellation, Read, Closing, Idle
      <4> QED
        BY <2>2, <4>1, ReachedStays DEF Ended
    <3>2. CASE handler'[x].pc \notin Read \cup {"record", "cleanup"}
      BY <3>2, ReachedElsewhere
    <3> QED
      BY <3>1, <3>2
  <2> QED
    BY <2>1, <2>2, EndedStep
<1>23. ASSUME NEW x \in Workers, RecordEnd(x) PROVE Ended'
  <2>1. \A v \in Workers \ {x} : handler'[v] = handler[v]
    BY <1>23, GotoRow, EndRow, CompleteRow DEF RecordEnd
  <2>2. ASSUME Spared({"fault"}), Spared({"fault"})' PROVE Reached(x)'
    <3>1. CASE handler'[x].pc \in Read \cup {"record", "cleanup"}
      <4>1. /\ handler'[x].thru = handler[x].thru /\ handler'[x].lease = handler[x].lease
            /\ handler'[x].end = handler[x].end
            /\ handler'[x].pc \in Read => handler[x].pc \in Read
            /\ Closing(x)' => Closing(x)
        BY <1>23, <3>1, GotoRow, EndRow, CompleteRow DEF RecordEnd, Read, Closing, Idle
      <4> QED
        BY <2>2, <4>1, ReachedStays DEF Ended
    <3>2. CASE handler'[x].pc \notin Read \cup {"record", "cleanup"}
      BY <3>2, ReachedElsewhere
    <3> QED
      BY <3>1, <3>2
  <2> QED
    BY <2>1, <2>2, EndedStep
<1>24. ASSUME NEW x \in Workers, AnswerNewMessages(x) PROVE Ended'
  <2>1. \A v \in Workers \ {x} : handler'[v] = handler[v]
    BY <1>24, GotoRow, EndRow, CompleteRow DEF AnswerNewMessages
  <2>2. ASSUME Spared({"fault"}), Spared({"fault"})' PROVE Reached(x)'
    <3>1. CASE handler'[x].pc \in Read \cup {"record", "cleanup"}
      <4>1. /\ handler'[x].thru = handler[x].thru /\ handler'[x].lease = handler[x].lease
            /\ handler'[x].end = handler[x].end
            /\ handler'[x].pc \in Read => handler[x].pc \in Read
            /\ Closing(x)' => Closing(x)
        BY <1>24, <3>1, GotoRow, EndRow, CompleteRow DEF AnswerNewMessages, Read, Closing, Idle
      <4> QED
        BY <2>2, <4>1, ReachedStays DEF Ended
    <3>2. CASE handler'[x].pc \notin Read \cup {"record", "cleanup"}
      BY <3>2, ReachedElsewhere
    <3> QED
      BY <3>1, <3>2
  <2> QED
    BY <2>1, <2>2, EndedStep
<1>25. ASSUME NEW x \in Workers, LoseLease(x) PROVE Ended'
  <2>1. \A v \in Workers \ {x} : handler'[v] = handler[v]
    BY <1>25, GotoRow, EndRow, CompleteRow DEF LoseLease
  <2>2. ASSUME Spared({"fault"}), Spared({"fault"})' PROVE Reached(x)'
    <3>1. /\ handler'[x].pc = "cleanup" /\ handler'[x].end = "lost"
          /\ handler'[x].lease = handler[x].lease /\ run' = run
      BY <1>25, EndRow DEF LoseLease, row
    <3>2. ~Holds(x)'
      BY <1>25, <2>2, <3>1 DEF LoseLease, Abortable, HeartbeatMatches,
         Holds, LeaseInv, HolderRuns, InTurn
    <3> QED
      BY <3>1, <3>2 DEF Reached, Closing, Read
  <2> QED
    BY <2>1, <2>2, EndedStep
<1>26. ASSUME NEW x \in Workers, ReadConversation(x) PROVE Ended'
  <2>1. \A v \in Workers \ {x} : handler'[v] = handler[v]
    BY <1>26 DEF ReadConversation, TypeOK
  <2>2. Reached(x)'
    <3>1. handler'[x].pc = "grant" /\ handler'[x].thru \in Nat
      BY <1>26 DEF ReadConversation, TypeOK, HandlerRow
    <3> QED
      BY <3>1 DEF Reached, Closing, Unread
  <2> QED
    BY <2>1, <2>2, EndedStep
<1>27. ASSUME NEW x \in Workers, Succeed(x) PROVE Ended'
  <2>1. \A v \in Workers \ {x} : handler'[v] = handler[v]
    BY <1>27, GotoRow, EndRow, CompleteRow DEF Succeed
  <2>2. ASSUME Spared({"fault"}), Spared({"fault"})' PROVE Reached(x)'
    <3>1. /\ handler'[x].thru = handler[x].thru /\ handler'[x].lease = handler[x].lease
          /\ handler[x].thru # Unread /\ run'.lease = run.lease
          /\ Holds(x) => handler'[x].pc = "record" /\ handler'[x].end = "succeeded"
          /\ ~Holds(x) => handler'[x].pc = "cleanup" /\ handler'[x].end = "lost"
      BY <1>27, <2>2, EndRow DEF Succeed, SetStatusWithLease, TypeOK, RunRow, Ended, Reached, Read
    <3> QED
      BY <3>1 DEF Reached, Closing, Read, Holds
  <2> QED
    BY <2>1, <2>2, EndedStep
<1>28. ASSUME NEW x \in Workers, CancelTurn(x) PROVE Ended'
  <2>1. \A v \in Workers \ {x} : handler'[v] = handler[v]
    BY <1>28, GotoRow, EndRow, CompleteRow DEF CancelTurn
  <2>2. Reached(x)'
    <3>1. /\ handler'[x].pc = "record" /\ handler'[x].end = "cancelled"
          /\ handler'[x].lease = handler[x].lease /\ run'.lease = run.lease
          /\ Holds(x) => run'.status = "cancelled"
      BY <1>28, EndRow DEF CancelTurn, SetStatusWithLease, TypeOK, RunRow
    <3> QED
      BY <3>1 DEF Reached, Closing, Read, Holds
  <2> QED
    BY <2>1, <2>2, EndedStep
<1>29. ASSUME NEW x \in Workers, FailTurn(x) PROVE Ended'
  <2>1. \A v \in Workers \ {x} : handler'[v] = handler[v]
    BY <1>29, GotoRow, EndRow, CompleteRow DEF FailTurn
  <2>2. ASSUME Spared({"fault"}), Spared({"fault"})' PROVE Reached(x)'
    <3>1. /\ handler'[x].pc = "record" /\ handler'[x].end = "failed"
          /\ handler'[x].thru = handler[x].thru /\ handler[x].thru # Unread
      BY <1>29, <2>2, EndRow DEF FailTurn, Ended, Reached, Read
    <3> QED
      BY <3>1 DEF Reached, Closing, Read
  <2> QED
    BY <2>1, <2>2, EndedStep
<1>30. ASSUME NEW x \in Workers, Cleanup(x) PROVE Ended'
  <2>1. \A v \in Workers \ {x} : handler'[v] = handler[v]
    BY <1>30, GotoRow, EndRow, CompleteRow DEF Cleanup
  <2>2. ASSUME Spared({"fault"}), Spared({"fault"})' PROVE Reached(x)'
    <3>1. CASE End(x, "notify", "none") /\ handler[x].end \in {"succeeded", "failed"}
      <4>1. /\ handler'[x].pc = "notify" /\ handler'[x].thru = handler[x].thru
            /\ handler[x].thru # Unread
        BY <1>30, <2>2, <3>1, EndRow DEF Cleanup, Ended, Reached, Closing
      <4> QED
        BY <4>1 DEF Reached, Closing
    <3>2. CASE End(x, "release", "none") \/ Complete(x)
      BY <3>2, EndRow, CompleteRow, ReachedElsewhere DEF Read, Idle
    <3> QED
      BY <1>30, <3>1, <3>2 DEF Cleanup
  <2> QED
    BY <2>1, <2>2, EndedStep
<1>31. ASSUME NEW x \in Workers, Notify(x) PROVE Ended'
  <2>1. \A v \in Workers \ {x} : handler'[v] = handler[v]
    BY <1>31, GotoRow, EndRow, CompleteRow DEF Notify
  <2>2. Reached(x)'
    <3>1. handler'[x].pc = "idle" \/ (handler'[x].pc = "answer" /\ handler'[x].thru # Unread)
      BY <1>31, GotoRow, CompleteRow DEF Notify, Idle
    <3> QED
      BY <3>1 DEF Reached, Closing, Read
  <2> QED
    BY <2>1, <2>2, EndedStep
<1>32. ASSUME NEW x \in Workers, HandBack(x) PROVE Ended'
  <2>1. \A v \in Workers \ {x} : handler'[v] = handler[v]
    BY <1>32, GotoRow, EndRow, CompleteRow DEF HandBack
  <2>2. ASSUME Spared({"fault"}), Spared({"fault"})' PROVE Reached(x)'
    <3>1. CASE Goto(x, "release")
      BY <3>1, GotoRow, ReachedElsewhere DEF Read
    <3>2. CASE End(x, "cleanup", "handedback")
      <4>1. /\ handler'[x].pc = "cleanup" /\ handler'[x].end = "handedback"
            /\ handler'[x].lease = handler[x].lease /\ run' = run /\ handler[x].pc \in InTurn
        BY <1>32, <3>2, EndRow DEF HandBack, row, Abortable, InTurn
      <4>2. Holds(x)' => run'.status = "running"
        BY <2>2, <4>1 DEF Holds, LeaseInv, HolderRuns
      <4> QED
        BY <4>1, <4>2 DEF Reached, Closing, Read
    <3> QED
      BY <1>32, <3>1, <3>2 DEF HandBack
  <2> QED
    BY <2>1, <2>2, EndedStep
<1>33. ASSUME NEW x \in Workers, LoseTouch(x) PROVE Ended'
  <2>1. \A v \in Workers \ {x} : handler'[v] = handler[v]
    BY <1>33 DEF LoseTouch, TypeOK
  <2>2. ASSUME Spared({"fault"}), Spared({"fault"})' PROVE Reached(x)'
    <3>1. /\ handler'[x].thru = handler[x].thru /\ handler'[x].end = handler[x].end
          /\ handler'[x].lease = handler[x].lease /\ handler'[x].pc = handler[x].pc
      BY <1>33 DEF LoseTouch, TypeOK, HandlerRow
    <3> QED
      BY <2>2, <3>1, ReachedStays DEF Ended, Closing
  <2> QED
    BY <2>1, <2>2, EndedStep
<1>34. ASSUME NEW x \in Workers, TurnFailsUnread(x) \/ StatusWriteThrows(x) PROVE Ended'
  <2>1. ~Spared({"fault"})'
    BY <1>34, SpentKind DEF TurnFailsUnread, StatusWriteThrows, TroubleKinds
  <2> QED
    BY <2>1 DEF Ended, Spared
<1>35. ASSUME NEW x \in Workers, Renew(x) PROVE UNCHANGED handler
  BY <1>35 DEF Renew
<1>36. CASE UNCHANGED handler
  <2>1. SUFFICES ASSUME Spared({"fault"})', NEW v \in Workers PROVE Reached(v)'
    BY DEF Ended, Spared
  <2>2. Reached(v)
    BY <2>1, SparedBefore DEF TroubleKinds, Ended
  <2> QED
    BY <1>36, <2>1, <2>2, ReachedStays DEF Closing
<1>37. ASSUME NEW r \in Requests, RequestStep(r) \/ DropRequest(r) PROVE UNCHANGED handler
  BY <1>37 DEF RequestStep, ReplyStep, AddReply, CommitReply, ReopenForReply, FollowUp, SendJob,
     FailUnqueuedRequest, DropRequest
<1>38. LeaseExpires \/ RequestCancellation \/ ToggleAutomation \/ Rest \/ UNCHANGED vars =>
         UNCHANGED handler
  BY DEF LeaseExpires, RequestCancellation, ToggleAutomation, Rest, vars
<1> QED
  BY <1>1, <1>2, <1>3, <1>4, <1>5, <1>6, <1>7, <1>8, <1>9, <1>10, <1>11, <1>12, <1>13,
     <1>14, <1>15, <1>16, <1>17, <1>18, <1>19, <1>20, <1>21, <1>22, <1>23, <1>24, <1>25,
     <1>26, <1>27, <1>28, <1>29, <1>30, <1>31, <1>32, <1>33, <1>34, <1>35, <1>36, <1>37,
     <1>38
     DEF Next, HandlerStep, ClaimStep, TurnStep, AfterStep, TroubleStep

\* The automation is turned off by a member only.
LEMMA StaysOnNext == TypeOK /\ Held /\ StaysOn /\ [Next]_vars => StaysOn'
<1> SUFFICES ASSUME TypeOK, Held, StaysOn, [Next]_vars, Spared({"toggle"})' PROVE enabled'
  BY DEF StaysOn, Spared
<1>1. ~ToggleAutomation
  BY SpentKind DEF ToggleAutomation, TroubleKinds
<1>2. enabled
  BY SparedBefore DEF StaysOn, TroubleKinds
<1>3. ASSUME NEW x \in Workers, Fetch(x) \/ HandlerStep(x) \/ TroubleStep(x) PROVE UNCHANGED enabled
  BY <1>3 DEF HandlerStep, ClaimStep, TurnStep, AfterStep, TroubleStep, row,
     Fetch, Claim, ClaimNothing, ReclaimNothing, LoadConfiguration, ConfigurationUnavailable,
     LookAtLease, Wake, StartTurn, LoseLease, ReadConversation, CreateGrant,
     HarnessSucceeds, TurnFails, PollCancellation, CheckCancellation, Succeed, CancelTurn,
     FailTurn, RecordEnd, Cleanup, Notify, AnswerNewMessages, ReopenAfterTurn,
     LeaveToOthers, RequeueTurn, FailUnqueuedTurn, ReleaseLease, ReleaseNothing, RequeueHandedBack,
     Renew, TurnFailsUnread, HandBack, StatusWriteThrows, Crash, LoseTouch
<1>4. ASSUME NEW r \in Requests, RequestStep(r) \/ DropRequest(r) PROVE UNCHANGED enabled
  BY <1>4 DEF RequestStep, ReplyStep, AddReply, CommitReply, ReopenForReply, FollowUp, SendJob,
     FailUnqueuedRequest, DropRequest, row
<1>5. LeaseExpires \/ RequestCancellation \/ Rest \/ UNCHANGED vars => UNCHANGED enabled
  BY DEF LeaseExpires, RequestCancellation, Rest, vars
<1> QED
  BY <1>1, <1>2, <1>3, <1>4, <1>5 DEF Next

\* A message that is looked for still is when the row and its messages stay and
\* the requests and handlers that look for it do.
LEMMA AwaitedStays ==
  ASSUME Awaited, UNCHANGED messages, answered \subseteq answered', UNCHANGED overtaken, run'.status = run.status,
         \A d \in Deliveries : request[d].pc = "stored" => request'[d] = request[d],
         \A v \in Workers : Looking(v) => Looking(v)'
  PROVE  Awaited'
<1>1. \A m : Comes(m) => Comes(m)'
  BY DEF Comes
<1>2. messages' = messages
  OBVIOUS
<1> QED
  BY <1>1, <1>2 DEF Awaited

\* So it is when a worker that does not leave it takes a step.
LEMMA AwaitedStep ==
  ASSUME Awaited, UNCHANGED <<messages, request>>, answered \subseteq answered', UNCHANGED overtaken,
         run'.status = run.status, run'.lease = run.lease, NEW x \in Workers,
         \A v \in Workers \ {x} : handler'[v] = handler[v], Looking(x) => Looking(x)'
  PROVE  Awaited'
<1>1. \A v \in Workers : Looking(v) => Looking(v)'
  BY DEF Looking, Holds
<1> QED
  BY <1>1, AwaitedStays

\* It is when a handler looks.
LEMMA AwaitedNow == ASSUME NEW x \in Workers, Looking(x)' PROVE Awaited'
BY DEF Awaited

\* There is nothing to wait for before the turn has ended.
LEMMA AwaitedLater == run'.status \notin {"succeeded", "failed"} => Awaited'
BY DEF Awaited

\* While the automation is on, only a grant keeps an ended run from being
\* reopened, and without crashes and faults that is the grant of a handler that
\* looks for new messages after its turn.
LEMMA HolderLooks ==
  ASSUME TypeOK, Held, LeaseInv, Spared({"crash", "fault"}), LeaseReferenced,
         run.status \in {"succeeded", "failed"}, \A w \in Workers : Reached(w)
  PROVE  \E w \in Workers : Looking(w) /\ handler[w].pc \in {"record", "cleanup"}
<1>1. PICK w \in Workers : Holds(w) /\ handler[w].pc \in Granted
  BY DEF Held, LeaseReferenced, Holds
<1>2. handler[w].pc \notin InTurn
  BY <1>1 DEF LeaseInv, HolderRuns, Spared
<1>3. handler[w].pc \in {"record", "cleanup"}
  BY <1>1, <1>2 DEF Granted, InTurn
<1> QED
  BY <1>1, <1>3 DEF Looking

\* Every step leaves the messages without a prompt to somebody.
LEMMA ExpectedNext ==
  TypeOK /\ TypeOK' /\ Held /\ LeaseInv /\ ReadIt /\ Ended /\ StaysOn /\ Expected /\ [Next]_vars
    => Expected'
<1> SUFFICES ASSUME TypeOK, TypeOK', Held, LeaseInv, ReadIt, Ended, StaysOn, Expected, [Next]_vars,
                    Spared({"crash", "drop", "fault", "toggle"})'
             PROVE  Awaited'
  BY DEF Expected, Quietly
<1>a. Spared({"crash", "drop", "fault", "toggle"})
  BY SparedBefore DEF TroubleKinds
<1>b. Awaited
  BY <1>a DEF Expected, Quietly
<1>c. /\ Spared({"fault"}) /\ Spared({"crash", "fault"}) /\ enabled
      /\ \A v \in Workers : Reached(v) /\ handler[v].pc # "undo"
      /\ \A r \in Requests : request[r].pc # "undo"
  BY <1>a DEF Spared, StaysOn, Ended, LeaseInv
<1>1. ASSUME NEW x \in Workers, Fetch(x) PROVE Awaited'
  <2>1. /\ \A v \in Workers \ {x} : handler'[v] = handler[v]
        /\ ~Looking(x) /\ UNCHANGED <<messages, request>> /\ answered \subseteq answered' /\ UNCHANGED overtaken
        /\ run'.status = run.status /\ run'.lease = run.lease
    BY <1>1 DEF Fetch, Looking, row, events, history, TypeOK
  <2> QED
    BY <1>b, <2>1, AwaitedStep
<1>2. ASSUME NEW x \in Workers, ClaimNothing(x) PROVE Awaited'
  <2>1. /\ \A v \in Workers \ {x} : handler'[v] = handler[v]
        /\ ~Looking(x) /\ UNCHANGED <<messages, request>> /\ answered \subseteq answered' /\ UNCHANGED overtaken
        /\ run'.status = run.status /\ run'.lease = run.lease
    BY <1>2, GotoRow, EndRow, CompleteRow DEF ClaimNothing, Looking, row, events, history
  <2> QED
    BY <1>b, <2>1, AwaitedStep
<1>3. ASSUME NEW x \in Workers, ReclaimNothing(x) PROVE Awaited'
  <2>1. /\ \A v \in Workers \ {x} : handler'[v] = handler[v]
        /\ ~Looking(x) /\ UNCHANGED <<messages, request>> /\ answered \subseteq answered' /\ UNCHANGED overtaken
        /\ run'.status = run.status /\ run'.lease = run.lease
    BY <1>3, GotoRow, EndRow, CompleteRow DEF ReclaimNothing, Looking, row, events, history
  <2> QED
    BY <1>b, <2>1, AwaitedStep
<1>4. ASSUME NEW x \in Workers, LoadConfiguration(x) PROVE Awaited'
  <2>1. /\ \A v \in Workers \ {x} : handler'[v] = handler[v]
        /\ ~Looking(x) /\ UNCHANGED <<messages, request>> /\ answered \subseteq answered' /\ UNCHANGED overtaken
        /\ run'.status = run.status /\ run'.lease = run.lease
    BY <1>4, GotoRow, EndRow, CompleteRow DEF LoadConfiguration, Looking, row, events, history
  <2> QED
    BY <1>b, <2>1, AwaitedStep
<1>5. ASSUME NEW x \in Workers, LookAtLease(x) PROVE Awaited'
  <2>1. /\ \A v \in Workers \ {x} : handler'[v] = handler[v]
        /\ ~Looking(x) /\ UNCHANGED <<messages, request>> /\ answered \subseteq answered' /\ UNCHANGED overtaken
        /\ run'.status = run.status /\ run'.lease = run.lease
    BY <1>5, GotoRow, EndRow, CompleteRow DEF LookAtLease, Looking, row, events, history
  <2> QED
    BY <1>b, <2>1, AwaitedStep
<1>6. ASSUME NEW x \in Workers, Wake(x) PROVE Awaited'
  <2>1. /\ \A v \in Workers \ {x} : handler'[v] = handler[v]
        /\ ~Looking(x) /\ UNCHANGED <<messages, request>> /\ answered \subseteq answered' /\ UNCHANGED overtaken
        /\ run'.status = run.status /\ run'.lease = run.lease
    BY <1>6, GotoRow, EndRow, CompleteRow DEF Wake, Looking, row, events, history
  <2> QED
    BY <1>b, <2>1, AwaitedStep
<1>7. ASSUME NEW x \in Workers, LoseLease(x) PROVE Awaited'
  <2>1. /\ \A v \in Workers \ {x} : handler'[v] = handler[v]
        /\ ~Looking(x) /\ UNCHANGED <<messages, request>> /\ answered \subseteq answered' /\ UNCHANGED overtaken
        /\ run'.status = run.status /\ run'.lease = run.lease
    BY <1>7, GotoRow, EndRow, CompleteRow DEF LoseLease, Looking, row, events, history, Abortable
  <2> QED
    BY <1>b, <2>1, AwaitedStep
<1>8. ASSUME NEW x \in Workers, TurnFails(x) PROVE Awaited'
  <2>1. /\ \A v \in Workers \ {x} : handler'[v] = handler[v]
        /\ ~Looking(x) /\ UNCHANGED <<messages, request>> /\ answered \subseteq answered' /\ UNCHANGED overtaken
        /\ run'.status = run.status /\ run'.lease = run.lease
    BY <1>8, GotoRow, EndRow, CompleteRow DEF TurnFails, Looking, row, events, history, Abortable
  <2> QED
    BY <1>b, <2>1, AwaitedStep
<1>9. ASSUME NEW x \in Workers, PollCancellation(x) PROVE Awaited'
  <2>1. /\ \A v \in Workers \ {x} : handler'[v] = handler[v]
        /\ ~Looking(x) /\ UNCHANGED <<messages, request>> /\ answered \subseteq answered' /\ UNCHANGED overtaken
        /\ run'.status = run.status /\ run'.lease = run.lease
    BY <1>9, GotoRow, EndRow, CompleteRow DEF PollCancellation, Looking, row, events, history, Abortable
  <2> QED
    BY <1>b, <2>1, AwaitedStep
<1>10. ASSUME NEW x \in Workers, HandBack(x) PROVE Awaited'
  <2>1. /\ \A v \in Workers \ {x} : handler'[v] = handler[v]
        /\ ~Looking(x) /\ UNCHANGED <<messages, request>> /\ answered \subseteq answered' /\ UNCHANGED overtaken
        /\ run'.status = run.status /\ run'.lease = run.lease
    BY <1>10, GotoRow, EndRow, CompleteRow DEF HandBack, Looking, row, events, history, Abortable
  <2> QED
    BY <1>b, <2>1, AwaitedStep
<1>11. ASSUME NEW x \in Workers, ReadConversation(x) PROVE Awaited'
  <2>1. /\ \A v \in Workers \ {x} : handler'[v] = handler[v]
        /\ ~Looking(x) /\ UNCHANGED <<messages, request>> /\ answered \subseteq answered' /\ UNCHANGED overtaken
        /\ run'.status = run.status /\ run'.lease = run.lease
    BY <1>11 DEF ReadConversation, Looking, row, events, history, TypeOK
  <2> QED
    BY <1>b, <2>1, AwaitedStep
<1>12. ASSUME NEW x \in Workers, CreateGrant(x) PROVE Awaited'
  <2>1. /\ \A v \in Workers \ {x} : handler'[v] = handler[v]
        /\ ~Looking(x) /\ UNCHANGED <<messages, request>> /\ answered \subseteq answered' /\ UNCHANGED overtaken
        /\ run'.status = run.status /\ run'.lease = run.lease
    BY <1>12, GotoRow, EndRow, CompleteRow DEF CreateGrant, Looking, row, events, history
  <2> QED
    BY <1>b, <2>1, AwaitedStep
<1>13. ASSUME NEW x \in Workers, HarnessSucceeds(x) PROVE Awaited'
  <2>1. /\ \A v \in Workers \ {x} : handler'[v] = handler[v]
        /\ ~Looking(x) /\ UNCHANGED <<messages, request>> /\ answered \subseteq answered' /\ UNCHANGED overtaken
        /\ run'.status = run.status /\ run'.lease = run.lease
    BY <1>13, GotoRow, EndRow, CompleteRow DEF HarnessSucceeds, Looking, row, events, history
  <2> QED
    BY <1>b, <2>1, AwaitedStep
<1>14. ASSUME NEW x \in Workers, CheckCancellation(x) PROVE Awaited'
  <2>1. /\ \A v \in Workers \ {x} : handler'[v] = handler[v]
        /\ ~Looking(x) /\ UNCHANGED <<messages, request>> /\ answered \subseteq answered' /\ UNCHANGED overtaken
        /\ run'.status = run.status /\ run'.lease = run.lease
    BY <1>14, GotoRow, EndRow, CompleteRow DEF CheckCancellation, Looking, row, events, history
  <2> QED
    BY <1>b, <2>1, AwaitedStep
<1>15. ASSUME NEW x \in Workers, RequeueTurn(x) PROVE Awaited'
  <2>1. /\ \A v \in Workers \ {x} : handler'[v] = handler[v]
        /\ ~Looking(x) /\ UNCHANGED <<messages, request>> /\ answered \subseteq answered' /\ UNCHANGED overtaken
        /\ run'.status = run.status /\ run'.lease = run.lease
    BY <1>15, GotoRow, EndRow, CompleteRow DEF RequeueTurn, Looking, row, events, history
  <2> QED
    BY <1>b, <2>1, AwaitedStep
<1>16. ASSUME NEW x \in Workers, ReleaseNothing(x) PROVE Awaited'
  <2>1. /\ \A v \in Workers \ {x} : handler'[v] = handler[v]
        /\ ~Looking(x) /\ UNCHANGED <<messages, request>> /\ answered \subseteq answered' /\ UNCHANGED overtaken
        /\ run'.status = run.status /\ run'.lease = run.lease
    BY <1>16, GotoRow, EndRow, CompleteRow DEF ReleaseNothing, Looking, row, events, history
  <2> QED
    BY <1>b, <2>1, AwaitedStep
<1>17. ASSUME NEW x \in Workers, RequeueHandedBack(x) PROVE Awaited'
  <2>1. /\ \A v \in Workers \ {x} : handler'[v] = handler[v]
        /\ ~Looking(x) /\ UNCHANGED <<messages, request>> /\ answered \subseteq answered' /\ UNCHANGED overtaken
        /\ run'.status = run.status /\ run'.lease = run.lease
    BY <1>17, GotoRow, EndRow, CompleteRow DEF RequeueHandedBack, Looking, row, events, history
  <2> QED
    BY <1>b, <2>1, AwaitedStep
<1>18. ASSUME NEW x \in Workers, Claim(x) PROVE Awaited'
  <2>1. run'.status \in {"pending", "running"}
    BY <1>18 DEF Claim, TypeOK, RunRow
  <2> QED
    BY <2>1, AwaitedLater
<1>19. ASSUME NEW x \in Workers, StartTurn(x) PROVE Awaited'
  <2>1. run'.status \in {"pending", "running"}
    BY <1>19 DEF StartTurn, HeartbeatMatches, TypeOK, RunRow
  <2> QED
    BY <2>1, AwaitedLater
<1>20. ASSUME NEW x \in Workers, ReleaseLease(x) PROVE Awaited'
  <2>1. run'.status \in {"pending", "running"}
    BY <1>20 DEF ReleaseLease, HeartbeatMatches, TypeOK, RunRow
  <2> QED
    BY <2>1, AwaitedLater
<1>21. ASSUME NEW x \in Workers, Renew(x) PROVE Awaited'
  <2>1. run'.status \in {"pending", "running"}
    BY <1>21 DEF Renew, HeartbeatMatches, TypeOK, RunRow
  <2> QED
    BY <2>1, AwaitedLater
<1>22. ASSUME NEW x \in Workers, ReopenAfterTurn(x) PROVE Awaited'
  <2>1. run'.status \in {"pending", "running"}
    BY <1>22 DEF ReopenAfterTurn, Reopened, TypeOK, RunRow
  <2> QED
    BY <2>1, AwaitedLater
<1>23. ASSUME NEW x \in Workers, ConfigurationUnavailable(x) PROVE Awaited'
  BY <1>c, <1>23 DEF ConfigurationUnavailable
<1>24. ASSUME NEW x \in Workers, Succeed(x) PROVE Awaited'
  <2>1. CASE Holds(x)
    <3>1. /\ handler'[x].pc = "record" /\ handler'[x].lease = handler[x].lease
          /\ run'.lease = run.lease
      BY <1>24, <2>1, EndRow DEF Succeed, SetStatusWithLease, TypeOK, RunRow
    <3>2. Looking(x)'
      BY <2>1, <3>1 DEF Looking, Holds
    <3> QED
      BY <3>2, AwaitedNow
  <2>2. CASE ~Holds(x)
    <3>1. /\ \A v \in Workers \ {x} : handler'[v] = handler[v]
          /\ ~Looking(x) /\ UNCHANGED <<messages, request, answered, overtaken, run>>
      BY <1>24, <2>2, EndRow DEF Succeed, SetStatusWithLease, Looking, events, history
    <3> QED
      BY <1>b, <3>1, AwaitedStep
  <2> QED
    BY <2>1, <2>2
<1>25. ASSUME NEW x \in Workers, FailTurn(x) PROVE Awaited'
  <2>1. CASE Holds(x)
    <3>1. /\ handler'[x].pc = "record" /\ handler'[x].lease = handler[x].lease
          /\ run'.lease = run.lease
      BY <1>25, <2>1, EndRow DEF FailTurn, SetStatusWithLease, TypeOK, RunRow
    <3>2. Looking(x)'
      BY <2>1, <3>1 DEF Looking, Holds
    <3> QED
      BY <3>2, AwaitedNow
  <2>2. CASE ~Holds(x)
    <3>1. /\ \A v \in Workers \ {x} : handler'[v] = handler[v]
          /\ ~Looking(x) /\ UNCHANGED <<messages, request, answered, overtaken, run>>
      BY <1>25, <2>2, EndRow DEF FailTurn, SetStatusWithLease, Looking, events, history
    <3> QED
      BY <1>b, <3>1, AwaitedStep
  <2> QED
    BY <2>1, <2>2
<1>26. ASSUME NEW x \in Workers, CancelTurn(x) PROVE Awaited'
  <2>1. CASE Holds(x)
    <3>1. run'.status = "cancelled"
      BY <1>26, <2>1 DEF CancelTurn, SetStatusWithLease, TypeOK, RunRow
    <3> QED
      BY <3>1, AwaitedLater
  <2>2. CASE ~Holds(x)
    <3>1. /\ \A v \in Workers \ {x} : handler'[v] = handler[v]
          /\ ~Looking(x) /\ UNCHANGED <<messages, request, answered, overtaken, run>>
      BY <1>26, <2>2, EndRow DEF CancelTurn, SetStatusWithLease, Looking, events, history
    <3> QED
      BY <1>b, <3>1, AwaitedStep
  <2> QED
    BY <2>1, <2>2
<1>27. ASSUME NEW x \in Workers, RecordEnd(x) PROVE Awaited'
  <2>1. /\ \A v \in Workers \ {x} : handler'[v] = handler[v]
        /\ UNCHANGED <<messages, request, answered, overtaken, run>>
        /\ handler'[x].pc = "cleanup" /\ handler'[x].lease = handler[x].lease
    BY <1>27, GotoRow DEF RecordEnd, row, history
  <2>2. Looking(x) => Looking(x)'
    BY <2>1 DEF Looking, Holds
  <2> QED
    BY <1>b, <2>1, <2>2, AwaitedStep
<1>28. ASSUME NEW x \in Workers, Cleanup(x) PROVE Awaited'
  <2>1. /\ \A v \in Workers \ {x} : handler'[v] = handler[v]
        /\ UNCHANGED <<messages, request, answered, overtaken, run>>
    BY <1>28, EndRow, CompleteRow DEF Cleanup, events, history
  <2>2. CASE run.status \notin {"succeeded", "failed"}
    BY <2>1, <2>2, AwaitedLater
  <2>3. CASE run.status \in {"succeeded", "failed"}
    <3>1. Looking(x) => handler[x].end \in {"succeeded", "failed"}
      <4>1. /\ handler[x].pc = "cleanup"
            /\ handler[x].end \in {"succeeded", "failed", "handedback", "error", "cancelled", "lost"}
        BY <1>28 DEF Cleanup
      <4>2. Reached(x)
        BY <1>c
      <4> QED
        BY <2>3, <4>1, <4>2 DEF Reached, Closing, Looking
    <3>2. Looking(x) => Looking(x)'
      <4>1. SUFFICES ASSUME Looking(x) PROVE Looking(x)'
        OBVIOUS
      <4>2. End(x, "notify", "none")
        BY <1>28, <3>1, <4>1 DEF Cleanup
      <4> QED
        BY <2>1, <4>1, <4>2, EndRow DEF Looking, Holds
    <3> QED
      BY <1>b, <2>1, <3>2, AwaitedStep
  <2> QED
    BY <2>2, <2>3
<1>29. ASSUME NEW x \in Workers, Notify(x) PROVE Awaited'
  <2>1. handler[x].thru # Unread
    BY <1>c, <1>29 DEF Notify, Reached, Read
  <2>2. /\ \A v \in Workers \ {x} : handler'[v] = handler[v]
        /\ UNCHANGED <<messages, request, answered, overtaken, run>>
        /\ handler'[x].pc = "answer" /\ handler'[x].lease = handler[x].lease
    BY <1>29, <2>1, GotoRow DEF Notify, row, events
  <2>3. Looking(x) => Looking(x)'
    BY <2>2 DEF Looking, Holds
  <2> QED
    BY <1>b, <2>2, <2>3, AwaitedStep
<1>30. ASSUME NEW x \in Workers, AnswerNewMessages(x) PROVE Awaited'
  <2>1. /\ \A v \in Workers \ {x} : handler'[v] = handler[v]
        /\ UNCHANGED <<messages, request, answered, overtaken, run>>
    BY <1>30, GotoRow, CompleteRow DEF AnswerNewMessages, row, events, history
  <2>2. CASE HasNewMessages(handler[x].thru)
    <3>1. handler'[x].pc = "reopen" /\ handler'[x].lease = handler[x].lease
      BY <1>30, <2>2, GotoRow DEF AnswerNewMessages
    <3>2. Looking(x) => Looking(x)'
      BY <2>1, <3>1 DEF Looking, Holds
    <3> QED
      BY <1>b, <2>1, <3>2, AwaitedStep
  <2>3. CASE ~HasNewMessages(handler[x].thru)
    <3>1. messages \subseteq answered \cup overtaken
      BY <2>3 DEF HasNewMessages, ReadIt
    <3> QED
      BY <2>1, <3>1 DEF Awaited
  <2> QED
    BY <2>2, <2>3
<1>31. ASSUME NEW x \in Workers, LeaveToOthers(x) PROVE Awaited'
  <2>1. /\ \A v \in Workers \ {x} : handler'[v] = handler[v]
        /\ UNCHANGED <<messages, request, answered, overtaken, run>>
    BY <1>31, CompleteRow DEF LeaveToOthers, row, events, history
  <2>2. CASE run.status \notin {"succeeded", "failed"}
    BY <2>1, <2>2, AwaitedLater
  <2>3. CASE run.status \in {"succeeded", "failed"} /\ LeaseReferenced
    <3>1. PICK v \in Workers : Looking(v) /\ handler[v].pc \in {"record", "cleanup"}
      BY <1>c, <2>3, HolderLooks
    <3>2. v # x
      BY <1>31, <3>1 DEF LeaveToOthers
    <3>3. Looking(v)'
      BY <2>1, <3>1, <3>2 DEF Looking, Holds
    <3> QED
      BY <3>3, AwaitedNow
  <2>4. CASE run.status \in {"succeeded", "failed"} /\ ~LeaseReferenced
    <3>1. Reopenable
      BY <1>c, <2>4 DEF Reopenable, Terminal
    <3>2. ~Looking(x)
      BY <1>31, <2>4, <3>1 DEF LeaveToOthers, Looking
    <3> QED
      BY <1>b, <2>1, <3>2, AwaitedStep
  <2> QED
    BY <2>2, <2>3, <2>4
<1>32. ASSUME NEW x \in Workers, FailUnqueuedTurn(x) PROVE Awaited'
  BY <1>c, <1>32 DEF FailUnqueuedTurn
<1>33. ASSUME NEW x \in Workers, TurnFailsUnread(x) \/ StatusWriteThrows(x) \/ Crash(x) PROVE Awaited'
  <2>1. Meet("fault") \/ Meet("crash")
    BY <1>33 DEF TurnFailsUnread, StatusWriteThrows, Crash
  <2> QED
    BY <2>1, SpentKind DEF TroubleKinds
<1>34. ASSUME NEW x \in Workers, LoseTouch(x) PROVE Awaited'
  <2>1. /\ \A v \in Workers \ {x} : handler'[v] = handler[v]
        /\ UNCHANGED <<messages, request, answered, overtaken, run>>
        /\ handler'[x].pc = handler[x].pc /\ handler'[x].lease = handler[x].lease
    BY <1>34 DEF LoseTouch, row, events, history, TypeOK, HandlerRow
  <2>2. Looking(x) => Looking(x)'
    BY <2>1 DEF Looking, Holds
  <2> QED
    BY <1>b, <2>1, <2>2, AwaitedStep
<1>35. ASSUME NEW d \in Deliveries, AddReply(d) PROVE Awaited'
  <2>1. d \in Requests /\ UNCHANGED <<run, handler, messages, answered, overtaken>> /\ request[d].pc = "new"
    BY <1>35 DEF AddReply, Requests, row, history
  <2>2. \A e \in Deliveries \ {d} : request'[e] = request[e]
    BY <1>35, <2>1 DEF AddReply, Step, TypeOK, Requests
  <2> QED
    BY <1>b, <2>1, <2>2, AwaitedStays DEF Looking, Holds
<1>36. ASSUME NEW d \in Deliveries, CommitReply(d) PROVE Awaited'
  <2>0. d \in Requests
    BY DEF Requests
  <2>1. /\ UNCHANGED <<run, handler, answered>> /\ messages' = messages \cup {request[d].id}
        /\ overtaken \subseteq overtaken'
        /\ request'[d].id = request[d].id /\ request'[d].pc = "stored"
        /\ request[d].pc = "inserted"
        /\ \A e \in Deliveries \ {d} : request'[e] = request[e]
    BY <1>36, <2>0 DEF CommitReply, Step, row, history, TypeOK, RequestRow, Requests
  <2>2. Comes(request[d].id)' /\ \A m : Comes(m) => Comes(m)'
    BY <2>1 DEF Comes
  <2>3. \A v \in Workers : Looking(v) => Looking(v)'
    BY <2>1 DEF Looking, Holds
  <2> QED
    BY <1>b, <2>1, <2>2, <2>3 DEF Awaited
<1>37. ASSUME NEW d \in Deliveries, ReopenForReply(d) PROVE Awaited'
  <2>1. CASE run'.status \notin {"succeeded", "failed"}
    BY <2>1, AwaitedLater
  <2>2. CASE run'.status \in {"succeeded", "failed"}
    <3>1. run' = run /\ handler' = handler /\ ~(Reopenable /\ ~LeaseReferenced)
      BY <1>37, <2>2 DEF ReopenForReply, Reopened
    <3>2. LeaseReferenced
      BY <1>c, <2>2, <3>1 DEF Reopenable, Terminal
    <3>3. PICK v \in Workers : Looking(v)
      BY <1>c, <2>2, <3>1, <3>2, HolderLooks
    <3>4. Looking(v)'
      BY <3>1, <3>3 DEF Looking, Holds
    <3> QED
      BY <3>4, AwaitedNow
  <2> QED
    BY <2>1, <2>2
<1>38. ASSUME NEW f \in FollowUps, FollowUp(f) PROVE Awaited'
  <2>0. f \in Requests /\ f \notin Deliveries
    BY AutomationRunAssumption DEF Requests, Deliveries
  <2>1. CASE Reopenable /\ ~LeaseReferenced
    <3>1. run'.status = "pending"
      BY <1>38, <2>1 DEF FollowUp, Reopened
    <3> QED
      BY <3>1, AwaitedLater
  <2>2. CASE ~(Reopenable /\ ~LeaseReferenced)
    <3>1. /\ UNCHANGED <<run, handler, messages, answered, overtaken>>
          /\ \A e \in Deliveries : request'[e] = request[e]
      BY <1>38, <2>0, <2>2 DEF FollowUp, Step, history, TypeOK, Requests
    <3>2. \A v \in Workers : Looking(v) => Looking(v)'
      BY <3>1 DEF Looking, Holds
    <3> QED
      BY <1>b, <3>1, <3>2, AwaitedStays
  <2> QED
    BY <2>1, <2>2
<1>39. ASSUME NEW r \in Requests, SendJob(r) PROVE Awaited'
  <2>1. UNCHANGED <<run, handler, messages, answered, overtaken>> /\ request[r].pc = "sending"
    BY <1>39 DEF SendJob, row, events, history
  <2>2. \A e \in Deliveries \ {r} : request'[e] = request[e]
    BY <1>39 DEF SendJob, Step, TypeOK, Requests
  <2>3. \A v \in Workers : Looking(v) => Looking(v)'
    BY <2>1 DEF Looking, Holds
  <2> QED
    BY <1>b, <2>1, <2>2, <2>3, AwaitedStays
<1>40. ASSUME NEW r \in Requests, FailUnqueuedRequest(r) PROVE Awaited'
  BY <1>c, <1>40 DEF FailUnqueuedRequest
<1>41. ASSUME NEW r \in Requests, DropRequest(r) PROVE Awaited'
  BY <1>41, SpentKind DEF DropRequest, TroubleKinds
<1>42. CASE ToggleAutomation
  BY <1>42, SpentKind DEF ToggleAutomation, TroubleKinds
<1>43. CASE LeaseExpires \/ RequestCancellation \/ Rest \/ UNCHANGED vars
  <2>1. /\ run'.status = run.status /\ run'.lease = run.lease
        /\ UNCHANGED <<handler, messages, request, answered, overtaken>>
    BY <1>43 DEF LeaseExpires, RequestCancellation, Rest, vars, events, history, TypeOK, RunRow
  <2>2. \A v \in Workers : Looking(v) => Looking(v)'
    BY <2>1 DEF Looking, Holds
  <2> QED
    BY <1>b, <2>1, <2>2, AwaitedStays
<1> QED
  BY <1>1, <1>2, <1>3, <1>4, <1>5, <1>6, <1>7, <1>8, <1>9, <1>10, <1>11, <1>12, <1>13, <1>14,
     <1>15, <1>16, <1>17, <1>18, <1>19, <1>20, <1>21, <1>22, <1>23, <1>24, <1>25, <1>26,
     <1>27, <1>28, <1>29, <1>30, <1>31, <1>32, <1>33, <1>34, <1>35, <1>36, <1>37, <1>38,
     <1>39, <1>40, <1>41, <1>42, <1>43
     DEF Next, HandlerStep, ClaimStep, TurnStep, AfterStep, TroubleStep, RequestStep, ReplyStep

\* When everything is at rest nobody is left to look.
LEMMA RestAnswers == Expected /\ Quietly => NoReplyLeftBehind
<1> SUFFICES ASSUME Awaited, Quiet, run.status \in {"succeeded", "failed"}
             PROVE  messages \subseteq answered \cup overtaken
  BY DEF Expected, NoReplyLeftBehind
<1>1. \A m : ~Comes(m)
  BY DEF Quiet, Comes, Requests
<1>2. \A v \in Workers : ~Looking(v)
  BY DEF Quiet, Looking
<1> QED
  BY <1>1, <1>2 DEF Awaited

\* As long as no process died, no call failed and nobody turned the automation
\* off, every reply whose id no prompt had read past when it showed gets a turn
\* that answers it.
THEOREM RepliesAnsweredCorrect == Spec => []RepliesAnswered
<1> DEFINE Inv == Held /\ LeaseInv /\ Stored /\ ReadIt /\ Ended /\ StaysOn /\ Expected
<1>1. Init => Inv
  BY HeldInit, LeaseInit, StoredInit, ExpectedInit
<1>2. TypeOK /\ TypeOK' /\ Inv /\ [Next]_vars => Inv'
  BY HeldNext, LeaseNext, StoredNext, ReadItNext, EndedNext, StaysOnNext, ExpectedNext
<1>3. Inv => RepliesAnswered
  BY RestAnswers DEF Quietly, RepliesAnswered
<1> HIDE DEF Inv
<1> QED
  BY <1>1, <1>2, <1>3, TypeCorrect, PTL DEF Spec
=============================================================================
