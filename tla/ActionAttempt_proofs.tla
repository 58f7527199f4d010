------------------------ MODULE ActionAttempt_proofs ------------------------
(***************************************************************************)
(* Machine-checked proofs about ActionAttempt, for every set of calls and  *)
(* every budget of trouble.                                                *)
(*                                                                         *)
(* The parts of the inductive invariant IInv build on each other: Sole     *)
(* says that a writer keeps all others out through the row, Effected what  *)
(* each service has at each place of the writer, Answered what the calls   *)
(* that ended were told.                                                   *)
(***************************************************************************)
EXTENDS ActionAttempt, TLAPS

\* No call has failed yet.
Clean == Spared({"fault"})

\* What is left of the budget.
Metered == trouble \in [Limits -> Nat] /\ trouble["fault"] <= Budget["fault"]

RowOK ==
  /\ kind \in Kinds
  /\ attempt \in {"none", "running", "succeeded", "failed"}
  /\ effects \in Nat
  /\ branch \in BOOLEAN /\ origin \in BOOLEAN

\* Each place belongs to its kinds of write.
CallsOK ==
  /\ at \in [Calls -> PC] /\ answer \in [Calls -> Answer]
  /\ ousted \subseteq Calls
  /\ \A c \in Calls : /\ at[c] = "again" => kind = "message"
                      /\ at[c] = "find" => kind = "issue"
                      /\ at[c] \in {"assert", "pull", "origin"} => kind = "pull_request"

\* While a call writes the row is running, so that no other call starts. A reply
\* whose record threw may have a row that says it succeeded.
Sole ==
  /\ OneWriter
  /\ \A c \in Calls : at[c] \in Writing =>
       \/ attempt = "running"
       \/ attempt = "succeeded" /\ at[c] = "withdraw" /\ kind = "reply" /\ ~Clean

\* What the service has: Slack and Linear recognize the id, GitHub the branch,
\* and a reply is only known to be new as long as no call failed.
Effected ==
  /\ kind # "reply" \/ Clean => effects <= 1
  /\ kind = "pull_request" => /\ effects > 0 => branch
                              /\ \A c \in Calls : at[c] = "pull" => branch /\ effects = 0
  /\ kind = "reply" /\ Clean =>
       /\ effects > 0 => attempt \in {"running", "succeeded"}
       /\ \A c \in Calls : /\ at[c] = "write" => effects = 0
                           /\ at[c] # "withdraw"

\* What was recorded and what was answered is true.
Answered ==
  /\ attempt = "succeeded" => effects > 0
  /\ \A c \in Calls : at[c] \in {"record", "origin"} => effects > 0 /\ attempt # "none"
  /\ AnswersTrue

IInv == Metered /\ RowOK /\ CallsOK /\ Sole /\ Effected /\ Answered

-----------------------------------------------------------------------------

\* What was met is taken from the budget.
LEMMA MeetOK ==
  ASSUME Metered, NEW k \in TroubleKinds, Meet(k)
  PROVE  /\ Metered' /\ (Clean' => Clean)
         /\ k = "fault" => ~Clean'
<1>1. k \in Limits /\ "any" \in Limits /\ "fault" \in Limits /\ k # "any"
  BY DEF Limits, TroubleKinds
<1>2. Budget["fault"] \in Nat
  BY <1>1, ActionAttemptAssumption
<1>3. /\ trouble' \in [Limits -> Nat] /\ trouble'["fault"] <= trouble["fault"]
      /\ k = "fault" => trouble'["fault"] < trouble["fault"]
  BY <1>1 DEF Metered, Meet
<1> QED
  BY <1>1, <1>2, <1>3 DEF Metered, Clean, Spared

\* Without trouble the budget stays.
LEMMA CalmOK ==
  ASSUME Metered, UNCHANGED trouble
  PROVE  Metered' /\ (Clean' <=> Clean)
BY DEF Metered, Clean, Spared

\* One call moves.
LEMMA GotoOK ==
  ASSUME CallsOK, NEW c \in Calls, NEW pc \in PC, Goto(c, pc)
  PROVE  /\ at' \in [Calls -> PC] /\ answer' = answer
         /\ at'[c] = pc /\ \A d \in Calls : d # c => at'[d] = at[d]
BY DEF CallsOK, Goto

\* A place tells the kind of the write.
LEMMA PlaceOK ==
  ASSUME CallsOK, NEW c \in Calls
  PROVE  /\ at[c] = "again" => kind = "message"
         /\ at[c] = "find" => kind = "issue"
         /\ at[c] \in {"assert", "pull", "origin"} => kind = "pull_request"
BY DEF CallsOK

\* One call ends with an answer.
LEMMA TellOK ==
  ASSUME CallsOK, NEW c \in Calls, NEW said \in Answer, Tell(c, said)
  PROVE  /\ at' \in [Calls -> PC] /\ answer' \in [Calls -> Answer]
         /\ at'[c] = "end" /\ \A d \in Calls : d # c => at'[d] = at[d]
         /\ answer'[c] = said /\ \A d \in Calls : d # c => answer'[d] = answer[d]
BY DEF CallsOK, Tell, PC

\* The budget is never exceeded.
LEMMA MeteredStep ==
  ASSUME IInv, Next
  PROVE  Metered'
<1>1. ASSUME NEW c \in Calls, Ask(c)  PROVE Metered'
  BY <1>1, MeetOK, CalmOK
  DEF Ask, IInv, Try, TroubleKinds
<1>2. ASSUME NEW c \in Calls, Insert(c)  PROVE Metered'
  BY <1>2, MeetOK, CalmOK
  DEF Insert, IInv, Try, TroubleKinds
<1>3. ASSUME NEW c \in Calls, Retry(c)  PROVE Metered'
  BY <1>3, MeetOK, CalmOK
  DEF Retry, IInv, Try, TroubleKinds
<1>4. ASSUME NEW c \in Calls, Look(c)  PROVE Metered'
  BY <1>4, MeetOK, CalmOK
  DEF Look, IInv, Try, TroubleKinds
<1>5. ASSUME NEW c \in Calls, AssertActive(c)  PROVE Metered'
  BY <1>5, MeetOK, CalmOK
  DEF AssertActive, IInv, Try, TroubleKinds
<1>6. ASSUME NEW c \in Calls, Post(c)  PROVE Metered'
  BY <1>6, MeetOK, CalmOK
  DEF Post, IInv, Try, TroubleKinds
<1>7. ASSUME NEW c \in Calls, CreateIssue(c)  PROVE Metered'
  BY <1>7, MeetOK, CalmOK
  DEF CreateIssue, IInv, Try, TroubleKinds
<1>8. ASSUME NEW c \in Calls, FindIssue(c)  PROVE Metered'
  BY <1>8, MeetOK, CalmOK
  DEF FindIssue, IInv, Try, TroubleKinds
<1>9. ASSUME NEW c \in Calls, CreateBranch(c)  PROVE Metered'
  BY <1>9, MeetOK, CalmOK
  DEF CreateBranch, IInv, Try, TroubleKinds
<1>10. ASSUME NEW c \in Calls, OpenPull(c)  PROVE Metered'
  BY <1>10, MeetOK, CalmOK
  DEF OpenPull, IInv, Try, TroubleKinds
<1>11. ASSUME NEW c \in Calls, PostReply(c)  PROVE Metered'
  BY <1>11, MeetOK, CalmOK
  DEF PostReply, IInv, Try, TroubleKinds
<1>12. ASSUME NEW c \in Calls, Complete(c)  PROVE Metered'
  BY <1>12, MeetOK, CalmOK
  DEF Complete, IInv, Try, TroubleKinds
<1>13. ASSUME NEW c \in Calls, Withdraw(c)  PROVE Metered'
  BY <1>13, MeetOK, CalmOK
  DEF Withdraw, IInv, Try, TroubleKinds
<1>14. ASSUME NEW c \in Calls, RecordOrigin(c)  PROVE Metered'
  BY <1>14, MeetOK, CalmOK
  DEF RecordOrigin, IInv, Try, TroubleKinds
<1>15. ASSUME NEW c \in Calls, Crash(c)  PROVE Metered'
  BY <1>15, MeetOK, CalmOK
  DEF Crash, IInv, Try, TroubleKinds
<1>16. ASSUME NEW c \in Calls, LoseTurn(c)  PROVE Metered'
  BY <1>16, MeetOK, CalmOK
  DEF LoseTurn, IInv, Try, TroubleKinds
<1>17. CASE Rest
  BY <1>17, CalmOK DEF Rest, vars, IInv, Try, TroubleKinds
<1> QED
  BY <1>1, <1>2, <1>3, <1>4, <1>5, <1>6, <1>7, <1>8, <1>9, <1>10, <1>11, <1>12, <1>13, <1>14, <1>15, <1>16, <1>17
  DEF Next, Proceed

\* Every action keeps the types of the row and of the service.
LEMMA RowOKStep ==
  ASSUME IInv, Next
  PROVE  RowOK'
<1>1. ASSUME NEW c \in Calls, Ask(c)  PROVE RowOK'
  BY <1>1, MeetOK
  DEF Ask, IInv, RowOK, Try, Set, service
<1>2. ASSUME NEW c \in Calls, Insert(c)  PROVE RowOK'
  BY <1>2, MeetOK
  DEF Insert, IInv, RowOK, Try, Set, service
<1>3. ASSUME NEW c \in Calls, Retry(c)  PROVE RowOK'
  BY <1>3, MeetOK
  DEF Retry, IInv, RowOK, Try, Set, service
<1>4. ASSUME NEW c \in Calls, Look(c)  PROVE RowOK'
  BY <1>4, MeetOK
  DEF Look, IInv, RowOK, Try, Set, service
<1>5. ASSUME NEW c \in Calls, AssertActive(c)  PROVE RowOK'
  BY <1>5, MeetOK
  DEF AssertActive, IInv, RowOK, Try, Set, service
<1>6. ASSUME NEW c \in Calls, Post(c)  PROVE RowOK'
  BY <1>6, MeetOK
  DEF Post, IInv, RowOK, Try, Set, service
<1>7. ASSUME NEW c \in Calls, CreateIssue(c)  PROVE RowOK'
  BY <1>7, MeetOK
  DEF CreateIssue, IInv, RowOK, Try, Set, service
<1>8. ASSUME NEW c \in Calls, FindIssue(c)  PROVE RowOK'
  BY <1>8, MeetOK
  DEF FindIssue, IInv, RowOK, Try, Set, service
<1>9. ASSUME NEW c \in Calls, CreateBranch(c)  PROVE RowOK'
  BY <1>9, MeetOK
  DEF CreateBranch, IInv, RowOK, Try, Set, service
<1>10. ASSUME NEW c \in Calls, OpenPull(c)  PROVE RowOK'
  BY <1>10, MeetOK
  DEF OpenPull, IInv, RowOK, Try, Set, service
<1>11. ASSUME NEW c \in Calls, PostReply(c)  PROVE RowOK'
  BY <1>11, MeetOK
  DEF PostReply, IInv, RowOK, Try, Set, service
<1>12. ASSUME NEW c \in Calls, Complete(c)  PROVE RowOK'
  BY <1>12, MeetOK
  DEF Complete, IInv, RowOK, Try, Set, service
<1>13. ASSUME NEW c \in Calls, Withdraw(c)  PROVE RowOK'
  BY <1>13, MeetOK
  DEF Withdraw, IInv, RowOK, Try, Set, service
<1>14. ASSUME NEW c \in Calls, RecordOrigin(c)  PROVE RowOK'
  BY <1>14, MeetOK
  DEF RecordOrigin, IInv, RowOK, Try, Set, service
<1>15. ASSUME NEW c \in Calls, Crash(c)  PROVE RowOK'
  BY <1>15, MeetOK
  DEF Crash, IInv, RowOK, Try, Set, service
<1>16. ASSUME NEW c \in Calls, LoseTurn(c)  PROVE RowOK'
  BY <1>16, MeetOK
  DEF LoseTurn, IInv, RowOK, Try, Set, service
<1>17. CASE Rest
  BY <1>17, CalmOK DEF Rest, vars, IInv, RowOK, Try, Set, service
<1> QED
  BY <1>1, <1>2, <1>3, <1>4, <1>5, <1>6, <1>7, <1>8, <1>9, <1>10, <1>11, <1>12, <1>13, <1>14, <1>15, <1>16, <1>17
  DEF Next, Proceed

\* Every action keeps the kinds of the places.
LEMMA CallsOKStep ==
  ASSUME IInv, Next
  PROVE  CallsOK'
<1>1. ASSUME NEW c \in Calls, Ask(c)  PROVE CallsOK'
  BY <1>1, MeetOK, CalmOK, GotoOK, TellOK
  DEF Ask, IInv, Try, Start, Set, Settled, Retryable, service, TroubleKinds, RowOK, CallsOK, PC, Writing, Answer
<1>2. ASSUME NEW c \in Calls, Insert(c)  PROVE CallsOK'
  BY <1>2, MeetOK, CalmOK, GotoOK, TellOK
  DEF Insert, IInv, Try, Start, Set, Settled, Retryable, service, TroubleKinds, RowOK, CallsOK, PC, Writing, Answer
<1>3. ASSUME NEW c \in Calls, Retry(c)  PROVE CallsOK'
  BY <1>3, MeetOK, CalmOK, GotoOK, TellOK
  DEF Retry, IInv, Try, Start, Set, Settled, Retryable, service, TroubleKinds, RowOK, CallsOK, PC, Writing, Answer
<1>4. ASSUME NEW c \in Calls, Look(c)  PROVE CallsOK'
  BY <1>4, MeetOK, CalmOK, GotoOK, TellOK
  DEF Look, IInv, Try, Start, Set, Settled, Retryable, service, TroubleKinds, RowOK, CallsOK, PC, Writing, Answer
<1>5. ASSUME NEW c \in Calls, AssertActive(c)  PROVE CallsOK'
  BY <1>5, MeetOK, CalmOK, GotoOK, TellOK
  DEF AssertActive, IInv, Try, Start, Set, Settled, Retryable, service, TroubleKinds, RowOK, CallsOK, PC, Writing, Answer
<1>6. ASSUME NEW c \in Calls, Post(c)  PROVE CallsOK'
  BY <1>6, MeetOK, CalmOK, GotoOK, TellOK
  DEF Post, IInv, Try, Start, Set, Settled, Retryable, service, TroubleKinds, RowOK, CallsOK, PC, Writing, Answer
<1>7. ASSUME NEW c \in Calls, CreateIssue(c)  PROVE CallsOK'
  BY <1>7, MeetOK, CalmOK, GotoOK, TellOK
  DEF CreateIssue, IInv, Try, Start, Set, Settled, Retryable, service, TroubleKinds, RowOK, CallsOK, PC, Writing, Answer
<1>8. ASSUME NEW c \in Calls, FindIssue(c)  PROVE CallsOK'
  BY <1>8, MeetOK, CalmOK, GotoOK, TellOK
  DEF FindIssue, IInv, Try, Start, Set, Settled, Retryable, service, TroubleKinds, RowOK, CallsOK, PC, Writing, Answer
<1>9. ASSUME NEW c \in Calls, CreateBranch(c)  PROVE CallsOK'
  BY <1>9, MeetOK, CalmOK, GotoOK, TellOK
  DEF CreateBranch, IInv, Try, Start, Set, Settled, Retryable, service, TroubleKinds, RowOK, CallsOK, PC, Writing, Answer
<1>10. ASSUME NEW c \in Calls, OpenPull(c)  PROVE CallsOK'
  BY <1>10, MeetOK, CalmOK, GotoOK, TellOK
  DEF OpenPull, IInv, Try, Start, Set, Settled, Retryable, service, TroubleKinds, RowOK, CallsOK, PC, Writing, Answer
<1>11. ASSUME NEW c \in Calls, PostReply(c)  PROVE CallsOK'
  BY <1>11, MeetOK, CalmOK, GotoOK, TellOK
  DEF PostReply, IInv, Try, Start, Set, Settled, Retryable, service, TroubleKinds, RowOK, CallsOK, PC, Writing, Answer
<1>12. ASSUME NEW c \in Calls, Complete(c)  PROVE CallsOK'
  BY <1>12, MeetOK, CalmOK, GotoOK, TellOK
  DEF Complete, IInv, Try, Start, Set, Settled, Retryable, service, TroubleKinds, RowOK, CallsOK, PC, Writing, Answer
<1>13. ASSUME NEW c \in Calls, Withdraw(c)  PROVE CallsOK'
  BY <1>13, MeetOK, CalmOK, GotoOK, TellOK
  DEF Withdraw, IInv, Try, Start, Set, Settled, Retryable, service, TroubleKinds, RowOK, CallsOK, PC, Writing, Answer
<1>14. ASSUME NEW c \in Calls, RecordOrigin(c)  PROVE CallsOK'
  BY <1>14, MeetOK, CalmOK, GotoOK, TellOK
  DEF RecordOrigin, IInv, Try, Start, Set, Settled, Retryable, service, TroubleKinds, RowOK, CallsOK, PC, Writing, Answer
<1>15. ASSUME NEW c \in Calls, Crash(c)  PROVE CallsOK'
  BY <1>15, MeetOK, CalmOK, GotoOK, TellOK
  DEF Crash, IInv, Try, Start, Set, Settled, Retryable, service, TroubleKinds, RowOK, CallsOK, PC, Writing, Answer
<1>16. ASSUME NEW c \in Calls, LoseTurn(c)  PROVE CallsOK'
  BY <1>16, MeetOK, CalmOK, GotoOK, TellOK
  DEF LoseTurn, IInv, Try, Start, Set, Settled, Retryable, service, TroubleKinds, RowOK, CallsOK, PC, Writing, Answer
<1>17. CASE Rest
  BY <1>17, CalmOK DEF Rest, vars, IInv, Try, Start, Set, Settled, Retryable, service, TroubleKinds, RowOK, CallsOK, PC, Writing, Answer
<1> QED
  BY <1>1, <1>2, <1>3, <1>4, <1>5, <1>6, <1>7, <1>8, <1>9, <1>10, <1>11, <1>12, <1>13, <1>14, <1>15, <1>16, <1>17
  DEF Next, Proceed

\* A call starts to write only where no other writes.
LEMMA SoleStep ==
  ASSUME IInv, Next
  PROVE  Sole'
<1>1. ASSUME NEW c \in Calls, Ask(c)  PROVE Sole'
  BY <1>1, MeetOK, CalmOK, GotoOK, TellOK
  DEF Ask, IInv, Try, Start, Set, Settled, Retryable, service, TroubleKinds, RowOK, Sole, OneWriter, Writing, PC, Answer
<1>2. ASSUME NEW c \in Calls, Insert(c)  PROVE Sole'
  BY <1>2, MeetOK, CalmOK, GotoOK, TellOK
  DEF Insert, IInv, Try, Start, Set, Settled, Retryable, service, TroubleKinds, RowOK, Sole, OneWriter, Writing, PC, Answer
<1>3. ASSUME NEW c \in Calls, Retry(c)  PROVE Sole'
  BY <1>3, MeetOK, CalmOK, GotoOK, TellOK
  DEF Retry, IInv, Try, Start, Set, Settled, Retryable, service, TroubleKinds, RowOK, Sole, OneWriter, Writing, PC, Answer
<1>4. ASSUME NEW c \in Calls, Look(c)  PROVE Sole'
  BY <1>4, MeetOK, CalmOK, GotoOK, TellOK
  DEF Look, IInv, Try, Start, Set, Settled, Retryable, service, TroubleKinds, RowOK, Sole, OneWriter, Writing, PC, Answer
<1>5. ASSUME NEW c \in Calls, AssertActive(c)  PROVE Sole'
  BY <1>5, MeetOK, CalmOK, GotoOK, TellOK
  DEF AssertActive, IInv, Try, Start, Set, Settled, Retryable, service, TroubleKinds, RowOK, Sole, OneWriter, Writing, PC, Answer
<1>6. ASSUME NEW c \in Calls, Post(c)  PROVE Sole'
  BY <1>6, MeetOK, CalmOK, GotoOK, TellOK
  DEF Post, IInv, Try, Start, Set, Settled, Retryable, service, TroubleKinds, RowOK, Sole, OneWriter, Writing, PC, Answer
<1>7. ASSUME NEW c \in Calls, CreateIssue(c)  PROVE Sole'
  BY <1>7, MeetOK, CalmOK, GotoOK, TellOK
  DEF CreateIssue, IInv, Try, Start, Set, Settled, Retryable, service, TroubleKinds, RowOK, Sole, OneWriter, Writing, PC, Answer
<1>8. ASSUME NEW c \in Calls, FindIssue(c)  PROVE Sole'
  BY <1>8, MeetOK, CalmOK, GotoOK, TellOK
  DEF FindIssue, IInv, Try, Start, Set, Settled, Retryable, service, TroubleKinds, RowOK, Sole, OneWriter, Writing, PC, Answer
<1>9. ASSUME NEW c \in Calls, CreateBranch(c)  PROVE Sole'
  BY <1>9, MeetOK, CalmOK, GotoOK, TellOK
  DEF CreateBranch, IInv, Try, Start, Set, Settled, Retryable, service, TroubleKinds, RowOK, Sole, OneWriter, Writing, PC, Answer
<1>10. ASSUME NEW c \in Calls, OpenPull(c)  PROVE Sole'
  BY <1>10, MeetOK, CalmOK, GotoOK, TellOK
  DEF OpenPull, IInv, Try, Start, Set, Settled, Retryable, service, TroubleKinds, RowOK, Sole, OneWriter, Writing, PC, Answer
<1>11. ASSUME NEW c \in Calls, PostReply(c)  PROVE Sole'
  BY <1>11, MeetOK, CalmOK, GotoOK, TellOK
  DEF PostReply, IInv, Try, Start, Set, Settled, Retryable, service, TroubleKinds, RowOK, Sole, OneWriter, Writing, PC, Answer
<1>12. ASSUME NEW c \in Calls, Complete(c)  PROVE Sole'
  BY <1>12, MeetOK, CalmOK, GotoOK, TellOK
  DEF Complete, IInv, Try, Start, Set, Settled, Retryable, service, TroubleKinds, RowOK, Sole, OneWriter, Writing, PC, Answer
<1>13. ASSUME NEW c \in Calls, Withdraw(c)  PROVE Sole'
  BY <1>13, MeetOK, CalmOK, GotoOK, TellOK
  DEF Withdraw, IInv, Try, Start, Set, Settled, Retryable, service, TroubleKinds, RowOK, Sole, OneWriter, Writing, PC, Answer
<1>14. ASSUME NEW c \in Calls, RecordOrigin(c)  PROVE Sole'
  BY <1>14, MeetOK, CalmOK, GotoOK, TellOK
  DEF RecordOrigin, IInv, Try, Start, Set, Settled, Retryable, service, TroubleKinds, RowOK, Sole, OneWriter, Writing, PC, Answer
<1>15. ASSUME NEW c \in Calls, Crash(c)  PROVE Sole'
  BY <1>15, MeetOK, CalmOK, GotoOK, TellOK
  DEF Crash, IInv, Try, Start, Set, Settled, Retryable, service, TroubleKinds, RowOK, Sole, OneWriter, Writing, PC, Answer
<1>16. ASSUME NEW c \in Calls, LoseTurn(c)  PROVE Sole'
  BY <1>16, MeetOK, CalmOK, GotoOK, TellOK
  DEF LoseTurn, IInv, Try, Start, Set, Settled, Retryable, service, TroubleKinds, RowOK, Sole, OneWriter, Writing, PC, Answer
<1>17. CASE Rest
  BY <1>17, CalmOK DEF Rest, vars, IInv, Try, Start, Set, Settled, Retryable, service, TroubleKinds, RowOK, Sole, OneWriter, Writing, PC, Answer
<1> QED
  BY <1>1, <1>2, <1>3, <1>4, <1>5, <1>6, <1>7, <1>8, <1>9, <1>10, <1>11, <1>12, <1>13, <1>14, <1>15, <1>16, <1>17
  DEF Next, Proceed

\* The service gets what it does not have yet.
LEMMA EffectedStep ==
  ASSUME IInv, Next
  PROVE  Effected'
<1>1. ASSUME NEW c \in Calls, Ask(c)  PROVE Effected'
  BY <1>1, MeetOK, CalmOK, PlaceOK, GotoOK, TellOK
  DEF Ask, IInv, Try, Start, Set, Settled, Retryable, service, TroubleKinds, RowOK, Sole, OneWriter, Effected, Writing, Kinds, PC, Answer
<1>2. ASSUME NEW c \in Calls, Insert(c)  PROVE Effected'
  BY <1>2, MeetOK, CalmOK, PlaceOK, GotoOK, TellOK
  DEF Insert, IInv, Try, Start, Set, Settled, Retryable, service, TroubleKinds, RowOK, Sole, OneWriter, Effected, Writing, Kinds, PC, Answer
<1>3. ASSUME NEW c \in Calls, Retry(c)  PROVE Effected'
  BY <1>3, MeetOK, CalmOK, PlaceOK, GotoOK, TellOK
  DEF Retry, IInv, Try, Start, Set, Settled, Retryable, service, TroubleKinds, RowOK, Sole, OneWriter, Effected, Writing, Kinds, PC, Answer
<1>4. ASSUME NEW c \in Calls, Look(c)  PROVE Effected'
  BY <1>4, MeetOK, CalmOK, PlaceOK, GotoOK, TellOK
  DEF Look, IInv, Try, Start, Set, Settled, Retryable, service, TroubleKinds, RowOK, Sole, OneWriter, Effected, Writing, Kinds, PC, Answer
<1>5. ASSUME NEW c \in Calls, AssertActive(c)  PROVE Effected'
  BY <1>5, MeetOK, CalmOK, PlaceOK, GotoOK, TellOK
  DEF AssertActive, IInv, Try, Start, Set, Settled, Retryable, service, TroubleKinds, RowOK, Sole, OneWriter, Effected, Writing, Kinds, PC, Answer
<1>6. ASSUME NEW c \in Calls, Post(c)  PROVE Effected'
  BY <1>6, MeetOK, CalmOK, PlaceOK, GotoOK, TellOK
  DEF Post, IInv, Try, Start, Set, Settled, Retryable, service, TroubleKinds, RowOK, Sole, OneWriter, Effected, Writing, Kinds, PC, Answer
<1>7. ASSUME NEW c \in Calls, CreateIssue(c)  PROVE Effected'
  BY <1>7, MeetOK, CalmOK, PlaceOK, GotoOK, TellOK
  DEF CreateIssue, IInv, Try, Start, Set, Settled, Retryable, service, TroubleKinds, RowOK, Sole, OneWriter, Effected, Writing, Kinds, PC, Answer
<1>8. ASSUME NEW c \in Calls, FindIssue(c)  PROVE Effected'
  BY <1>8, MeetOK, CalmOK, PlaceOK, GotoOK, TellOK
  DEF FindIssue, IInv, Try, Start, Set, Settled, Retryable, service, TroubleKinds, RowOK, Sole, OneWriter, Effected, Writing, Kinds, PC, Answer
<1>9. ASSUME NEW c \in Calls, CreateBranch(c)  PROVE Effected'
  BY <1>9, MeetOK, CalmOK, PlaceOK, GotoOK, TellOK
  DEF CreateBranch, IInv, Try, Start, Set, Settled, Retryable, service, TroubleKinds, RowOK, Sole, OneWriter, Effected, Writing, Kinds, PC, Answer
<1>10. ASSUME NEW c \in Calls, OpenPull(c)  PROVE Effected'
  BY <1>10, MeetOK, CalmOK, PlaceOK, GotoOK, TellOK
  DEF OpenPull, IInv, Try, Start, Set, Settled, Retryable, service, TroubleKinds, RowOK, Sole, OneWriter, Effected, Writing, Kinds, PC, Answer
<1>11. ASSUME NEW c \in Calls, PostReply(c)  PROVE Effected'
  BY <1>11, MeetOK, CalmOK, PlaceOK, GotoOK, TellOK
  DEF PostReply, IInv, Try, Start, Set, Settled, Retryable, service, TroubleKinds, RowOK, Sole, OneWriter, Effected, Writing, Kinds, PC, Answer
<1>12. ASSUME NEW c \in Calls, Complete(c)  PROVE Effected'
  BY <1>12, MeetOK, CalmOK, PlaceOK, GotoOK, TellOK
  DEF Complete, IInv, Try, Start, Set, Settled, Retryable, service, TroubleKinds, RowOK, Sole, OneWriter, Effected, Writing, Kinds, PC, Answer
<1>13. ASSUME NEW c \in Calls, Withdraw(c)  PROVE Effected'
  BY <1>13, MeetOK, CalmOK, PlaceOK, GotoOK, TellOK
  DEF Withdraw, IInv, Try, Start, Set, Settled, Retryable, service, TroubleKinds, RowOK, Sole, OneWriter, Effected, Writing, Kinds, PC, Answer
<1>14. ASSUME NEW c \in Calls, RecordOrigin(c)  PROVE Effected'
  BY <1>14, MeetOK, CalmOK, PlaceOK, GotoOK, TellOK
  DEF RecordOrigin, IInv, Try, Start, Set, Settled, Retryable, service, TroubleKinds, RowOK, Sole, OneWriter, Effected, Writing, Kinds, PC, Answer
<1>15. ASSUME NEW c \in Calls, Crash(c)  PROVE Effected'
  BY <1>15, MeetOK, CalmOK, PlaceOK, GotoOK, TellOK
  DEF Crash, IInv, Try, Start, Set, Settled, Retryable, service, TroubleKinds, RowOK, Sole, OneWriter, Effected, Writing, Kinds, PC, Answer
<1>16. ASSUME NEW c \in Calls, LoseTurn(c)  PROVE Effected'
  BY <1>16, MeetOK, CalmOK, PlaceOK, GotoOK, TellOK
  DEF LoseTurn, IInv, Try, Start, Set, Settled, Retryable, service, TroubleKinds, RowOK, Sole, OneWriter, Effected, Writing, Kinds, PC, Answer
<1>17. CASE Rest
  BY <1>17, CalmOK DEF Rest, vars, IInv, Try, Start, Set, Settled, Retryable, service, TroubleKinds, RowOK, Sole, OneWriter, Effected, Writing, Kinds, PC, Answer
<1> QED
  BY <1>1, <1>2, <1>3, <1>4, <1>5, <1>6, <1>7, <1>8, <1>9, <1>10, <1>11, <1>12, <1>13, <1>14, <1>15, <1>16, <1>17
  DEF Next, Proceed

\* A call is told what is so.
LEMMA AnsweredStep ==
  ASSUME IInv, Next
  PROVE  Answered'
<1>1. ASSUME NEW c \in Calls, Ask(c)  PROVE Answered'
  BY <1>1, MeetOK, CalmOK, GotoOK, TellOK
  DEF Ask, IInv, Try, Start, Set, Settled, Retryable, service, TroubleKinds, RowOK, Sole, Answered, AnswersTrue, Writing, PC, Answer
<1>2. ASSUME NEW c \in Calls, Insert(c)  PROVE Answered'
  BY <1>2, MeetOK, CalmOK, GotoOK, TellOK
  DEF Insert, IInv, Try, Start, Set, Settled, Retryable, service, TroubleKinds, RowOK, Sole, Answered, AnswersTrue, Writing, PC, Answer
<1>3. ASSUME NEW c \in Calls, Retry(c)  PROVE Answered'
  BY <1>3, MeetOK, CalmOK, GotoOK, TellOK
  DEF Retry, IInv, Try, Start, Set, Settled, Retryable, service, TroubleKinds, RowOK, Sole, Answered, AnswersTrue, Writing, PC, Answer
<1>4. ASSUME NEW c \in Calls, Look(c)  PROVE Answered'
  BY <1>4, MeetOK, CalmOK, GotoOK, TellOK
  DEF Look, IInv, Try, Start, Set, Settled, Retryable, service, TroubleKinds, RowOK, Sole, Answered, AnswersTrue, Writing, PC, Answer
<1>5. ASSUME NEW c \in Calls, AssertActive(c)  PROVE Answered'
  BY <1>5, MeetOK, CalmOK, GotoOK, TellOK
  DEF AssertActive, IInv, Try, Start, Set, Settled, Retryable, service, TroubleKinds, RowOK, Sole, Answered, AnswersTrue, Writing, PC, Answer
<1>6. ASSUME NEW c \in Calls, Post(c)  PROVE Answered'
  BY <1>6, MeetOK, CalmOK, GotoOK, TellOK
  DEF Post, IInv, Try, Start, Set, Settled, Retryable, service, TroubleKinds, RowOK, Sole, Answered, AnswersTrue, Writing, PC, Answer
<1>7. ASSUME NEW c \in Calls, CreateIssue(c)  PROVE Answered'
  BY <1>7, MeetOK, CalmOK, GotoOK, TellOK
  DEF CreateIssue, IInv, Try, Start, Set, Settled, Retryable, service, TroubleKinds, RowOK, Sole, Answered, AnswersTrue, Writing, PC, Answer
<1>8. ASSUME NEW c \in Calls, FindIssue(c)  PROVE Answered'
  BY <1>8, MeetOK, CalmOK, GotoOK, TellOK
  DEF FindIssue, IInv, Try, Start, Set, Settled, Retryable, service, TroubleKinds, RowOK, Sole, Answered, AnswersTrue, Writing, PC, Answer
<1>9. ASSUME NEW c \in Calls, CreateBranch(c)  PROVE Answered'
  BY <1>9, MeetOK, CalmOK, GotoOK, TellOK
  DEF CreateBranch, IInv, Try, Start, Set, Settled, Retryable, service, TroubleKinds, RowOK, Sole, Answered, AnswersTrue, Writing, PC, Answer
<1>10. ASSUME NEW c \in Calls, OpenPull(c)  PROVE Answered'
  BY <1>10, MeetOK, CalmOK, GotoOK, TellOK
  DEF OpenPull, IInv, Try, Start, Set, Settled, Retryable, service, TroubleKinds, RowOK, Sole, Answered, AnswersTrue, Writing, PC, Answer
<1>11. ASSUME NEW c \in Calls, PostReply(c)  PROVE Answered'
  BY <1>11, MeetOK, CalmOK, GotoOK, TellOK
  DEF PostReply, IInv, Try, Start, Set, Settled, Retryable, service, TroubleKinds, RowOK, Sole, Answered, AnswersTrue, Writing, PC, Answer
<1>12. ASSUME NEW c \in Calls, Complete(c)  PROVE Answered'
  BY <1>12, MeetOK, CalmOK, GotoOK, TellOK
  DEF Complete, IInv, Try, Start, Set, Settled, Retryable, service, TroubleKinds, RowOK, Sole, Answered, AnswersTrue, Writing, PC, Answer
<1>13. ASSUME NEW c \in Calls, Withdraw(c)  PROVE Answered'
  BY <1>13, MeetOK, CalmOK, GotoOK, TellOK
  DEF Withdraw, IInv, Try, Start, Set, Settled, Retryable, service, TroubleKinds, RowOK, Sole, Answered, AnswersTrue, Writing, PC, Answer
<1>14. ASSUME NEW c \in Calls, RecordOrigin(c)  PROVE Answered'
  BY <1>14, MeetOK, CalmOK, GotoOK, TellOK
  DEF RecordOrigin, IInv, Try, Start, Set, Settled, Retryable, service, TroubleKinds, RowOK, Sole, Answered, AnswersTrue, Writing, PC, Answer
<1>15. ASSUME NEW c \in Calls, Crash(c)  PROVE Answered'
  BY <1>15, MeetOK, CalmOK, GotoOK, TellOK
  DEF Crash, IInv, Try, Start, Set, Settled, Retryable, service, TroubleKinds, RowOK, Sole, Answered, AnswersTrue, Writing, PC, Answer
<1>16. ASSUME NEW c \in Calls, LoseTurn(c)  PROVE Answered'
  BY <1>16, MeetOK, CalmOK, GotoOK, TellOK
  DEF LoseTurn, IInv, Try, Start, Set, Settled, Retryable, service, TroubleKinds, RowOK, Sole, Answered, AnswersTrue, Writing, PC, Answer
<1>17. CASE Rest
  BY <1>17, CalmOK DEF Rest, vars, IInv, Try, Start, Set, Settled, Retryable, service, TroubleKinds, RowOK, Sole, Answered, AnswersTrue, Writing, PC, Answer
<1> QED
  BY <1>1, <1>2, <1>3, <1>4, <1>5, <1>6, <1>7, <1>8, <1>9, <1>10, <1>11, <1>12, <1>13, <1>14, <1>15, <1>16, <1>17
  DEF Next, Proceed

-----------------------------------------------------------------------------

LEMMA InvInit == Init => IInv
<1> SUFFICES ASSUME Init  PROVE IInv
  OBVIOUS
<1>1. Metered
  BY ActionAttemptAssumption DEF Init, Metered, Limits, TroubleKinds
<1>2. RowOK /\ CallsOK
  BY DEF Init, RowOK, CallsOK, PC, Answer
<1>3. Sole /\ Effected /\ Answered
  BY DEF Init, Sole, OneWriter, Effected, Answered, AnswersTrue, Writing
<1> QED
  BY <1>1, <1>2, <1>3 DEF IInv

LEMMA InvNext == IInv /\ [Next]_vars => IInv'
<1> SUFFICES ASSUME IInv, [Next]_vars  PROVE IInv'
  OBVIOUS
<1>1. CASE Next
  BY <1>1, MeteredStep, RowOKStep, CallsOKStep, SoleStep, EffectedStep, AnsweredStep DEF IInv
<1>2. CASE UNCHANGED vars
  <2>1. Metered' /\ (Clean' <=> Clean)
    BY <1>2, CalmOK DEF IInv, vars
  <2>2. RowOK' /\ CallsOK'
    BY <1>2 DEF IInv, vars, RowOK, CallsOK
  <2>3. Sole' /\ Effected' /\ Answered'
    BY <1>2, <2>1 DEF IInv, vars, Sole, OneWriter, Effected, Answered, AnswersTrue
  <2> QED
    BY <2>1, <2>2, <2>3 DEF IInv
<1> QED
  BY <1>1, <1>2

LEMMA InvAlways == Spec => []IInv
BY InvInit, InvNext, PTL DEF Spec

\* Every variable keeps its type.
THEOREM TypeCorrect == Spec => []TypeOK
<1>1. IInv => TypeOK
  BY DEF IInv, Metered, RowOK, CallsOK, TypeOK
<1> QED
  BY <1>1, InvAlways, PTL

\* However many calls of however many turns there are, one of them writes.
THEOREM OneWriterCorrect == Spec => []OneWriter
<1>1. IInv => OneWriter
  BY DEF IInv, Sole
<1> QED
  BY <1>1, InvAlways, PTL

\* A message, an issue and a pull request exist at most once whatever fails; a
\* reply does as long as no call failed.
THEOREM OneEffectCorrect == Spec => []OneEffect
<1>1. IInv => OneEffect
  BY DEF IInv, Effected, OneEffect, Clean
<1> QED
  BY <1>1, InvAlways, PTL

\* No call claims a write that does not exist, or the origin of a pull request
\* that was not recorded.
THEOREM AnswersTrueCorrect == Spec => []AnswersTrue
<1>1. IInv => AnswersTrue
  BY DEF IInv, Answered
<1> QED
  BY <1>1, InvAlways, PTL

\* No call takes back what was recorded as written, but for a reply whose
\* record threw.
THEOREM SuccessStaysCorrect == Spec => SuccessStays
<1>1. ASSUME IInv, Next, attempt = "succeeded", kind # "reply" \/ Clean
      PROVE  attempt' = "succeeded"
  <2>1. ASSUME NEW c \in Calls, Ask(c)  PROVE attempt' = "succeeded"
    BY <1>1, <2>1 DEF Ask, IInv, Sole, Writing, Try, Set, Retryable, service
  <2>2. ASSUME NEW c \in Calls, Insert(c)  PROVE attempt' = "succeeded"
    BY <1>1, <2>2 DEF Insert, IInv, Sole, Writing, Try, Set, Retryable, service
  <2>3. ASSUME NEW c \in Calls, Retry(c)  PROVE attempt' = "succeeded"
    BY <1>1, <2>3 DEF Retry, IInv, Sole, Writing, Try, Set, Retryable, service
  <2>4. ASSUME NEW c \in Calls, Look(c)  PROVE attempt' = "succeeded"
    BY <1>1, <2>4 DEF Look, IInv, Sole, Writing, Try, Set, Retryable, service
  <2>5. ASSUME NEW c \in Calls, AssertActive(c)  PROVE attempt' = "succeeded"
    BY <1>1, <2>5 DEF AssertActive, IInv, Sole, Writing, Try, Set, Retryable, service
  <2>6. ASSUME NEW c \in Calls, Post(c)  PROVE attempt' = "succeeded"
    BY <1>1, <2>6 DEF Post, IInv, Sole, Writing, Try, Set, Retryable, service
  <2>7. ASSUME NEW c \in Calls, CreateIssue(c)  PROVE attempt' = "succeeded"
    BY <1>1, <2>7 DEF CreateIssue, IInv, Sole, Writing, Try, Set, Retryable, service
  <2>8. ASSUME NEW c \in Calls, FindIssue(c)  PROVE attempt' = "succeeded"
    BY <1>1, <2>8 DEF FindIssue, IInv, Sole, Writing, Try, Set, Retryable, service
  <2>9. ASSUME NEW c \in Calls, CreateBranch(c)  PROVE attempt' = "succeeded"
    BY <1>1, <2>9 DEF CreateBranch, IInv, Sole, Writing, Try, Set, Retryable, service
  <2>10. ASSUME NEW c \in Calls, OpenPull(c)  PROVE attempt' = "succeeded"
    BY <1>1, <2>10 DEF OpenPull, IInv, Sole, Writing, Try, Set, Retryable, service
  <2>11. ASSUME NEW c \in Calls, PostReply(c)  PROVE attempt' = "succeeded"
    BY <1>1, <2>11 DEF PostReply, IInv, Sole, Writing, Try, Set, Retryable, service
  <2>12. ASSUME NEW c \in Calls, Complete(c)  PROVE attempt' = "succeeded"
    BY <1>1, <2>12 DEF Complete, IInv, Sole, Writing, Try, Set, Retryable, service
  <2>13. ASSUME NEW c \in Calls, Withdraw(c)  PROVE attempt' = "succeeded"
    BY <1>1, <2>13 DEF Withdraw, IInv, Sole, Writing, Try, Set, Retryable, service
  <2>14. ASSUME NEW c \in Calls, RecordOrigin(c)  PROVE attempt' = "succeeded"
    BY <1>1, <2>14 DEF RecordOrigin, IInv, Sole, Writing, Try, Set, Retryable, service
  <2>15. ASSUME NEW c \in Calls, Crash(c)  PROVE attempt' = "succeeded"
    BY <1>1, <2>15 DEF Crash, IInv, Sole, Writing, Try, Set, Retryable, service
  <2>16. ASSUME NEW c \in Calls, LoseTurn(c)  PROVE attempt' = "succeeded"
    BY <1>1, <2>16 DEF LoseTurn, IInv, Sole, Writing, Try, Set, Retryable, service
  <2>17. CASE Rest
    BY <1>1, <2>17 DEF Rest, vars
  <2> QED
    BY <1>1, <2>1, <2>2, <2>3, <2>4, <2>5, <2>6, <2>7, <2>8, <2>9, <2>10, <2>11, <2>12, <2>13, <2>14, <2>15, <2>16, <2>17
    DEF Next, Proceed
<1>2. IInv /\ [Next]_vars =>
        [attempt = "succeeded" /\ (kind # "reply" \/ Spared({"fault"}))
           => attempt' = "succeeded"]_vars
  BY <1>1 DEF Clean
<1> QED
  BY <1>2, InvAlways, PTL DEF Spec, SuccessStays
=============================================================================
