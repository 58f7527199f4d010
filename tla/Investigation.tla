--------------------------- MODULE Investigation ---------------------------
(***************************************************************************)
(* One investigation. It begins with an event that a provider may deliver  *)
(* twice, or with a request to replay another investigation that a drain   *)
(* of the workers picks up. Either way a job is queued, and workers run    *)
(* the agent, file its report and resolve or fail the row. A finished      *)
(* investigation of an event can be run again. The row has no lease: two   *)
(* jobs of one investigation can be at work at the same time.              *)
(***************************************************************************)
EXTENDS Integers, FiniteSets

CONSTANTS
  Deliveries,  \* deliveries of the event
  Scans,       \* those of them by the scan scheduler, which retries a failed scan
  Users,       \* requests of members to run the investigation again
  Workers,     \* worker processes, each with one investigation handler
  Drains,      \* those of them whose drain picks up replay requests
  RetryLimit,  \* retries of a job: 2 in prepareWorkerQueues
  MaxClaims,   \* replayRequestMaxAttempts: 5
  Budget       \* how much of each kind of trouble an investigation of each kind may meet

Kinds == {"event", "replay"}
TroubleKinds == {"crash",    \* a control-plane or worker process dies
                 "fault",    \* a database, queue or billing call fails
                 "overrun"}  \* a job expires, or a claim grows old, while its worker goes on
Limits  == TroubleKinds \cup {"any"}   \* each kind, and all kinds together
Callers == Deliveries \cup Users
Jobs    == 1 .. Cardinality(Callers) + MaxClaims
NoJob   == 0

ASSUME InvestigationAssumption ==
  /\ IsFiniteSet(Callers) /\ Deliveries \cap Users = {} /\ Callers \cap Drains = {}
  /\ Scans \subseteq Deliveries /\ Drains \subseteq Workers
  /\ RetryLimit \in Nat /\ MaxClaims \in Nat \ {0}
  /\ Budget \in [Kinds -> [Limits -> Nat]]

VARIABLES
  kind,     \* what began the investigation: an event or a replay request
  status,   \* the status of its row; without a row there is no receipt either
  report,   \* the parts of the report that the row holds
  request,  \* the replay request
  job,      \* the investigation's jobs
  at,       \* where each caller and each drain is
  hold,     \* the credit that each caller has reserved for a rerun
  attempt,  \* the number of the claim that each drain made
  handler,  \* the investigation handler of each worker, and its job
  round,    \* how often the row was inserted or reset
  filed,    \* how often the issues of a report were filed
  trouble   \* what is left of its Budget

vars == <<kind, status, report, request, job, at, hold, attempt, handler, round, filed, trouble>>

Pending  == {"pending", "investigating"}
Finished == {"resolved", "failed"}
Unsettled == {"pending", "processing", "queued"}
CallerPcs == {"idle", "look", "admit", "block", "discard", "reserve", "prepare", "release",
              "confirm", "undo", "send", "fail", "done"}
DrainPcs == {"idle", "prepare", "settle", "refuse", "forbid", "send", "mark", "release", "fail"}
HandlerPcs == {"idle", "run", "complete", "resolve", "fail", "request"}

TypeOK ==
  /\ kind \in Kinds
  /\ status \in Pending \cup Finished \cup {"none"}
  /\ report \in SUBSET {"structured", "markdown", "captured"}
  /\ request \in [status: Unsettled \cup {"none", "completed", "failed"},
                  attempts: 0 .. MaxClaims, stale: BOOLEAN]
  /\ job \in [Jobs -> [state: {"none", "created", "active", "over"}, tries: 0 .. RetryLimit]]
  /\ at \in [Callers \cup Drains -> CallerPcs \cup DrainPcs]
  /\ hold \in [Callers -> {"none", "held", "confirmed"}]
  /\ attempt \in [Drains -> 0 .. MaxClaims]
  /\ handler \in [Workers -> [pc: HandlerPcs, job: Jobs \cup {NoJob}]]
  /\ round \in Nat /\ filed \in Nat
  /\ trouble \in [Limits -> Nat]

Idle == [pc |-> "idle", job |-> NoJob]

Init ==
  /\ kind \in Kinds
  /\ status = "none" /\ report = {}
  /\ request = [status |-> IF kind = "replay" THEN "pending" ELSE "none",
                attempts |-> 0, stale |-> FALSE]
  /\ job = [j \in Jobs |-> [state |-> "none", tries |-> 0]]
  /\ at = [c \in Callers \cup Drains |-> "idle"]
  /\ hold = [c \in Callers |-> "none"]
  /\ attempt = [w \in Drains |-> 0]
  /\ handler = [w \in Workers |-> Idle]
  /\ round = 0 /\ filed = 0
  /\ trouble = Budget[kind]

-----------------------------------------------------------------------------
(* Helpers. *)

row  == <<status, report, round>>
work == <<handler, filed>>

Meet(trouble_kind) ==
  /\ trouble[trouble_kind] > 0 /\ trouble["any"] > 0
  /\ trouble' = [trouble EXCEPT ![trouble_kind] = @ - 1, !["any"] = @ - 1]

\* A call that works, or fails: then what it does may be done or not.
Calls(effect, skip, works, fails) ==
  \/ effect /\ works /\ UNCHANGED trouble
  \/ Meet("fault") /\ (effect \/ skip) /\ fails

Go(c, pc)   == at' = [at EXCEPT ![c] = pc]
Work(w, pc) == handler' = [handler EXCEPT ![w].pc = pc]

\* The queue ends an active job: a failed one is tried again.
Ended(j, outcome) ==
  [job EXCEPT ![j] =
     IF outcome = "failed" /\ @.tries < RetryLimit
     THEN [state |-> "created", tries |-> @.tries + 1] ELSE [state |-> "over", tries |-> 0]]

\* The handler of w returns or throws. Its job has ended before if it expired.
EndWork(w, outcome) ==
  /\ handler' = [handler EXCEPT ![w] = Idle]
  /\ job' = IF handler[w].job = NoJob THEN job ELSE Ended(handler[w].job, outcome)

\* The queue is a standard one: it takes every job, whatever its singletonKey.
Sent ==
  \E j \in Jobs : /\ job[j].state = "none" /\ \A i \in Jobs : i < j => job[i].state # "none"
                  /\ job' = [job EXCEPT ![j].state = "created"]

\* Slip: the row fails whatever its status.
Failable_Always == status # "none"
\* Slip: a row that has begun does not fail.
Failable_Waiting == status = "pending"
Failable == status \in Pending
\* failInvestigation: an investigation that is finished does not fail.
Fail == status' = IF Failable THEN "failed" ELSE status

Request(new) == request' = [request EXCEPT !.status = new]
FailRequest == Request(IF request.status \in Unsettled THEN "failed" ELSE request.status)
CompleteRequest ==
  Request(IF request.status \in Unsettled \cup {"failed"} THEN "completed" ELSE request.status)

-----------------------------------------------------------------------------
(* A delivery of the event begins and queues the investigation. *)

\* Slip: a duplicate goes on like the first delivery.
AfterDuplicate_Goes(d) == "admit"
\* Only the scan scheduler looks at the investigation of a duplicate.
AfterDuplicate(d) == IF d \in Scans THEN "look" ELSE "done"

\* The receipt and the row are inserted together, unless there is a receipt.
Begin(d) ==
  /\ kind = "event" /\ at[d] = "idle"
  /\ IF status = "none"
     THEN Calls(status' = "pending" /\ round' = round + 1, UNCHANGED <<status, round>>,
                Go(d, "admit"), Go(d, "done"))
     ELSE Go(d, AfterDuplicate(d)) /\ UNCHANGED <<status, round, trouble>>
  /\ UNCHANGED <<kind, report, request, job, hold, attempt, work>>

Look(d) ==
  /\ at[d] = "look"
  /\ Go(d, IF status = "failed" THEN "reserve" ELSE "done")
  /\ UNCHANGED <<kind, row, request, job, hold, attempt, work, trouble>>

\* The allowance of the organization admits the investigation or not.
Admit(d) ==
  /\ at[d] = "admit"
  /\ \/ (Go(d, "send") \/ Go(d, "block")) /\ UNCHANGED trouble
     \/ Meet("fault") /\ Go(d, "discard")
  /\ UNCHANGED <<kind, row, request, job, hold, attempt, work>>

\* discardPendingInvestigation deletes the row and its receipt.
Discarded == status' = IF status = "pending" THEN "none" ELSE status

\* When it fails after a refusal it is called once more.
Discard(d) ==
  /\ at[d] \in {"block", "discard"}
  /\ Calls(Discarded, UNCHANGED status, Go(d, "done"),
           Go(d, IF at[d] = "block" THEN "discard" ELSE "done"))
  /\ UNCHANGED <<kind, report, round, request, job, hold, attempt, work>>

\* Deliveries and reruns put the investigation on the queue.
Send(c) ==
  /\ at[c] = "send"
  /\ Calls(Sent, UNCHANGED job, Go(c, "done"), Go(c, "fail"))
  /\ UNCHANGED <<kind, row, request, hold, attempt, work>>

\* An investigation that may not have reached the queue fails.
FailUnqueued(c) ==
  /\ at[c] = "fail"
  /\ Calls(Fail, UNCHANGED status, TRUE, TRUE) /\ Go(c, "done")
  /\ UNCHANGED <<kind, report, round, request, job, hold, attempt, work>>

-----------------------------------------------------------------------------
(* A finished investigation is run again, for a member or for a scan.       *)

StartRerun(u) ==
  /\ kind = "event" /\ at[u] = "idle"
  /\ status \in Finished
  /\ Go(u, "reserve")
  /\ UNCHANGED <<kind, row, request, job, hold, attempt, work, trouble>>

\* A credit is held, or the rerun is refused. An organization that pays for its
\* usage is admitted without a credit.
Reserve(c) ==
  /\ at[c] = "reserve"
  /\ \/ Calls(hold' = [hold EXCEPT ![c] = "held"], UNCHANGED hold, Go(c, "prepare"), Go(c, "done"))
     \/ (Go(c, "prepare") \/ Go(c, "done")) /\ UNCHANGED <<hold, trouble>>
  /\ UNCHANGED <<kind, row, request, job, attempt, work>>

\* A rerun that holds no credit confirms and releases none.
WithCredit(c, pc, otherwise) == IF hold[c] = "held" THEN pc ELSE otherwise

\* Slip: nobody looks whether the update matched the row.
AfterRefusal_Confirms(c) == WithCredit(c, "confirm", "send")
\* A rerun that is refused gives its credit back.
AfterRefusal(c) == WithCredit(c, "release", "done")

Reset == /\ status' = "pending"
         /\ report' = report \ {"structured", "markdown"}
         /\ round' = round + 1

\* Only a finished investigation is reset, by one of those who want to.
Prepare(c) ==
  /\ at[c] = "prepare"
  /\ IF status \in Finished
     THEN Calls(Reset, UNCHANGED row, Go(c, WithCredit(c, "confirm", "send")), Go(c, AfterRefusal(c)))
     ELSE Go(c, AfterRefusal(c)) /\ UNCHANGED <<row, trouble>>
  /\ UNCHANGED <<kind, request, job, hold, attempt, work>>

Confirm(c) ==
  /\ at[c] = "confirm"
  /\ Calls(hold' = [hold EXCEPT ![c] = "confirmed"], UNCHANGED hold, Go(c, "send"), Go(c, "undo"))
  /\ UNCHANGED <<kind, row, request, job, attempt, work>>

\* The hold is released; a failure is logged. A credit that was not confirmed
\* fails the investigation next.
Release(c) ==
  /\ at[c] \in {"release", "undo"}
  /\ Calls(hold' = [hold EXCEPT ![c] = IF @ = "held" THEN "none" ELSE @], UNCHANGED hold,
           TRUE, TRUE)
  /\ Go(c, IF at[c] = "undo" THEN "fail" ELSE "done")
  /\ UNCHANGED <<kind, row, request, job, attempt, work>>

-----------------------------------------------------------------------------
(* The drain of a worker picks up the replay request. *)

Claimable ==
  /\ request.attempts < MaxClaims
  /\ request.status = "pending" \/ (request.status = "processing" /\ request.stale)

Claim(w) ==
  /\ kind = "replay" /\ at[w] = "idle"
  /\ Claimable
  /\ Calls(request' = [status |-> "processing", attempts |-> request.attempts + 1, stale |-> FALSE],
           UNCHANGED request, Go(w, "prepare"), UNCHANGED at)
  /\ attempt' = [attempt EXCEPT ![w] = request'.attempts]
  /\ UNCHANGED <<kind, row, job, hold, work>>

\* Slip: one claim too many is waited for.
Exhausted_Beyond == request.status = "processing" /\ request.attempts > MaxClaims /\ request.stale
Exhausted == request.status = "processing" /\ request.attempts >= MaxClaims /\ request.stale

\* A request whose last claim is old fails, and its row unless it has begun.
GiveUp(w) ==
  /\ kind = "replay" /\ at[w] = "idle"
  /\ Exhausted
  /\ Calls(/\ request' = [request EXCEPT !.status = "failed", !.stale = FALSE]
           /\ status' = IF status = "pending" THEN "failed" ELSE status,
           UNCHANGED <<request, status>>, TRUE, TRUE)
  /\ UNCHANGED <<kind, report, round, job, at, hold, attempt, work>>

\* The source must be there and finished. The row of the replay is inserted,
\* or found as an earlier claim left it.
PrepareReplay(w) ==
  /\ at[w] = "prepare" /\ w \in Drains
  /\ LET insert == IF status = "none" THEN status' = "pending" /\ round' = round + 1
                                      ELSE UNCHANGED <<status, round>>
         next == CASE status = "resolved" -> "settle" [] status = "failed" -> "refuse"
                   [] OTHER -> "send"
     IN \/ Calls(insert, UNCHANGED <<status, round>>, Go(w, next), Go(w, "release"))
        \/ Go(w, "forbid") /\ UNCHANGED <<status, round, trouble>>
  /\ UNCHANGED <<kind, report, request, job, hold, attempt, work>>

\* A replay that is over ends its request.
SettleReplay(w) ==
  /\ at[w] \in {"settle", "refuse"}
  /\ Calls(IF at[w] = "settle" THEN CompleteRequest ELSE FailRequest, UNCHANGED request,
           Go(w, "idle"), Go(w, "release"))
  /\ UNCHANGED <<kind, row, job, hold, attempt, work>>

\* A request that never can be met fails, and then its row.
Forbid(w) ==
  /\ at[w] = "forbid"
  /\ Calls(FailRequest, UNCHANGED request, Go(w, "fail"), Go(w, "idle"))
  /\ UNCHANGED <<kind, row, job, hold, attempt, work>>

SendReplay(w) ==
  /\ at[w] = "send" /\ w \in Drains
  /\ Calls(Sent, UNCHANGED job, Go(w, "mark"), Go(w, "release"))
  /\ UNCHANGED <<kind, row, request, hold, attempt, work>>

\* Slip: the request is marked whatever became of it.
Markable_Always == TRUE
Markable == request.status = "processing"

MarkQueued(w) ==
  /\ at[w] = "mark"
  /\ Calls(Request(IF Markable THEN "queued" ELSE request.status), UNCHANGED request,
           Go(w, "idle"), Go(w, "release"))
  /\ UNCHANGED <<kind, row, job, hold, attempt, work>>

\* The request is given back; after the last claim it fails, and then its row.
ReleaseRequest(w) ==
  /\ at[w] = "release" /\ w \in Drains
  /\ LET last == attempt[w] = MaxClaims IN
     Calls(Request(IF request.status # "processing" THEN request.status
                   ELSE IF last THEN "failed" ELSE "pending"),
           UNCHANGED request, Go(w, IF last THEN "fail" ELSE "idle"), Go(w, "idle"))
  /\ UNCHANGED <<kind, row, job, hold, attempt, work>>

FailReplay(w) ==
  /\ at[w] = "fail" /\ w \in Drains
  /\ Calls(Fail, UNCHANGED status, TRUE, TRUE) /\ Go(w, "idle")
  /\ UNCHANGED <<kind, report, round, request, job, hold, attempt, work>>

-----------------------------------------------------------------------------
(* The investigation handler of a worker. *)

Startable == status \in Pending \cup {"failed"}

\* A worker takes a job and starts the row, after a failure once more, or the
\* report that is there is delivered. What fails here does not fail the row.
MarkStarted(w, j) ==
  /\ handler[w] = Idle /\ job[j].state = "created"
  /\ \/ /\ Startable
        /\ \/ /\ status' = "investigating"
              /\ handler' = [handler EXCEPT ![w] = [pc |-> "run", job |-> j]]
              /\ job' = [job EXCEPT ![j].state = "active"]
              /\ UNCHANGED trouble
           \/ /\ Meet("fault") /\ status' \in {status, "investigating"}
              /\ job' = Ended(j, "failed") /\ UNCHANGED handler
     \/ /\ ~Startable /\ UNCHANGED <<status, handler>>
        /\ \/ job' = Ended(j, IF status = "resolved" THEN "completed" ELSE "failed")
              /\ UNCHANGED trouble
           \/ Meet("fault") /\ job' = Ended(j, "failed")
  /\ UNCHANGED <<kind, report, round, request, at, hold, attempt, filed>>

\* Slip: a report is accepted once the row has one.
Reportable_Always == status # "none"
Reportable == status \in Pending

\* The agent calls its report tool. The report of an event is filed with its
\* issues and resolves the row, that of a replay is only captured.
SubmitReport(w) ==
  /\ handler[w].pc = "run"
  /\ Reportable
  /\ IF kind = "event"
     THEN /\ status' = "resolved" /\ report' = report \cup {"structured", "markdown"}
          /\ filed' = filed + 1
     ELSE report' = report \cup {"captured"} /\ UNCHANGED <<status, filed>>
  /\ UNCHANGED <<kind, round, request, job, at, hold, attempt, handler, trouble>>

\* The agent ends with a text, or fails.
EndAgent(w) ==
  /\ handler[w].pc = "run"
  /\ Work(w, "complete") \/ Work(w, "fail")
  /\ UNCHANGED <<kind, row, request, job, at, hold, attempt, filed, trouble>>

\* completeInvestigation: a row with a filed report is left as it is.
LookAtReport(w) ==
  /\ handler[w].pc = "complete" /\ kind = "event"
  /\ \/ /\ IF "structured" \in report THEN EndWork(w, "completed")
                                      ELSE Work(w, "resolve") /\ UNCHANGED job
        /\ UNCHANGED trouble
     \/ Meet("fault") /\ Work(w, "fail") /\ UNCHANGED job
  /\ UNCHANGED <<kind, row, request, at, hold, attempt, filed>>

\* Any other row is resolved with the agent's text, whatever its status is now.
Resolve(w) ==
  /\ handler[w].pc = "resolve"
  /\ LET resolved == IF status = "none" THEN UNCHANGED <<status, report>>
                     ELSE status' = "resolved" /\ report' = report \cup {"markdown"}
     IN \/ resolved /\ EndWork(w, "completed") /\ UNCHANGED trouble
        \/ Meet("fault") /\ (resolved \/ UNCHANGED <<status, report>>) /\ Work(w, "fail")
           /\ UNCHANGED job
  /\ UNCHANGED <<kind, round, request, at, hold, attempt, filed>>

\* completeInvestigationReplay resolves the row and completes the request.
ReplayDone == status' = "resolved" /\ report' = report \cup {"markdown"} /\ CompleteRequest

CompleteReplay(w) ==
  /\ handler[w].pc = "complete" /\ kind = "replay"
  /\ \/ ReplayDone /\ EndWork(w, "completed") /\ UNCHANGED trouble
     \/ Meet("fault") /\ (ReplayDone \/ UNCHANGED <<status, report, request>>) /\ Work(w, "fail")
        /\ UNCHANGED job
  /\ UNCHANGED <<kind, round, at, hold, attempt, filed>>

\* The row fails, then the request of a replay, and the job with them.
FailRun(w) ==
  /\ handler[w].pc = "fail"
  /\ \/ /\ Fail /\ UNCHANGED trouble
        /\ IF kind = "event" THEN EndWork(w, "failed") ELSE Work(w, "request") /\ UNCHANGED job
     \/ Meet("fault") /\ (Fail \/ UNCHANGED status) /\ EndWork(w, "failed")
  /\ UNCHANGED <<kind, report, round, request, at, hold, attempt, filed>>

FailRunRequest(w) ==
  /\ handler[w].pc = "request"
  /\ Calls(FailRequest, UNCHANGED request, TRUE, TRUE) /\ EndWork(w, "failed")
  /\ UNCHANGED <<kind, row, at, hold, attempt, filed>>

-----------------------------------------------------------------------------
(* The world around them. *)

\* A control-plane process dies.
CallerDies(c) ==
  /\ at[c] \notin {"idle", "done"}
  /\ Meet("crash") /\ Go(c, "done")
  /\ UNCHANGED <<kind, row, request, job, hold, attempt, work>>

\* A worker dies, with its handler and its drain. Its job stays active.
WorkerDies(w) ==
  /\ handler[w] # Idle \/ (w \in Drains /\ at[w] # "idle")
  /\ Meet("crash")
  /\ handler' = [handler EXCEPT ![w] = Idle]
  /\ at' = [c \in DOMAIN at |-> IF c = w THEN "idle" ELSE at[c]]
  /\ UNCHANGED <<kind, row, request, job, hold, attempt, filed>>

\* A job without heartbeats fails.
JobExpires(j) ==
  /\ job[j].state = "active"
  /\ \A w \in Workers : handler[w].job # j
  /\ job' = Ended(j, "failed")
  /\ UNCHANGED <<kind, row, request, at, hold, attempt, work, trouble>>

\* An hour after it began a job fails, although its handler goes on.
Overrun(w) ==
  /\ handler[w].job # NoJob
  /\ Meet("overrun")
  /\ job' = Ended(handler[w].job, "failed")
  /\ handler' = [handler EXCEPT ![w].job = NoJob]
  /\ UNCHANGED <<kind, row, request, at, hold, attempt, filed>>

\* Five minutes pass since the request was claimed.
Claimed(w) == at[w] # "idle" /\ attempt[w] = request.attempts
GrowStale ==
  /\ request.status = "processing" /\ ~request.stale
  /\ IF \E w \in Drains : Claimed(w) THEN Meet("overrun") ELSE UNCHANGED trouble
  /\ request' = [request EXCEPT !.stale = TRUE]
  /\ UNCHANGED <<kind, row, job, at, hold, attempt, work>>

LiveJob == \E j \in Jobs : job[j].state \in {"created", "active"}
AtRest ==
  /\ \A c \in Callers : at[c] \in {"idle", "done"}
  /\ \A w \in Drains : at[w] = "idle"
  /\ \A w \in Workers : handler[w] = Idle
  /\ ~LiveJob
Rest == AtRest /\ UNCHANGED vars

-----------------------------------------------------------------------------

CallerStep(c) ==
  \/ c \in Deliveries /\ (Look(c) \/ Admit(c) \/ Discard(c))
  \/ Reserve(c) \/ Prepare(c) \/ Confirm(c) \/ Release(c) \/ Send(c) \/ FailUnqueued(c)
DrainStep(w) ==
  \/ PrepareReplay(w) \/ SettleReplay(w) \/ Forbid(w) \/ SendReplay(w) \/ MarkQueued(w)
  \/ ReleaseRequest(w) \/ FailReplay(w)
HandlerStep(w) ==
  \/ EndAgent(w) \/ LookAtReport(w) \/ Resolve(w) \/ CompleteReplay(w)
  \/ FailRun(w) \/ FailRunRequest(w)

Next ==
  \/ \E d \in Deliveries : Begin(d)
  \/ \E u \in Users : StartRerun(u)
  \/ \E c \in Callers : CallerStep(c) \/ CallerDies(c)
  \/ \E w \in Drains : Claim(w) \/ GiveUp(w) \/ DrainStep(w)
  \/ \E w \in Workers : \/ HandlerStep(w) \/ SubmitReport(w) \/ WorkerDies(w) \/ Overrun(w)
                        \/ \E j \in Jobs : MarkStarted(w, j)
  \/ \E j \in Jobs : JobExpires(j)
  \/ GrowStale
  \/ Rest

Spec == Init /\ [][Next]_vars

\* Callers, drains and handlers that live go on, workers take jobs and run
\* their drains, lost jobs expire and claims grow old. No agent has to call its
\* report tool.
GoOn ==
  \/ \E c \in Callers : CallerStep(c)
  \/ \E w \in Drains : DrainStep(w) \/ Claim(w) \/ GiveUp(w)
  \/ \E w \in Workers : HandlerStep(w) \/ \E j \in Jobs : MarkStarted(w, j)
  \/ \E j \in Jobs : JobExpires(j)
  \/ (GrowStale /\ UNCHANGED trouble)

\* As long as somebody can go on, somebody does: nobody starves, because every
\* caller, claim and job takes a bounded number of steps.
Fairness == WF_vars(GoOn)

FairSpec == Spec /\ Fairness

-----------------------------------------------------------------------------
(* Properties. *)

Spared(kinds) == \A k \in kinds : trouble[k] = Budget[kind][k]

\* A filed report is never lost to a failure: as long as the row holds one it
\* is resolved, whatever other jobs of the investigation do, until a rerun.
ReportKept == "structured" \in report => status = "resolved"

\* The issues of an investigation are filed once each time it is run, also when
\* several workers run it at the same time.
FiledOnce == filed <= round

\* Members who ask for the same rerun at the same time do not both pay: a
\* credit is spent only by the one who reset the row.
ChargedPerRerun == Cardinality({c \in Callers : hold[c] = "confirmed"}) <= IF round = 0 THEN 0 ELSE round - 1

\* Without a rerun one worker at a time runs the investigation, however often
\* its event is delivered; that of a replay unless a claim was repeated because
\* of a failure.
AloneAtWork ==
  round <= 1 /\ Spared({"overrun"}) /\ (kind = "replay" => Spared({"crash", "fault"})) =>
    \A v, w \in Workers : v # w => handler[v] = Idle \/ handler[w] = Idle

\* A replay and its request agree: the request is completed when, and only when
\* the replay is resolved, in whatever order worker and drains write to it.
ReplayAgrees == kind = "replay" => (status = "resolved" <=> request.status = "completed")

\* Nobody is left to carry the investigation on, because somebody failed.
Stranded == ~LiveJob /\ ~Spared({"crash", "fault"})

\* An investigation that is under way ends, unless all of its jobs are gone.
InvestigationSettles == status \in Pending ~> status \notin Pending \/ Stranded

\* A replay request ends, also when drains die or stall; only one that was
\* queued depends on its job.
RequestSettles ==
  request.status \in Unsettled ~>
    request.status \notin Unsettled \/ (request.status = "queued" /\ Stranded)
=============================================================================
