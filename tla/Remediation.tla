---------------------------- MODULE Remediation ----------------------------
(***************************************************************************)
(* Pull requests for one subject, an issue or a suggestion. A request is a *)
(* row of issue_pull_requests or suggestion_pull_requests: it is inserted  *)
(* as queued, claimed and put on the exclusive remediation queue, taken by *)
(* a worker that opens the pull request on GitHub and records it. A drain  *)
(* that every worker runs puts queued suggestion requests on the queue and *)
(* fails requests whose worker stopped.                                    *)
(*                                                                         *)
(* All requests of the model are for the same repository and come from one *)
(* investigation. Time is the age of updated_at: whether the two hours of  *)
(* the recovery cutoff have passed since.                                  *)
(***************************************************************************)
EXTENDS Integers, FiniteSets

CONSTANTS
  Requests,  \* requests for a pull request, in one repository, for one subject
  Workers,   \* worker processes, each with one remediation handler
  Drains,    \* those of them whose drain finds something
  Budget     \* how much of each kind of trouble a behaviour may meet

None == "none"

TroubleKinds == {"crash",    \* a control-plane or worker process dies
                 "fault",    \* a database, queue or GitHub call fails
                 "overrun",  \* a handler goes on past the hour of its job
                 "discard"}  \* the investigation fails after it made requests
Limits == TroubleKinds \cup {"any"}   \* each kind, and all kinds together

ASSUME RemediationAssumption ==
  /\ Requests \cap Workers = {} /\ None \notin Requests /\ Drains \subseteq Workers
  /\ Budget \in [Limits -> Nat]

VARIABLES
  kind,     \* what the pull requests are for: an issue or a suggestion
  status,   \* the status of each request
  stale,    \* requests whose updated_at is two hours old
  job,      \* the remediation job of each request
  queuing,  \* who puts a request on the queue: its starter, or a drain
  handler,  \* the remediation handler of each worker
  sweep,    \* the recovery of each worker's drain
  begun,    \* how often a handler set out to open the pull request
  branch,   \* requests whose branch is on GitHub
  trouble   \* what is left of Budget

vars == <<kind, status, stale, job, queuing, handler, sweep, begun, branch, trouble>>

Kinds    == {"issue", "suggestion"}
Pending  == {"queued", "creating"}
Active   == Pending \cup {"created"}
Statuses == Pending \cup {"none", "created", "merged", "failed"}
Queuers  == Requests \cup Drains

At(pcs) == [pc: pcs, r: Requests \cup {None}]
Idle == [pc |-> "idle", r |-> None]

TypeOK ==
  /\ kind \in Kinds
  /\ status \in [Requests -> Statuses]
  /\ stale \in SUBSET Requests
  /\ job \in [Requests -> {"none", "created", "active", "completed", "failed"}]
  /\ queuing \in [Queuers -> At({"idle", "insert", "load", "claim", "send", "session", "fail"})]
  /\ handler \in [Workers -> At({"idle", "check", "start", "open", "record", "fail"})]
  /\ sweep \in [Drains -> At({"idle", "find", "recover"})]
  /\ \A q \in Queuers : queuing[q].pc = "idle" <=> queuing[q].r = None
  /\ \A w \in Workers : handler[w].pc = "idle" <=> handler[w].r = None
  /\ \A w \in Drains : sweep[w].pc = "idle" <=> sweep[w].r = None
  /\ \A r \in Requests : status[r] \in {"none", "queued"} => job[r] = "none"
  /\ begun \in [Requests -> Nat]
  /\ branch \in SUBSET Requests
  /\ trouble \in [Limits -> Nat]

Init ==
  /\ kind \in Kinds
  /\ status = [r \in Requests |-> "none"]
  /\ stale = {}
  /\ job = [r \in Requests |-> "none"]
  /\ queuing = [q \in Queuers |-> Idle]
  /\ handler = [w \in Workers |-> Idle]
  /\ sweep = [w \in Drains |-> Idle]
  /\ begun = [r \in Requests |-> 0]
  /\ branch = {}
  /\ trouble = Budget

-----------------------------------------------------------------------------
(* Helpers. *)

row    == <<status, stale>>
github == <<begun, branch>>

Meet(trouble_kind) ==
  /\ trouble[trouble_kind] > 0 /\ trouble["any"] > 0
  /\ trouble' = [trouble EXCEPT ![trouble_kind] = @ - 1, !["any"] = @ - 1]

\* A call that works, or fails: then what it does may be done or not.
Calls(effect, skip, works, fails) ==
  \/ effect /\ works /\ UNCHANGED trouble
  \/ Meet("fault") /\ (effect \/ skip) /\ fails

\* A write to a row sets its updated_at.
Write(r, new) == /\ status' = [status EXCEPT ![r] = new]
                 /\ stale' = stale \ {r}

Queue(q, pc) == queuing' = [queuing EXCEPT ![q].pc = pc]
Work(w, pc)  == handler' = [handler EXCEPT ![w].pc = pc]
EndQueuing(q) == queuing' = [queuing EXCEPT ![q] = Idle]
EndSweep(w)  == sweep' = [sweep EXCEPT ![w] = Idle]

\* The handler of w returns or throws, and the queue ends its job, unless the
\* job expired before.
EndWork(w, outcome) ==
  /\ handler' = [handler EXCEPT ![w] = Idle]
  /\ job' = [job EXCEPT ![handler[w].r] = IF @ = "active" THEN outcome ELSE @]

\* Slip: a failed job counts as live.
LiveJob_Failed(r) == job[r] \in {"created", "active", "failed"}
\* Slip: a job that waits is not live.
LiveJob_Active(r) == job[r] = "active"
\* A job that is in none of the terminalRemediationJobStates.
LiveJob(r) == job[r] \in {"created", "active"}

\* Only a pending request fails.
Fail(r) == IF status[r] \in Pending THEN Write(r, "failed") ELSE UNCHANGED row

-----------------------------------------------------------------------------
(* Asking for a pull request and putting it on the queue. *)

\* A user may ask again once the request before failed, an investigation that
\* finds the issue once more also when it was merged.
Requestable ==
  \A s \in Requests : /\ status[s] \notin Active
                      /\ kind = "suggestion" => status[s] # "merged"

\* A transaction looks for a request of the subject, and finds none.
Request(r) ==
  /\ status[r] = "none" /\ queuing[r] = Idle
  /\ Requestable
  /\ queuing' = [queuing EXCEPT ![r] = [pc |-> "insert", r |-> r]]
  /\ UNCHANGED <<kind, row, job, handler, sweep, github, trouble>>

\* Slip: there is no unique index.
Insertable_Always == TRUE
\* The partial unique index knows active requests only: a request that came and
\* was merged since the look does not stop the insert.
Insertable == \A s \in Requests : status[s] \notin Active

\* The transaction inserts the request, or finds the conflict and gives up.
Insert(q) ==
  /\ queuing[q].pc = "insert"
  /\ IF Insertable
     THEN Calls(Write(queuing[q].r, "queued"), UNCHANGED row, Queue(q, "load"), EndQueuing(q))
     ELSE EndQueuing(q) /\ UNCHANGED <<row, trouble>>
  /\ UNCHANGED <<kind, job, handler, sweep, github>>

\* The drain of w finds a suggestion request that is still queued.
Requeue(w, r) ==
  /\ kind = "suggestion"
  /\ queuing[w] = Idle
  /\ status[r] = "queued"
  /\ queuing' = [queuing EXCEPT ![w] = [pc |-> "load", r |-> r]]
  /\ UNCHANGED <<kind, row, job, handler, sweep, github, trouble>>

\* The request and the configuration of its agent are read.
Load(q) ==
  /\ queuing[q].pc = "load"
  /\ \/ status[queuing[q].r] = "queued" /\ Queue(q, "claim") /\ UNCHANGED trouble
     \/ status[queuing[q].r] # "queued" /\ EndQueuing(q) /\ UNCHANGED trouble
     \/ Meet("fault") /\ EndQueuing(q)
  /\ UNCHANGED <<kind, row, job, handler, sweep, github>>

\* Slip: a request that is being created is claimed once more.
Claimable_Creating(r) == status[r] \in Pending
Claimable(r) == status[r] = "queued"

\* Only the one who finds the request queued goes on.
Claim(q) ==
  /\ queuing[q].pc = "claim"
  /\ LET r == queuing[q].r IN
     IF Claimable(r)
     THEN Calls(Write(r, "creating"), UNCHANGED row, Queue(q, "send"), EndQueuing(q))
     ELSE EndQueuing(q) /\ UNCHANGED <<row, trouble>>
  /\ UNCHANGED <<kind, job, handler, sweep, github>>

\* The queue is exclusive: it takes no second job while one is live. Without a
\* job the request is left to the owner of the live one.
Send(q) ==
  /\ queuing[q].pc = "send"
  /\ LET r == queuing[q].r
         sent == job' = [job EXCEPT ![r] = "created"]
     IN IF LiveJob(r)
        THEN EndQueuing(q) /\ UNCHANGED <<job, trouble>>
        ELSE Calls(sent, UNCHANGED job, Queue(q, "session"), Queue(q, "fail"))
  /\ UNCHANGED <<kind, row, handler, sweep, github>>

\* The session is recorded, whatever became of the request; a failure is logged.
SetSession(q) ==
  /\ queuing[q].pc = "session"
  /\ Calls(Write(queuing[q].r, status[queuing[q].r]), UNCHANGED row, TRUE, TRUE)
  /\ EndQueuing(q)
  /\ UNCHANGED <<kind, job, handler, sweep, github>>

\* A claimed request that may not have reached the queue fails.
FailUnqueued(q) ==
  /\ queuing[q].pc = "fail"
  /\ Calls(Fail(queuing[q].r), UNCHANGED row, TRUE, TRUE)
  /\ EndQueuing(q)
  /\ UNCHANGED <<kind, job, handler, sweep, github>>

-----------------------------------------------------------------------------
(* The remediation handler of a worker. *)

\* A worker takes a job; when usageWaiverStart fails the job fails with it.
Fetch(w, r) ==
  /\ handler[w] = Idle /\ job[r] = "created"
  /\ \/ /\ job' = [job EXCEPT ![r] = "active"]
        /\ handler' = [handler EXCEPT ![w] = [pc |-> "check", r |-> r]]
        /\ UNCHANGED trouble
     \/ Meet("fault") /\ job' = [job EXCEPT ![r] = "failed"] /\ UNCHANGED handler
  /\ UNCHANGED <<kind, row, queuing, sweep, github>>

\* The request must be pending, a repository attached and the allowance left.
CheckRequest(w) ==
  /\ handler[w].pc = "check"
  /\ \/ status[handler[w].r] \in Pending /\ Work(w, "start")
     \/ Work(w, "fail")
  /\ UNCHANGED <<kind, row, job, queuing, sweep, github, trouble>>

\* The request must still be pending.
MarkStarted(w) ==
  /\ handler[w].pc = "start"
  /\ IF status[handler[w].r] \in Pending
     THEN Calls(Write(handler[w].r, "creating"), UNCHANGED row, Work(w, "open"), Work(w, "fail"))
     ELSE Work(w, "fail") /\ UNCHANGED <<row, trouble>>
  /\ begun' = [begun EXCEPT ![handler[w].r] = IF handler'[w].pc = "open" THEN @ + 1 ELSE @]
  /\ UNCHANGED <<kind, job, queuing, sweep, branch>>

\* The diff is applied in a sandbox, a branch named after the request is made
\* and the pull request opened. GitHub takes no second branch of a name.
OpenPullRequest(w) ==
  /\ handler[w].pc = "open"
  /\ LET r == handler[w].r IN
     \/ r \notin branch /\ branch' = branch \cup {r} /\ Work(w, "record") /\ UNCHANGED trouble
     \/ r \notin branch /\ branch' = branch \cup {r} /\ Work(w, "fail") /\ Meet("fault")
     \/ Work(w, "fail") /\ UNCHANGED <<branch, trouble>>
  /\ UNCHANGED <<kind, row, job, queuing, sweep, begun>>

\* A request that is no longer pending stays as it is.
Recorded(r) == IF status[r] \in Pending THEN Write(r, "created") ELSE UNCHANGED row

MarkCreated(w) ==
  /\ handler[w].pc = "record"
  /\ \/ Recorded(handler[w].r) /\ EndWork(w, "completed") /\ UNCHANGED trouble
     \/ Meet("fault") /\ (Recorded(handler[w].r) \/ UNCHANGED row) /\ Work(w, "fail") /\ UNCHANGED job
  /\ UNCHANGED <<kind, queuing, sweep, github>>

\* A failure is recorded; when that fails the job fails instead.
FailRequest(w) ==
  /\ handler[w].pc = "fail"
  /\ Calls(Fail(handler[w].r), UNCHANGED row, EndWork(w, "completed"), EndWork(w, "failed"))
  /\ UNCHANGED <<kind, queuing, sweep, github>>

-----------------------------------------------------------------------------
(* The recovery of abandoned requests, in the drain of a worker. *)

\* Slip: the cutoff is not looked at.
Abandoned_Young(r) == status[r] = "creating"
Abandoned(r) == status[r] = "creating" /\ r \in stale

ListStale(w, r) ==
  /\ sweep[w] = Idle
  /\ Abandoned(r)
  /\ sweep' = [sweep EXCEPT ![w] = [pc |-> "find", r |-> r]]
  /\ UNCHANGED <<kind, row, job, queuing, handler, github, trouble>>

\* A request with a live job is not abandoned, however old. A failed query
\* ends the recovery.
FindJobs(w) ==
  /\ sweep[w].pc = "find"
  /\ \/ ~LiveJob(sweep[w].r) /\ sweep' = [sweep EXCEPT ![w].pc = "recover"] /\ UNCHANGED trouble
     \/ LiveJob(sweep[w].r) /\ EndSweep(w) /\ UNCHANGED trouble
     \/ Meet("fault") /\ EndSweep(w)
  /\ UNCHANGED <<kind, row, job, queuing, handler, github>>

\* The request fails if it is still abandoned.
Recover(w) ==
  /\ sweep[w].pc = "recover"
  /\ Calls(IF Abandoned(sweep[w].r) THEN Write(sweep[w].r, "failed") ELSE UNCHANGED row,
           UNCHANGED row, TRUE, TRUE)
  /\ EndSweep(w)
  /\ UNCHANGED <<kind, job, queuing, handler, github>>

-----------------------------------------------------------------------------
(* The world around them. *)

\* A pull request on record is merged.
Merge(r) ==
  /\ status[r] = "created"
  /\ Write(r, "merged")
  /\ UNCHANGED <<kind, job, queuing, handler, sweep, github, trouble>>

\* The investigation fails after its report: its pending requests fail.
InvestigationFails ==
  /\ kind = "issue"
  /\ Meet("discard")
  /\ status' = [r \in Requests |-> IF status[r] \in Pending THEN "failed" ELSE status[r]]
  /\ stale' = {r \in stale : status[r] \notin Pending}
  /\ UNCHANGED <<kind, job, queuing, handler, sweep, github>>

\* The process that starts a request dies.
StarterDies(r) ==
  /\ queuing[r] # Idle
  /\ Meet("crash")
  /\ EndQueuing(r)
  /\ UNCHANGED <<kind, row, job, handler, sweep, github>>

\* A worker dies, with its handler and its drain. Its job stays active.
WorkerDies(w) ==
  /\ handler[w] # Idle \/ (w \in Drains /\ (queuing[w] # Idle \/ sweep[w] # Idle))
  /\ Meet("crash")
  /\ handler' = [handler EXCEPT ![w] = Idle]
  /\ queuing' = [q \in Queuers |-> IF q = w THEN Idle ELSE queuing[q]]
  /\ sweep' = [d \in Drains |-> IF d = w THEN Idle ELSE sweep[d]]
  /\ UNCHANGED <<kind, row, job, github>>

Worked(r) == \E w \in Workers : handler[w].r = r

\* An hour after it began a job fails, also when its handler goes on.
JobExpires(r) ==
  /\ job[r] = "active"
  /\ IF Worked(r) THEN Meet("overrun") ELSE UNCHANGED trouble
  /\ job' = [job EXCEPT ![r] = "failed"]
  /\ UNCHANGED <<kind, row, queuing, handler, sweep, github>>

\* A handler whose job has not expired, past the write that started it.
InTime(w) == handler[w].pc \in {"open", "record", "fail"} /\ job[handler[w].r] = "active"

\* Two hours pass without a write to r: a handler does not take as long unless
\* its job expired, and neither a claim nor a recovery waits as long.
GrowStale(r) ==
  /\ status[r] \in Pending /\ r \notin stale
  /\ \A q \in Queuers : queuing[q].r # r
  /\ \A w \in Drains : sweep[w].r # r
  /\ \A w \in Workers : ~(handler[w].r = r /\ InTime(w))
  /\ stale' = stale \cup {r}
  /\ UNCHANGED <<kind, status, job, queuing, handler, sweep, github, trouble>>

\* Every request is at its end.
AtRest ==
  /\ \A q \in Queuers : queuing[q] = Idle
  /\ \A w \in Workers : handler[w] = Idle
  /\ \A w \in Drains : sweep[w] = Idle
  /\ \A r \in Requests : ~LiveJob(r)
Rest == AtRest /\ UNCHANGED vars

-----------------------------------------------------------------------------

QueuingStep(q) == Insert(q) \/ Load(q) \/ Claim(q) \/ Send(q) \/ SetSession(q) \/ FailUnqueued(q)
HandlerStep(w) ==
  CheckRequest(w) \/ MarkStarted(w) \/ OpenPullRequest(w) \/ MarkCreated(w) \/ FailRequest(w)
SweepStep(w) == FindJobs(w) \/ Recover(w)

Next ==
  \/ \E r \in Requests : \/ Request(r) \/ Merge(r) \/ StarterDies(r)
                         \/ JobExpires(r) \/ GrowStale(r)
                         \/ \E w \in Workers : Fetch(w, r)
                         \/ \E w \in Drains : Requeue(w, r) \/ ListStale(w, r)
  \/ \E q \in Queuers : QueuingStep(q)
  \/ \E w \in Workers : HandlerStep(w) \/ WorkerDies(w)
  \/ \E w \in Drains : SweepStep(w)
  \/ InvestigationFails
  \/ Rest

Spec == Init /\ [][Next]_vars

\* Processes that live go on, workers take jobs and run their drains every
\* five minutes, jobs expire, and two hours pass.
Fairness ==
  /\ \A q \in Queuers : WF_vars(QueuingStep(q))
  /\ \A w \in Workers : WF_vars(HandlerStep(w)) /\ WF_vars(\E r \in Requests : Fetch(w, r))
  /\ \A w \in Drains : /\ WF_vars(SweepStep(w))
                       /\ \A r \in Requests : WF_vars(Requeue(w, r)) /\ WF_vars(ListStale(w, r))
  /\ \A r \in Requests : WF_vars(~Worked(r) /\ JobExpires(r)) /\ WF_vars(GrowStale(r))

FairSpec == Spec /\ Fairness

-----------------------------------------------------------------------------
(* Properties. *)

Spared(kinds) == \A k \in kinds : trouble[k] = Budget[k]

\* A request is worked on once: between its starter, the drains, the queue and
\* the recovery nobody has a pull request opened a second time, whatever fails.
WorkedOnce == \A r \in Requests : begun[r] <= 1

\* The recovery never mistakes a delayed but valid job for an abandoned one:
\* it fails no request that waits in the queue or that a handler works on.
NotMistaken ==
  [][\A r \in Requests : (\E w \in Drains : Recover(w) /\ sweep[w].r = r) /\ status'[r] # status[r]
       => job[r] \notin {"created", "active"} /\ (Spared({"overrun"}) => ~Worked(r))]_vars

\* Nobody ends a request while its handler opens the pull request, unless a
\* call failed, such as a send whose answer was lost, or the investigation did.
KeepsRequest ==
  Spared({"fault", "discard"}) =>
    \A w \in Workers : handler[w].pc \in {"open", "record"} /\ InTime(w) =>
      status[handler[w].r] = "creating"

\* A subject has at most one pull request that is not merged, as long as no
\* one fails between opening it and recording it.
OnePullRequest ==
  Spared(TroubleKinds) =>
    \A r, s \in branch : r = s \/ status[r] = "merged" \/ status[s] = "merged"

\* A pending request comes to an end. An issue request whose starter failed
\* before it claimed the request stays queued: no drain looks for it.
RequestsSettle ==
  \A r \in Requests :
    status[r] \in Pending ~>
      status[r] \notin Pending \/ (kind = "issue" /\ status[r] = "queued" /\ ~Spared({"crash", "fault"}))
=============================================================================
