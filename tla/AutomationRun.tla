--------------------------- MODULE AutomationRun ---------------------------
(***************************************************************************)
(* One automation run: the automation_runs row, its events, its model      *)
(* broker grants, the pg-boss jobs that carry it, the workers that process *)
(* those jobs (processAutomationRun) and the control-plane requests that   *)
(* reply to it, continue it or cancel it.                                  *)
(*                                                                         *)
(* Every action is one database statement or transaction, or one step of a *)
(* worker between two of them, so that the actions of different processes  *)
(* interleave exactly where the awaits of the code let them.               *)
(***************************************************************************)
EXTENDS Integers, FiniteSets

CONSTANTS
  Workers,        \* job handlers of the worker processes
  Replies,        \* Slack replies to the run, by external event id
  MaxDeliveries,  \* how often Slack may deliver one of them
  FollowUps,      \* follow-ups members send from the run page
  RetryLimit,     \* retryLimit of the run queue
  Budget          \* how many of each kind of trouble a behaviour may meet

TroubleKinds == {"crash",   \* a worker process dies
                 "drop",    \* a control-plane process dies
                 "stall",   \* a worker loses touch with the database
                 "fault",   \* one database or queue call of a live process fails
                 "stop",    \* a worker is told to shut down
                 "toggle",  \* a member turns the automation off or on
                 "cancel"}  \* a member asks for the run to be cancelled
Limits == TroubleKinds \cup {"any"}   \* each kind, and all kinds together

ASSUME AutomationRunAssumption ==
  /\ MaxDeliveries \in Nat /\ RetryLimit \in Nat
  /\ Budget \in [Limits -> Nat]
  /\ FollowUps \cap (Replies \X (1..MaxDeliveries)) = {}

VARIABLES
  run,       \* the automation_runs row
  enabled,   \* automations.enabled of the run's automation
  grants,    \* the leases that automation_model_broker_grants rows name
  lastLease, \* how many lease ids were issued (randomUUID never repeats one)
  lastEvent, \* the newest id the event sequence gave out
  messages,  \* ids of committed user_message events
  newest,    \* newest id among committed user_message and transcript events
  finished,  \* is there a run_succeeded, run_failed or run_cancelled event?
  ready,     \* ready[k]: queued jobs for this run that were retried k times
  handler,   \* the job each worker is processing, and how far it got
  request,   \* how far each control-plane request got
  trouble,   \* what is left of Budget
  answered,  \* history: the messages some turn's prompt has included
  overtaken, \* history: the messages that showed after a prompt had read past their id
  reports    \* history: how often a first turn was reported

vars == <<run, enabled, grants, lastLease, lastEvent, messages, newest, finished,
          ready, handler, request, trouble, answered, overtaken, reports>>

Terminal   == {"succeeded", "failed", "cancelled"}
Active     == {"pending", "running"}
NoLease    == 0
Unread     == -1   \* answeredThrough before the conversation is read
Deliveries == Replies \X (1..MaxDeliveries)
Requests   == Deliveries \cup FollowUps

\* Where a handler is in processAutomationRun.
PC == {"idle", "claim", "config", "look", "sleep", "reclaim", "reconfig", "start",
       "read", "grant", "harness", "check", "succeed", "cancel", "fail", "record",
       "cleanup", "notify", "answer", "reopen", "requeue", "undo", "release", "handback"}
\* The handler has claimed the run and its turn has no outcome in the row yet.
InTurn == {"config", "reconfig", "start", "read", "grant", "harness", "check", "succeed",
           "cancel", "fail"}
\* runAbort stops the handler here.
Abortable == {"grant", "harness"}
Outcome == {"none", "succeeded", "failed", "cancelled", "lost", "handedback", "error"}

Idle == [pc |-> "idle", lease |-> NoLease, thru |-> Unread, first |-> FALSE,
         tries |-> 0, owned |-> FALSE, end |-> "none"]

RunRow     == [status: Active \cup Terminal, lease: Nat, live: BOOLEAN, cancel: BOOLEAN]
HandlerRow == [pc: PC, lease: Nat, thru: Nat \cup {Unread}, first: BOOLEAN,
               tries: 0..RetryLimit, owned: BOOLEAN, end: Outcome]
RequestRow == [pc: {"new", "inserted", "stored", "sending", "undo", "done", "error"}, id: Nat]

TypeOK ==
  /\ run \in RunRow
  /\ enabled \in BOOLEAN /\ finished \in BOOLEAN
  /\ grants \in SUBSET Nat
  /\ lastLease \in Nat /\ lastEvent \in Nat /\ newest \in Nat /\ reports \in Nat
  /\ messages \in SUBSET Nat /\ answered \in SUBSET Nat /\ overtaken \in SUBSET Nat
  /\ ready \in [0..RetryLimit -> Nat]
  /\ handler \in [Workers -> HandlerRow]
  /\ request \in [Requests -> RequestRow]
  /\ trouble \in [Limits -> Nat]

\* The run as queueAutomationRun leaves it: pending, with one job.
Init ==
  /\ run = [status |-> "pending", lease |-> NoLease, live |-> FALSE, cancel |-> FALSE]
  /\ enabled = TRUE
  /\ grants = {} /\ messages = {} /\ answered = {} /\ overtaken = {}
  /\ lastLease = 0 /\ lastEvent = 0 /\ newest = 0 /\ reports = 0
  /\ finished = FALSE
  /\ ready = [k \in 0..RetryLimit |-> IF k = 0 THEN 1 ELSE 0]
  /\ handler = [w \in Workers |-> Idle]
  /\ request = [r \in Requests |-> [pc |-> "new", id |-> 0]]
  /\ trouble = Budget

-----------------------------------------------------------------------------
(* Helpers: rows, jobs and steps of a handler. *)

row    == <<run, enabled, grants, lastLease>>
events == <<lastEvent, messages, newest, finished>>
history == <<answered, overtaken, reports>>

Meet(kind) == /\ trouble[kind] > 0 /\ trouble["any"] > 0
              /\ trouble' = [trouble EXCEPT ![kind] = @ - 1, !["any"] = @ - 1]

Holds(w) == run.lease = handler[w].lease   \* the leaseId condition of an UPDATE

Goto(w, pc) == handler' = [handler EXCEPT ![w].pc = pc]
End(w, pc, end) == handler' = [handler EXCEPT ![w].pc = pc, ![w].end = end]
Complete(w) == handler' = [handler EXCEPT ![w] = Idle]

\* boss.send of a new job.
Send == ready' = [ready EXCEPT ![0] = @ + 1]

\* pg-boss queues w's failed job again unless its retries are used up.
Retry(w) ==
  LET k == handler[w].tries IN
  ready' = IF handler[w].owned /\ k < RetryLimit
           THEN [ready EXCEPT ![k + 1] = @ + 1]
           ELSE ready

\* The foreign key from grants to (run, organization, lease) refuses to let the
\* lease of the row change while a grant names it.
LeaseReferenced == run.lease \in grants

\* Slip: an active run can be reopened too.
Reopenable_Active == enabled
Reopenable == run.status \in Terminal /\ enabled
\* Slip: reopening forgets the lease.
Reopened_KeepsLease == [run EXCEPT !.status = "pending", !.cancel = FALSE]
Reopened == [status |-> "pending", lease |-> NoLease, live |-> FALSE, cancel |-> FALSE]

\* Slip: a running run is never taken over.
Claimable_PendingOnly == run.status = "pending"
Claimable == run.status = "pending" \/ (run.status = "running" /\ ~run.live)

\* Slip: the UPDATE does not name the lease.
SetStatusWithLease_AnyLease(w, status) == run' = [run EXCEPT !.status = status]
\* An UPDATE of the status that names a lease; it may match no row.
SetStatusWithLease(w, status) ==
  run' = IF Holds(w) THEN [run EXCEPT !.status = status] ELSE run

\* Event ids are given out at the INSERT and show at the COMMIT, so a later id
\* may show first.
NextEventId == lastEvent' = lastEvent + 1
NoInsertOpen == \A r \in Requests : request[r].pc # "inserted"

Later(a, b) == IF a > b THEN a ELSE b

-----------------------------------------------------------------------------
(* Claiming the run. *)

\* Slip: the same job is handed out twice.
Fetch_Again(w) ==
  /\ handler[w].pc = "idle"
  /\ \E k \in 0..RetryLimit :
       /\ ready' = [ready EXCEPT ![k] = @ - 1]
       /\ handler' = [handler EXCEPT ![w] = [Idle EXCEPT !.pc = "claim", !.tries = k, !.owned = TRUE]]
  /\ UNCHANGED <<row, events, request, trouble, history>>

\* pg-boss hands a queued job to a free handler.
Fetch(w) ==
  /\ handler[w].pc = "idle"
  /\ \E k \in 0..RetryLimit :
       /\ ready[k] > 0
       /\ ready' = [ready EXCEPT ![k] = @ - 1]
       /\ handler' = [handler EXCEPT ![w] = [Idle EXCEPT !.pc = "claim", !.tries = k, !.owned = TRUE]]
  /\ UNCHANGED <<row, events, request, trouble, history>>

\* The transaction of claimAutomationRun: the grant of a stopped worker goes
\* with its lease, and the run gets a new lease.
Claim(w) ==
  /\ handler[w].pc \in {"claim", "reclaim"}
  /\ Claimable
  /\ lastLease' = lastLease + 1
  /\ grants' = grants \ {run.lease}
  /\ run' = [run EXCEPT !.status = "running", !.lease = lastLease + 1, !.live = TRUE]
  /\ handler' = [handler EXCEPT ![w].lease = lastLease + 1,
                   ![w].pc = IF handler[w].pc = "claim" THEN "config" ELSE "reconfig"]
  /\ UNCHANGED <<enabled, events, ready, request, trouble, history>>

\* Slip: the job of a run that cannot be claimed completes at once.
ClaimNothing_Completes(w) ==
  /\ handler[w].pc = "claim"
  /\ ~Claimable
  /\ Complete(w)
  /\ UNCHANGED <<row, events, ready, request, trouble, history>>

\* The first claim finds nothing: look whether a live lease explains it.
ClaimNothing(w) ==
  /\ handler[w].pc = "claim"
  /\ ~Claimable
  /\ Goto(w, "look")
  /\ UNCHANGED <<row, events, ready, request, trouble, history>>

\* Slip: the job looks for a lease again, until the run can be claimed.
ReclaimNothing_WaitsOn(w) ==
  /\ handler[w].pc = "reclaim"
  /\ ~Claimable
  /\ Goto(w, "look")
  /\ UNCHANGED <<row, events, ready, request, trouble, history>>

\* The second claim finds nothing either: the job completes.
ReclaimNothing(w) ==
  /\ handler[w].pc = "reclaim"
  /\ ~Claimable
  /\ Complete(w)
  /\ UNCHANGED <<row, events, ready, request, trouble, history>>

\* The configuration query of claimAutomationRun, after its transaction.
LoadConfiguration(w) ==
  /\ handler[w].pc \in {"config", "reconfig"}
  /\ enabled
  /\ Goto(w, "start")
  /\ UNCHANGED <<row, events, ready, request, trouble, history>>

\* The automation is off: the run fails and the claim returns null.
ConfigurationUnavailable(w) ==
  /\ handler[w].pc \in {"config", "reconfig"}
  /\ ~enabled
  /\ SetStatusWithLease(w, "failed")
  /\ handler' = [handler EXCEPT ![w] =
                   IF @.pc = "config" THEN [@ EXCEPT !.pc = "look", !.lease = NoLease] ELSE Idle]
  /\ UNCHANGED <<enabled, grants, lastLease, events, ready, request, trouble, history>>

\* automationRunLeaseExpiry: wait for a live lease, else claim again at once.
LookAtLease(w) ==
  /\ handler[w].pc = "look"
  /\ Goto(w, IF run.status = "running" /\ run.live THEN "sleep" ELSE "reclaim")
  /\ UNCHANGED <<row, events, ready, request, trouble, history>>

\* The handler renews its lease from its timer in these steps.
Beating(w) == handler[w].pc \in (InTurn \cup {"record"})

\* The sleep outlasts the lease it read, so a lease that is still live when it
\* ends has been renewed meanwhile, by a holder that beats. (If that holder dies
\* before the sleeper wakes, the sleeper might as well have woken while it beat:
\* the second claim, which finds the lease live, comes later in either order.)
Wake(w) ==
  /\ handler[w].pc = "sleep"
  /\ run.live => \E v \in Workers : Beating(v) /\ handler[v].lease = run.lease
  /\ Goto(w, "reclaim")
  /\ UNCHANGED <<row, events, ready, request, trouble, history>>

\* The lease runs out: nobody renews it, or its holder lost touch.
LeaseExpires ==
  /\ run.live
  /\ \A w \in Workers : Beating(w) /\ Holds(w) /\ run.status = "running" => ~handler[w].owned
  /\ run' = [run EXCEPT !.live = FALSE]
  /\ UNCHANGED <<enabled, grants, lastLease, events, ready, handler, request, trouble, history>>

-----------------------------------------------------------------------------
(* A turn. *)

HeartbeatMatches(w) == Holds(w) /\ run.status = "running"

\* The heartbeat timer renews a lease that ran out but that nobody took.
Renew(w) ==
  /\ handler[w].pc \in InTurn \ {"config", "reconfig"}
  /\ HeartbeatMatches(w)
  /\ ~run.live
  /\ run' = [run EXCEPT !.live = TRUE]
  /\ UNCHANGED <<enabled, grants, lastLease, events, ready, handler, request, trouble, history>>

\* The heartbeat that opens the turn, and the check for a cancellation.
StartTurn(w) ==
  /\ handler[w].pc = "start"
  /\ HeartbeatMatches(w)
  /\ run' = [run EXCEPT !.live = TRUE]
  /\ Goto(w, IF run.cancel THEN "cancel" ELSE "read")
  /\ UNCHANGED <<enabled, grants, lastLease, events, ready, request, trouble, history>>

\* A heartbeat finds the lease gone: the turn stops and leaves the row alone.
LoseLease(w) ==
  /\ handler[w].pc \in Abortable \cup {"start"}
  /\ ~HeartbeatMatches(w)
  /\ End(w, "cleanup", "lost")
  /\ UNCHANGED <<row, events, ready, request, trouble, history>>

\* getConversation and hasFinishedTurn.
ReadConversation(w) ==
  /\ handler[w].pc = "read"
  /\ handler' = [handler EXCEPT ![w].pc = "grant", ![w].thru = newest, ![w].first = ~finished]
  /\ answered' = answered \cup messages
  /\ UNCHANGED <<row, events, ready, request, trouble, overtaken, reports>>

\* createGrant inserts a grant for the handler's lease; the foreign key
\* refuses it once the row has another lease, which fails the turn.
CreateGrant(w) ==
  /\ handler[w].pc = "grant"
  /\ grants' = IF Holds(w) THEN grants \cup {handler[w].lease} ELSE grants
  /\ Goto(w, IF Holds(w) THEN "harness" ELSE "fail")
  /\ UNCHANGED <<run, enabled, lastLease, events, ready, request, trouble, history>>

\* The harness finishes and the final transcript is saved.
HarnessSucceeds(w) ==
  /\ handler[w].pc = "harness"
  /\ NextEventId
  /\ newest' = lastEvent + 1
  /\ Goto(w, "check")
  /\ UNCHANGED <<row, messages, finished, ready, request, trouble, history>>

\* Setup or the harness fails, or the runtime limit aborts it.
TurnFails(w) ==
  /\ handler[w].pc \in Abortable
  /\ Goto(w, "fail")
  /\ UNCHANGED <<row, events, ready, request, trouble, history>>

\* The first statements of the turn fail, before the conversation is read.
TurnFailsUnread(w) ==
  /\ handler[w].pc \in {"start", "read"}
  /\ Meet("fault")
  /\ Goto(w, "fail")
  /\ UNCHANGED <<row, events, ready, request, history>>

\* The cancellation poll aborts the turn.
PollCancellation(w) ==
  /\ handler[w].pc \in Abortable
  /\ run.cancel
  /\ End(w, "cancel", "cancelled")
  /\ UNCHANGED <<row, events, ready, request, trouble, history>>

\* The worker is told to stop: the turn aborts and the run is handed back. A
\* run claimed after that is handed back before its turn starts.
HandBack(w) ==
  /\ handler[w].pc \in Abortable \cup {"start"}
  /\ Meet("stop")
  /\ IF handler[w].pc = "start" THEN Goto(w, "release") ELSE End(w, "cleanup", "handedback")
  /\ UNCHANGED <<row, events, ready, request, history>>

\* The last looks at the cancellation: the one inside the sandbox throws, the
\* one after it does not.
CheckCancellation(w) ==
  /\ handler[w].pc = "check"
  /\ IF run.cancel THEN \E end \in {"none", "cancelled"} : End(w, "cancel", end)
                   ELSE Goto(w, "succeed")
  /\ UNCHANGED <<row, events, ready, request, trouble, history>>

Succeed(w) ==
  /\ handler[w].pc = "succeed"
  /\ SetStatusWithLease(w, "succeeded")
  /\ IF Holds(w) THEN End(w, "record", "succeeded") ELSE End(w, "cleanup", "lost")
  /\ UNCHANGED <<enabled, grants, lastLease, events, ready, request, trouble, history>>

\* The result of setStatus is not looked at.
CancelTurn(w) ==
  /\ handler[w].pc = "cancel"
  /\ SetStatusWithLease(w, "cancelled")
  /\ End(w, "record", "cancelled")
  /\ UNCHANGED <<enabled, grants, lastLease, events, ready, request, trouble, history>>

\* Nor is it looked at here.
FailTurn(w) ==
  /\ handler[w].pc = "fail"
  /\ SetStatusWithLease(w, "failed")
  /\ End(w, "record", "failed")
  /\ UNCHANGED <<enabled, grants, lastLease, events, ready, request, trouble, history>>

\* setStatus throws although the row may have been written. Inside the catch
\* block that fails the job, once the handler has cleaned up; inside the try
\* block it fails the turn, or ends it for the reason with which runAbort was
\* aborted meanwhile: the heartbeat or the poll found something, or the worker
\* was told to stop (which is not counted beside the fault).
StatusWriteThrows(w) ==
  /\ handler[w].pc \in {"succeed", "cancel", "fail"}
  /\ Meet("fault")
  /\ \/ UNCHANGED run
     \/ SetStatusWithLease(w, CASE handler[w].pc = "succeed" -> "succeeded"
                                [] handler[w].pc = "cancel"  -> "cancelled"
                                [] handler[w].pc = "fail"    -> "failed")
  /\ IF handler[w].pc = "fail" \/ handler[w].end = "cancelled"
     THEN End(w, "cleanup", "error")
     ELSE \/ Goto(w, "fail")
          \/ ~(run'.lease = handler[w].lease /\ run'.status = "running") /\ End(w, "cleanup", "lost")
          \/ run.cancel /\ End(w, "cancel", "cancelled")
          \/ trouble["stop"] > 0 /\ End(w, "cleanup", "handedback")
  /\ UNCHANGED <<enabled, grants, lastLease, events, ready, request, history>>

\* The event that ends the turn; recordEvent swallows a failed insert.
RecordEnd(w) ==
  /\ handler[w].pc = "record"
  /\ \/ finished' = TRUE /\ UNCHANGED trouble
     \/ Meet("fault") /\ UNCHANGED finished
  /\ Goto(w, "cleanup")
  /\ UNCHANGED <<row, lastEvent, messages, newest, ready, request, history>>

-----------------------------------------------------------------------------
(* After the turn: revoke the grant, report, answer what arrived meanwhile. *)

\* Slip: only a turn that failed revokes its grant.
Cleanup_AfterFailure(w) ==
  /\ handler[w].pc = "cleanup"
  /\ grants' = IF handler[w].end = "failed" THEN grants \ {handler[w].lease} ELSE grants
  /\ \/ handler[w].end \in {"succeeded", "failed"} /\ End(w, "notify", "none") /\ UNCHANGED ready
     \/ handler[w].end = "handedback" /\ End(w, "release", "none") /\ UNCHANGED ready
     \/ handler[w].end = "error" /\ Complete(w) /\ Retry(w)
     \/ handler[w].end \in {"cancelled", "lost"} /\ Complete(w) /\ UNCHANGED ready
  /\ UNCHANGED <<run, enabled, lastLease, events, request, trouble, history>>

\* revokeGrant, three times at most; a failure is reported and the grant stays.
Cleanup(w) ==
  /\ handler[w].pc = "cleanup"
  /\ \/ grants' = grants \ {handler[w].lease} /\ UNCHANGED trouble
     \/ Meet("fault") /\ UNCHANGED grants
  /\ \/ handler[w].end \in {"succeeded", "failed"} /\ End(w, "notify", "none") /\ UNCHANGED ready
     \/ handler[w].end = "handedback" /\ End(w, "release", "none") /\ UNCHANGED ready
     \/ handler[w].end = "error" /\ Complete(w) /\ Retry(w)
     \/ handler[w].end \in {"cancelled", "lost"} /\ Complete(w) /\ UNCHANGED ready
  /\ UNCHANGED <<run, enabled, lastLease, events, request, history>>

\* Only a first turn reports to the automation's channels.
Notify(w) ==
  /\ handler[w].pc = "notify"
  /\ reports' = reports + (IF handler[w].first THEN 1 ELSE 0)
  /\ IF handler[w].thru = Unread THEN Complete(w) ELSE Goto(w, "answer")
  /\ UNCHANGED <<row, events, ready, request, trouble, answered, overtaken>>

\* Slip: off by one at the newest event of the prompt.
HasNewMessages_AfterNext(thru) == \E m \in messages : m > thru + 1
HasNewMessages(thru) == \E m \in messages : m > thru

AnswerNewMessages(w) ==
  /\ handler[w].pc = "answer"
  /\ IF HasNewMessages(handler[w].thru) THEN Goto(w, "reopen") ELSE Complete(w)
  /\ UNCHANGED <<row, events, ready, request, trouble, history>>

\* reopenAutomationRun with the turn's lease.
ReopenAfterTurn(w) ==
  /\ handler[w].pc = "reopen"
  /\ Reopenable /\ Holds(w) /\ ~LeaseReferenced
  /\ run' = Reopened
  /\ Goto(w, "requeue")
  /\ UNCHANGED <<enabled, grants, lastLease, events, ready, request, trouble, history>>

\* Another turn claimed or reopened the run, it cannot be reopened, or the
\* foreign key refuses and the error is reported.
LeaveToOthers(w) ==
  /\ handler[w].pc = "reopen"
  /\ ~(Reopenable /\ Holds(w)) \/ LeaseReferenced
  /\ Complete(w)
  /\ UNCHANGED <<row, events, ready, request, trouble, history>>

\* boss.send either queues the job or throws; when it throws the job may
\* still have been queued.
RequeueTurn(w) ==
  /\ handler[w].pc = "requeue"
  /\ \/ Send /\ Complete(w) /\ UNCHANGED trouble
     \/ Meet("fault") /\ Goto(w, "undo") /\ (Send \/ UNCHANGED ready)
  /\ UNCHANGED <<row, events, request, history>>

\* setStatus without a lease, whatever the status of the row is by now.
FailUnqueuedTurn(w) ==
  /\ handler[w].pc = "undo"
  /\ run' = [run EXCEPT !.status = "failed"]
  /\ Complete(w)
  /\ UNCHANGED <<enabled, grants, lastLease, events, ready, request, trouble, history>>

\* handBackRun frees the lease of a running run.
ReleaseLease(w) ==
  /\ handler[w].pc = "release"
  /\ HeartbeatMatches(w) /\ ~LeaseReferenced
  /\ run' = [run EXCEPT !.lease = NoLease, !.live = FALSE]
  /\ Goto(w, "handback")
  /\ UNCHANGED <<enabled, grants, lastLease, events, ready, request, trouble, history>>

\* Someone else ended or took the run, or the foreign key refuses and the
\* error fails the job.
ReleaseNothing(w) ==
  /\ handler[w].pc = "release"
  /\ ~HeartbeatMatches(w) \/ LeaseReferenced
  /\ Complete(w)
  /\ IF HeartbeatMatches(w) THEN Retry(w) ELSE UNCHANGED ready
  /\ UNCHANGED <<row, events, request, trouble, history>>

\* The handed-back run is queued again, or the error fails the job.
RequeueHandedBack(w) ==
  /\ handler[w].pc = "handback"
  /\ Complete(w)
  /\ \/ Send /\ UNCHANGED trouble
     \/ Meet("fault") /\ Retry(w)
  /\ UNCHANGED <<row, events, request, history>>

-----------------------------------------------------------------------------
(* Trouble with the worker or its job. *)

\* The worker's process dies; pg-boss misses its heartbeat and fails the job.
Crash(w) ==
  /\ handler[w].pc # "idle"
  /\ Meet("crash")
  /\ Complete(w)
  /\ Retry(w)
  /\ UNCHANGED <<row, events, request, history>>

\* pg-boss gives up on a job whose handler goes on working.
LoseTouch(w) ==
  /\ handler[w].owned
  /\ Meet("stall")
  /\ handler' = [handler EXCEPT ![w].owned = FALSE]
  /\ Retry(w)
  /\ UNCHANGED <<row, events, request, history>>

-----------------------------------------------------------------------------
(* The control plane. *)

Step(r, pc) == request' = [request EXCEPT ![r].pc = pc]

\* Slip: without the advisory lock two deliveries are stored at once, in any order.
AddReply_NoLock(d) ==
  /\ request[d].pc = "new"
  /\ IF \E e \in Deliveries : e[1] = d[1] /\ request[e].id \in messages
     THEN Step(d, "done") /\ UNCHANGED lastEvent
     ELSE /\ NextEventId
          /\ request' = [request EXCEPT ![d] = [pc |-> "inserted", id |-> lastEvent + 1]]
  /\ UNCHANGED <<row, messages, newest, finished, ready, handler, trouble, history>>

\* addAutomationRunReply up to its commit: the advisory lock keeps another
\* delivery out, a stored delivery of the same reply makes this a duplicate.
AddReply(d) ==
  /\ request[d].pc = "new"
  /\ NoInsertOpen
  /\ IF \E e \in Deliveries : e[1] = d[1] /\ request[e].id \in messages
     THEN Step(d, "done") /\ UNCHANGED lastEvent
     ELSE /\ NextEventId
          /\ request' = [request EXCEPT ![d] = [pc |-> "inserted", id |-> lastEvent + 1]]
  /\ UNCHANGED <<row, messages, newest, finished, ready, handler, trouble, history>>

\* A prompt that is being answered has read past this id.
Overtaken(id) == \E w \in Workers : id <= handler[w].thru

\* The reply shows: its turn came late if Overtaken.
CommitReply(d) ==
  /\ request[d].pc = "inserted"
  /\ messages' = messages \cup {request[d].id}
  /\ newest' = Later(newest, request[d].id)
  /\ overtaken' = IF Overtaken(request[d].id) THEN overtaken \cup {request[d].id} ELSE overtaken
  /\ Step(d, "stored")
  /\ UNCHANGED <<row, lastEvent, finished, ready, handler, trouble, answered, reports>>

\* reopenAutomationRun without a lease. An active run is left to its worker; a
\* grant that names the lease makes the statement throw.
ReopenForReply(d) ==
  /\ request[d].pc = "stored"
  /\ IF Reopenable /\ ~LeaseReferenced
     THEN run' = Reopened /\ Step(d, "sending")
     ELSE UNCHANGED run /\ Step(d, IF Reopenable THEN "error" ELSE "done")
  /\ UNCHANGED <<enabled, grants, lastLease, events, ready, handler, trouble, history>>

\* continueAutomationRun, one transaction.
FollowUp(f) ==
  /\ request[f].pc = "new"
  /\ IF Reopenable /\ ~LeaseReferenced
     THEN /\ NextEventId
          /\ run' = Reopened
          /\ messages' = messages \cup {lastEvent + 1}
          /\ newest' = lastEvent + 1
          /\ request' = [request EXCEPT ![f] = [pc |-> "sending", id |-> lastEvent + 1]]
     ELSE /\ Step(f, IF Reopenable THEN "error" ELSE "done")
          /\ UNCHANGED <<run, lastEvent, messages, newest>>
  /\ UNCHANGED <<enabled, grants, lastLease, finished, ready, handler, trouble, history>>

\* sendAutomationRunJob; when it throws the job may still have been queued.
SendJob(r) ==
  /\ request[r].pc = "sending"
  /\ \/ Send /\ Step(r, "done") /\ UNCHANGED trouble
     \/ Meet("fault") /\ Step(r, "undo") /\ (Send \/ UNCHANGED ready)
  /\ UNCHANGED <<row, events, handler, history>>

FailUnqueuedRequest(r) ==
  /\ request[r].pc = "undo"
  /\ run' = [run EXCEPT !.status = "failed"]
  /\ Step(r, "error")
  /\ UNCHANGED <<enabled, grants, lastLease, events, ready, handler, trouble, history>>

\* The control plane dies; an open transaction rolls back.
DropRequest(r) ==
  /\ request[r].pc \in {"inserted", "stored", "sending", "undo"}
  /\ Meet("drop")
  /\ Step(r, "error")
  /\ UNCHANGED <<row, events, ready, handler, history>>

RequestCancellation ==
  /\ run.status \in Active
  /\ Meet("cancel")
  /\ run' = [run EXCEPT !.cancel = TRUE]
  /\ UNCHANGED <<enabled, grants, lastLease, events, ready, handler, request, history>>

ToggleAutomation ==
  /\ Meet("toggle")
  /\ enabled' = ~enabled
  /\ UNCHANGED <<run, grants, lastLease, events, ready, handler, request, history>>

-----------------------------------------------------------------------------

ClaimStep(w) ==
  \/ Claim(w) \/ ClaimNothing(w) \/ ReclaimNothing(w) \/ LoadConfiguration(w)
  \/ ConfigurationUnavailable(w) \/ LookAtLease(w) \/ Wake(w)
TurnStep(w) ==
  \/ StartTurn(w) \/ LoseLease(w) \/ ReadConversation(w) \/ CreateGrant(w)
  \/ HarnessSucceeds(w) \/ TurnFails(w) \/ PollCancellation(w) \/ CheckCancellation(w)
  \/ Succeed(w) \/ CancelTurn(w) \/ FailTurn(w) \/ RecordEnd(w)
AfterStep(w) ==
  \/ Cleanup(w) \/ Notify(w) \/ AnswerNewMessages(w) \/ ReopenAfterTurn(w)
  \/ LeaveToOthers(w) \/ RequeueTurn(w) \/ FailUnqueuedTurn(w) \/ ReleaseLease(w)
  \/ ReleaseNothing(w) \/ RequeueHandedBack(w)
\* What a handler does of its own accord, whatever happens around it.
HandlerStep(w) == ClaimStep(w) \/ TurnStep(w) \/ AfterStep(w)

TroubleStep(w) ==
  \/ Renew(w) \/ TurnFailsUnread(w) \/ HandBack(w) \/ StatusWriteThrows(w)
  \/ Crash(w) \/ LoseTouch(w)

ReplyStep(d) == AddReply(d) \/ CommitReply(d) \/ ReopenForReply(d)
RequestStep(r) ==
  \/ r \in Deliveries /\ ReplyStep(r)
  \/ r \in FollowUps /\ FollowUp(r)
  \/ SendJob(r) \/ FailUnqueuedRequest(r)

\* Nothing is queued, no handler works and no request is under way.
Quiet ==
  /\ \A k \in 0..RetryLimit : ready[k] = 0
  /\ \A w \in Workers : handler[w].pc = "idle"
  /\ \A r \in Requests : request[r].pc \in {"done", "error"}

\* Not a deadlock: the system is at rest.
Rest == Quiet /\ ~run.live /\ UNCHANGED vars

Next ==
  \/ \E w \in Workers : Fetch(w) \/ HandlerStep(w) \/ TroubleStep(w)
  \/ \E r \in Requests : RequestStep(r) \/ DropRequest(r)
  \/ LeaseExpires \/ RequestCancellation \/ ToggleAutomation
  \/ Rest

Spec == Init /\ [][Next]_vars

\* Processes that live go on, pg-boss hands out what is queued, sandboxes end
\* (at the latest at the runtime limit) and time passes. Replies, follow-ups,
\* cancellations and trouble need never come.
RequestProgress(r) == request[r].pc # "new" /\ RequestStep(r)
Fairness ==
  /\ \A w \in Workers : WF_vars(Fetch(w)) /\ WF_vars(HandlerStep(w))
  /\ \A r \in Requests : WF_vars(RequestProgress(r))
  /\ WF_vars(LeaseExpires)

FairSpec == Spec /\ Fairness

-----------------------------------------------------------------------------
(* Properties. *)

\* No trouble of these kinds has been met yet.
Spared(kinds) == \A k \in kinds : trouble[k] = Budget[k]

\* A handler whose turn is under way and whose lease the row still names works
\* on a running run: nobody ended, reopened or re-leased the run behind it.
\* (The writes that name no lease come only after a failed boss.send.)
HolderRuns ==
  Spared({"fault"}) =>
    \A w \in Workers : handler[w].pc \in InTurn /\ Holds(w) => run.status = "running"

\* Why HolderRuns stays true: leases are never issued twice, a pending run has
\* none, a handler keeps the lease it claimed, and the writes that name no
\* lease come only after a fault.
Unclaimed == {"idle", "claim", "look", "sleep", "reclaim"}
LeaseInv ==
  /\ run.status = "pending" \/ run.lease = NoLease => ~run.live
  /\ run.status = "pending" => run.lease = NoLease
  /\ run.lease <= lastLease
  /\ \A w \in Workers :
       /\ handler[w].lease <= lastLease
       /\ handler[w].pc \notin Unclaimed => handler[w].lease # NoLease
       /\ \A v \in Workers \ {w} :
            handler[w].lease # NoLease => handler[v].lease # handler[w].lease
  /\ trouble["fault"] <= Budget["fault"]
  /\ Spared({"fault"}) => /\ \A w \in Workers : handler[w].pc # "undo"
                         /\ \A r \in Requests : request[r].pc # "undo"
  /\ HolderRuns

\* A stalled worker never ends a run that another worker took over: a running
\* run reaches a terminal status only by the step of the lease's holder.
OnlyHolderEnds ==
  [][Spared({"fault"})' /\ run.status = "running" /\ run'.status \in Terminal
       => \E w \in Workers : /\ Holds(w)
                             /\ handler[w].pc \in InTurn
                             /\ handler'[w] # handler[w]]_vars

\* Somebody will still act on the run: a job is queued, a handler will claim
\* it, works on it or is about to queue it, or a request is about to.
Attended ==
  \/ \E k \in 0..RetryLimit : ready[k] > 0
  \/ \E w \in Workers :
       \/ handler[w].pc \in {"claim", "look", "sleep", "reclaim", "requeue", "undo", "handback"}
       \/ handler[w].pc # "idle" /\ Holds(w)
  \/ \E r \in Requests : request[r].pc \in {"sending", "undo"}

\* Unless a control-plane process died on the way to the queue, or a worker lost
\* touch (its job, handed out again, waits for its lease once and may complete
\* before it dies), no run is left pending or running with nobody to carry it
\* on. There is no sweep that would find it: replies to it would wait forever.
NoStrandedRun == run.status \in Active /\ Spared({"drop", "stall"}) => Attended

\* When everything is at rest after a turn that was not cancelled, every reply
\* that was stored has been in the prompt of a turn, unless a prompt had read past
\* its id before it showed.
NoReplyLeftBehind ==
  Quiet /\ run.status \in {"succeeded", "failed"} => messages \subseteq answered \cup overtaken

\* Only a process that died, a call that failed or a switched-off automation
\* leaves a reply behind.
RepliesAnswered == Spared({"crash", "drop", "fault", "toggle"}) => NoReplyLeftBehind

\* Slack delivers a reply at least once, and the run stores it once.
ReplyStoredOnce ==
  \A d, e \in Deliveries :
    d[1] = e[1] /\ request[d].id \in messages /\ request[e].id \in messages => d = e

\* When everything is at rest no grant is left with which a sandbox could
\* still reach the model broker, unless a worker died or a call failed.
NoStrayGrant == Quiet /\ Spared({"crash", "fault"}) => grants = {}

\* A run is reported to the automation's channels once.
ReportedOnce == reports <= 1

\* The row keeps the promises of RunLease.
Lease == INSTANCE RunLease WITH status <- run.status, owner <- run.lease, live <- run.live,
                                issued <- lastLease, WritesMayFail <- Budget["fault"] > 0
ImplementsRunLease == Lease!LeaseSpec

\* A run that is pending or running reaches the end of a turn.
RunSettles == run.status \in Active ~> run.status \in Terminal

\* As long as no process dies and no call fails, a reply that was stored, and
\* that no prompt had read past, gets into the prompt of a turn.
ReplyReachesTurn ==
  \A d \in Deliveries :
    request[d].id \in messages ~>
      request[d].id \in answered \cup overtaken \/ ~Spared({"crash", "drop", "fault"})

\* Jobs do not breed jobs: in the end nothing is queued and every handler is
\* free for good.
ComesToRest == <>[]( /\ \A k \in 0..RetryLimit : ready[k] = 0
                     /\ \A w \in Workers : handler[w].pc = "idle")
=============================================================================
