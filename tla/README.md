# Verification of responder-oss

TLA+ models of the parts of Responder whose correctness depends on the order in
which processes act: the workers, the control plane, the queue (pg-boss), the
database and the billing service act at the same time, die, repeat calls and get
answers late. Every module is translated from the source; `PROJECT.json` ("map")
names the lines each definition stands for.

## The system

Responder investigates production issues and runs automations for engineering
teams. It is a TypeScript monorepo: `apps/control-plane` (Hono API and React
console), `apps/worker` (job handlers and periodic passes), `packages/core`
(database access, queues, billing, integrations), PostgreSQL with the migrations
in `drizzle/`, and pg-boss as the queue. Jobs are delivered at least once
(`docs/architecture.md`), any number of worker and control-plane processes runs at
the same time, and the only shared state is the database and what third parties
remember (Autumn for billing, GitHub, Slack, Linear).

| component | state | operations | interacts through | what is hard | what makes it correct |
|---|---|---|---|---|---|
| Automation runs (`db/automations.ts`, `worker/automation-run.ts`, `automations/queue.ts`) | `automation_runs` (status, lease, expiry, cancellation), `automation_run_events`, broker grants, run jobs | queue, claim, heartbeat, turn, end, hand back, release, reply, follow up, cancel | the row's lease; events; jobs | takeover from a worker that still lives, retries that come too early, replies that race the end of a turn, queue calls that fail half way | one owner at a time, no stranded run, no lost reply, each run reported once |
| Responder-funded model requests (`db/automation-model-usage.ts`, `automations/model-usage-billing.ts`, `server/automations/model-broker.ts`) | `automation_model_usage` rows, Autumn's balance and keys | reserve, complete, release, settle, purge | advisory lock, the rows, Autumn | broker and passes settle one row, lost answers, keys that expire, prices that change | charged once, never more than the allowance, billed in the end |
| Sandbox periods, waivers, credits (`db/sandbox-usage.ts`, `billing/usage-billing.ts`, `billing/usage-waivers.ts`) | `sandbox_usage` rows, two Autumn balances | start, heartbeat, stop, close stale, settle, waive, credit | the row; Autumn | a sweep that closes a living period, settlement racing the waiver, a plan change between report and record | charged once, credited once and where it was charged |
| Remediation requests (`remediation-queue.ts`, `db/pull-requests.ts`, `db/suggestions.ts`, `worker/remediation-job.ts`) | `issue_pull_requests` and `suggestion_pull_requests` rows, remediation jobs, pull requests on GitHub | request, claim, send, requeue, start, open, record, fail, recover | the row's status; the exclusive queue | a dying worker, a recovery that meets a slow job, a request whose send fails | each request worked on once, none failed under a working handler, one open pull request per subject |
| Model broker grants (`db/automation-model-broker.ts`) | grants with budget, expiry, lease | create, claim, revoke | foreign key to the run's lease | lease changes while a grant exists | no grant outlives its turn |
| Triggers and schedule (`automations/scheduler.ts`, webhooks) | schedule cursors, trigger claims | begin run, abandon | unique trigger keys | duplicate deliveries | one run per trigger |
| Automation actions (`worker/automation-actions.ts`, `worker/github-pull-request.ts`, `server/automations/recorded-write.ts`, `server/automations/linear-tools.ts`, `db/automations.ts`) | `automation_action_attempts`, pull request origins | begin, retry, write, complete, fail | a row per idempotency key; what Slack, Linear and GitHub remember | a repeated turn, calls next to each other, an uncertain failure | one writer at a time, one external effect per action, true answers |
| Investigations and replay (`db/investigations.ts`, `server/investigations/queue.ts`, `worker/replay-requests.ts`, `worker/worker.ts`) | investigation and receipt, replay request and its claim, credit holds, jobs | begin, admit, discard, send, start, report, resolve, fail, rerun, claim, mark, release | row status (no lease), standard queue | duplicate deliveries, retries next to reruns, workers that finish before the drain has marked the request | a filed report stays, issues filed and credits spent once per run, a replay agrees with its request |
| Subscription credentials (`db/automation-model-credentials.ts`) | credential and its refresh lease | lease, refresh, release | the lease | refresh tokens are used once | no refresh with an old token |
| Linear tickets, pull-request follow-ups, telemetry alerts, synthetic checks, error issues, billing notices, cells, integrations, management API, console, telemetry queries | own tables | | | mostly one statement per step | |

## Modules

| module | what it is |
|---|---|
| `AutomationRun` | one automation run, its jobs, its workers and the requests that touch it |
| `RunLease` | the abstract lease protocol the row of a run keeps; `AutomationRun` implements it (`ImplementsRunLease`) |
| `AutomationRun_proofs`, `AutomationRunLease_proofs`, `AutomationRunEvents_proofs` | theorems about `AutomationRun`: its types, its lease, and what it keeps for others (replies, grants, jobs) |
| `ActionAttempt`, `ActionAttempt_proofs` | one external write of a run and the tool calls that ask for it, and theorems about it |
| `ModelUsage`, `ModelUsage_proofs` | Responder-funded model requests: broker and settlement passes, and theorems about them |
| `SandboxUsage`, `SandboxUsage_proofs` | sandbox periods: meter, settlement passes, waivers and credits, and theorems about them |
| `Remediation`, `Remediation_proofs` | requests for the pull requests of one issue or suggestion, and theorems about them |
| `Investigation`, `Investigation_proofs` | one investigation: deliveries, reruns, replay request, workers, and theorems about it |
| `MC...` | instances for TLC: budgets of trouble and symmetry |

Conventions. A process is a program counter (`pc`, `at`) that stops where the
code awaits a statement, a call or a timer: each action is one statement,
transaction or call with what the process does up to the next one. Whatever may
go wrong is a kind of trouble with a number in the constant `Budget`: each
occurrence uses one up, so a run of TLC is finite and a property can say "as
long as no call failed" (`Spared`). Where a budget has the kind `any`, it limits
all kinds together. A call that fails may or may not have taken
effect. An operator marked `Slip` is a plausible mistake; it is not part of the
specification, it is what the properties are tested against.

### AutomationRun

| in the model | in the code |
|---|---|
| `run` (status, lease, live, cancel) | `automation_runs.status`, `lease_id`, `lease_expires_at` in the future, `cancellation_requested_at` |
| `grants` | the leases named by `automation_model_broker_grants`; the foreign key (`LeaseReferenced`) is that of migration 0048 |
| `messages`, `newest`, `finished`, `lastEvent` | `automation_run_events`: user messages, the newest id a prompt has covered, an event that ends a turn, the id sequence |
| `ready`, `handler[w].tries`, `.owned` | pg-boss jobs of the run by retry count, and whether pg-boss still counts the handler's job as active |
| `handler[w]` | a call of `processAutomationRun`: `lease`, `thru` = `answeredThrough`, `first` = first turn, `end` = how the turn ended |
| `request[r]` | a call of `queueAutomationRunReply` (replies) or of `continueAutomationRun` with its job (follow-ups) |

The order of the steps is that of `processAutomationRun`: claim, wait for a live
lease and claim again, configuration, heartbeat and cancellation check, read the
conversation, grant, harness, last look at the cancellation, status with lease,
event, clean-up, notification, `answerNewMessages`; or release and queue again
when the worker is told to stop.

Abstractions. Messages are their event ids. The heartbeat timer and the
cancellation poll are actions enabled while the timers run. A live lease is not
a time: it may run out only when nobody renews it, or when its holder lost touch
(`LeaseExpires`). Transcript, Slack cards, tools and the waiver of a failed turn
are left out; they write no column the properties read, and action attempts have
a module of their own. Jobs
that settle detached work of a cancelled run are left out.

Three facts of the code that a reader may stumble on: a cancelled turn does not
look for new messages, a run whose automation was turned off answers nothing, and
a reply whose transaction commits after a prompt has read a newer event is taken
for answered. The first two are in `NoReplyLeftBehind` and `Reopenable`. For the
third, event ids are given out at the insert (`AddReply`) and show at the commit
(`CommitReply`), as in the database; the history variable `overtaken` keeps the
replies that came late, which `NoReplyLeftBehind` and `ReplyReachesTurn` except.

### ActionAttempt

| in the model | in the code |
|---|---|
| `attempt` | the status of the `automation_action_attempts` row of one idempotency key |
| `at[c]`, `answer[c]` | a tool call: the statement it is at, and what it told the agent |
| `kind`, `effects`, `branch` | what is written, and what the service has: a Slack message, a Linear issue, a branch and a pull request on GitHub, a review reply |
| `origin` | the pull request is recorded as one of the run, so that its reviews reach the run |
| `ousted` | calls whose turn has lost the lease of the run |

`Ask`, `Insert`, `Retry` and `Look` are `beginAutomationActionAttempt` behind the
look at the lease; `Post`, `CreateIssue` with `FindIssue`, `AssertActive` with
`CreateBranch` and `OpenPull`, and `PostReply` are the writes of the four kinds;
`Complete`, `Withdraw` and `RecordOrigin` record how they ended. The services
differ in what they remember, and the model keeps exactly that: Slack drops a
message whose id it knows, Linear refuses the id of an issue it has, GitHub
refuses a branch it has and takes any review reply.

All calls of an instance ask for the same write: another write has another key,
another row and another id at the service. A turn may lose the run between any
two steps, and its calls go on. Writes without an attempt row (updates of a pull
request, reactions, file uploads, replies below a notification) are left out.

### ModelUsage

`row` is `automation_model_usage` (`reserved`: `completed_at` null; `gone`:
deleted or released), `tried` the order of `billing_attempted_at`, `at[r]` a
call of the broker for request `r`, `at[p]` the pass of worker `p` with the rows
it listed (`todo`) and those that failed (`failed`). `charges` and `keys` are
Autumn's. A lookup may return any price from `MinPrice` to `MaxPrice`, since
price caches of processes differ for an hour, or none, when it fails or the model
is not listed. The history variable `blind` keeps the rows that were completed
without a price: each of their settlers looks one up.

Time is the age of a row in steps that the code tells apart: a minute
(`retryDelayMs`), 15 minutes (`reservationLifetimeMs`), 23 hours
(`retryWindowMs`), 24 hours (Autumn's keys). `GrowOlder` carries two
assumptions: a broker request ends within the lifetime of its reservation (the
provider gets ten minutes, the retries less than one), and, under
`PassesAreQuick`, a pass does not hold a row past 24 hours. Nothing in the code
enforces the second one; see the findings.

### SandboxUsage

`row` is `sandbox_usage`, `age` the age of `heartbeat_at`, which is the stop
once the period ended (both ways to end a period set them equal), `waiver` the
age of `waived_at`. `at[s]` is a meter (`startSandboxMeter` and
`finishSandboxUsage`) or a pass (`settleUnbilledUsage`, then
`creditWaivedUsage`). An entry of `charges` and `credits` names the balance and
whether the meter or the sweep had ended the period it counts. A plan lookup may
answer a plan that was replaced a minute ago (`cached`). The deadline of ten
minutes of a pass (`passDeadlineMs`) is `MeetDeadline`, and the reason why no
pass holds a row for the last hour of its key.

`billing_attempted_at` and `credit_attempted_at`, which only order the lists,
are left out: a pass takes its rows in any order and lists all of them. That
rows which keep failing do not starve others is checked in `ModelUsage`, whose
list has the same order. Billing is enabled throughout.

### Remediation

| in the model | in the code |
|---|---|
| `status[r]` | the status of a row of `issue_pull_requests` or `suggestion_pull_requests`; `none` is no row yet |
| `stale` | `updated_at` is older than the recovery cutoff of two hours (`Write` sets it) |
| `job[r]` | the job of the request on the exclusive remediation queue; `LiveJob` is "not in `terminalRemediationJobStates`" |
| `queuing[q]` | a call of `queueRemediationRequest`, by the process that made the request (`q` is the request) or by the drain of a worker |
| `handler[w]` | the remediation handler of a worker: check, `markStarted`, diff and pull request, record, failure |
| `sweep[w]` | `recoverAbandonedRemediationRequests`: list, look for jobs, fail |
| `begun`, `branch` | how often a handler set out to open the pull request, and the branches on GitHub |

A request is made by a transaction that looks for one of the subject (`Request`)
and then inserts (`Insert`): several may look before one inserts. What decides is
the partial unique index over active requests (`Insertable`), which knows nothing
of merged ones.

One subject is modelled, since requests of different subjects share nothing. It
is an issue or a suggestion (`kind`): only suggestion requests are requeued by a
drain, and only the investigation of an issue can discard its requests. A branch
is named after its request, so GitHub refuses the second pull request of one
request, never that of another.

Time is two facts. A job expires an hour after it began, also when its handler
goes on (`overrun`); two hours after the last write the row is `stale`.
`GrowStale` says who cannot be that slow: nobody between two statements of a
claim or a recovery, and no handler whose job has not expired.

### Investigation

| in the model | in the code |
|---|---|
| `status`, `report`, `round` | the row of `investigations`: its status, which parts of a report it holds, how often it was inserted or reset |
| `request` | the row of `investigation_replay_requests`; `stale` is a claim older than five minutes |
| `job[j]` | jobs on the investigation queue, which is a standard queue: a `singletonKey` does not keep a second job out |
| `at[c]`, `hold[c]` | a delivery of the event, or a member's request to run the investigation again, and the credit it holds |
| `at[w]`, `attempt[w]` | the replay drain of worker `w` and the claim it made |
| `handler[w]` | the investigation handler of worker `w`: `MarkStarted`, the agent and its report tool, completion, failure |
| `filed` | how often the issues of a report were filed |

`kind` chooses between an event and a replay. Deliveries by webhook drop a
duplicate; the scan scheduler looks at the investigation it duplicates and runs
a failed one again (`AfterDuplicate`). The row has no lease: what keeps two jobs
apart is only the status that each statement names, and `Resolve` names none.
A member whose organization is billed by usage holds no credit, so the rerun has
none to confirm or to release (`Reserve`, `WithCredit`).
The agent is a nondeterministic choice: it may call the report tool any number
of times, end with a text, or fail; it always ends, since its runtime is limited.

## Runs

| run | instance | asks |
|---|---|---|
| `troubled` | 2 workers, a follow-up, two retries; any two of a crashed worker, a dead control-plane process, a worker that loses touch and goes on, a failed call, a shutdown, a switched-off automation, a cancellation | `LeaseInv`, `HolderRuns`, `OnlyHolderEnds`: the worker that was displaced neither ends nor disturbs the run; `ImplementsRunLease`: the row keeps the lease protocol, with the repair writes that name no lease; `NoStrandedRun`: somebody will still act on a pending or running run |
| `recovery` | 2 workers, a reply delivered twice, one retry; a crash, a failed call or a shutdown; fair | `TypeOK`; every stored reply is in a prompt when all is quiet (`RepliesAnswered`) and stored once (`ReplyStoredOnce`); no grant is left (`NoStrayGrant`); `RunSettles`, `ReplyReachesTurn`, `ComesToRest` |
| `usage_ledger` | 2 requests and their brokers, the passes of a worker that list one row, two prices; a crash and a price that disappears, or a failed call; fair | `ChargedOnce`, `Covered`, `UseFindsRow`, `ChargedAsRecorded`; `Settles`: a row that keeps failing does not starve the other |
| `sandbox_ledger` | a period, its meter, the passes of a worker, all three plans; a crash, a failed call, a change of plan, a missed deadline; fair | `ChargedOnce`, `ChargedAsMeasured`, `CreditedOnce`; `PeriodsSettle`, `ChargesReturn` |
| `remediation` | 2 requests, 2 workers, one with a drain that finds something; any two of a crash, a failed call, an overrun, a discard; fair | `WorkedOnce`, `KeepsRequest`, `OnePullRequest`, `NotMistaken`; `RequestsSettle` |
| `investigation` | an event delivered by a webhook and by the scan scheduler and a member who reruns it, or a replay request with two claims; 2 workers with drains; one trouble of any kind, for a replay two; fair | `ReportKept`, `FiledOnce`, `ChargedPerRerun`, `AloneAtWork`, `ReplayAgrees`; `InvestigationSettles`, `RequestSettles` |
| `action_attempts` | 3 calls for one message, issue, pull request or reply; a crash, two failed calls, a takeover, any three of them; fair | `OneWriter`, `OneEffect`, `AnswersTrue`, `SuccessStays`; `AttemptEnds`, `RetryRepairs` |
| `reported_twice`, `reply_after_crash`, `slow_pass`, `two_prices`, `plan_change` | smallest instance that shows the disagreement | see Findings |

Why the bounds suffice. The hazards are races of two parties over one row: the
owner of a lease and its successor, a turn and a reply, a broker or a meter and a
pass, a handler and a recovery, two claims of one request. Two workers, or a
broker or meter and a pass, give every such pair, and a second request or
delivery is there where two of them compete. (The ledgers have one
pass, because the broker or the meter settles a row by the same steps; their
safety properties are proved for any number of passes.) One unit of
each kind of trouble covers every point at which it may strike; `troubled` allows
any two and `recovery` any one, with as many retries, because the code promises no
more (there is no sweeper of runs). In `action_attempts` three calls are two that race and one
that finds what they left, and two failed calls are an uncertain write and a
failed look at it. In `remediation` and `investigation` the hard cases need
two of them, such as a crash and then a failed call, and a limit on all kinds
together keeps the third out. `RetryLimit` 1 and `MaxClaims` 2 stand for 2 and 5
in the code: a first try, a repeated one, and the end of the tries. The theorems
below hold without any of these bounds. Leases, event ids and turns are not bounded directly:
each new turn needs a job, and jobs come from replies, follow-ups, shutdowns and
retries, all of which are bounded.

Nothing is assumed about the order in which replies commit. `recovery` has one
reply, whose deliveries and transactions race the turns of both workers; with two
replies, or a reply and a follow-up, its fair instance has more states than can be
checked for liveness, and the theorems cover them: `RepliesAnsweredCorrect`,
`ReplyStoredOnceCorrect` and `NoStrayGrantCorrect` hold for any number of either.
The follow-up is in `troubled`.

In `usage_ledger` the allowance lets both requests in at some prices and refuses
one at others. `two_prices` has one request, whose price lookup may fail, and two
passes: what it shows needs two settlers and no second row.

The type invariants of the other modules are not checked by a run: they are
proved (`TypeCorrect`) for every instance.

## Fairness

Weak fairness only, each with its reason in the code:

- a handler, broker request, meter or pass that lives goes on: no step waits for
  another process (`Wake` waits for a time, not for an event). Provider, sandbox
  and Autumn calls have timeouts; a turn ends at the runtime limit.
- a tool call that was made goes on; that an agent calls a tool is never assumed;
- pg-boss polls and hands out what is queued (`Fetch`);
- a control-plane request that was begun goes on (`RequestProgress`); that one
  is made is never assumed;
- a lease that nobody renews runs out; a minute passes, and for an open sandbox
  period five minutes;
- a worker's timer starts one pass, drain or recovery after another;
- jobs without a living handler expire, two hours pass for a request that
  nobody writes to, and five minutes for a claim whose drain is gone.

No fairness is assumed of trouble, replies, cancellations, plan changes, of a
price that comes back, of rows growing too old to be retried, of overruns, or of
an agent calling its report tool. In `Investigation` one condition ranges over the
steps of everybody (`GoOn`). It is weaker than one for each, and enough: every
caller, claim and job takes a bounded number of steps, so whoever can go on gets
its turn.

## Proofs

Every theorem holds for any sets of processes, requests and rows and for any
budget, and assumes only the named assumption of its module: the sets are
disjoint where the code tells them apart, numbers are numbers, and `Periods`,
deliveries and members are finite where a theorem counts them. Each module
follows one scheme: an invariant `IInv` that is a conjunction of named parts,
`Init => IInv`, one step per action for `IInv /\ [Next]_vars => IInv'`, and a
last temporal step.

**AutomationRun.** `AutomationRun_proofs` proves `TypeCorrect`,
`AutomationRunLease_proofs` the lease of a run.

`HolderRuns`, that a worker in its turn whose lease the row still names works on
a running run, is not inductive. It needs that leases are unique among handlers
and never issued twice (else a successor's row would match a displaced worker),
that a pending run has no lease (else a reopened row would match the worker that
ended it), and that the two writes without a lease (`FailUnqueuedTurn`,
`FailUnqueuedRequest`) are reached only by a failed call. `LeaseInv` is that
conjunction; `troubled` checks it too.

The argument goes through one lemma, `StepMoves`: every step other than `Claim`
lets handlers keep or drop their lease and never enter a turn, and writes the row
in one of five ways (`Kept`, `Reopens`, `Releases`, `EndsHeld`, `Repairs`).
`LeaseCorrect`, `HolderRunsCorrect`, `OnlyHolderEndsCorrect` and
`LeaseImplemented` (the refinement of `RunLease`) follow from it and from
`Claim`, without looking at the actions again.

`AutomationRunEvents_proofs` proves what a run keeps for others.

- `ReplyStoredOnceCorrect`: `Stored` says that ids are given out once and that
  one delivery at a time is between its look for the reply and its insert.
- `NoStrayGrantCorrect`: as long as no worker died and no call failed, a grant
  belongs to a turn that has yet to revoke it (`Held`).
- `NoStrandedRunCorrect`, under the hypothesis that a job is retried as often as
  workers may die and calls may fail: retries are spent only on trouble that was
  met (`Tried`, with `Fresh` for the grants that a claim finds), a handler whose
  turn is over holds no running run (`Parted`), and a running run with a live
  lease has a holder or a job (`Manned`). A run is then carried on because the
  job of whoever dies goes back to the queue.
- `RepliesAnsweredCorrect`, in whatever order replies commit, while nothing that
  may lose a reply was met (the premise of the property): a prompt covers every
  message up to the newest id it has read, but those that show later, which are
  overtaken (`ReadIt`); a turn knows how it ended (`Ended`); so a message that no
  prompt includes and none overtook is still looked for, either by the request
  that stored it or by the handler that ends the turn (`Expected`).
  That is the handshake between `queueAutomationRunReply` and
  `answerNewMessages`, and it needs both halves: `reply_after_crash` shows what
  happens without the second one.

**ActionAttempt** (`TypeCorrect`, `OneWriterCorrect`, `OneEffectCorrect`,
`AnswersTrueCorrect`, `SuccessStaysCorrect`), for any set of calls. A call that
writes keeps the row `running` and is the only one (`Sole`), so the statements
of the others, which name the status, pass it by. What each service has is
tied to what it remembers and to where the writer is (`Effected`): a pull request
exists only with its branch, and a second writer finds the branch; without failed
calls nobody is about to post a reply that is there already. `Answered` says that
a row which succeeded, or a call that is about to say so, has its effect.

**ModelUsage** (`TypeCorrect`, `UseFindsRowCorrect`; `ChargedOnceCorrect` under
`PassesAreQuick`, as are `ChargedAsRecordedCorrect` and `CoveredCorrect`, for any
prices). `Broking` says which row a broker has
at each of its steps, and that it is done before the row is too old; `Passing`
that a pass holds used rows only; `Charged` that Autumn remembers a charge until
nobody is left to report it. `Valued` says that a row completed with a price, the
copies in the lists of passes, whoever settles it and the charge agree on its
cost, and that those of a row completed blind are at some price of the model: the
row may then hold one and the charge be another (`two_prices`).

`CoveredCorrect` bounds by `MaxPrice * Allowance` what was charged, used and
reserved, each at its most or least favourable price: an estimate is made at one
price and the use may be counted at another, so no tighter bound holds. Rows
completed blind count nothing, in the reservation query as in the property (see
Observations); calls may fail and processes may die. The invariant is `Covering`:
one broker at a time is between its look at the ledger and its insert (the
advisory lock), what it asks Autumn for is at least its own estimate and what the
others may still cost, and an estimate is at least the use at the lowest price.
A completion then only lowers what may be spent, and a charge moves it from the
ledger to Autumn. The sums are the library's `MapThenSumSet`; what the proof needs
of them (they exist, grow with their summands, add up, scale, change with one
summand) is proved from its recursive definition by
`SubsetInduction`, which takes a set instead of a predicate and rests on the
library's theorem that finite subsets are well-founded.

**SandboxUsage** (`TypeCorrect`, `ChargedOnceCorrect`, `ChargedAsMeasuredCorrect`,
`CreditedOnceCorrect`). That a period is charged once rests on a chain: a charge
leaves a key at Autumn for as long as the age of the row is below 24 hours
(`Charged`); whoever may still report the row is a meter or pass at work (`Work`)
and took it young enough; so either the key is there or nobody reports. That the
charge is what the row measures needs that the sweep moves no stop once a charge
exists. The credit repeats the argument with the waiver's age (`Credited`), and
`Returned` ties its amount to the charge while no plan changed.

**Remediation** (`TypeCorrect`, `WorkedOnceCorrect`, `KeepsRequestCorrect`,
`OnePullRequestCorrect`, `NotMistakenCorrect`). Who may still act on a request
follows from its job: between `Claim` and `Send` exactly one queuer holds it and
it has no job (`Claimed`), a job is worked on by at most one handler in time
(`Handled`), and `begun` is still 0 as long as somebody could begin (part of
both). Hence `WorkedOnce`, whatever fails. `KeepsRequest` and `NotMistaken` need
that a request under a handler in time does not grow stale (`KeptYoung`) and that
the recovery holds only what had no live job (`Unrecovered`). `OnePullRequest`
needs that without trouble each branch belongs to a request that is recorded or
about to be, and, by the unique index and not by the look before it, that two
requests are never active together (`Published`).

**Investigation** (`TypeCorrect`, `ReportKeptCorrect`, `FiledOnceCorrect`,
`ChargedPerRerunCorrect`, `ReplayAgreesCorrect`, `AloneAtWorkCorrect`). `Paid`
counts: a credit is confirmed, or about to be, only by a caller that reset the
row, and `round` counts resets. `Replayed` is what makes drains and workers agree
in any order of their writes: a completed request is never marked or released,
because both name the status they expect. `AloneAtWork` goes through `Solo` and
`First`: as long as nothing ran twice, there is at most one sender or one job,
and who finds a duplicate leaves.

Model-checked only: the liveness properties (`RunSettles`, `ReplyReachesTurn`,
`ComesToRest`, `Settles`, `PeriodsSettle`, `ChargesReturn`, `RequestsSettle`,
`InvestigationSettles`, `RequestSettles`, `AttemptEnds`, `RetryRepairs`), since
the prover covers neither fairness nor `ENABLED`. Every safety property of a
passing run is a theorem; those with hypotheses (`ChargedOnce`,
`ChargedAsRecorded` and `Covered` of `ModelUsage` under `PassesAreQuick`,
`NoStrandedRun` under enough retries) name them, and the instances satisfy them.

## Findings

Disagreements between the code and what it says of itself, each shown by a run
with the expected outcome "violation":

- **A run can be reported twice** (`reported_twice`). The catch block of a turn
  ignores whether its status write matched a row; a worker that lost its lease
  without a heartbeat noticing reports the failure as a first turn, and so does
  its successor. The run needs a stalled worker and a takeover.
- **A reply can be lost when a worker dies** (`reply_after_crash`). A reply
  stored while the run is active is left to the worker, which looks for it after
  it wrote the final status. If it dies in between, the retried job finds a
  finished run and completes.
- **A pass over model usage has no deadline** (`slow_pass`). It may report a row
  after the key of an earlier report expired. The passes over sandbox and agent
  usage have one.
- **A row may hold another amount than the one charged** (`two_prices`). A row
  completed without a price is priced by whoever settles it. The first price is
  stored, but each settler reports the price it looked up itself: when the caches
  of the broker and of a worker differ, the row holds one and Autumn charged the
  other. A comment says that rows hold the amount charged. For rows completed with
  a price it is true (`ChargedAsRecorded`).
- **A credit may go to a balance that was never charged** (`plan_change`). Every
  attempt to report a period asks for the plan again and stores its own balance,
  although Autumn ignored it as a repetition.

## Observations

Behaviour met while modelling that no run records; each can be reproduced by
changing the named constant.

- Event ids are given out at the insert and show at the commit. If a reply's
  transaction commits after a turn read a newer event, `answeredThrough` hides
  the reply and no turn answers it. `NoReplyLeftBehind` and `ReplyReachesTurn`
  except such a reply (`overtaken`), and no other.
- A run that is continued between the status that ends its turn and the event
  that records it starts a second "first" turn and is reported twice
  (`ReportedOnce` with a follow-up in place of the stalled worker).
- A control-plane process that dies between reopening a run and queueing its job
  leaves a pending run that nothing picks up; `NoStrandedRun` excepts it.
- A worker that lost touch with the queue keeps its lease if it can still renew
  it. The next handler of the job then finds the lease renewed, completes, and
  when the first worker dies the run stays running with nobody to carry it on.
  `NoStrandedRun` excepts workers that lose touch.
- A pull request whose branch was created and whose opening failed cannot be
  tried again: GitHub refuses the branch, so every further call fails.
- A process that dies between the insert of an attempt and its record leaves the
  row running, and every later call for it is refused ("still being created").
- A review reply may be posted twice when the statement that records it fails,
  because it is inside the try block of the write. `OneEffect` and
  `SuccessStays` except it.
- A completed row whose cost is not known counts as nothing against the
  allowance until it is priced, so that another request may be let in beside it.
  `Covered` leaves such rows out. And an estimate is made at one price while the
  use is charged at another: a request may cost more than was reserved for it, by
  the spread of the prices, which is the factor in `Covered`.
- With `per_run` among the plans of `plan_change`, a workspace that pays per run
  and then moves to a paid plan can be credited for a period it was never
  charged for.
- The retry window of a credit starts with the waiver, that of the report with
  the stop after it. A waived period that is billed at the very end of its
  window is not credited; `ChargesReturn` excepts it.
- The request for a pull request on an issue whose starter dies, or fails, before
  it claims the request stays queued for ever, and blocks any further request
  for the issue: drains look for queued suggestion requests only.
  `RequestsSettle` excepts it.
- A remediation handler that overruns its job by an hour can open a pull request
  after the recovery failed its request and a new request was made: two open
  pull requests for one subject. `OnePullRequest` holds without trouble; what it
  shows is that two requests never race to one subject.
- The unique index over requests ignores merged ones: a request of a user that
  looked before another one came and was merged is inserted all the same.
- A process that dies between the insert of an investigation and its send
  leaves a pending investigation that every further delivery takes for a
  duplicate. `InvestigationSettles` excepts it.
- `completeInvestigation` looks for a report and then resolves the row whatever
  its status is (`Resolve`). A worker of an earlier run can so end a rerun that
  was reset in between and paid for.
- Two jobs can work on one replay after a drain crashed or stalled between its
  send and its mark. `AloneAtWork` excepts it; `ReplayAgrees` holds all the same.

## Not modelled

Most of the repository is input and output around these protocols: the console
(`apps/control-plane/src`), HTTP routes and form handling, clients of third
parties and their OAuth flows, prompts and tools of the agents, telemetry ingest
and the translation of queries to ClickHouse, schema and migrations. Its state
changes are single statements, and a model of it would restate them; this is why
the share of the implementation that the map names is small. Left out too are
periodic evaluations whose logic is a query (telemetry alerts, synthetic checks,
error issues, billing notices).

Components with a protocol of their own that are not modelled yet, and why they
come last:

- triggers and schedule: unique keys decide, except where a trigger is abandoned
  while a duplicate is queued;
- subscription credentials: a lease without an expiry, held across one refresh;
- Linear tickets: the claim, send and record pattern of `Remediation`.

Left out of the modelled components: actions without an attempt row, several
repositories per issue, review follow-ups of pull requests, investigations of
Slack threads and Linear sessions, reruns of replays, initial triage. The budget
and the expiry of a broker grant are one UPDATE in the code; the model keeps only
that the grant exists. Agent model usage settles like the completed rows of
`ModelUsage` and is credited like `SandboxUsage`.

## Plan

Done, in this order: `AutomationRun` with `RunLease`; `ModelUsage`;
`SandboxUsage`; `Remediation`; `Investigation`; `ActionAttempt`; each with its
proofs. Next, most important first:

1. `AutomationTrigger`: begin and abandon of duplicate triggers, composed with
   the first steps of `AutomationRun`.
2. `SubscriptionLease`: refresh of shared credentials; refines a lease
   specification like `RunLease`.
3. Broker requests on the grants of `AutomationRun`: no request is admitted for
   a turn that ended.

## Running

    tlc -config MCAutomationRunTroubled.cfg MCAutomationRun
    tlapm AutomationRunLease_proofs.tla

`PROJECT.json` ("runs") lists the module and configuration of every run.
