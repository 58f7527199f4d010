---------------------------- MODULE ActionAttempt ----------------------------
(***************************************************************************)
(* One external write of an automation run: the automation_action_attempts *)
(* row of its idempotency key, the tool calls that ask for it, and what    *)
(* the service it goes to remembers.                                       *)
(*                                                                         *)
(* An agent calls a tool as often as it likes, a turn that takes the run   *)
(* over calls it again, and calls run next to each other. The row decides  *)
(* which of them writes. All calls of the instance have one identity: what *)
(* has another identity has another row and another id at the service.     *)
(***************************************************************************)
EXTENDS Integers

CONSTANTS
  Calls,   \* tool calls with this identity
  Budget   \* how much of each kind of trouble a behaviour may meet

TroubleKinds == {"crash",     \* the process that answers a call dies
                 "fault",     \* a database or service call fails
                 "takeover"}  \* the turn of a call loses the lease of the run
Limits == TroubleKinds \cup {"any"}   \* each kind, and all kinds together

ASSUME ActionAttemptAssumption == Budget \in [Limits -> Nat]

VARIABLES
  kind,     \* what is written, and so what the service remembers
  attempt,  \* status of the automation_action_attempts row
  at,       \* where each call is
  answer,   \* what each call told the agent
  ousted,   \* calls whose turn no longer holds the run
  effects,  \* messages, issues, pull requests or replies the service has
  branch,   \* is there a branch on GitHub that is named after the attempt?
  origin,   \* is the pull request recorded as one of the run?
  trouble   \* what is left of Budget

vars == <<kind, attempt, at, answer, ousted, effects, branch, origin, trouble>>

Kinds == {"message",       \* to Slack, which knows the id of a message it has
          "issue",         \* to Linear, which refuses an id it has
          "pull_request",  \* to GitHub, which refuses a branch it has
          "reply"}         \* to a review thread, which takes anything

\* The call may write, or has written and not recorded it yet.
Writing == {"assert", "write", "again", "find", "pull", "record", "withdraw"}
PC == {"new", "begin", "retry", "look", "origin", "end"} \cup Writing
Answer == {"none", "done", "warned", "refused", "error"}

TypeOK ==
  /\ kind \in Kinds
  /\ attempt \in {"none", "running", "succeeded", "failed"}
  /\ at \in [Calls -> PC] /\ answer \in [Calls -> Answer]
  /\ ousted \subseteq Calls
  /\ effects \in Nat
  /\ branch \in BOOLEAN /\ origin \in BOOLEAN
  /\ trouble \in [Limits -> Nat]

Init ==
  /\ kind \in Kinds
  /\ attempt = "none"
  /\ at = [c \in Calls |-> "new"] /\ answer = [c \in Calls |-> "none"]
  /\ ousted = {}
  /\ effects = 0 /\ branch = FALSE /\ origin = FALSE
  /\ trouble = Budget

-----------------------------------------------------------------------------
(* Helpers. *)

service == <<effects, branch>>

Meet(trouble_kind) ==
  /\ trouble[trouble_kind] > 0 /\ trouble["any"] > 0
  /\ trouble' = [trouble EXCEPT ![trouble_kind] = @ - 1, !["any"] = @ - 1]

\* A call that works, or fails: then what it does may be done or not.
Try(effect, skip, works, fails) ==
  \/ effect /\ works /\ UNCHANGED trouble
  \/ Meet("fault") /\ (effect \/ skip) /\ fails

Goto(c, pc) == at' = [at EXCEPT ![c] = pc] /\ UNCHANGED answer
Tell(c, said) == at' = [at EXCEPT ![c] = "end"] /\ answer' = [answer EXCEPT ![c] = said]

\* A pull request looks at the lease once more before it is opened.
Start(c) == Goto(c, IF kind = "pull_request" THEN "assert" ELSE "write")

Set(status) == attempt' = status

-----------------------------------------------------------------------------
(* beginAutomationActionAttempt. *)

\* A call of a turn that lost the run is refused: assertActive throws in the
\* worker, resolveGrant finds nothing in the control plane. Either may fail.
Ask(c) ==
  /\ at[c] = "new"
  /\ \/ /\ IF c \in ousted THEN Tell(c, "error") ELSE Goto(c, "begin")
        /\ UNCHANGED trouble
     \/ Meet("fault") /\ Tell(c, "error")
  /\ UNCHANGED <<kind, attempt, ousted, service, origin>>

\* Slip: the key is not unique.
Insert_Again(c) ==
  /\ at[c] = "begin"
  /\ Try(Set("running"), UNCHANGED attempt, Start(c), Tell(c, "error"))
  /\ UNCHANGED <<kind, ousted, service, origin>>
\* The insert of the row; it does nothing when there is one.
Insert(c) ==
  /\ at[c] = "begin"
  /\ IF attempt = "none"
     THEN Try(Set("running"), UNCHANGED attempt, Start(c), Tell(c, "error"))
     ELSE Try(UNCHANGED attempt, UNCHANGED attempt, Goto(c, "retry"), Tell(c, "error"))
  /\ UNCHANGED <<kind, ousted, service, origin>>

\* Slip: the update does not name the status.
Retryable_Any == attempt # "none"
Retryable == attempt = "failed"

\* A failed attempt is taken up again.
Retry(c) ==
  /\ at[c] = "retry"
  /\ IF Retryable
     THEN Try(Set("running"), UNCHANGED attempt, Start(c), Tell(c, "error"))
     ELSE Try(UNCHANGED attempt, UNCHANGED attempt, Goto(c, "look"), Tell(c, "error"))
  /\ UNCHANGED <<kind, ousted, service, origin>>

\* Slip: an attempt that is under way counts as done.
Settled_Running == attempt # "failed"
Settled == attempt = "succeeded"

\* What was written before is the answer, and a pull request's origin is
\* recorded once more; anything else is an unresolved prior attempt.
Look(c) ==
  /\ at[c] = "look"
  /\ \/ /\ IF ~Settled THEN Tell(c, "refused")
           ELSE IF kind = "pull_request" THEN Goto(c, "origin") ELSE Tell(c, "done")
        /\ UNCHANGED trouble
     \/ Meet("fault") /\ Tell(c, "error")
  /\ UNCHANGED <<kind, attempt, ousted, service, origin>>

-----------------------------------------------------------------------------
(* The write. *)

\* Slip: the look at the lease is outside of the try block.
AssertActive_Escapes(c) ==
  /\ at[c] = "assert"
  /\ \/ /\ IF c \in ousted THEN Tell(c, "error") ELSE Goto(c, "write")
        /\ UNCHANGED trouble
     \/ Meet("fault") /\ Tell(c, "error")
  /\ UNCHANGED <<kind, attempt, ousted, service, origin>>
\* The heartbeat of the turn: that it finds another lease, or fails, is caught
\* and the attempt withdrawn.
AssertActive(c) ==
  /\ at[c] = "assert"
  /\ \/ Goto(c, IF c \in ousted THEN "withdraw" ELSE "write") /\ UNCHANGED trouble
     \/ Meet("fault") /\ Goto(c, "withdraw")
  /\ UNCHANGED <<kind, attempt, ousted, service, origin>>

\* chat.postMessage, at most twice; Slack drops a message whose id it knows.
Post(c) ==
  /\ kind = "message"
  /\ \/ at[c] = "write" /\ Try(effects' = 1, UNCHANGED effects, Goto(c, "record"),
                               Goto(c, "again") \/ Goto(c, "withdraw"))
     \/ at[c] = "again" /\ Try(effects' = 1, UNCHANGED effects, Goto(c, "record"),
                               Goto(c, "withdraw"))
  /\ UNCHANGED <<kind, attempt, ousted, branch, origin>>

\* Slip: an error ends the write.
CreateIssue_NoFind(c) ==
  /\ kind = "issue" /\ at[c] = "write"
  /\ IF effects > 0
     THEN Goto(c, "withdraw") /\ UNCHANGED <<effects, trouble>>
     ELSE Try(effects' = 1, UNCHANGED effects, Goto(c, "record"), Goto(c, "withdraw"))
  /\ UNCHANGED <<kind, attempt, ousted, branch, origin>>
\* Linear refuses the id of an issue it has. After any error the issue is
\* looked up by the id of the attempt.
CreateIssue(c) ==
  /\ kind = "issue" /\ at[c] = "write"
  /\ IF effects > 0
     THEN Goto(c, "find") /\ UNCHANGED <<effects, trouble>>
     ELSE Try(effects' = 1, UNCHANGED effects, Goto(c, "record"), Goto(c, "find"))
  /\ UNCHANGED <<kind, attempt, ousted, branch, origin>>

FindIssue(c) ==
  /\ at[c] = "find"
  /\ \/ Goto(c, IF effects > 0 THEN "record" ELSE "withdraw") /\ UNCHANGED trouble
     \/ Meet("fault") /\ Goto(c, "withdraw")
  /\ UNCHANGED <<kind, attempt, ousted, service, origin>>

\* The branch of a pull request is named after the attempt.
CreateBranch(c) ==
  /\ kind = "pull_request" /\ at[c] = "write"
  /\ IF branch
     THEN Goto(c, "withdraw") /\ UNCHANGED <<branch, trouble>>
     ELSE Try(branch' = TRUE, UNCHANGED branch, Goto(c, "pull"), Goto(c, "withdraw"))
  /\ UNCHANGED <<kind, attempt, ousted, effects, origin>>

OpenPull(c) ==
  /\ at[c] = "pull"
  /\ Try(effects' = effects + 1, UNCHANGED effects, Goto(c, "record"), Goto(c, "withdraw"))
  /\ UNCHANGED <<kind, attempt, ousted, branch, origin>>

PostReply(c) ==
  /\ kind = "reply" /\ at[c] = "write"
  /\ Try(effects' = effects + 1, UNCHANGED effects, Goto(c, "record"), Goto(c, "withdraw"))
  /\ UNCHANGED <<kind, attempt, ousted, branch, origin>>

-----------------------------------------------------------------------------
(* The record of the write. *)

\* Slip: what the statement throws is caught as if the write had failed.
Complete_Caught(c) ==
  /\ at[c] = "record"
  /\ Try(Set("succeeded"), UNCHANGED attempt,
         IF kind = "pull_request" THEN Goto(c, "origin") ELSE Tell(c, "done"),
         Goto(c, "withdraw"))
  /\ UNCHANGED <<kind, ousted, service, origin>>
\* completeAutomationActionAttempt. For a reply it is inside the try block
\* whose catch fails the attempt.
Complete(c) ==
  /\ at[c] = "record"
  /\ Try(Set("succeeded"), UNCHANGED attempt,
         IF kind = "pull_request" THEN Goto(c, "origin") ELSE Tell(c, "done"),
         IF kind = "reply" THEN Goto(c, "withdraw") ELSE Tell(c, "error"))
  /\ UNCHANGED <<kind, ousted, service, origin>>

\* failAutomationActionAttempt, which names no status.
Withdraw(c) ==
  /\ at[c] = "withdraw"
  /\ Try(Set("failed"), UNCHANGED attempt, Tell(c, "error"), Tell(c, "error"))
  /\ UNCHANGED <<kind, ousted, service, origin>>

\* recordPullRequestOrigin; a failure is only a warning to the agent.
RecordOrigin(c) ==
  /\ at[c] = "origin"
  /\ Try(origin' = TRUE, UNCHANGED origin, Tell(c, "done"), Tell(c, "warned"))
  /\ UNCHANGED <<kind, attempt, ousted, service>>

-----------------------------------------------------------------------------
(* Trouble. *)

Crash(c) ==
  /\ at[c] \notin {"new", "end"}
  /\ Meet("crash")
  /\ at' = [at EXCEPT ![c] = "end"]
  /\ UNCHANGED <<kind, attempt, answer, ousted, service, origin>>

\* The turn of c loses its lease: another one takes the run over.
LoseTurn(c) ==
  /\ c \notin ousted /\ at[c] # "end"
  /\ Meet("takeover")
  /\ ousted' = ousted \cup {c}
  /\ UNCHANGED <<kind, attempt, at, answer, service, origin>>

-----------------------------------------------------------------------------

\* What a call does once the agent made it.
Proceed(c) ==
  \/ Insert(c) \/ Retry(c) \/ Look(c)
  \/ AssertActive(c) \/ Post(c) \/ CreateIssue(c) \/ FindIssue(c) \/ CreateBranch(c)
  \/ OpenPull(c) \/ PostReply(c)
  \/ Complete(c) \/ Withdraw(c) \/ RecordOrigin(c)

\* Not a deadlock: every call was answered.
Rest == (\A c \in Calls : at[c] = "end") /\ UNCHANGED vars

Next ==
  \/ \E c \in Calls : Ask(c) \/ Proceed(c) \/ Crash(c) \/ LoseTurn(c)
  \/ Rest

Spec == Init /\ [][Next]_vars

\* A call that was made goes on: every step is a statement or a call with a
\* timeout. No agent has to call a tool.
FairSpec == Spec /\ \A c \in Calls : WF_vars(Proceed(c))

-----------------------------------------------------------------------------
(* Properties. *)

\* No trouble of these kinds has been met yet.
Spared(kinds) == \A k \in kinds : trouble[k] = Budget[k]

\* Repeated and concurrent calls, also of a turn that was displaced: at most
\* one of them is between the start of the attempt and its record.
OneWriter == \A c, d \in Calls : at[c] \in Writing /\ at[d] \in Writing => c = d

\* What the agent asks for again and again happens once, whatever fails. A
\* reply has no id at GitHub: it may be posted again after a call failed.
OneEffect == kind # "reply" \/ Spared({"fault"}) => effects <= 1

\* A call that says the write is done tells the truth, whoever wrote; a pull
\* request it names without a warning belongs to the run, so that reviews of it
\* reach the run.
AnswersTrue ==
  \A c \in Calls :
    /\ answer[c] \in {"done", "warned"} => effects > 0 /\ attempt # "none"
    /\ answer[c] = "done" /\ kind = "pull_request" => origin

\* What was recorded as written is not taken up again: no call makes it fail
\* afterwards. (The catch block of a reply may, after its record threw.)
SuccessStays ==
  [][attempt = "succeeded" /\ (kind # "reply" \/ Spared({"fault"})) => attempt' = "succeeded"]_vars

\* An attempt does not stay open, which would refuse every call after it, as
\* long as no process dies and no call fails: also if the turn is displaced.
AttemptEnds == attempt = "running" ~> attempt # "running" \/ ~Spared({"crash", "fault"})

\* After an uncertain failure a call that takes the attempt up again finds what
\* Slack or Linear has, and the attempt succeeds unless there is trouble again.
RetryRepairs ==
  kind \in {"message", "issue"} /\ trouble["any"] = 0 /\ (\E c \in Calls : at[c] = "write")
    ~> attempt = "succeeded"
=============================================================================
