---------------------------- MODULE SandboxUsage ----------------------------
(***************************************************************************)
(* Sandbox time: one sandbox_usage row per period a sandbox runs. A worker *)
(* meters the period (startSandboxMeter), stops it and reports it to       *)
(* Autumn; the settlement passes of the workers close periods whose worker *)
(* died, report what was not reported and credit what was waived because   *)
(* Responder failed the work.                                              *)
(*                                                                         *)
(* The same period may be charged to one of two balances, by the plan of   *)
(* the organization, which may change. Time is the age of the heartbeat of *)
(* a row, which is also its stop, and the age of its waiver: what matters  *)
(* is which of the code's time limits have passed since.                   *)
(***************************************************************************)
EXTENDS Integers, Sequences, FiniteSets, SequencesExt

CONSTANTS
  Periods,  \* sandbox periods of one organization, each with its meter
  Passes,   \* worker processes, each with at most one settlement pass
  Plans,    \* what the organization may subscribe to
  Budget    \* how much of each kind of trouble a behaviour may meet

Balances == {"machine_hours", "usage_credit"}
TroubleKinds == {"crash",   \* a worker process dies
                 "fault",   \* a database or Autumn call fails
                 "replan",  \* the organization changes its plan
                 "slow"}    \* a pass meets its deadline

ASSUME SandboxUsageAssumption ==
  /\ Periods \cap Passes = {} /\ IsFiniteSet(Periods)
  /\ Plans \in SUBSET (Balances \cup {"per_run"})
  /\ Budget \in [TroubleKinds -> Nat]

VARIABLES
  row,      \* the sandbox_usage row of each period
  age,      \* how long ago its heartbeat_at was
  waiver,   \* how long ago its waived_at was
  plan,     \* the plan of the organization
  cached,   \* former plans that the lookup caches of workers still hold
  at,       \* where each meter and each pass is
  aim,      \* the balance each of them reports to
  todo,     \* the rows each pass has yet to handle, as it listed them
  keys,     \* the idempotency keys Autumn remembers
  charges,  \* what Autumn charged for each period
  credits,  \* what Autumn gave back for it
  trouble   \* what is left of Budget

vars == <<row, age, waiver, plan, cached, at, aim, todo, keys, charges, credits, trouble>>

\* Less than a minute ago; less than 5 minutes (a live heartbeat); less than
\* 23 hours (the retry window); less than 24 hours (the life of a key).
Ages == {"new", "due", "stale", "late", "forgotten"}
Older == [new |-> "due", due |-> "stale", stale |-> "late", late |-> "forgotten"]

Settlers == Periods \cup Passes
Settling == {"setcharge", "lookup", "track", "mark"}
Crediting == {"credit", "markcredited"}
PC == Settling \cup Crediting \cup {"none", "metering", "done", "dead", "idle", "list", "listcredits"}

\* A charge or a credit: its balance, and how the period it counts had ended.
Ends == {"meter", "sweep"}
Entry == [to: Balances, ended: Ends]

TypeOK ==
  /\ row \in [Periods -> [state: {"none", "open", "stopped", "billed"}, ended: Ends \cup {"no"},
                          billable: BOOLEAN, priced: BOOLEAN,
                          balance: Balances \cup {"null"}, credited: BOOLEAN]]
  /\ \A r \in Periods : (row[r].state \in {"none", "open"}) <=> (row[r].ended = "no")
  /\ age \in [Periods -> Ages] /\ waiver \in [Periods -> {"null", "recent", "late", "forgotten"}]
  /\ plan \in Plans /\ cached \in SUBSET Plans
  /\ at \in [Settlers -> PC]
  /\ aim \in [Settlers -> Balances \cup {"null"}]
  /\ todo \in [Passes -> Seq(Periods)]
  /\ \A p \in Passes : at[p] \in Settling \cup Crediting <=> todo[p] # <<>>
  /\ keys \in [Periods -> [{"charge", "credit"} -> {"unused", "early", "late"}]]
  /\ charges \in [Periods -> Seq(Entry)] /\ credits \in [Periods -> Seq(Entry)]
  /\ trouble \in [TroubleKinds -> Nat]

Init ==
  /\ row = [r \in Periods |-> [state |-> "none", ended |-> "no", billable |-> FALSE,
                               priced |-> FALSE, balance |-> "null", credited |-> FALSE]]
  /\ age = [r \in Periods |-> "new"] /\ waiver = [r \in Periods |-> "null"]
  /\ plan \in Plans /\ cached = {}
  /\ at = [s \in Settlers |-> IF s \in Periods THEN "none" ELSE "idle"]
  /\ aim = [s \in Settlers |-> "null"]
  /\ todo = [p \in Passes |-> <<>>]
  /\ keys = [r \in Periods |-> [k \in {"charge", "credit"} |-> "unused"]]
  /\ charges = [r \in Periods |-> <<>>] /\ credits = [r \in Periods |-> <<>>]
  /\ trouble = Budget

-----------------------------------------------------------------------------
(* Helpers. *)

time   == <<age, waiver>>
plans  == <<plan, cached>>
autumn == <<keys, charges, credits>>

Meet(kind) == trouble[kind] > 0 /\ trouble' = [trouble EXCEPT ![kind] = @ - 1]
Goto(s, pc) == at' = [at EXCEPT ![s] = pc]
Held(s) == IF s \in Periods THEN s ELSE Head(todo[s])

\* A call that works, or fails: then what it does may be done or not.
Calls(effect, skip, works, fails) ==
  \/ effect /\ works /\ UNCHANGED trouble
  \/ Meet("fault") /\ (effect \/ skip) /\ fails

-----------------------------------------------------------------------------
(* The meter of a period. *)

Opened(r, billable) ==
  /\ row' = [row EXCEPT ![r].state = "open", ![r].billable = billable]
  /\ age' = [age EXCEPT ![r] = "new"]

\* startSandboxUsage; a meter whose start failed does nothing more, though the
\* row may be there.
StartMeter(r) ==
  /\ at[r] = "none"
  /\ \E billable \in BOOLEAN :
       Calls(Opened(r, billable), UNCHANGED <<row, age>>, Goto(r, "metering"), Goto(r, "done"))
  /\ UNCHANGED <<waiver, plans, aim, todo, autumn>>

\* A heartbeat that fails is one that does not happen.
Heartbeat(r) ==
  /\ at[r] = "metering"
  /\ row[r].state = "open" /\ age[r] # "new"
  /\ age' = [age EXCEPT ![r] = "new"]
  /\ UNCHANGED <<row, waiver, plans, at, aim, todo, autumn, trouble>>

\* Slip: the period is stopped whether or not it is open.
Stopped_Anyway(r) ==
  /\ row' = [row EXCEPT ![r].ended = "meter",
                        ![r].state = IF @ = "open" THEN "stopped" ELSE @]
  /\ age' = [age EXCEPT ![r] = "new"]
\* stopSandboxUsage: only an open period is stopped.
Stopped(r) ==
  IF row[r].state = "open"
  THEN /\ row' = [row EXCEPT ![r].state = "stopped", ![r].ended = "meter"]
       /\ age' = [age EXCEPT ![r] = "new"]
  ELSE UNCHANGED <<row, age>>

\* A period that another process closed is left to the passes.
StopMeter(r) ==
  /\ at[r] = "metering"
  /\ Calls(Stopped(r), UNCHANGED <<row, age>>,
           Goto(r, IF row[r].state = "open" THEN "setcharge" ELSE "done"), Goto(r, "done"))
  /\ UNCHANGED <<waiver, plans, aim, todo, autumn>>

\* The work of the period failed through Responder's fault: its usage is
\* waived, whether the period is open, stopped or billed.
Waive(r) ==
  /\ at[r] \notin {"none", "dead"}
  /\ row[r].state # "none" /\ row[r].billable
  /\ waiver[r] = "null"
  /\ waiver' = [waiver EXCEPT ![r] = "recent"]
  /\ UNCHANGED <<row, age, plans, at, aim, todo, autumn, trouble>>

-----------------------------------------------------------------------------
(* Settling a row: the meter that stopped it, and the passes. *)

\* s is done with its row: a meter ends, a pass goes on to its next row, and
\* from the last row it settles to the credits.
Leave(s) ==
  /\ aim' = [aim EXCEPT ![s] = "null"]
  /\ IF s \in Periods
     THEN Goto(s, "done") /\ UNCHANGED todo
     ELSE /\ todo' = [todo EXCEPT ![s] = Tail(@)]
          /\ LET more == Len(todo[s]) > 1 IN
             Goto(s, IF at[s] \in Settling THEN IF more THEN "setcharge" ELSE "listcredits"
                     ELSE IF more THEN "credit" ELSE "idle")

\* Slip: the price of the period is not stored.
SetCharge_Forgets(s) ==
  /\ at[s] = "setcharge"
  /\ Goto(s, "lookup")
  /\ UNCHANGED <<row, time, plans, aim, todo, autumn, trouble>>

\* The price of the period is stored, unless the row has one.
SetCharge(s) ==
  /\ at[s] = "setcharge"
  /\ Calls(row' = [row EXCEPT ![Held(s)].priced = TRUE], UNCHANGED row,
           Goto(s, "lookup") /\ UNCHANGED <<aim, todo>>, Leave(s))
  /\ UNCHANGED <<time, plans, autumn>>

\* What a lookup may answer: the plan, or the plan of the last minute.
Known == cached \cup {plan}

\* organizationUsesMachineHours decides on the balance. A period that is not
\* billable is not reported.
LookUpPlan(s) ==
  /\ at[s] = "lookup"
  /\ \/ /\ row[Held(s)].billable
        /\ \E known \in Known :
             aim' = [aim EXCEPT ![s] = IF known = "machine_hours" THEN "machine_hours"
                                                                  ELSE "usage_credit"]
        /\ Goto(s, "track") /\ UNCHANGED <<todo, trouble>>
     \/ row[Held(s)].billable /\ Meet("fault") /\ Leave(s)
     \/ ~row[Held(s)].billable /\ Goto(s, "mark") /\ UNCHANGED <<aim, todo, trouble>>
  /\ UNCHANGED <<row, time, plans, autumn>>

KeyAge(since) == IF since \in {"late", "forgotten"} THEN "late" ELSE "early"

\* Slip: each feature has an idempotency key of its own.
Charge_KeyPerFeature(r, to) ==
  /\ IF \E i \in DOMAIN charges[r] : charges[r][i].to = to
     THEN UNCHANGED charges
     ELSE charges' = [charges EXCEPT ![r] = Append(@, [to |-> to, ended |-> row[r].ended])]
  /\ UNCHANGED <<keys, credits>>
\* Autumn charges unless it remembers the key of the row, for any feature.
Charge(r, to) ==
  IF keys[r]["charge"] = "unused"
  THEN /\ charges' = [charges EXCEPT ![r] = Append(@, [to |-> to, ended |-> row[r].ended])]
       /\ keys' = [keys EXCEPT ![r]["charge"] = KeyAge(age[r])]
       /\ UNCHANGED credits
  ELSE UNCHANGED autumn

\* A plan that pays per run is not charged.
Track(s) ==
  /\ at[s] = "track"
  /\ \E known \in Known :
       Calls(IF known = "per_run" THEN UNCHANGED autumn ELSE Charge(Held(s), aim[s]),
             UNCHANGED autumn, Goto(s, "mark") /\ UNCHANGED <<aim, todo>>, Leave(s))
  /\ UNCHANGED <<row, time, plans>>

\* markSandboxUsageBilled: the first one stores its balance.
Billed(s) ==
  row' = IF row[Held(s)].state = "billed" THEN row
         ELSE [row EXCEPT ![Held(s)].state = "billed", ![Held(s)].balance = aim[s]]

MarkBilled(s) ==
  /\ at[s] = "mark"
  /\ Calls(Billed(s), UNCHANGED row, Leave(s), Leave(s))
  /\ UNCHANGED <<time, plans, autumn>>

-----------------------------------------------------------------------------
(* A settlement pass of a worker. *)

\* Slip: the sweep closes no period.
Abandoned_None(r) == FALSE
\* Open periods without a heartbeat for five minutes.
Abandoned(r) == row[r].state = "open" /\ age[r] \in {"stale", "late", "forgotten"}

\* closeStaleSandboxUsage: an abandoned period ended with its last heartbeat.
Swept ==
  row' = [r \in Periods |-> IF Abandoned(r)
                            THEN [row[r] EXCEPT !.state = "stopped", !.ended = "sweep"]
                            ELSE row[r]]

\* A failed statement ends the settling and leaves the crediting.
CloseStale(p) ==
  /\ at[p] = "idle"
  /\ Calls(Swept, UNCHANGED row, Goto(p, "list"), Goto(p, "listcredits"))
  /\ UNCHANGED <<time, plans, aim, todo, autumn>>

\* Stopped periods inside the retry window.
Listed(r) == row[r].state = "stopped" /\ age[r] \in {"due", "stale"}

\* Slip: a row is credited as long as it is waived.
Uncredited_Always(r) == row[r].state = "billed" /\ ~row[r].credited /\ waiver[r] # "null"
\* Waived periods that were settled, inside the retry window of their waiver.
Uncredited(r) ==
  row[r].state = "billed" /\ ~row[r].credited /\ waiver[r] = "recent"

\* The rows the pass handles next, in any order.
Take(p, listed, first, none) ==
  \E order \in SetToSeqs(listed) :
    /\ todo' = [todo EXCEPT ![p] = order]
    /\ Goto(p, IF listed = {} THEN none ELSE first)

ListUnbilled(p) ==
  /\ at[p] = "list"
  /\ \/ Take(p, {r \in Periods : Listed(r)}, "setcharge", "listcredits") /\ UNCHANGED trouble
     \/ Meet("fault") /\ Goto(p, "listcredits") /\ UNCHANGED todo
  /\ UNCHANGED <<row, time, plans, aim, autumn>>

ListUncredited(p) ==
  /\ at[p] = "listcredits"
  /\ \/ Take(p, {r \in Periods : Uncredited(r)}, "credit", "idle") /\ UNCHANGED trouble
     \/ Meet("fault") /\ Goto(p, "idle") /\ UNCHANGED todo
  /\ UNCHANGED <<row, time, plans, aim, autumn>>

\* Ten minutes after it began a pass leaves the rows it has not begun.
MeetDeadline(p) ==
  /\ at[p] \in {"setcharge", "credit"}
  /\ Meet("slow")
  /\ todo' = [todo EXCEPT ![p] = <<>>]
  /\ Goto(p, IF at[p] = "setcharge" THEN "listcredits" ELSE "idle")
  /\ UNCHANGED <<row, time, plans, aim, autumn>>

\* Autumn gives back a charge unless it remembers the key of the credit.
GiveBack(r) ==
  IF keys[r]["credit"] = "unused"
  THEN /\ credits' = [credits EXCEPT ![r] =
                        Append(@, [to |-> row[r].balance, ended |-> row[r].ended])]
       /\ keys' = [keys EXCEPT ![r]["credit"] = KeyAge(waiver[r])]
       /\ UNCHANGED charges
  ELSE UNCHANGED autumn

\* A row without a balance, or reported to the usage credit without a price,
\* was not charged. A plan that pays per run gets no credit.
Credit(p) ==
  /\ at[p] = "credit"
  /\ LET r == Held(p)
         owed == row[r].balance = "machine_hours" \/ (row[r].balance = "usage_credit" /\ row[r].priced)
     IN \/ ~owed /\ Goto(p, "markcredited") /\ UNCHANGED <<aim, todo, autumn, trouble>>
        \/ owed /\ \E known \in Known :
             Calls(IF known = "per_run" THEN UNCHANGED autumn ELSE GiveBack(r), UNCHANGED autumn,
                   Goto(p, "markcredited") /\ UNCHANGED <<aim, todo>>, Leave(p))
  /\ UNCHANGED <<row, time, plans>>

MarkCredited(p) ==
  /\ at[p] = "markcredited"
  /\ Calls(row' = [row EXCEPT ![Held(p)].credited = TRUE], UNCHANGED row, Leave(p), Leave(p))
  /\ UNCHANGED <<time, plans, autumn>>

-----------------------------------------------------------------------------
(* The world around them. *)

\* The process of s dies.
Crash(s) ==
  /\ at[s] \notin {"none", "done", "dead", "idle"}
  /\ Meet("crash")
  /\ Goto(s, IF s \in Periods THEN "dead" ELSE "idle")
  /\ aim' = [aim EXCEPT ![s] = "null"]
  /\ todo' = [p \in Passes |-> IF p = s THEN <<>> ELSE todo[p]]
  /\ UNCHANGED <<row, time, plans, autumn>>

Expire(key) == IF key = "early" THEN "unused" ELSE key
InPass(r, steps) == \E p \in Passes : at[p] \in steps /\ r \in Range(todo[p])

\* Time passes since the heartbeat. A meter settles within minutes of its
\* stop, and the deadline keeps a pass from holding a row for an hour.
GrowOlder(r) ==
  /\ age[r] # "forgotten"
  /\ row[r].state \in {"open", "stopped"} \/ InPass(r, Settling)
  /\ at[r] \in Settling => age[r] # "stale"
  /\ InPass(r, Settling) => age[r] # "late"
  /\ age' = [age EXCEPT ![r] = Older[@]]
  /\ keys' = [keys EXCEPT ![r]["charge"] = IF age[r] = "late" THEN Expire(@) ELSE @]
  /\ UNCHANGED <<row, waiver, plans, at, aim, todo, charges, credits, trouble>>

\* Time passes since the waiver.
WaiverGrowsOlder(r) ==
  /\ waiver[r] \notin {"null", "forgotten"}
  /\ InPass(r, Crediting) => waiver[r] # "late"
  /\ waiver' = [waiver EXCEPT ![r] = IF @ = "recent" THEN "late" ELSE "forgotten"]
  /\ keys' = [keys EXCEPT ![r]["credit"] = IF waiver[r] = "late" THEN Expire(@) ELSE @]
  /\ UNCHANGED <<row, age, plans, at, aim, todo, charges, credits, trouble>>

Replan ==
  /\ Meet("replan")
  /\ \E new \in Plans \ {plan} : plan' = new
  /\ cached' = cached \cup {plan}
  /\ UNCHANGED <<row, time, at, aim, todo, autumn>>

ForgetPlans ==
  /\ cached # {}
  /\ cached' = {}
  /\ UNCHANGED <<row, time, plan, at, aim, todo, autumn, trouble>>

-----------------------------------------------------------------------------

SettleStep(s) == SetCharge(s) \/ LookUpPlan(s) \/ Track(s) \/ MarkBilled(s)
MeterStep(r) == StartMeter(r) \/ StopMeter(r) \/ SettleStep(r)
PassStep(p) ==
  \/ CloseStale(p) \/ ListUnbilled(p) \/ SettleStep(p)
  \/ ListUncredited(p) \/ Credit(p) \/ MarkCredited(p)

Next ==
  \/ \E r \in Periods : \/ MeterStep(r) \/ Heartbeat(r) \/ Waive(r)
                        \/ GrowOlder(r) \/ WaiverGrowsOlder(r)
  \/ \E p \in Passes : PassStep(p) \/ MeetDeadline(p)
  \/ \E s \in Settlers : Crash(s)
  \/ Replan \/ ForgetPlans

Spec == Init /\ [][Next]_vars

\* Processes that live go on, the work in a sandbox ends, a worker's timer
\* starts pass after pass, and five minutes pass.
Fairness ==
  /\ \A r \in Periods : /\ WF_vars(MeterStep(r))
                        /\ WF_vars(age[r] \in {"new", "due"} /\ GrowOlder(r))
  /\ \A p \in Passes : WF_vars(PassStep(p))

FairSpec == Spec /\ Fairness

-----------------------------------------------------------------------------
(* Properties. *)

\* Autumn charges a period at most once, to one balance, although its meter
\* and the passes of several workers report it and may see different plans.
ChargedOnce == \A r \in Periods : Len(charges[r]) <= 1

\* A charge counts the period as the row keeps it: no one moves the stop of a
\* period that was charged.
ChargedAsMeasured ==
  \A r \in Periods : \A i \in DOMAIN charges[r] : charges[r][i].ended = row[r].ended

\* A credit returns a charge to the balance it was taken from.
CreditReturnsCharge ==
  \A r \in Periods : Range(credits[r]) \subseteq Range(charges[r])

\* A period is credited at most once, and only when it was waived; as long as
\* the plan does not change, a credit returns what was charged.
CreditedOnce ==
  /\ \A r \in Periods : Len(credits[r]) <= (IF waiver[r] = "null" THEN 0 ELSE 1)
  /\ trouble["replan"] = Budget["replan"] => CreditReturnsCharge

\* Every period ends and is billed, unless it leaves the retry window first:
\* also one whose worker died before it stopped its meter.
PeriodsSettle ==
  \A r \in Periods :
    row[r].state = "open" ~> row[r].state = "billed" \/ age[r] \in {"late", "forgotten"}

\* A charge for waived work is given back, unless the waiver leaves the retry
\* window first, or it is marked as given back after a change of plan, when a
\* plan that pays per run may have taken the credit.
ChargesReturn ==
  \A r \in Periods :
    charges[r] # <<>> /\ row[r].state = "billed" /\ waiver[r] # "null"
      ~> \/ credits[r] # <<>> \/ waiver[r] \in {"late", "forgotten"}
         \/ /\ "per_run" \in Plans /\ trouble["replan"] # Budget["replan"]
            /\ row[r].credited
=============================================================================
