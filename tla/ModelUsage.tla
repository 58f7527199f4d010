----------------------------- MODULE ModelUsage -----------------------------
(***************************************************************************)
(* Responder-funded model requests: the model broker of the control plane  *)
(* reserves the estimated cost of a request in automation_model_usage,     *)
(* calls the provider, replaces the reservation with the actual usage and  *)
(* reports it to Autumn; settlement passes of the workers repair what the  *)
(* broker left unsettled and drop reservations nobody completed.           *)
(*                                                                         *)
(* A request is its usage row. Time is the age of the row: what matters is *)
(* which of the code's time limits have passed since it was created.       *)
(***************************************************************************)
EXTENDS Integers, Sequences, FiniteSets, FiniteSetsExt, SequencesExt

CONSTANTS
  Requests,       \* Responder-funded requests of one organization
  Passes,         \* worker processes, each with at most one settlement pass
  Use,            \* what each request turns out to use
  MaxUse,         \* the most a request may use
  MinPrice,       \* the least and the most a price lookup may return: prices
  MaxPrice,       \* change, and the processes cache them for an hour each
  Allowance,      \* Autumn's balance at the start
  ListLimit,      \* rows a pass lists
  PassesAreQuick, \* no row outlives Autumn's keys while a pass holds it
  Budgets         \* how much of each kind of trouble a behaviour may meet

TroubleKinds == {"crash",    \* a control-plane or worker process dies
                 "fault",    \* a database or Autumn call fails
                 "delist"}   \* the AI Gateway drops the price of a model

ASSUME ModelUsageAssumption ==
  /\ IsFiniteSet(Requests) /\ Requests \cap Passes = {}
  /\ Use \in [Requests -> 1..MaxUse]
  /\ MaxUse \in Nat /\ Allowance \in Nat /\ ListLimit \in Nat \ {0}
  /\ MinPrice \in Nat \ {0} /\ MaxPrice \in Nat /\ MinPrice <= MaxPrice
  /\ PassesAreQuick \in BOOLEAN
  /\ Budgets \subseteq [TroubleKinds -> Nat]

VARIABLES
  row,      \* the automation_model_usage row of each request
  age,      \* how long ago it was created
  tried,    \* rows with a billing_attempted_at, in its order
  priced,   \* requests whose model has a price
  blind,    \* history: requests whose rows were completed without a cost
  at,       \* where each broker request and each pass is
  required, \* the costs a broker request asks Autumn to allow, its own included
  quote,    \* costMicros, as each broker request and each pass knows it
  todo,     \* the rows each pass has yet to settle, as it listed them
  failed,   \* the rows each pass failed to settle
  keys,     \* the idempotency keys Autumn remembers
  charges,  \* what Autumn charged for each request, and how often
  trouble   \* what is left of the budget

vars == <<row, age, tried, priced, blind, at, required, quote, todo, failed, keys, charges, trouble>>

\* Created less than a minute ago; less than 15 minutes (the lifetime of a
\* reservation); less than 23 hours (the retry window); less than 24 hours
\* (the life of a key); longer ago.
Ages == {"new", "due", "stale", "late", "forgotten"}
Older == [new |-> "due", due |-> "stale", stale |-> "late", late |-> "forgotten"]

Prices == MinPrice .. MaxPrice
Unpriced == 0   \* a null cost_micros, which SUM skips
Settlers == Requests \cup Passes
PC == {"none", "allow", "insert", "call", "release", "price", "complete", "done",
       "idle", "list", "settle", "setcost", "track", "mark", "attempt"}

TypeOK ==
  /\ row \in [Requests -> [state: {"none", "reserved", "completed", "billed", "gone"}, cost: Nat]]
  /\ age \in [Requests -> Ages]
  /\ tried \in Seq(Requests) /\ priced \in SUBSET Requests /\ blind \in SUBSET Requests
  /\ at \in [Settlers -> PC]
  /\ required \in [Requests -> [Requests -> Nat]]
  /\ quote \in [Settlers -> Nat]
  /\ todo \in [Passes -> Seq([id: Requests, cost: Nat])]
  /\ failed \in [Passes -> SUBSET Requests]
  /\ \A p \in Passes : /\ at[p] \in {"idle", "list", "attempt"} <=> todo[p] = <<>>
                       /\ at[p] \in {"idle", "list"} => failed[p] = {}
  /\ keys \in [Requests -> {"unused", "early", "late"}]
  /\ charges \in [Requests -> [times: Nat, micros: Nat]]
  /\ trouble \in [TroubleKinds -> Nat]

Init ==
  /\ row = [r \in Requests |-> [state |-> "none", cost |-> Unpriced]]
  /\ age = [r \in Requests |-> "new"]
  /\ tried = <<>> /\ priced = Requests /\ blind = {}
  /\ at = [s \in Settlers |-> IF s \in Requests THEN "none" ELSE "idle"]
  /\ required = [r \in Requests |-> [q \in Requests |-> 0]]
  /\ quote = [s \in Settlers |-> Unpriced]
  /\ todo = [p \in Passes |-> <<>>] /\ failed = [p \in Passes |-> {}]
  /\ keys = [r \in Requests |-> "unused"]
  /\ charges = [r \in Requests |-> [times |-> 0, micros |-> 0]]
  /\ trouble \in Budgets

-----------------------------------------------------------------------------
(* Helpers. *)

rows   == <<row, tried>>
world  == <<age, priced, blind>>
pass   == <<todo, failed>>
autumn == <<keys, charges>>

Meet(kind) == trouble[kind] > 0 /\ trouble' = [trouble EXCEPT ![kind] = @ - 1]
Goto(s, pc) == at' = [at EXCEPT ![s] = pc]

Total(micros) == MapThenSumSet(LAMBDA r : micros[r], Requests)
Spent == Total([r \in Requests |-> charges[r].micros])

\* A reservation counts until its lifetime ends.
Reserved(r) == row[r].state = "reserved" /\ age[r] \in {"new", "due"}

Outstanding ==
  [r \in Requests |-> IF Reserved(r) \/ row[r].state = "completed" THEN row[r].cost ELSE 0]

-----------------------------------------------------------------------------
(* The broker: one Responder-funded request. *)

\* Slip: the transaction takes no lock.
Locked_Never == FALSE
\* A transaction holds the advisory lock of the organization.
Locked == \E r \in Requests : at[r] \in {"allow", "insert"}

\* The estimate is priced, the lock is taken and the outstanding amount is
\* read. A model without a price is refused.
Reserve(r) ==
  /\ at[r] = "none"
  /\ ~Locked
  /\ \/ /\ r \in priced
        /\ \E price \in Prices : /\ quote' = [quote EXCEPT ![r] = MaxUse * price]
                                 /\ required' = [required EXCEPT ![r] = [Outstanding EXCEPT ![r] = MaxUse * price]]
        /\ Goto(r, "allow")
     \/ r \notin priced /\ Goto(r, "done") /\ UNCHANGED <<quote, required>>
  /\ UNCHANGED <<rows, world, pass, autumn, trouble>>

\* checkUsageAllowance, asked while the transaction is open.
CheckAllowance(r) ==
  /\ at[r] = "allow"
  /\ \/ Goto(r, IF Allowance - Spent >= Total(required[r]) THEN "insert" ELSE "done") /\ UNCHANGED trouble
     \/ Meet("fault") /\ Goto(r, "done")
  /\ UNCHANGED <<rows, world, required, quote, pass, autumn>>

\* The insert and its commit; an error may come after the commit.
InsertReservation(r) ==
  /\ at[r] = "insert"
  /\ \/ Goto(r, "call") /\ UNCHANGED trouble
     \/ Meet("fault") /\ Goto(r, "done")
  /\ \/ row' = [row EXCEPT ![r] = [state |-> "reserved", cost |-> quote[r]]]
     \/ at'[r] = "done" /\ UNCHANGED row
  /\ UNCHANGED <<tried, world, required, quote, pass, autumn>>

\* The provider answers with usage, or fails, or reports no usage.
CallProvider(r) ==
  /\ at[r] = "call"
  /\ \E pc \in {"price", "release"} : Goto(r, pc)
  /\ UNCHANGED <<rows, world, required, quote, pass, autumn, trouble>>

Release(r) ==
  /\ at[r] = "release"
  /\ \/ row' = [row EXCEPT ![r].state = IF @ = "reserved" THEN "gone" ELSE @] /\ UNCHANGED trouble
     \/ Meet("fault") /\ UNCHANGED row
  /\ Goto(r, "done")
  /\ UNCHANGED <<tried, world, required, quote, pass, autumn>>

\* usageCostMicros; a failed lookup leaves the cost open.
PriceUse(r) ==
  /\ at[r] = "price"
  /\ \/ /\ r \in priced
        /\ \E price \in Prices : quote' = [quote EXCEPT ![r] = Use[r] * price]
        /\ UNCHANGED trouble
     \/ r \notin priced /\ quote' = [quote EXCEPT ![r] = Unpriced] /\ UNCHANGED trouble
     \/ Meet("fault") /\ quote' = [quote EXCEPT ![r] = Unpriced]
  /\ Goto(r, "complete")
  /\ UNCHANGED <<rows, world, required, pass, autumn>>

Completed(r) ==
  IF row[r].state = "reserved"
  THEN /\ row' = [row EXCEPT ![r] = [state |-> "completed", cost |-> quote[r]]]
       /\ blind' = IF quote[r] = Unpriced THEN blind \cup {r} ELSE blind
  ELSE UNCHANGED <<row, blind>>

\* The reservation becomes a completed row. A failed call, which may have
\* written it, is tried again, or was the last one and leaves the row behind.
CompleteUse(r) ==
  /\ at[r] = "complete"
  /\ \/ Completed(r) /\ UNCHANGED trouble
        /\ Goto(r, IF row[r].state = "reserved" THEN "settle" ELSE "done")
     \/ /\ Meet("fault") /\ (Completed(r) \/ UNCHANGED <<row, blind>>)
        /\ UNCHANGED at \/ Goto(r, "done")
  /\ UNCHANGED <<tried, age, priced, required, quote, pass, autumn>>

-----------------------------------------------------------------------------
(* Settling a row: the broker, once it completed its row, and the passes. *)

Held(s) == IF s \in Requests THEN s ELSE Head(todo[s]).id

\* s is done with its row: a broker request ends, a pass goes to its next row.
Leave(s, settled) ==
  IF s \in Requests
  THEN /\ Goto(s, "done")
       /\ UNCHANGED <<quote, pass>>
  ELSE LET rest == Tail(todo[s]) IN
       /\ failed' = [failed EXCEPT ![s] = IF settled THEN @ ELSE @ \cup {Held(s)}]
       /\ todo' = [todo EXCEPT ![s] = rest]
       /\ quote' = [quote EXCEPT ![s] = IF rest = <<>> THEN Unpriced ELSE Head(rest).cost]
       /\ Goto(s, IF rest = <<>> THEN "attempt" ELSE "settle")

\* Slip: the row is priced again, though it has a cost.
PriceRow_Afresh(s) ==
  /\ at[s] = "settle"
  /\ \E price \in Prices : quote' = [quote EXCEPT ![s] = Use[Held(s)] * price]
  /\ Goto(s, "setcost")
  /\ UNCHANGED <<rows, world, required, pass, autumn, trouble>>

\* A row without a cost is priced first; without a price it stays unsettled.
PriceRow(s) ==
  /\ at[s] = "settle"
  /\ \/ quote[s] # Unpriced /\ Goto(s, "track") /\ UNCHANGED <<quote, pass, trouble>>
     \/ /\ quote[s] = Unpriced /\ Held(s) \in priced
        /\ \E price \in Prices : quote' = [quote EXCEPT ![s] = Use[Held(s)] * price]
        /\ Goto(s, "setcost") /\ UNCHANGED <<pass, trouble>>
     \/ quote[s] = Unpriced /\ Held(s) \notin priced /\ Leave(s, FALSE) /\ UNCHANGED trouble
     \/ quote[s] = Unpriced /\ Meet("fault") /\ Leave(s, FALSE)
  /\ UNCHANGED <<rows, world, required, autumn>>

\* The price is stored unless the row has one; when that fails it may be stored.
SetCost(s) ==
  /\ at[s] = "setcost"
  /\ \/ Goto(s, "track") /\ UNCHANGED <<quote, pass, trouble>>
     \/ Meet("fault") /\ Leave(s, FALSE)
  /\ \/ row' = [row EXCEPT ![Held(s)].cost = IF @ = Unpriced THEN quote[s] ELSE @]
     \/ trouble' # trouble /\ UNCHANGED row
  /\ UNCHANGED <<tried, world, required, autumn>>

\* Slip: Autumn gets no idempotency key.
Charge_NoKey(r, micros) ==
  /\ charges' = [charges EXCEPT ![r] = [times |-> @.times + 1, micros |-> @.micros + micros]]
  /\ UNCHANGED keys
\* Autumn charges unless it remembers the key of the row, which lasts 24 hours
\* from its first use.
Charge(r, micros) ==
  IF keys[r] = "unused"
  THEN /\ charges' = [charges EXCEPT ![r] = [times |-> @.times + 1, micros |-> @.micros + micros]]
       /\ keys' = [keys EXCEPT ![r] = IF age[r] \in {"late", "forgotten"} THEN "late" ELSE "early"]
  ELSE UNCHANGED autumn

\* The report to Autumn; when it fails the charge may have been made.
Track(s) ==
  /\ at[s] = "track"
  /\ \/ Charge(Held(s), quote[s]) /\ Goto(s, "mark") /\ UNCHANGED <<quote, pass, trouble>>
     \/ Meet("fault") /\ Leave(s, FALSE) /\ (Charge(Held(s), quote[s]) \/ UNCHANGED autumn)
  /\ UNCHANGED <<rows, world, required>>

MarkBilled(s) ==
  /\ at[s] = "mark"
  /\ \/ Leave(s, TRUE) /\ UNCHANGED trouble
     \/ Meet("fault") /\ Leave(s, FALSE)
  /\ \/ row' = [row EXCEPT ![Held(s)].state = "billed"]
     \/ trouble' # trouble /\ UNCHANGED row
  /\ UNCHANGED <<tried, world, required, autumn>>

-----------------------------------------------------------------------------
(* A settlement pass of a worker. *)

\* Slip: reservations are dropped however young they are.
PurgeAbandoned_Early(p) ==
  /\ at[p] = "idle"
  /\ row' = [r \in Requests |-> IF row[r].state = "reserved" THEN [row[r] EXCEPT !.state = "gone"]
                                                            ELSE row[r]]
  /\ Goto(p, "list")
  /\ UNCHANGED <<tried, world, required, quote, pass, autumn, trouble>>

\* A reservation past its lifetime is dropped without being billed. A failed
\* statement ends the pass.
PurgeAbandoned(p) ==
  /\ at[p] = "idle"
  /\ \/ Goto(p, "list") /\ UNCHANGED trouble
     \/ Meet("fault") /\ UNCHANGED at
  /\ \/ row' = [r \in Requests |-> IF row[r].state = "reserved" /\ ~Reserved(r)
                                   THEN [row[r] EXCEPT !.state = "gone"] ELSE row[r]]
     \/ trouble' # trouble /\ UNCHANGED row
  /\ UNCHANGED <<tried, world, required, quote, pass, autumn>>

\* Slip: the retry window has no end.
Listed_Always(r) == row[r].state = "completed" /\ age[r] # "new"
\* A completed row inside the retry window.
Listed(r) == row[r].state = "completed" /\ age[r] \in {"due", "stale"}

\* r was attempted, and later than q, if q was attempted at all.
TriedAfter(r, q) ==
  \E i \in DOMAIN tried : tried[i] = r /\ \A j \in i .. Len(tried) : tried[j] # q

\* Slip: rows that failed before are listed first.
InAttemptOrder_FailedFirst(order) ==
  \A i, j \in DOMAIN order : TriedAfter(order[i], order[j]) => i < j
\* Rows that were never attempted come first, then those whose attempt is oldest.
InAttemptOrder(order) ==
  \A i, j \in DOMAIN order : TriedAfter(order[i], order[j]) => i > j

\* A failed query ends the pass.
ListFails(p) ==
  /\ at[p] = "list"
  /\ Meet("fault")
  /\ Goto(p, "idle")
  /\ UNCHANGED <<rows, world, required, quote, pass, autumn>>

ListUnbilled(p) ==
  /\ at[p] = "list"
  /\ \E order \in SetToSeqs({r \in Requests : Listed(r)}) :
       LET ids == SubSeq(order, 1, IF Len(order) < ListLimit THEN Len(order) ELSE ListLimit)
       IN /\ InAttemptOrder(order)
          /\ todo' = [todo EXCEPT ![p] = [i \in DOMAIN ids |->
                                            [id |-> ids[i], cost |-> row[ids[i]].cost]]]
          /\ quote' = [quote EXCEPT ![p] = IF ids = <<>> THEN Unpriced ELSE row[ids[1]].cost]
          /\ Goto(p, IF ids = <<>> THEN "idle" ELSE "settle")
  /\ UNCHANGED <<rows, world, required, failed, autumn, trouble>>

\* The rows that failed go to the end of the attempt order.
MarkAttempted(p) ==
  /\ at[p] = "attempt"
  /\ UNCHANGED trouble \/ Meet("fault")
  /\ \/ \E order \in SetToSeqs(Range(tried) \cup failed[p]) :
          /\ \A i, j \in DOMAIN order : order[j] \notin failed[p] =>
               (order[i] \in failed[p] \/ TriedAfter(order[i], order[j]) => i > j)
          /\ tried' = order
     \/ trouble' # trouble /\ UNCHANGED tried
  /\ failed' = [failed EXCEPT ![p] = {}]
  /\ Goto(p, "idle")
  /\ UNCHANGED <<row, world, required, quote, todo, autumn>>

-----------------------------------------------------------------------------
(* The world around them. *)

\* The process of s dies. An open transaction rolls back.
Crash(s) ==
  /\ at[s] \notin {"none", "done", "idle"}
  /\ Meet("crash")
  /\ Goto(s, IF s \in Requests THEN "done" ELSE "idle")
  /\ quote' = [quote EXCEPT ![s] = Unpriced]
  /\ todo' = [p \in Passes |-> IF p = s THEN <<>> ELSE todo[p]]
  /\ failed' = [p \in Passes |-> IF p = s THEN {} ELSE failed[p]]
  /\ UNCHANGED <<rows, world, required, autumn>>

InPass(r) == \E p \in Passes : \E i \in DOMAIN todo[p] : todo[p][i].id = r

\* Time passes. The broker ends well within the lifetime of its reservation:
\* the provider has ten minutes and the retries less than one.
GrowOlder(r) ==
  /\ age[r] # "forgotten"
  /\ row[r].state \in {"reserved", "completed"} \/ InPass(r)
  /\ age[r] = "due" => at[r] = "done"
  /\ age[r] = "late" /\ PassesAreQuick => ~InPass(r)
  /\ age' = [age EXCEPT ![r] = Older[@]]
  /\ keys' = [keys EXCEPT ![r] = IF age[r] = "late" /\ @ = "early" THEN "unused" ELSE @]
  /\ UNCHANGED <<rows, priced, blind, at, required, quote, pass, charges, trouble>>

Delist(r) ==
  /\ r \in priced
  /\ Meet("delist")
  /\ priced' = priced \ {r}
  /\ UNCHANGED <<rows, age, blind, at, required, quote, pass, autumn>>

Relist(r) ==
  /\ r \notin priced
  /\ priced' = priced \cup {r}
  /\ UNCHANGED <<rows, age, blind, at, required, quote, pass, autumn, trouble>>

-----------------------------------------------------------------------------

BrokerStep(r) ==
  \/ CheckAllowance(r) \/ InsertReservation(r) \/ CallProvider(r) \/ Release(r)
  \/ PriceUse(r) \/ CompleteUse(r)
SettleStep(s) == PriceRow(s) \/ SetCost(s) \/ Track(s) \/ MarkBilled(s)
PassStep(p) == PurgeAbandoned(p) \/ ListUnbilled(p) \/ ListFails(p) \/ MarkAttempted(p)

Next ==
  \/ \E r \in Requests : Reserve(r) \/ BrokerStep(r) \/ GrowOlder(r) \/ Delist(r) \/ Relist(r)
  \/ \E p \in Passes : PassStep(p)
  \/ \E s \in Settlers : SettleStep(s) \/ Crash(s)

Spec == Init /\ [][Next]_vars

\* Processes that live go on, a worker's timer starts pass after pass, and a
\* minute passes. Nothing makes a row grow older than that.
Fairness ==
  /\ \A r \in Requests : /\ WF_vars(BrokerStep(r) \/ SettleStep(r))
                         /\ WF_vars(age[r] = "new" /\ GrowOlder(r))
  /\ \A p \in Passes : WF_vars(PassStep(p) \/ SettleStep(p))

FairSpec == Spec /\ Fairness

-----------------------------------------------------------------------------
(* Properties. *)

\* Autumn charges a request at most once, however often the broker and the
\* passes report it: its keys outlast the retry window.
ChargedOnce == \A r \in Requests : charges[r].times <= 1

\* What a request takes of the allowance, as multiples of a price: its
\* estimate, which its use may exceed by the spread of the prices, while it is
\* reserved; its cost, charged or to be charged, once it was used. Whoever
\* completed a row blind took it out of the sums.
Claim(r) ==
  IF r \in blind THEN 0
  ELSE IF Reserved(r) THEN MaxPrice * row[r].cost
  ELSE IF charges[r].times > 0 THEN MinPrice * charges[r].micros
  ELSE IF row[r].state = "completed" THEN MinPrice * row[r].cost
  ELSE 0

\* Concurrent requests see each other: what is reserved, used and charged
\* never exceeds the allowance but by the spread of the prices.
Covered == Total([r \in Requests |-> Claim(r)]) <= MaxPrice * Allowance

\* What may be charged for a row: the cost it holds, or, for one that was
\* completed blind, whatever price of its model a settler looked up.
Costs(r) == IF r \in blind THEN {Use[r] * price : price \in Prices} ELSE {row[r].cost}

\* A billed row has a cost and was charged what it holds, whoever settled it; a
\* row completed blind was charged at a price of its model.
ChargedAsRecorded ==
  \A r \in Requests : row[r].state = "billed" =>
    row[r].cost # Unpriced /\ charges[r].micros \in Costs(r)

\* "Responder-funded rows hold the amount charged": what a comment of the code
\* says of every row.
ChargedAsStored ==
  \A r \in Requests : row[r].state = "billed" => charges[r].micros = row[r].cost

\* A reservation is dropped unbilled only when its request is over: usage that
\* the broker has yet to record always finds its row.
UseFindsRow ==
  \A r \in Requests : at[r] \in {"call", "price", "complete"} =>
    row[r].state \in {"reserved", "completed", "billed"}

\* A completed request whose model has a price is billed in the end, whichever
\* other rows keep failing, unless it leaves the retry window first.
Settles ==
  \A r \in Requests :
    row[r].state = "completed" ~>
      row[r].state = "billed" \/ age[r] \in {"late", "forgotten"} \/ r \notin priced
=============================================================================
