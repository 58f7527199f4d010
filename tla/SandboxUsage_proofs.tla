------------------------ MODULE SandboxUsage_proofs ------------------------
(***************************************************************************)
(* Machine-checked proofs about SandboxUsage, for any number of periods    *)
(* and passes, any plans and any budget of trouble.                        *)
(***************************************************************************)
EXTENDS SandboxUsage, SequenceTheorems, FiniteSetTheorems, TLAPS

\* The types, by what they are about.
Rows == [state: {"none", "open", "stopped", "billed"}, ended: Ends \cup {"no"},
         billable: BOOLEAN, priced: BOOLEAN,
         balance: Balances \cup {"null"}, credited: BOOLEAN]
RowTyped ==
  /\ row \in [Periods -> Rows]
  /\ \A r \in Periods : (row[r].state \in {"none", "open"}) <=> (row[r].ended = "no")
TimeTyped ==
  /\ age \in [Periods -> Ages]
  /\ waiver \in [Periods -> {"null", "recent", "late", "forgotten"}]
WorldTyped ==
  /\ plan \in Plans /\ cached \in SUBSET Plans
  /\ trouble \in [TroubleKinds -> Nat]
WorkTyped ==
  /\ at \in [Settlers -> PC]
  /\ aim \in [Settlers -> Balances \cup {"null"}]
  /\ todo \in [Passes -> Seq(Periods)]
  /\ \A p \in Passes : at[p] \in Settling \cup Crediting <=> todo[p] # <<>>
AutumnTyped ==
  /\ keys \in [Periods -> [{"charge", "credit"} -> {"unused", "early", "late"}]]
  /\ charges \in [Periods -> Seq(Entry)] /\ credits \in [Periods -> Seq(Entry)]

Closed(r) == row[r].state \in {"stopped", "billed"}

\* Until a meter has stopped its period nobody reports it for it, and it
\* reports it within minutes.
Metered ==
  \A r \in Periods :
    /\ at[r] \in Settling \cup {"none", "metering", "done", "dead"}
    /\ at[r] = "none" => row[r].state = "none"
    /\ at[r] \in Settling => Closed(r) /\ age[r] \in {"new", "due", "stale"}

\* A pass holds closed periods that Autumn has not forgotten, or waived ones
\* whose credit it has not forgotten.
Listing ==
  \A p \in Passes :
    /\ at[p] \in Settling \cup Crediting \cup {"idle", "list", "listcredits"}
    /\ at[p] \in Settling => \A r \in Range(todo[p]) : Closed(r) /\ age[r] # "forgotten"
    /\ at[p] \in Crediting => \A r \in Range(todo[p]) :
         row[r].state = "billed" /\ waiver[r] \in {"recent", "late"}

\* Autumn remembers what it charged until no one is left to report it.
Charged ==
  \A r \in Periods :
    /\ charges[r] # <<>> => Closed(r)
    /\ keys[r]["charge"] = "unused" => charges[r] = <<>> \/ age[r] = "forgotten"
    /\ keys[r]["charge"] # "unused" => charges[r] # <<>>
    /\ Len(charges[r]) <= 1
    /\ \A i \in DOMAIN charges[r] : charges[r][i].ended = row[r].ended

\* The same for what it gave back.
Credited ==
  \A r \in Periods :
    /\ keys[r]["credit"] = "unused" => credits[r] = <<>> \/ waiver[r] = "forgotten"
    /\ Len(credits[r]) <= (IF waiver[r] = "null" THEN 0 ELSE 1)

\* A settler has a balance from its lookup until it leaves the row.
Aimed ==
  \A s \in Settlers :
    /\ at[s] = "track" => aim[s] \in Balances
    /\ at[s] \notin {"track", "mark"} => aim[s] = "null"

\* As long as the plan stays, everyone means the same balance, and a row that
\* names it was charged there.
BalanceOf(p) == IF p = "machine_hours" THEN "machine_hours" ELSE "usage_credit"
Unchanged == trouble["replan"] = Budget["replan"]
Reported(r) == plan = "per_run" \/ charges[r] # <<>>
Returned ==
  /\ trouble["replan"] <= Budget["replan"]
  /\ Unchanged =>
       /\ cached = {}
       /\ \A s \in Settlers : aim[s] \in {"null", BalanceOf(plan)}
       /\ \A s \in Settlers : at[s] = "mark" /\ aim[s] # "null" => Reported(Held(s))
       /\ \A r \in Periods : \A i \in DOMAIN charges[r] : charges[r][i].to = BalanceOf(plan)
       /\ \A r \in Periods : row[r].state = "billed" /\ row[r].balance # "null" =>
            row[r].balance = BalanceOf(plan) /\ Reported(r)
       /\ CreditReturnsCharge

\* What the settlers are doing.
Work == WorkTyped /\ Metered /\ Listing /\ Aimed

IInv == /\ RowTyped /\ TimeTyped /\ WorldTyped /\ AutumnTyped
        /\ Work /\ Charged /\ Credited /\ Returned

-----------------------------------------------------------------------------
(* What the helpers do. *)

\* Trouble is taken from the budget.
LEMMA MeetOK ==
  ASSUME WorldTyped, NEW kind \in TroubleKinds, Meet(kind)
  PROVE  /\ trouble' \in [TroubleKinds -> Nat]
         /\ trouble'[kind] = trouble[kind] - 1
         /\ \A k \in TroubleKinds : k # kind => trouble'[k] = trouble[k]
BY DEF WorldTyped, Meet

\* A call spends nothing but a fault.
LEMMA CallsOK ==
  ASSUME WorldTyped, UNCHANGED trouble \/ Meet("fault")
  PROVE  trouble' \in [TroubleKinds -> Nat] /\ trouble'["replan"] = trouble["replan"]
BY MeetOK DEF WorldTyped, TroubleKinds

\* A settler that goes on leaves the others where they are.
LEMMA GotoOK ==
  ASSUME WorkTyped, NEW s \in Settlers, NEW pc \in PC, Goto(s, pc)
  PROVE  /\ at' \in [Settlers -> PC] /\ at'[s] = pc
         /\ \A x \in Settlers : x # s => at'[x] = at[x]
BY DEF WorkTyped, Goto

\* The row that a settler holds: a meter its own, a pass the first of its list.
LEMMA HeldOK ==
  ASSUME WorkTyped, NEW s \in Settlers, at[s] \in Settling \cup Crediting
  PROVE  /\ Held(s) \in Periods
         /\ s \in Periods => Held(s) = s
         /\ s \in Passes => s \notin Periods /\ Held(s) \in Range(todo[s])
<1>1. CASE s \in Periods
  BY <1>1, SandboxUsageAssumption DEF Held
<1>2. CASE s \notin Periods
  <2>1. s \in Passes /\ todo[s] \in Seq(Periods) /\ todo[s] # <<>>
    BY <1>2 DEF Settlers, WorkTyped
  <2>2. Head(todo[s]) \in Periods /\ 1 \in DOMAIN todo[s] /\ Head(todo[s]) = todo[s][1]
    BY <2>1
  <2> QED
    BY <1>2, <2>1, <2>2 DEF Held, Range
<1> QED
  BY <1>1, <1>2

\* What is left of a list was on it.
LEMMA TailOK ==
  ASSUME NEW q \in Seq(Periods), q # <<>>
  PROVE  /\ Tail(q) \in Seq(Periods) /\ Range(Tail(q)) \subseteq Range(q)
         /\ Tail(q) # <<>> <=> Len(q) > 1
<1>1. /\ Tail(q) \in Seq(Periods) /\ Len(Tail(q)) = Len(q) - 1 /\ Len(q) \in Nat \ {0}
      /\ \A i \in 1 .. Len(Tail(q)) : Tail(q)[i] = q[i + 1]
  BY HeadTailProperties, EmptySeq
<1>2. \A i \in DOMAIN Tail(q) : i + 1 \in DOMAIN q /\ Tail(q)[i] = q[i + 1]
  BY <1>1
<1>3. CASE Tail(q) = <<>>
  <2>1. Len(Tail(q)) = 0 /\ Len(q) = 1
    <3> DEFINE rest == Tail(q)
    <3>1. rest \in Seq(Periods) /\ rest = <<>>
      BY <1>1, <1>3
    <3>2. Len(rest) = Len(q) - 1 /\ Len(q) \in Nat
      BY <1>1
    <3> HIDE DEF rest
    <3>3. Len(rest) = 0
      BY <3>1, EmptySeq
    <3>4. Len(q) = 1
      BY <3>2, <3>3
    <3> USE DEF rest
    <3> QED
      BY <3>3, <3>4
  <2>2. Range(Tail(q)) = {}
    BY <1>3 DEF Range
  <2> QED
    BY <1>1, <1>3, <2>1, <2>2
<1>4. CASE Tail(q) # <<>>
  <2>1. Len(Tail(q)) \in Nat \ {0}
    BY <1>1, <1>4, EmptySeq
  <2> QED
    BY <1>1, <1>2, <1>4, <2>1 DEF Range
<1> QED
  BY <1>3, <1>4

\* A settler that leaves its row means no balance any more; a pass may go on
\* with what is left of its list.
LEMMA LeaveOK ==
  ASSUME WorkTyped, NEW s \in Settlers, at[s] \in Settling \cup Crediting, Leave(s)
  PROVE  /\ aim' \in [Settlers -> Balances \cup {"null"}] /\ aim'[s] = "null"
         /\ \A x \in Settlers : x # s => aim'[x] = aim[x] /\ at'[x] = at[x]
         /\ at' \in [Settlers -> PC]
         /\ at'[s] \in {"done", "setcharge", "listcredits", "credit", "idle"}
         /\ s \in Periods => at'[s] = "done"
         /\ s \in Passes => /\ at'[s] # "done"
                            /\ at'[s] = "setcharge" => at[s] \in Settling
                            /\ at'[s] = "credit" => at[s] \in Crediting
         /\ todo' \in [Passes -> Seq(Periods)]
         /\ \A p \in Passes : Range(todo'[p]) \subseteq Range(todo[p])
         /\ \A p \in Passes : p # s => todo'[p] = todo[p]
         /\ s \in Passes => (at'[s] \in {"setcharge", "credit"} <=> todo'[s] # <<>>)
<1>1. /\ aim' \in [Settlers -> Balances \cup {"null"}] /\ aim'[s] = "null"
      /\ \A x \in Settlers : x # s => aim'[x] = aim[x]
  BY DEF Leave, WorkTyped
<1>2. CASE s \in Periods
  <2>1. Goto(s, "done") /\ UNCHANGED todo /\ s \notin Passes
    BY <1>2, SandboxUsageAssumption DEF Leave
  <2> QED
    BY <1>1, <1>2, <2>1, GotoOK DEF WorkTyped, PC
<1>3. CASE s \notin Periods
  <2>1. s \in Passes /\ todo[s] \in Seq(Periods) /\ todo[s] # <<>>
    BY <1>3 DEF Settlers, WorkTyped
  <2>2. todo' = [todo EXCEPT ![s] = Tail(todo[s])]
    BY <1>3 DEF Leave
  <2>3. /\ todo' \in [Passes -> Seq(Periods)] /\ todo'[s] = Tail(todo[s])
        /\ \A p \in Passes : p # s => todo'[p] = todo[p]
    BY <2>1, <2>2, TailOK DEF WorkTyped
  <2>4. PICK pc \in {"setcharge", "listcredits", "credit", "idle"} :
          /\ Goto(s, pc)
          /\ pc = "setcharge" => at[s] \in Settling
          /\ pc = "credit" => at[s] \in Crediting
          /\ pc \in {"setcharge", "credit"} <=> Len(todo[s]) > 1
    BY <1>3 DEF Leave
  <2>5. pc \in PC
    BY DEF PC, Settling, Crediting
  <2>6. /\ at' \in [Settlers -> PC] /\ at'[s] = pc
        /\ \A x \in Settlers : x # s => at'[x] = at[x]
    BY <2>4, <2>5, GotoOK
  <2> QED
    BY <1>1, <1>3, <2>1, <2>3, <2>4, <2>6, TailOK
<1> QED
  BY <1>2, <1>3

\* A list holds what was found, and is empty when nothing was.
LEMMA TakeOK ==
  ASSUME WorkTyped, NEW p \in Passes, NEW listed \in SUBSET Periods,
         NEW first \in PC, NEW none \in PC, Take(p, listed, first, none)
  PROVE  /\ todo' \in [Passes -> Seq(Periods)] /\ Range(todo'[p]) \subseteq listed
         /\ \A x \in Passes : x # p => todo'[x] = todo[x]
         /\ todo'[p] = <<>> <=> listed = {}
         /\ Goto(p, IF listed = {} THEN none ELSE first)
<1>1. PICK order \in SetToSeqs(listed) : /\ todo' = [todo EXCEPT ![p] = order]
                                         /\ Goto(p, IF listed = {} THEN none ELSE first)
  BY DEF Take
<1>2. IsFiniteSet(listed)
  BY SandboxUsageAssumption, FS_Subset
<1>3. Cardinality(listed) \in Nat /\ (Cardinality(listed) = 0 <=> listed = {})
  BY <1>2, FS_CardinalityType, FS_EmptySet
<1>4. order \in [1 .. Cardinality(listed) -> listed]
  BY DEF SetToSeqs
<1>5. order \in Seq(Periods) /\ Len(order) = Cardinality(listed)
  BY <1>3, <1>4
<1>6. Range(order) \subseteq listed
  BY <1>4 DEF Range
<1>7. order = <<>> <=> listed = {}
  BY <1>3, <1>5, EmptySeq
<1>8. todo' \in [Passes -> Seq(Periods)] /\ todo'[p] = order
  BY <1>1, <1>5 DEF WorkTyped
<1>9. \A x \in Passes : x # p => todo'[x] = todo[x]
  BY <1>1 DEF WorkTyped
<1> QED
  BY <1>1, <1>6, <1>7, <1>8, <1>9

-----------------------------------------------------------------------------
(* What keeps the parts of the invariant. *)

\* A meter is no pass.
LEMMA Apart ==
  /\ \A r \in Periods : r \in Settlers /\ r \notin Passes
  /\ \A p \in Passes : p \in Settlers /\ p \notin Periods
  /\ \A s \in Settlers : s \in Periods \/ s \in Passes
BY SandboxUsageAssumption DEF Settlers

\* What a settler does to a row reopens none.
RowsKept ==
  /\ \A r \in Periods : /\ row[r].state = "none" => row'[r].state = "none"
                        /\ Closed(r) => Closed(r)'
                        /\ row[r].state = "billed" => row'[r].state = "billed"
  /\ UNCHANGED time

\* Who else holds a row goes on holding it.
OthersStay(s) ==
  \A x \in Settlers : x # s => at'[x] = at[x] /\ aim'[x] = aim[x] /\ Held(x)' = Held(x)

\* A settler goes on with its row.
LEMMA GoesOn ==
  ASSUME Work, RowsKept, NEW s \in Settlers, NEW pc, Goto(s, pc), UNCHANGED todo,
         \/ at[s] \in Settling /\ pc \in Settling
         \/ at[s] \in Crediting /\ pc \in Crediting,
         aim' \in [Settlers -> Balances \cup {"null"}],
         \A x \in Settlers : x # s => aim'[x] = aim[x],
         pc = "track" => aim'[s] \in Balances,
         pc \notin {"track", "mark"} => aim'[s] = "null"
  PROVE  Work' /\ OthersStay(s) /\ at'[s] = pc /\ Held(s)' = Held(s)
<1> USE DEF Work
<1>1. /\ at' \in [Settlers -> PC] /\ at'[s] = pc
      /\ \A x \in Settlers : x # s => at'[x] = at[x]
  <2>1. pc \in PC
    BY DEF PC
  <2> QED
    BY <2>1, GotoOK
<1>2. WorkTyped'
  <2>1. \A p \in Passes : at'[p] \in Settling \cup Crediting <=> at[p] \in Settling \cup Crediting
    BY <1>1, Apart
  <2> QED
    BY <1>1, <2>1 DEF WorkTyped
<1>3. Metered'
  <2>1. \A r \in Periods : at[r] \notin Crediting
    BY DEF Metered, Crediting, Settling
  <2> QED
    BY <1>1, <2>1, Apart DEF Metered, RowsKept, time, Settling
<1>4. Listing'
  <2>1. \A x \in Passes : \A q \in Range(todo[x]) : q \in Periods
    BY DEF WorkTyped, Range
  <2>2. \A p \in Passes : /\ at'[p] \in Settling => at[p] \in Settling
                          /\ at'[p] \in Crediting => at[p] \in Crediting
                          /\ at'[p] \in Settling \cup Crediting \cup {"idle", "list", "listcredits"}
    BY <1>1, Apart DEF Listing, Settling, Crediting
  <2> QED
    BY <2>1, <2>2 DEF Listing, RowsKept, time
<1>5. Aimed'
  BY <1>1 DEF Aimed
<1>6. \A x \in Settlers : Held(x)' = Held(x)
  BY DEF Held
<1> QED
  BY <1>1, <1>2, <1>3, <1>4, <1>5, <1>6 DEF OthersStay

\* A settler leaves its row.
LEMMA GoesOff ==
  ASSUME Work, RowsKept, NEW s \in Settlers, at[s] \in Settling \cup Crediting, Leave(s)
  PROVE  Work' /\ OthersStay(s) /\ at'[s] \notin {"track", "mark"} /\ aim'[s] = "null"
<1> USE DEF Work
<1> DEFINE Off ==
      /\ at'[s] \in {"done", "setcharge", "listcredits", "credit", "idle"}
      /\ s \in Periods => at'[s] = "done"
      /\ s \in Passes => /\ at'[s] # "done"
                         /\ at'[s] = "setcharge" => at[s] \in Settling
                         /\ at'[s] = "credit" => at[s] \in Crediting
                         /\ at'[s] \in {"setcharge", "credit"} <=> todo'[s] # <<>>
<1>1. /\ aim' \in [Settlers -> Balances \cup {"null"}] /\ aim'[s] = "null"
      /\ \A x \in Settlers : x # s => aim'[x] = aim[x] /\ at'[x] = at[x]
      /\ at' \in [Settlers -> PC]
  BY LeaveOK
<1>2. Off
  BY LeaveOK
<1>3. /\ todo' \in [Passes -> Seq(Periods)]
      /\ \A p \in Passes : Range(todo'[p]) \subseteq Range(todo[p])
      /\ \A p \in Passes : p # s => todo'[p] = todo[p]
  BY LeaveOK
<1>4. WorkTyped'
  <2>1. s \in Passes => (at'[s] \in Settling \cup Crediting <=> todo'[s] # <<>>)
    BY <1>2 DEF Settling, Crediting
  <2> QED
    BY <1>1, <1>3, <2>1, Apart DEF WorkTyped
<1>5. Metered'
  BY <1>1, <1>2, Apart DEF Metered, RowsKept, time, Settling
<1>6. Listing'
  <2>1. s \in Passes => /\ at'[s] \in Settling => at[s] \in Settling
                        /\ at'[s] \in Crediting => at[s] \in Crediting
                        /\ at'[s] \in Settling \cup Crediting \cup {"idle", "list", "listcredits"}
    BY <1>2 DEF Settling, Crediting
  <2>2. \A p \in Passes : /\ at'[p] \in Settling => at[p] \in Settling
                          /\ at'[p] \in Crediting => at[p] \in Crediting
                          /\ at'[p] \in Settling \cup Crediting \cup {"idle", "list", "listcredits"}
    BY <1>1, <2>1, Apart DEF Listing
  <2>3. \A x \in Passes : \A q \in Range(todo[x]) : q \in Periods
    BY DEF WorkTyped, Range
  <2>4. \A x \in Passes : \A q \in Range(todo'[x]) : q \in Range(todo[x])
    BY <1>3
  <2>5. \A x \in Passes : at'[x] \in Settling =>
           \A q \in Range(todo'[x]) : Closed(q)' /\ age'[q] # "forgotten"
    BY <2>2, <2>3, <2>4 DEF Listing, RowsKept, time
  <2>6. \A x \in Passes : at'[x] \in Crediting => \A q \in Range(todo'[x]) :
             row'[q].state = "billed" /\ waiver'[q] \in {"recent", "late"}
    BY <2>2, <2>3, <2>4 DEF Listing, RowsKept, time
  <2> QED
    BY <2>2, <2>5, <2>6 DEF Listing
<1>7. Aimed'
  BY <1>1, <1>2 DEF Aimed
<1>8. \A x \in Settlers : x # s => Held(x)' = Held(x)
  BY <1>3, Apart DEF Held
<1> QED
  BY <1>1, <1>2, <1>4, <1>5, <1>6, <1>7, <1>8 DEF OthersStay

\* A meter goes on, and only while its period is not closed it writes to it.
LEMMA MeterGoes ==
  ASSUME Work, NEW r \in Periods, at[r] \in {"none", "metering"},
         NEW pc \in {"metering", "done", "setcharge"}, Goto(r, pc), UNCHANGED <<aim, todo, waiver>>,
         \A q \in Periods : q # r \/ Closed(q) => row'[q] = row[q] /\ age'[q] = age[q],
         pc = "setcharge" => Closed(r)' /\ age'[r] = "new"
  PROVE  Work' /\ OthersStay(r) /\ at'[r] = pc /\ aim'[r] = "null"
<1> USE DEF Work
<1>1. /\ at' \in [Settlers -> PC] /\ at'[r] = pc
      /\ \A x \in Settlers : x # r => at'[x] = at[x]
  <2>1. pc \in PC /\ r \in Settlers
    BY Apart DEF PC, Settling
  <2> QED
    BY <2>1, GotoOK
<1>2. WorkTyped'
  BY <1>1, Apart DEF WorkTyped
<1>3. Metered'
  BY <1>1, Apart DEF Metered, Closed, Settling
<1>4. Listing'
  <2>1. \A p \in Passes : \A q \in Range(todo[p]) : q \in Periods
    BY DEF WorkTyped, Range
  <2> QED
    BY <1>1, <2>1, Apart DEF Listing, Closed
<1>5. aim[r] = "null"
  BY Apart DEF Aimed
<1>6. Aimed'
  BY <1>1, <1>5 DEF Aimed
<1>7. \A x \in Settlers : Held(x)' = Held(x)
  BY DEF Held
<1> QED
  BY <1>1, <1>2, <1>3, <1>4, <1>5, <1>6, <1>7 DEF OthersStay

\* A pass that holds no row, or has not begun its next one, goes on.
LEMMA PassGoes ==
  ASSUME Work, RowsKept, NEW p \in Passes, at[p] \notin {"track", "mark"},
         NEW pc \in {"idle", "list", "listcredits", "setcharge", "credit"}, Goto(p, pc), UNCHANGED aim,
         todo' \in [Passes -> Seq(Periods)], \A x \in Passes : x # p => todo'[x] = todo[x],
         pc \in {"setcharge", "credit"} <=> todo'[p] # <<>>,
         pc = "setcharge" => \A r \in Range(todo'[p]) : Closed(r)' /\ age'[r] # "forgotten",
         pc = "credit" => \A r \in Range(todo'[p]) :
                            row'[r].state = "billed" /\ waiver'[r] \in {"recent", "late"}
  PROVE  Work' /\ OthersStay(p) /\ at'[p] = pc /\ aim'[p] = "null"
<1> USE DEF Work
<1>1. /\ at' \in [Settlers -> PC] /\ at'[p] = pc
      /\ \A x \in Settlers : x # p => at'[x] = at[x]
  <2>1. pc \in PC /\ p \in Settlers
    BY Apart DEF PC, Settling, Crediting
  <2> QED
    BY <2>1, GotoOK
<1>2. pc \in Settling \cup Crediting <=> pc \in {"setcharge", "credit"}
  BY DEF Settling, Crediting
<1>3. WorkTyped'
  BY <1>1, <1>2, Apart DEF WorkTyped
<1>4. Metered'
  BY <1>1, Apart DEF Metered, RowsKept, time
<1>5. Listing'
  <2>1. \A x \in Passes : \A q \in Range(todo[x]) : q \in Periods
    BY DEF WorkTyped, Range
  <2>2. /\ pc \in Settling => pc = "setcharge"
        /\ pc \in Crediting => pc = "credit"
        /\ pc \in Settling \cup Crediting \cup {"idle", "list", "listcredits"}
    BY DEF Settling, Crediting
  <2> QED
    BY <1>1, <2>1, <2>2, Apart DEF Listing, RowsKept, time
<1>6. aim[p] = "null"
  BY Apart DEF Aimed
<1>7. Aimed'
  BY <1>1, <1>6 DEF Aimed
<1>8. \A x \in Settlers : x # p => Held(x)' = Held(x)
  BY Apart DEF Held
<1> QED
  BY <1>1, <1>3, <1>4, <1>5, <1>6, <1>7, <1>8 DEF OthersStay

\* Nobody charges, no row is settled and the plan stays.
LEMMA ReturnedKept ==
  ASSUME Returned, NEW s \in Settlers, OthersStay(s), at'[s] # "mark" \/ aim'[s] = "null",
         aim'[s] \in {aim[s], "null"},
         UNCHANGED <<plan, cached, charges, credits>>, trouble'["replan"] = trouble["replan"],
         \A r \in Periods : row'[r].state = "billed" =>
            row[r].state = "billed" /\ row'[r].balance = row[r].balance
  PROVE  Returned'
BY DEF Returned, Unchanged, Reported, OthersStay, CreditReturnsCharge

\* Nothing is charged or given back, and no charged period is moved.
LEMMA QuietKept ==
  ASSUME IInv, UNCHANGED <<age, waiver, plan, cached, keys, charges, credits>>, RowsKept,
         \A r \in Periods : Closed(r) => row'[r].ended = row[r].ended,
         trouble' \in [TroubleKinds -> Nat]
  PROVE  TimeTyped' /\ WorldTyped' /\ AutumnTyped' /\ Charged' /\ Credited'
<1>1. TimeTyped' /\ WorldTyped' /\ AutumnTyped'
  BY DEF IInv, TimeTyped, WorldTyped, AutumnTyped
<1>2. Charged'
  BY DEF IInv, Charged, RowsKept
<1>3. Credited'
  BY DEF IInv, Credited
<1> QED
  BY <1>1, <1>2, <1>3

-----------------------------------------------------------------------------
(* Every action keeps the invariant. *)

\* The price of a period is stored.
LEMMA SetChargeStep ==
  ASSUME IInv, NEW s \in Settlers, SetCharge(s)
  PROVE  IInv'
<1>1. /\ UNCHANGED <<age, waiver, plan, cached, keys, charges, credits>>
      /\ UNCHANGED row \/ row' = [row EXCEPT ![Held(s)].priced = TRUE]
      /\ UNCHANGED trouble \/ Meet("fault")
      /\ (Goto(s, "lookup") /\ UNCHANGED <<aim, todo>>) \/ Leave(s)
      /\ at[s] = "setcharge" /\ at[s] \in Settling
  BY DEF SetCharge, Calls, time, plans, autumn, Settling
<1>2. Held(s) \in Periods
  BY <1>1, HeldOK DEF IInv, Work
<1>3. /\ RowTyped' /\ RowsKept
      /\ \A r \in Periods : row'[r].state = row[r].state /\ row'[r].balance = row[r].balance
                            /\ row'[r].ended = row[r].ended
  <2>1. CASE UNCHANGED row
    BY <1>1, <2>1 DEF IInv, RowTyped, Rows, RowsKept, Closed, time
  <2>2. CASE row' = [row EXCEPT ![Held(s)].priced = TRUE]
    <3>1. \A r \in Periods : /\ row'[r].state = row[r].state /\ row'[r].balance = row[r].balance
                              /\ row'[r].ended = row[r].ended
      BY <1>2, <2>2 DEF IInv, RowTyped, Rows
    <3>2. row' \in [Periods -> Rows]
      <4>1. [row[Held(s)] EXCEPT !.priced = TRUE] \in Rows
        BY <1>2 DEF IInv, RowTyped, Rows
      <4> QED
        BY <1>2, <2>2, <4>1 DEF IInv, RowTyped
    <3> QED
      BY <1>1, <3>1, <3>2 DEF IInv, RowTyped, Rows, RowsKept, Closed, time
  <2> QED
    BY <1>1, <2>1, <2>2
<1>4. Work' /\ OthersStay(s) /\ at'[s] # "mark" /\ aim'[s] \in {aim[s], "null"}
  <2>1. aim[s] = "null" /\ aim \in [Settlers -> Balances \cup {"null"}]
    BY <1>1 DEF IInv, Work, Aimed, WorkTyped
  <2>2. CASE Goto(s, "lookup") /\ UNCHANGED <<aim, todo>>
    BY <1>1, <1>3, <2>1, <2>2, GoesOn DEF IInv, Settling
  <2>3. CASE Leave(s)
    BY <1>1, <1>3, <2>3, GoesOff DEF IInv
  <2> QED
    BY <1>1, <2>2, <2>3
<1>5. trouble' \in [TroubleKinds -> Nat] /\ trouble'["replan"] = trouble["replan"]
  BY <1>1, CallsOK DEF IInv
<1>6. Returned'
  BY <1>1, <1>3, <1>4, <1>5, ReturnedKept DEF IInv
<1>7. TimeTyped' /\ WorldTyped' /\ AutumnTyped' /\ Charged' /\ Credited'
  BY <1>1, <1>3, <1>5, QuietKept
<1> QED
  BY <1>3, <1>4, <1>6, <1>7 DEF IInv

\* A settler looks up the balance.
LEMMA LookUpPlanStep ==
  ASSUME IInv, NEW s \in Settlers, LookUpPlan(s)
  PROVE  IInv'
<1>1. /\ UNCHANGED <<row, age, waiver, plan, cached, keys, charges, credits>>
      /\ UNCHANGED trouble \/ Meet("fault")
      /\ at[s] = "lookup" /\ at[s] \in Settling
  BY DEF LookUpPlan, time, plans, autumn, Settling
<1>2. \/ /\ Goto(s, "track") /\ UNCHANGED todo
         /\ \E known \in Known : aim' = [aim EXCEPT ![s] = BalanceOf(known)]
      \/ Leave(s)
      \/ Goto(s, "mark") /\ UNCHANGED <<aim, todo>>
  BY DEF LookUpPlan, BalanceOf
<1>3. /\ aim[s] = "null" /\ aim \in [Settlers -> Balances \cup {"null"}]
      /\ \A p : BalanceOf(p) \in Balances
  BY <1>1 DEF IInv, Work, Aimed, WorkTyped, BalanceOf, Balances
<1>4. RowTyped' /\ RowsKept
  BY <1>1 DEF IInv, RowTyped, Rows, RowsKept, Closed, time
<1>5. /\ Work' /\ OthersStay(s) /\ (at'[s] # "mark" \/ aim'[s] = "null")
      /\ \/ aim'[s] = "null"
         \/ \E known \in Known : aim'[s] = BalanceOf(known)
  <2>1. CASE Goto(s, "track") /\ UNCHANGED todo
             /\ \E known \in Known : aim' = [aim EXCEPT ![s] = BalanceOf(known)]
    <3>1. PICK known \in Known : aim' = [aim EXCEPT ![s] = BalanceOf(known)]
      BY <2>1
    <3>2. /\ aim' \in [Settlers -> Balances \cup {"null"}] /\ aim'[s] = BalanceOf(known)
          /\ aim'[s] \in Balances /\ \A x \in Settlers : x # s => aim'[x] = aim[x]
      BY <1>3, <3>1
    <3> QED
      BY <1>1, <1>4, <2>1, <3>2, GoesOn DEF IInv, Settling
  <2>2. CASE Leave(s)
    BY <1>1, <1>4, <2>2, GoesOff DEF IInv
  <2>3. CASE Goto(s, "mark") /\ UNCHANGED <<aim, todo>>
    BY <1>1, <1>3, <1>4, <2>3, GoesOn DEF IInv, Settling
  <2> QED
    BY <1>2, <2>1, <2>2, <2>3
<1>6. trouble' \in [TroubleKinds -> Nat] /\ trouble'["replan"] = trouble["replan"]
  BY <1>1, CallsOK DEF IInv
<1>7. Returned'
  <2>1. Unchanged => aim'[s] \in {"null", BalanceOf(plan)}
    BY <1>5 DEF IInv, Returned, Known
  <2>2. Unchanged' => CreditReturnsCharge'
    BY <1>1, <1>6 DEF IInv, Returned, Unchanged, CreditReturnsCharge
  <2>3. Unchanged' => \A x \in Settlers : aim'[x] \in {"null", BalanceOf(plan)}
    BY <1>5, <1>6, <2>1 DEF IInv, Returned, Unchanged, OthersStay
  <2>4. Unchanged' => \A x \in Settlers : at'[x] = "mark" /\ aim'[x] # "null" => Reported(Held(x))'
    BY <1>1, <1>5, <1>6 DEF IInv, Returned, Unchanged, OthersStay, Reported
  <2> QED
    BY <1>1, <1>6, <2>2, <2>3, <2>4 DEF IInv, Returned, Unchanged, Reported
<1>8. TimeTyped' /\ WorldTyped' /\ AutumnTyped' /\ Charged' /\ Credited'
  BY <1>1, <1>4, <1>6, QuietKept
<1> QED
  BY <1>4, <1>5, <1>7, <1>8 DEF IInv

\* The row is marked as billed.
LEMMA MarkBilledStep ==
  ASSUME IInv, NEW s \in Settlers, MarkBilled(s)
  PROVE  IInv'
<1>1. /\ UNCHANGED <<age, waiver, plan, cached, keys, charges, credits>>
      /\ UNCHANGED row \/ Billed(s)
      /\ UNCHANGED trouble \/ Meet("fault")
      /\ Leave(s) /\ at[s] = "mark" /\ at[s] \in Settling
  BY DEF MarkBilled, Calls, time, plans, autumn, Settling
<1>2. Held(s) \in Periods /\ Closed(Held(s))
  <2>1. /\ Held(s) \in Periods /\ (s \in Periods => Held(s) = s)
        /\ (s \in Passes => Held(s) \in Range(todo[s]))
    BY <1>1, HeldOK DEF IInv, Work
  <2> QED
    BY <1>1, <2>1, Apart DEF IInv, Work, Metered, Listing
<1>3. aim[s] \in Balances \cup {"null"}
  BY DEF IInv, Work, WorkTyped
<1>4. /\ RowTyped' /\ RowsKept
      /\ \A r \in Periods : row'[r].ended = row[r].ended
      /\ \A r \in Periods : row'[r] # row[r] =>
           r = Held(s) /\ row'[r].state = "billed" /\ row'[r].balance = aim[s]
  BY <1>1, <1>2, <1>3 DEF IInv, RowTyped, Rows, RowsKept, Closed, time, Billed
<1>5. Work' /\ OthersStay(s) /\ at'[s] \notin {"track", "mark"} /\ aim'[s] = "null"
  BY <1>1, <1>4, GoesOff DEF IInv
<1>6. trouble' \in [TroubleKinds -> Nat] /\ trouble'["replan"] = trouble["replan"]
  BY <1>1, CallsOK DEF IInv
<1>7. Returned'
  BY <1>1, <1>4, <1>5, <1>6 DEF IInv, Returned, Unchanged, Reported, OthersStay,
     CreditReturnsCharge
<1>8. TimeTyped' /\ WorldTyped' /\ AutumnTyped' /\ Charged' /\ Credited'
  BY <1>1, <1>4, <1>6, QuietKept
<1> QED
  BY <1>4, <1>5, <1>7, <1>8 DEF IInv

\* A row is reported to Autumn, which charges it unless it did.
LEMMA TrackStep ==
  ASSUME IInv, NEW s \in Settlers, Track(s)
  PROVE  IInv'
<1>1. /\ UNCHANGED <<row, age, waiver, plan, cached>>
      /\ UNCHANGED trouble \/ Meet("fault")
      /\ at[s] = "track" /\ at[s] \in Settling
  BY DEF Track, Calls, time, plans, Settling
<1>2. \/ UNCHANGED autumn /\ Leave(s)
      \/ Charge(Held(s), aim[s]) /\ Leave(s)
      \/ /\ Charge(Held(s), aim[s]) \/ (UNCHANGED autumn /\ "per_run" \in Known)
         /\ Goto(s, "mark") /\ UNCHANGED <<aim, todo>>
  <2>1. PICK known \in Known :
          Calls(IF known = "per_run" THEN UNCHANGED autumn ELSE Charge(Held(s), aim[s]),
                UNCHANGED autumn, Goto(s, "mark") /\ UNCHANGED <<aim, todo>>, Leave(s))
    BY DEF Track
  <2>2. CASE known = "per_run"
    BY <2>1, <2>2 DEF Calls
  <2>3. CASE known # "per_run"
    BY <2>1, <2>3 DEF Calls
  <2> QED
    BY <2>2, <2>3
<1>3. Held(s) \in Periods /\ Closed(Held(s)) /\ age[Held(s)] # "forgotten"
  <2>1. /\ Held(s) \in Periods /\ (s \in Periods => Held(s) = s)
        /\ (s \in Passes => Held(s) \in Range(todo[s]))
    BY <1>1, HeldOK DEF IInv, Work
  <2> QED
    BY <1>1, <2>1, Apart DEF IInv, Work, Metered, Listing
<1>4. aim[s] \in Balances /\ aim \in [Settlers -> Balances \cup {"null"}]
  BY <1>1 DEF IInv, Work, WorkTyped, Aimed
<1>5. RowTyped' /\ RowsKept
  BY <1>1 DEF IInv, RowTyped, Rows, RowsKept, Closed, time
<1>6. /\ Work' /\ OthersStay(s)
      /\ \/ aim'[s] = "null" /\ at'[s] # "mark"
         \/ /\ aim'[s] = aim[s] /\ Held(s)' = Held(s)
            /\ Charge(Held(s), aim[s]) \/ (UNCHANGED autumn /\ "per_run" \in Known)
  <2>1. CASE Leave(s)
    BY <1>1, <1>5, <2>1, GoesOff DEF IInv
  <2>2. CASE /\ Goto(s, "mark") /\ UNCHANGED <<aim, todo>>
             /\ Charge(Held(s), aim[s]) \/ (UNCHANGED autumn /\ "per_run" \in Known)
    BY <1>1, <1>4, <1>5, <2>2, GoesOn DEF IInv, Settling
  <2> QED
    BY <1>2, <2>1, <2>2
<1>7. trouble' \in [TroubleKinds -> Nat] /\ trouble'["replan"] = trouble["replan"]
  BY <1>1, CallsOK DEF IInv
<1>8. TimeTyped' /\ WorldTyped'
  BY <1>1, <1>7 DEF IInv, TimeTyped, WorldTyped
<1>9. CASE UNCHANGED autumn
  <2>1. /\ AutumnTyped' /\ Charged' /\ Credited'
    BY <1>1, <1>5, <1>7, <1>9, QuietKept DEF autumn
  <2>2. (aim'[s] = aim[s] /\ Held(s)' = Held(s)) /\ Unchanged /\ at'[s] = "mark" /\ aim'[s] # "null"
          => Reported(Held(s))
    <3>1. CASE "per_run" \in Known
      BY <3>1 DEF IInv, Returned, Known, Reported
    <3>2. CASE Charge(Held(s), aim[s])
      <4>1. keys[Held(s)]["charge"] # "unused"
        <5> SUFFICES ASSUME keys[Held(s)]["charge"] = "unused" PROVE FALSE
          OBVIOUS
        <5>1. charges' = [charges EXCEPT ![Held(s)] =
                           Append(@, [to |-> aim[s], ended |-> row[Held(s)].ended])]
          BY <3>2 DEF Charge
        <5>2. charges[Held(s)] \in Seq(Entry) /\ charges \in [Periods -> Seq(Entry)]
          BY <1>3 DEF IInv, AutumnTyped
        <5>3. charges[Held(s)] =
                Append(charges[Held(s)], [to |-> aim[s], ended |-> row[Held(s)].ended])
          BY <1>3, <1>9, <5>1, <5>2 DEF autumn
        <5>4. Len(charges[Held(s)]) = Len(charges[Held(s)]) + 1 /\ Len(charges[Held(s)]) \in Nat
          BY <5>2, <5>3
        <5> QED
          BY <5>4
      <4> QED
        BY <1>3, <4>1 DEF IInv, Charged, Reported
    <3> QED
      BY <1>6, <3>1, <3>2
  <2>3. Returned'
    BY <1>1, <1>6, <1>7, <1>9, <2>2 DEF autumn, IInv, Returned, Unchanged, Reported,
       OthersStay, CreditReturnsCharge
  <2> QED
    BY <1>5, <1>6, <1>8, <2>1, <2>3 DEF IInv
<1>10. CASE Charge(Held(s), aim[s]) /\ ~UNCHANGED autumn
  <2> DEFINE r == Held(s)
             entry == [to |-> aim[s], ended |-> row[r].ended]
  <2>1. /\ keys[r]["charge"] = "unused" /\ UNCHANGED credits
        /\ charges' = [charges EXCEPT ![r] = Append(@, entry)]
        /\ keys' = [keys EXCEPT ![r]["charge"] = KeyAge(age[r])]
    BY <1>10 DEF Charge
  <2>2. charges[r] = <<>>
    BY <1>3, <2>1 DEF IInv, Charged
  <2>3. charges \in [Periods -> Seq(Entry)] /\ entry \in Entry
    BY <1>3, <1>4 DEF IInv, AutumnTyped, Entry, RowTyped, Rows, Closed, Ends
  <2>4. /\ charges' \in [Periods -> Seq(Entry)]
        /\ charges'[r] = <<entry>> /\ \A q \in Periods : q # r => charges'[q] = charges[q]
    BY <1>3, <2>1, <2>2, <2>3
  <2>5. /\ Len(charges'[r]) = 1 /\ charges'[r] # <<>> /\ DOMAIN charges'[r] = {1}
        /\ charges'[r][1] = entry
    BY <2>4
  <2>6. /\ keys' \in [Periods -> [{"charge", "credit"} -> {"unused", "early", "late"}]]
        /\ keys'[r]["charge"] # "unused" /\ keys'[r]["credit"] = keys[r]["credit"]
        /\ \A q \in Periods : q # r => keys'[q] = keys[q]
    BY <1>3, <2>1 DEF IInv, AutumnTyped, KeyAge
  <2>7. AutumnTyped'
    BY <2>1, <2>4, <2>6 DEF IInv, AutumnTyped
  <2>8. Charged'
    <3>1. \A q \in Periods : q # r =>
            keys'[q] = keys[q] /\ charges'[q] = charges[q] /\ row'[q] = row[q] /\ age'[q] = age[q]
      BY <1>1, <2>4, <2>6
    <3>2. \A q \in Periods : q = r =>
            /\ keys'[q]["charge"] # "unused" /\ charges'[q] # <<>> /\ Len(charges'[q]) <= 1
            /\ Closed(q)' /\ \A i \in DOMAIN charges'[q] : charges'[q][i].ended = row'[q].ended
      <4>1. entry.ended = row[r].ended
        OBVIOUS
      <4>2. \A i \in DOMAIN charges'[r] : charges'[r][i].ended = row[r].ended
        BY <2>5, <4>1
      <4>3. Closed(r)
        BY <1>3
      <4>4. row' = row
        BY <1>1
      <4>5. Len(charges'[r]) <= 1
        BY <2>5
      <4> HIDE DEF r, entry
      <4> QED
        BY <2>5, <2>6, <4>2, <4>3, <4>4, <4>5 DEF Closed
    <3> QED
      BY <3>1, <3>2 DEF IInv, Charged, Closed
  <2>9. Credited'
    BY <1>1, <2>1, <2>6 DEF IInv, Credited
  <2>10. Returned'
    <3>1. Unchanged => aim[s] = BalanceOf(plan)
      BY <1>4 DEF IInv, Returned, Balances
    <3>2. \A q \in Periods : charges[q] # <<>> => charges'[q] = charges[q]
      BY <2>2, <2>4
    <3>3. \A q \in Periods : Range(charges[q]) \subseteq Range(charges'[q])
      BY <2>2, <2>4 DEF Range
    <3>4. Unchanged => \A q \in Periods : \A i \in DOMAIN charges'[q] : charges'[q][i].to = BalanceOf(plan)
      BY <2>4, <2>5, <3>1 DEF IInv, Returned
    <3>5. \A q \in Periods : Reported(q) => Reported(q)'
      BY <1>1, <2>5, <3>2 DEF Reported
    <3>6. \A x \in Settlers : at[x] = "mark" => Held(x) \in Periods
      BY HeldOK DEF IInv, Work, Settling
    <3>7. Unchanged' => CreditReturnsCharge'
      BY <1>7, <2>1, <3>3 DEF IInv, Returned, Unchanged, CreditReturnsCharge
    <3>8. \A q \in Periods : q = r => Reported(q)'
      BY <2>5 DEF Reported
    <3> QED
      BY <1>1, <1>3, <1>6, <1>7, <2>5, <3>1, <3>4, <3>5, <3>6, <3>7, <3>8
      DEF IInv, Returned, Unchanged, OthersStay
  <2> QED
    BY <1>5, <1>6, <1>8, <2>7, <2>8, <2>9, <2>10 DEF IInv
<1> QED
  BY <1>2, <1>9, <1>10

\* A charge is given back.
LEMMA CreditStep ==
  ASSUME IInv, NEW p \in Passes, Credit(p)
  PROVE  IInv'
<1> DEFINE r == Held(p)
           entry == [to |-> row[r].balance, ended |-> row[r].ended]
<1>1. /\ UNCHANGED <<row, age, waiver, plan, cached>>
      /\ at[p] = "credit" /\ at[p] \in Crediting /\ p \in Settlers
  BY Apart DEF Credit, Calls, time, plans, Crediting
<1> DEFINE Outcome ==
             /\ UNCHANGED trouble \/ Meet("fault")
             /\ Leave(p) \/ (Goto(p, "markcredited") /\ UNCHANGED <<aim, todo>>)
             /\ \/ UNCHANGED autumn
                \/ /\ row[r].balance \in Balances /\ GiveBack(r)
                   /\ \E known \in Known : known # "per_run"
<1>2. Outcome
  <2>1. CASE Goto(p, "markcredited") /\ UNCHANGED <<aim, todo, autumn, trouble>>
    BY <2>1
  <2>2. ASSUME row[r].balance \in Balances, NEW known \in Known,
               Calls(IF known = "per_run" THEN UNCHANGED autumn ELSE GiveBack(r), UNCHANGED autumn,
                     Goto(p, "markcredited") /\ UNCHANGED <<aim, todo>>, Leave(p))
        PROVE  Outcome
    <3>1. CASE known = "per_run"
      BY <2>2, <3>1 DEF Calls
    <3>2. CASE known # "per_run"
      BY <2>2, <3>2 DEF Calls
    <3> QED
      BY <3>1, <3>2
  <2>3. \/ Goto(p, "markcredited") /\ UNCHANGED <<aim, todo, autumn, trouble>>
        \/ /\ row[r].balance \in Balances
           /\ \E known \in Known :
                Calls(IF known = "per_run" THEN UNCHANGED autumn ELSE GiveBack(r), UNCHANGED autumn,
                      Goto(p, "markcredited") /\ UNCHANGED <<aim, todo>>, Leave(p))
    BY DEF Credit, Balances
  <2> QED
    BY <2>1, <2>2, <2>3
<1>3. r \in Periods /\ row[r].state = "billed" /\ waiver[r] \in {"recent", "late"}
  <2>1. r \in Periods /\ r \in Range(todo[p])
    BY <1>1, HeldOK DEF IInv, Work
  <2> QED
    BY <1>1, <2>1 DEF IInv, Work, Listing
<1>4. RowTyped' /\ RowsKept
  BY <1>1 DEF IInv, RowTyped, Rows, RowsKept, Closed, time
<1>5. aim[p] = "null" /\ aim \in [Settlers -> Balances \cup {"null"}]
  BY <1>1 DEF IInv, Work, Aimed, WorkTyped
<1>6. Work' /\ OthersStay(p) /\ at'[p] # "mark" /\ aim'[p] = "null"
  <2>1. CASE Leave(p)
    BY <1>1, <1>4, <2>1, GoesOff DEF IInv
  <2>2. CASE Goto(p, "markcredited") /\ UNCHANGED <<aim, todo>>
    BY <1>1, <1>4, <1>5, <2>2, GoesOn DEF IInv, Crediting
  <2> QED
    BY <1>2, <2>1, <2>2
<1>7. trouble' \in [TroubleKinds -> Nat] /\ trouble'["replan"] = trouble["replan"]
  BY <1>2, CallsOK DEF IInv
<1>8. CASE UNCHANGED autumn
  <2>1. TimeTyped' /\ WorldTyped' /\ AutumnTyped' /\ Charged' /\ Credited'
    BY <1>1, <1>4, <1>7, <1>8, QuietKept DEF autumn
  <2>2. Returned'
    BY <1>1, <1>5, <1>6, <1>7, <1>8, ReturnedKept DEF IInv, autumn
  <2> QED
    BY <1>4, <1>6, <2>1, <2>2 DEF IInv
<1>9. CASE /\ row[r].balance \in Balances /\ GiveBack(r) /\ \E known \in Known : known # "per_run"
           /\ ~UNCHANGED autumn
  <2>1. /\ keys[r]["credit"] = "unused" /\ UNCHANGED charges
        /\ credits' = [credits EXCEPT ![r] = Append(@, entry)]
        /\ keys' = [keys EXCEPT ![r]["credit"] = KeyAge(waiver[r])]
    BY <1>9 DEF GiveBack
  <2>2. credits[r] = <<>>
    BY <1>3, <2>1 DEF IInv, Credited
  <2>3. credits \in [Periods -> Seq(Entry)] /\ entry \in Entry
    BY <1>3, <1>9 DEF IInv, AutumnTyped, Entry, RowTyped, Rows, Ends
  <2>4. /\ credits' \in [Periods -> Seq(Entry)]
        /\ credits'[r] = <<entry>> /\ \A q \in Periods : q # r => credits'[q] = credits[q]
    BY <1>3, <2>1, <2>2, <2>3
  <2>5. /\ keys' \in [Periods -> [{"charge", "credit"} -> {"unused", "early", "late"}]]
        /\ keys'[r]["credit"] # "unused" /\ keys'[r]["charge"] = keys[r]["charge"]
        /\ \A q \in Periods : q # r => keys'[q] = keys[q]
    BY <1>3, <2>1 DEF IInv, AutumnTyped, KeyAge
  <2>6. TimeTyped' /\ WorldTyped' /\ AutumnTyped'
    BY <1>1, <1>7, <2>1, <2>4, <2>5 DEF IInv, TimeTyped, WorldTyped, AutumnTyped
  <2>7. Charged'
    BY <1>1, <2>1, <2>5 DEF IInv, Charged, Closed
  <2>8. Credited'
    <3>1. \A q \in Periods : q # r => keys'[q] = keys[q] /\ credits'[q] = credits[q]
      BY <2>4, <2>5
    <3>2. keys'[r]["credit"] # "unused" /\ Len(credits'[r]) = 1 /\ waiver[r] # "null"
      BY <1>3, <2>4, <2>5
    <3>3. waiver' = waiver
      BY <1>1
    <3>4. Credited
      BY DEF IInv
    <3> HIDE DEF r, entry
    <3>5. ASSUME NEW q \in Periods
          PROVE  /\ keys'[q]["credit"] = "unused" => credits'[q] = <<>> \/ waiver'[q] = "forgotten"
                 /\ Len(credits'[q]) <= (IF waiver'[q] = "null" THEN 0 ELSE 1)
      <4>1. CASE q = r
        <5>1. keys'[q]["credit"] # "unused"
          BY <3>2, <4>1
        <5>2. Len(credits'[q]) = 1
          BY <3>2, <4>1
        <5>3. waiver'[q] # "null"
          BY <3>2, <3>3, <4>1
        <5> QED
          BY <5>1, <5>2, <5>3
      <4>2. CASE q # r
        BY <3>1, <3>3, <3>4, <4>2 DEF Credited
      <4> QED
        BY <4>1, <4>2
    <3> QED
      BY <3>5 DEF Credited
  <2>9. Unchanged => entry \in Range(charges[r])
    <3> SUFFICES ASSUME Unchanged PROVE entry \in Range(charges[r])
      OBVIOUS
    <3>1. row[r].balance = BalanceOf(plan) /\ plan # "per_run" /\ charges[r] # <<>>
      BY <1>3, <1>9 DEF IInv, Returned, Reported, Known, Balances
    <3>2. charges[r] \in Seq(Entry) /\ 1 \in DOMAIN charges[r]
      BY <1>3, <3>1, EmptySeq DEF IInv, AutumnTyped
    <3>3. /\ charges[r][1] \in Entry /\ charges[r][1].to = BalanceOf(plan)
          /\ charges[r][1].ended = row[r].ended
      BY <1>3, <3>2 DEF IInv, Charged, Returned
    <3>4. charges[r][1] = entry
      BY <3>1, <3>3 DEF Entry
    <3> QED
      BY <3>2, <3>4 DEF Range
  <2>10. Unchanged' => CreditReturnsCharge'
    <3>1. Range(<<entry>>) = {entry}
      BY DEF Range
    <3> QED
      BY <1>7, <2>1, <2>4, <2>9, <3>1 DEF IInv, Returned, Unchanged, CreditReturnsCharge
  <2>11. Returned'
    BY <1>1, <1>6, <1>7, <2>1, <2>10 DEF IInv, Returned, Unchanged, Reported, OthersStay
  <2> QED
    BY <1>4, <1>6, <2>6, <2>7, <2>8, <2>11 DEF IInv
<1> QED
  BY <1>2, <1>8, <1>9

\* The row is marked as credited.
LEMMA MarkCreditedStep ==
  ASSUME IInv, NEW p \in Passes, MarkCredited(p)
  PROVE  IInv'
<1>1. /\ UNCHANGED <<age, waiver, plan, cached, keys, charges, credits>>
      /\ UNCHANGED row \/ row' = [row EXCEPT ![Held(p)].credited = TRUE]
      /\ UNCHANGED trouble \/ Meet("fault")
      /\ Leave(p) /\ at[p] = "markcredited" /\ at[p] \in Crediting /\ p \in Settlers
  BY Apart DEF MarkCredited, Calls, time, plans, autumn, Crediting
<1>2. Held(p) \in Periods
  BY <1>1, HeldOK DEF IInv, Work
<1>3. /\ RowTyped' /\ RowsKept
      /\ \A r \in Periods : row'[r].state = row[r].state /\ row'[r].balance = row[r].balance
                            /\ row'[r].ended = row[r].ended
  <2>1. CASE UNCHANGED row
    BY <1>1, <2>1 DEF IInv, RowTyped, Rows, RowsKept, Closed, time
  <2>2. CASE row' = [row EXCEPT ![Held(p)].credited = TRUE]
    <3>1. \A r \in Periods : /\ row'[r].state = row[r].state /\ row'[r].balance = row[r].balance
                              /\ row'[r].ended = row[r].ended
      BY <1>2, <2>2 DEF IInv, RowTyped, Rows
    <3>2. row' \in [Periods -> Rows]
      <4>1. [row[Held(p)] EXCEPT !.credited = TRUE] \in Rows
        BY <1>2 DEF IInv, RowTyped, Rows
      <4> QED
        BY <1>2, <2>2, <4>1 DEF IInv, RowTyped
    <3> QED
      BY <1>1, <3>1, <3>2 DEF IInv, RowTyped, Rows, RowsKept, Closed, time
  <2> QED
    BY <1>1, <2>1, <2>2
<1>4. Work' /\ OthersStay(p) /\ at'[p] # "mark" /\ aim'[p] = "null"
  BY <1>1, <1>3, GoesOff DEF IInv
<1>5. trouble' \in [TroubleKinds -> Nat] /\ trouble'["replan"] = trouble["replan"]
  BY <1>1, CallsOK DEF IInv
<1>6. Returned'
  BY <1>1, <1>3, <1>4, <1>5, ReturnedKept DEF IInv
<1>7. TimeTyped' /\ WorldTyped' /\ AutumnTyped' /\ Charged' /\ Credited'
  BY <1>1, <1>3, <1>5, QuietKept
<1> QED
  BY <1>3, <1>4, <1>6, <1>7 DEF IInv

\* A pass closes abandoned periods.
LEMMA CloseStaleStep ==
  ASSUME IInv, NEW p \in Passes, CloseStale(p)
  PROVE  IInv'
<1>1. /\ UNCHANGED <<age, waiver, plan, cached, keys, charges, credits, aim, todo>>
      /\ UNCHANGED row \/ Swept
      /\ UNCHANGED trouble \/ Meet("fault")
      /\ Goto(p, "list") \/ Goto(p, "listcredits")
      /\ at[p] = "idle" /\ p \in Settlers
  BY Apart DEF CloseStale, Calls, time, plans, autumn
<1>2. /\ RowTyped' /\ RowsKept
      /\ \A r \in Periods : Closed(r) => row'[r].ended = row[r].ended
      /\ \A r \in Periods : row'[r].state = "billed" =>
            row[r].state = "billed" /\ row'[r].balance = row[r].balance
  <2>1. CASE UNCHANGED row
    BY <1>1, <2>1 DEF IInv, RowTyped, Rows, RowsKept, Closed, time
  <2>2. CASE Swept
    <3>1. \A r \in Periods : \/ row'[r] = row[r]
                             \/ /\ row[r].state = "open" /\ row'[r].state = "stopped"
                                /\ row'[r].ended = "sweep" /\ row'[r].balance = row[r].balance
      BY <2>2 DEF IInv, RowTyped, Rows, Swept, Abandoned
    <3>2. row' \in [Periods -> Rows]
      <4>1. \A r \in Periods : [row[r] EXCEPT !.state = "stopped", !.ended = "sweep"] \in Rows
        BY DEF IInv, RowTyped, Rows, Ends
      <4> QED
        BY <2>2, <4>1 DEF IInv, RowTyped, Swept
    <3> QED
      BY <1>1, <3>1, <3>2 DEF IInv, RowTyped, Rows, RowsKept, Closed, time
  <2> QED
    BY <1>1, <2>1, <2>2
<1>3. Work' /\ OthersStay(p) /\ at'[p] # "mark" /\ aim'[p] = "null"
  <2>1. todo \in [Passes -> Seq(Periods)] /\ todo[p] = <<>>
    BY <1>1 DEF IInv, Work, WorkTyped, Settling, Crediting
  <2>2. \A pc \in {"list", "listcredits"} : Goto(p, pc) =>
           Work' /\ OthersStay(p) /\ at'[p] = pc /\ aim'[p] = "null"
    BY <1>1, <1>2, <2>1, PassGoes DEF IInv
  <2> QED
    BY <1>1, <2>2
<1>4. trouble' \in [TroubleKinds -> Nat] /\ trouble'["replan"] = trouble["replan"]
  BY <1>1, CallsOK DEF IInv
<1>5. Returned'
  BY <1>1, <1>2, <1>3, <1>4, ReturnedKept DEF IInv
<1>6. TimeTyped' /\ WorldTyped' /\ AutumnTyped' /\ Charged' /\ Credited'
  BY <1>1, <1>2, <1>4, QuietKept
<1> QED
  BY <1>2, <1>3, <1>5, <1>6 DEF IInv

\* A pass that changes no row but the list it works on.
LEMMA PassStepOK ==
  ASSUME IInv, NEW p \in Passes, at[p] \notin {"track", "mark"},
         UNCHANGED <<row, age, waiver, plan, cached, keys, charges, credits, aim>>,
         trouble' \in [TroubleKinds -> Nat], trouble'["replan"] = trouble["replan"],
         NEW pc \in {"idle", "list", "listcredits", "setcharge", "credit"}, Goto(p, pc),
         todo' \in [Passes -> Seq(Periods)], \A x \in Passes : x # p => todo'[x] = todo[x],
         pc \in {"setcharge", "credit"} <=> todo'[p] # <<>>,
         pc = "setcharge" => \A r \in Range(todo'[p]) : Closed(r) /\ age[r] # "forgotten",
         pc = "credit" => \A r \in Range(todo'[p]) :
                            row[r].state = "billed" /\ waiver[r] \in {"recent", "late"}
  PROVE  IInv'
<1>1. RowTyped' /\ RowsKept
  BY DEF IInv, RowTyped, Rows, RowsKept, Closed, time
<1>2. Work' /\ OthersStay(p) /\ at'[p] = pc /\ aim'[p] = "null"
  BY <1>1, PassGoes DEF IInv, Closed
<1>3. Returned'
  BY <1>2, Apart, ReturnedKept DEF IInv
<1>4. TimeTyped' /\ WorldTyped' /\ AutumnTyped' /\ Charged' /\ Credited'
  BY <1>1, QuietKept
<1> QED
  BY <1>1, <1>2, <1>3, <1>4 DEF IInv

\* A pass lists what to report.
LEMMA ListUnbilledStep ==
  ASSUME IInv, NEW p \in Passes, ListUnbilled(p)
  PROVE  IInv'
<1> DEFINE listed == {r \in Periods : Listed(r)}
<1>1. /\ UNCHANGED <<row, age, waiver, plan, cached, keys, charges, credits, aim>>
      /\ at[p] = "list" /\ at[p] \notin Settling \cup Crediting
  BY DEF ListUnbilled, time, plans, autumn, Settling, Crediting
<1>2. todo \in [Passes -> Seq(Periods)] /\ todo[p] = <<>>
  BY <1>1 DEF IInv, Work, WorkTyped
<1>3. CASE Take(p, listed, "setcharge", "listcredits") /\ UNCHANGED trouble
  <2>1. /\ todo' \in [Passes -> Seq(Periods)] /\ Range(todo'[p]) \subseteq listed
        /\ \A x \in Passes : x # p => todo'[x] = todo[x]
        /\ todo'[p] = <<>> <=> listed = {}
        /\ Goto(p, IF listed = {} THEN "listcredits" ELSE "setcharge")
    BY <1>3, TakeOK DEF IInv, Work, PC, Settling
  <2>2. \A r \in listed : Closed(r) /\ age[r] # "forgotten"
    BY DEF Listed, Closed
  <2>3. trouble' \in [TroubleKinds -> Nat] /\ trouble'["replan"] = trouble["replan"]
    BY <1>3 DEF IInv, WorldTyped
  <2>4. CASE listed = {}
    <3>1. Goto(p, "listcredits")
      BY <2>1, <2>4
    <3> QED
      BY <1>1, <2>1, <2>3, <2>4, <3>1, PassStepOK
  <2>5. CASE listed # {}
    <3>1. Goto(p, "setcharge")
      BY <2>1, <2>5
    <3>2. \A r \in Range(todo'[p]) : Closed(r) /\ age[r] # "forgotten"
      BY <2>1, <2>2
    <3> QED
      BY <1>1, <2>1, <2>3, <2>5, <3>1, <3>2, PassStepOK
  <2> QED
    BY <2>4, <2>5
<1>4. CASE Meet("fault") /\ Goto(p, "listcredits") /\ UNCHANGED todo
  BY <1>1, <1>2, <1>4, CallsOK, PassStepOK DEF IInv
<1> QED
  BY <1>3, <1>4 DEF ListUnbilled

\* A pass lists what to give back.
LEMMA ListUncreditedStep ==
  ASSUME IInv, NEW p \in Passes, ListUncredited(p)
  PROVE  IInv'
<1> DEFINE listed == {r \in Periods : Uncredited(r)}
<1>1. /\ UNCHANGED <<row, age, waiver, plan, cached, keys, charges, credits, aim>>
      /\ at[p] = "listcredits" /\ at[p] \notin Settling \cup Crediting
  BY DEF ListUncredited, time, plans, autumn, Settling, Crediting
<1>2. todo \in [Passes -> Seq(Periods)] /\ todo[p] = <<>>
  BY <1>1 DEF IInv, Work, WorkTyped
<1>3. CASE Take(p, listed, "credit", "idle") /\ UNCHANGED trouble
  <2>1. /\ todo' \in [Passes -> Seq(Periods)] /\ Range(todo'[p]) \subseteq listed
        /\ \A x \in Passes : x # p => todo'[x] = todo[x]
        /\ todo'[p] = <<>> <=> listed = {}
        /\ Goto(p, IF listed = {} THEN "idle" ELSE "credit")
    BY <1>3, TakeOK DEF IInv, Work, PC, Crediting
  <2>2. \A r \in listed : row[r].state = "billed" /\ waiver[r] \in {"recent", "late"}
    BY DEF Uncredited
  <2>3. trouble' \in [TroubleKinds -> Nat] /\ trouble'["replan"] = trouble["replan"]
    BY <1>3 DEF IInv, WorldTyped
  <2>4. CASE listed = {}
    <3>1. Goto(p, "idle")
      BY <2>1, <2>4
    <3> QED
      BY <1>1, <2>1, <2>3, <2>4, <3>1, PassStepOK
  <2>5. CASE listed # {}
    <3>1. Goto(p, "credit")
      BY <2>1, <2>5
    <3>2. \A r \in Range(todo'[p]) : row[r].state = "billed" /\ waiver[r] \in {"recent", "late"}
      BY <2>1, <2>2
    <3> QED
      BY <1>1, <2>1, <2>3, <2>5, <3>1, <3>2, PassStepOK
  <2> QED
    BY <2>4, <2>5
<1>4. CASE Meet("fault") /\ Goto(p, "idle") /\ UNCHANGED todo
  BY <1>1, <1>2, <1>4, CallsOK, PassStepOK DEF IInv
<1> QED
  BY <1>3, <1>4 DEF ListUncredited

\* A pass leaves what it has not begun.
LEMMA MeetDeadlineStep ==
  ASSUME IInv, NEW p \in Passes, MeetDeadline(p)
  PROVE  IInv'
<1>1. /\ UNCHANGED <<row, age, waiver, plan, cached, keys, charges, credits, aim>>
      /\ at[p] \notin {"track", "mark"} /\ Meet("slow")
      /\ todo' = [todo EXCEPT ![p] = <<>>]
      /\ Goto(p, "listcredits") \/ Goto(p, "idle")
  BY DEF MeetDeadline, time, plans, autumn
<1>2. /\ todo' \in [Passes -> Seq(Periods)] /\ todo'[p] = <<>>
      /\ \A x \in Passes : x # p => todo'[x] = todo[x]
  BY <1>1 DEF IInv, Work, WorkTyped
<1>3. trouble' \in [TroubleKinds -> Nat] /\ trouble'["replan"] = trouble["replan"]
  BY <1>1, MeetOK DEF IInv, TroubleKinds
<1>4. CASE Goto(p, "listcredits")
  BY <1>1, <1>2, <1>3, <1>4, PassStepOK
<1>5. CASE Goto(p, "idle")
  BY <1>1, <1>2, <1>3, <1>5, PassStepOK
<1> QED
  BY <1>1, <1>4, <1>5

\* A process dies.
LEMMA CrashStep ==
  ASSUME IInv, NEW s \in Settlers, Crash(s)
  PROVE  IInv'
<1> DEFINE end == IF s \in Periods THEN "dead" ELSE "idle"
<1>1. /\ UNCHANGED <<row, age, waiver, plan, cached, keys, charges, credits>>
      /\ Meet("crash") /\ Goto(s, end) /\ aim' = [aim EXCEPT ![s] = "null"]
      /\ todo' = [p \in Passes |-> IF p = s THEN <<>> ELSE todo[p]]
      /\ at[s] # "none"
  BY DEF Crash, time, plans, autumn
<1>2. RowTyped' /\ RowsKept
  BY <1>1 DEF IInv, RowTyped, Rows, RowsKept, Closed, time
<1>3. trouble' \in [TroubleKinds -> Nat] /\ trouble'["replan"] = trouble["replan"]
  BY <1>1, MeetOK DEF IInv, TroubleKinds
<1>4. /\ at' \in [Settlers -> PC] /\ at'[s] = end
      /\ \A x \in Settlers : x # s => at'[x] = at[x]
  BY <1>1, GotoOK DEF IInv, Work, PC
<1>5. /\ aim' \in [Settlers -> Balances \cup {"null"}] /\ aim'[s] = "null"
      /\ \A x \in Settlers : x # s => aim'[x] = aim[x]
  BY <1>1 DEF IInv, Work, WorkTyped
<1>6. /\ todo' \in [Passes -> Seq(Periods)]
      /\ s \in Passes => todo'[s] = <<>>
      /\ \A p \in Passes : p # s => todo'[p] = todo[p]
  BY <1>1 DEF IInv, Work, WorkTyped
<1>7. Work'
  <2>1. WorkTyped'
    <3>1. s \in Passes => at'[s] = "idle"
      BY <1>4, Apart
    <3>2. s \in Passes => (at'[s] \in Settling \cup Crediting <=> todo'[s] # <<>>)
      BY <1>6, <3>1 DEF Settling, Crediting
    <3>3. \A p \in Passes : at'[p] \in Settling \cup Crediting <=> todo'[p] # <<>>
      BY <1>4, <1>6, <3>2, Apart DEF IInv, Work, WorkTyped
    <3> QED
      BY <1>4, <1>5, <1>6, <3>3 DEF WorkTyped
  <2>2. Metered'
    BY <1>1, <1>4, Apart DEF IInv, Work, Metered, Closed, Settling
  <2>3. Listing'
    BY <1>1, <1>4, <1>6, Apart DEF IInv, Work, Listing, Closed, Settling, Crediting
  <2>4. Aimed'
    BY <1>4, <1>5 DEF IInv, Work, Aimed
  <2> QED
    BY <2>1, <2>2, <2>3, <2>4 DEF Work
<1>8. OthersStay(s)
  BY <1>4, <1>5, <1>6, Apart DEF OthersStay, Held
<1>9. Returned'
  BY <1>1, <1>3, <1>4, <1>5, <1>8, ReturnedKept DEF IInv
<1>10. TimeTyped' /\ WorldTyped' /\ AutumnTyped' /\ Charged' /\ Credited'
  BY <1>1, <1>2, <1>3, QuietKept
<1> QED
  BY <1>2, <1>7, <1>9, <1>10 DEF IInv

\* A meter that writes nothing but its own open row.
LEMMA MeterStepOK ==
  ASSUME IInv, NEW r \in Periods, at[r] \in {"none", "metering"},
         UNCHANGED <<waiver, plan, cached, aim, todo, keys, charges, credits>>,
         UNCHANGED trouble \/ Meet("fault"),
         NEW pc \in {"metering", "done", "setcharge"}, Goto(r, pc), RowTyped', age' \in [Periods -> Ages],
         \A q \in Periods : q # r \/ Closed(q) => row'[q] = row[q] /\ age'[q] = age[q],
         row'[r].state # "billed" \/ Closed(r), pc = "setcharge" => Closed(r)' /\ age'[r] = "new"
  PROVE  IInv'
<1>1. Work' /\ OthersStay(r) /\ at'[r] = pc /\ aim'[r] = "null"
  BY MeterGoes DEF IInv
<1>2. trouble' \in [TroubleKinds -> Nat] /\ trouble'["replan"] = trouble["replan"]
  BY CallsOK DEF IInv
<1>3. TimeTyped' /\ WorldTyped' /\ AutumnTyped'
  BY <1>2 DEF IInv, TimeTyped, WorldTyped, AutumnTyped
<1>4. Charged'
  <2>1. charges[r] = <<>> \/ Closed(r)
    BY DEF IInv, Charged
  <2>2. Closed(r) \/ keys[r]["charge"] = "unused"
    BY <2>1 DEF IInv, Charged
  <2> QED
    BY <2>1, <2>2 DEF IInv, Charged, Closed
<1>5. Credited'
  BY DEF IInv, Credited
<1>6. Returned'
  <2>1. \A q \in Periods : row'[q].state = "billed" =>
            row[q].state = "billed" /\ row'[q].balance = row[q].balance
    BY DEF Closed
  <2> QED
    BY <1>1, <1>2, <2>1, Apart, ReturnedKept DEF IInv
<1> QED
  BY <1>1, <1>3, <1>4, <1>5, <1>6 DEF IInv

\* A row and a stop have their types.
LEMMA RowOK ==
  ASSUME RowTyped, NEW r \in Periods, NEW new,
         new \in Rows,
         (new.state \in {"none", "open"}) <=> (new.ended = "no"),
         row' = [row EXCEPT ![r] = new]
  PROVE  RowTyped' /\ row'[r] = new /\ \A q \in Periods : q # r => row'[q] = row[q]
BY DEF RowTyped, Rows

\* A period begins.
LEMMA StartMeterStep ==
  ASSUME IInv, NEW r \in Periods, StartMeter(r)
  PROVE  IInv'
<1>1. PICK billable \in BOOLEAN :
        Calls(Opened(r, billable), UNCHANGED <<row, age>>, Goto(r, "metering"), Goto(r, "done"))
  BY DEF StartMeter
<1>2. /\ UNCHANGED <<waiver, plan, cached, aim, todo, keys, charges, credits>>
      /\ UNCHANGED trouble \/ Meet("fault")
      /\ Opened(r, billable) \/ UNCHANGED <<row, age>>
      /\ Goto(r, "metering") \/ Goto(r, "done")
      /\ at[r] = "none" /\ row[r].state = "none"
  BY <1>1 DEF StartMeter, Calls, plans, autumn, IInv, Work, Metered
<1>3. /\ RowTyped' /\ age' \in [Periods -> Ages]
      /\ \A q \in Periods : q # r \/ Closed(q) => row'[q] = row[q] /\ age'[q] = age[q]
      /\ row'[r].state # "billed"
  <2>1. CASE UNCHANGED <<row, age>>
    BY <1>2, <2>1 DEF IInv, RowTyped, Rows, TimeTyped, Closed
  <2>2. CASE Opened(r, billable)
    <3> DEFINE new == [row[r] EXCEPT !.state = "open", !.billable = billable]
    <3>1. row' = [row EXCEPT ![r] = new] /\ age' = [age EXCEPT ![r] = "new"]
      BY <2>2 DEF Opened, IInv, RowTyped, Rows
    <3>2. /\ new \in Rows
          /\ new.state = "open" /\ new.ended = "no"
      BY <1>2 DEF IInv, RowTyped, Rows
    <3> HIDE DEF new
    <3>3. RowTyped' /\ row'[r] = new /\ \A q \in Periods : q # r => row'[q] = row[q]
      BY <3>1, <3>2, RowOK DEF IInv
    <3> QED
      BY <1>2, <3>1, <3>2, <3>3 DEF IInv, TimeTyped, Closed, Ages
  <2> QED
    BY <1>2, <2>1, <2>2
<1>4. CASE Goto(r, "metering")
  BY <1>2, <1>3, <1>4, MeterStepOK
<1>5. CASE Goto(r, "done")
  BY <1>2, <1>3, <1>5, MeterStepOK
<1> QED
  BY <1>2, <1>4, <1>5

\* A meter stops its period.
LEMMA StopMeterStep ==
  ASSUME IInv, NEW r \in Periods, StopMeter(r)
  PROVE  IInv'
<1>1. /\ UNCHANGED <<waiver, plan, cached, aim, todo, keys, charges, credits>>
      /\ UNCHANGED trouble \/ Meet("fault")
      /\ at[r] = "metering"
      /\ \/ Stopped(r) /\ row[r].state = "open" /\ Goto(r, "setcharge")
         \/ (Stopped(r) \/ UNCHANGED <<row, age>>) /\ Goto(r, "done")
  BY DEF StopMeter, Calls, plans, autumn
<1>2. CASE UNCHANGED <<row, age>> /\ Goto(r, "done")
  BY <1>1, <1>2, MeterStepOK DEF IInv, RowTyped, Rows, TimeTyped, Closed
<1>3. CASE Stopped(r) /\ row[r].state # "open"
  BY <1>1, <1>2, <1>3 DEF Stopped
<1>4. CASE Stopped(r) /\ row[r].state = "open"
  <2> DEFINE new == [row[r] EXCEPT !.state = "stopped", !.ended = "meter"]
  <2>1. row' = [row EXCEPT ![r] = new] /\ age' = [age EXCEPT ![r] = "new"]
    BY <1>4 DEF Stopped, IInv, RowTyped, Rows
  <2>2. /\ new \in Rows
        /\ new.state = "stopped" /\ new.ended = "meter"
    BY DEF IInv, RowTyped, Rows, Ends
  <2> HIDE DEF new
  <2>3. RowTyped' /\ row'[r] = new /\ \A q \in Periods : q # r => row'[q] = row[q]
    BY <2>1, <2>2, RowOK DEF IInv
  <2>4. /\ age' \in [Periods -> Ages] /\ age'[r] = "new"
        /\ \A q \in Periods : q # r => age'[q] = age[q]
    BY <2>1 DEF IInv, TimeTyped, Ages
  <2>5. /\ \A q \in Periods : q # r \/ Closed(q) => row'[q] = row[q] /\ age'[q] = age[q]
        /\ row'[r].state # "billed" /\ Closed(r)'
    BY <1>4, <2>2, <2>3, <2>4 DEF Closed
  <2>6. CASE Goto(r, "setcharge")
    BY <1>1, <2>3, <2>4, <2>5, <2>6, MeterStepOK
  <2>7. CASE Goto(r, "done")
    BY <1>1, <2>3, <2>4, <2>5, <2>7, MeterStepOK
  <2> QED
    BY <1>1, <2>6, <2>7
<1> QED
  BY <1>1, <1>2, <1>3, <1>4

\* Time, the plan and what the world remembers change, the settlers do not.
LEMMA SettlersStay ==
  ASSUME IInv, UNCHANGED <<row, at, aim, todo, charges, credits>>, TimeTyped', WorldTyped', AutumnTyped',
         \A r \in Periods : /\ at[r] \in Settling => age'[r] \in {"new", "due", "stale"}
                            /\ age'[r] = "forgotten" => age[r] = "forgotten" \/ ~InPass(r, Settling)
                            /\ InPass(r, Crediting) => waiver'[r] \in {"recent", "late"},
         Charged', Credited', Returned'
  PROVE  IInv'
<1>1. RowTyped' /\ WorkTyped' /\ Aimed'
  BY DEF IInv, Work, RowTyped, Rows, WorkTyped, Aimed
<1>2. Metered'
  BY DEF IInv, Work, Metered, Closed
<1>3. Listing'
  <2>1. \A p \in Passes : \A q \in Range(todo[p]) : q \in Periods
    BY DEF IInv, Work, WorkTyped, Range
  <2> QED
    BY <2>1 DEF IInv, Work, Listing, InPass, Closed
<1> QED
  BY <1>1, <1>2, <1>3 DEF IInv, Work

\* What the settlers hold in passes.
LEMMA HeldInTime ==
  ASSUME IInv, NEW r \in Periods
  PROVE  /\ at[r] \in Settling => Closed(r) /\ age[r] \in {"new", "due", "stale"}
         /\ InPass(r, Settling) => age[r] # "forgotten"
         /\ InPass(r, Crediting) => waiver[r] \in {"recent", "late"}
BY DEF IInv, Work, Metered, Listing, InPass

\* A meter tells that its period is under way.
LEMMA HeartbeatStep ==
  ASSUME IInv, NEW r \in Periods, Heartbeat(r)
  PROVE  IInv'
<1>1. /\ UNCHANGED <<row, waiver, plan, cached, at, aim, todo, keys, charges, credits, trouble>>
      /\ row[r].state = "open" /\ age' = [age EXCEPT ![r] = "new"]
  BY DEF Heartbeat, plans, autumn
<1>2. /\ age' \in [Periods -> Ages] /\ age'[r] = "new" /\ \A q \in Periods : q # r => age'[q] = age[q]
  BY <1>1 DEF IInv, TimeTyped, Ages
<1>3. TimeTyped' /\ WorldTyped' /\ AutumnTyped'
  BY <1>1, <1>2 DEF IInv, TimeTyped, WorldTyped, AutumnTyped
<1>4. Charged'
  <2>1. charges[r] = <<>> /\ keys[r]["charge"] = "unused"
    BY <1>1 DEF IInv, Charged, Closed
  <2> QED
    BY <1>1, <1>2, <2>1 DEF IInv, Charged, Closed
<1>5. Credited' /\ Returned'
  BY <1>1 DEF IInv, Credited, Returned, Unchanged, Reported, Held, CreditReturnsCharge
<1> QED
  BY <1>1, <1>2, <1>3, <1>4, <1>5, HeldInTime, SettlersStay

\* The usage of a period is waived.
LEMMA WaiveStep ==
  ASSUME IInv, NEW r \in Periods, Waive(r)
  PROVE  IInv'
<1>1. /\ UNCHANGED <<row, age, plan, cached, at, aim, todo, keys, charges, credits, trouble>>
      /\ waiver[r] = "null" /\ waiver' = [waiver EXCEPT ![r] = "recent"]
  BY DEF Waive, plans, autumn
<1>2. /\ waiver' \in [Periods -> {"null", "recent", "late", "forgotten"}] /\ waiver'[r] = "recent"
      /\ \A q \in Periods : q # r => waiver'[q] = waiver[q]
  BY <1>1 DEF IInv, TimeTyped
<1>3. TimeTyped' /\ WorldTyped' /\ AutumnTyped'
  BY <1>1, <1>2 DEF IInv, TimeTyped, WorldTyped, AutumnTyped
<1>4. Charged'
  BY <1>1 DEF IInv, Charged, Closed
<1>5. Credited'
  <2>1. credits[r] \in Seq(Entry) /\ Len(credits[r]) <= 0
    BY <1>1 DEF IInv, Credited, AutumnTyped
  <2>2. credits[r] = <<>>
    BY <2>1, EmptySeq
  <2> QED
    BY <1>1, <1>2, <2>1, <2>2 DEF IInv, Credited
<1>6. Returned'
  BY <1>1 DEF IInv, Returned, Unchanged, Reported, Held, CreditReturnsCharge
<1> QED
  BY <1>1, <1>2, <1>3, <1>4, <1>5, <1>6, HeldInTime, SettlersStay

\* Time passes since the heartbeat.
LEMMA GrowOlderStep ==
  ASSUME IInv, NEW r \in Periods, GrowOlder(r)
  PROVE  IInv'
<1>1. /\ UNCHANGED <<row, waiver, plan, cached, at, aim, todo, charges, credits, trouble>>
      /\ age[r] # "forgotten"
      /\ at[r] \in Settling => age[r] # "stale"
      /\ InPass(r, Settling) => age[r] # "late"
      /\ age' = [age EXCEPT ![r] = Older[@]]
      /\ keys' = [keys EXCEPT ![r]["charge"] = IF age[r] = "late" THEN Expire(@) ELSE @]
  BY DEF GrowOlder, plans
<1>2. age[r] \in {"new", "due", "stale", "late"}
  BY <1>1 DEF IInv, TimeTyped, Ages
<1>3. /\ age' \in [Periods -> Ages] /\ age'[r] = Older[age[r]]
      /\ \A q \in Periods : q # r => age'[q] = age[q]
      /\ age'[r] = "forgotten" <=> age[r] = "late"
      /\ age'[r] \in {"new", "due", "stale"} <=> age[r] \notin {"stale", "late"}
  BY <1>1, <1>2 DEF IInv, TimeTyped, Ages, Older
<1>4. /\ keys' \in [Periods -> [{"charge", "credit"} -> {"unused", "early", "late"}]]
      /\ \A q \in Periods : q # r => keys'[q] = keys[q]
      /\ keys'[r]["credit"] = keys[r]["credit"]
      /\ keys'[r]["charge"] \in {keys[r]["charge"], "unused"}
      /\ age[r] # "late" => keys'[r]["charge"] = keys[r]["charge"]
  BY <1>1 DEF IInv, AutumnTyped, Expire
<1>5. TimeTyped' /\ WorldTyped' /\ AutumnTyped'
  BY <1>1, <1>3, <1>4 DEF IInv, TimeTyped, WorldTyped, AutumnTyped
<1>6. Charged'
  BY <1>1, <1>3, <1>4 DEF IInv, Charged, Closed
<1>7. Credited'
  BY <1>1, <1>4 DEF IInv, Credited
<1>8. Returned'
  BY <1>1 DEF IInv, Returned, Unchanged, Reported, Held, CreditReturnsCharge
<1> QED
  BY <1>1, <1>3, <1>5, <1>6, <1>7, <1>8, HeldInTime, SettlersStay

\* Time passes since the waiver.
LEMMA WaiverGrowsOlderStep ==
  ASSUME IInv, NEW r \in Periods, WaiverGrowsOlder(r)
  PROVE  IInv'
<1>1. /\ UNCHANGED <<row, age, plan, cached, at, aim, todo, charges, credits, trouble>>
      /\ waiver[r] \notin {"null", "forgotten"}
      /\ InPass(r, Crediting) => waiver[r] # "late"
      /\ waiver' = [waiver EXCEPT ![r] = IF @ = "recent" THEN "late" ELSE "forgotten"]
      /\ keys' = [keys EXCEPT ![r]["credit"] = IF waiver[r] = "late" THEN Expire(@) ELSE @]
  BY DEF WaiverGrowsOlder, plans
<1>2. /\ waiver' \in [Periods -> {"null", "recent", "late", "forgotten"}]
      /\ waiver'[r] = IF waiver[r] = "recent" THEN "late" ELSE "forgotten"
      /\ \A q \in Periods : q # r => waiver'[q] = waiver[q]
  BY <1>1 DEF IInv, TimeTyped
<1>3. /\ keys' \in [Periods -> [{"charge", "credit"} -> {"unused", "early", "late"}]]
      /\ \A q \in Periods : q # r => keys'[q] = keys[q]
      /\ keys'[r]["charge"] = keys[r]["charge"]
      /\ waiver[r] # "late" => keys'[r]["credit"] = keys[r]["credit"]
  BY <1>1 DEF IInv, AutumnTyped, Expire
<1>4. waiver[r] \in {"recent", "late"}
  BY <1>1 DEF IInv, TimeTyped
<1>5. TimeTyped' /\ WorldTyped' /\ AutumnTyped'
  BY <1>1, <1>2, <1>3 DEF IInv, TimeTyped, WorldTyped, AutumnTyped
<1>6. Charged'
  BY <1>1, <1>3 DEF IInv, Charged, Closed
<1>7. Credited'
  BY <1>1, <1>2, <1>3, <1>4 DEF IInv, Credited
<1>8. Returned'
  BY <1>1 DEF IInv, Returned, Unchanged, Reported, Held, CreditReturnsCharge
<1> QED
  BY <1>1, <1>2, <1>4, <1>5, <1>6, <1>7, <1>8, HeldInTime, SettlersStay

\* The organization changes its plan.
LEMMA ReplanStep ==
  ASSUME IInv, Replan
  PROVE  IInv'
<1>1. /\ UNCHANGED <<row, age, waiver, at, aim, todo, keys, charges, credits>>
      /\ plan' \in Plans /\ cached' = cached \cup {plan} /\ Meet("replan")
  BY DEF Replan, time, autumn
<1>2. /\ trouble' \in [TroubleKinds -> Nat] /\ trouble'["replan"] = trouble["replan"] - 1
      /\ trouble["replan"] \in Nat
  BY <1>1, MeetOK DEF IInv, TroubleKinds, WorldTyped
<1>3. TimeTyped' /\ WorldTyped' /\ AutumnTyped'
  BY <1>1, <1>2 DEF IInv, TimeTyped, WorldTyped, AutumnTyped
<1>4. Charged' /\ Credited'
  BY <1>1 DEF IInv, Charged, Credited, Closed
<1>5. Returned'
  <2>1. Budget["replan"] \in Nat
    BY SandboxUsageAssumption DEF TroubleKinds
  <2>2. trouble'["replan"] <= Budget["replan"] /\ ~Unchanged'
    BY <1>2, <2>1 DEF IInv, Returned, Unchanged
  <2> QED
    BY <2>2 DEF Returned
<1> QED
  BY <1>1, <1>3, <1>4, <1>5, HeldInTime, SettlersStay

\* The caches of the plan expire.
LEMMA ForgetPlansStep ==
  ASSUME IInv, ForgetPlans
  PROVE  IInv'
<1>1. UNCHANGED <<row, age, waiver, plan, at, aim, todo, keys, charges, credits, trouble>> /\ cached' = {}
  BY DEF ForgetPlans, time, autumn
<1>2. TimeTyped' /\ WorldTyped' /\ AutumnTyped'
  BY <1>1 DEF IInv, TimeTyped, WorldTyped, AutumnTyped
<1>3. Charged' /\ Credited'
  BY <1>1 DEF IInv, Charged, Credited, Closed
<1>4. Returned'
  BY <1>1 DEF IInv, Returned, Unchanged, Reported, Held, CreditReturnsCharge
<1> QED
  BY <1>1, <1>2, <1>3, <1>4, HeldInTime, SettlersStay

-----------------------------------------------------------------------------
(* The invariant. *)

\* Periods that have not begun satisfy the invariant.
LEMMA InitInv == Init => IInv
<1> SUFFICES ASSUME Init PROVE IInv
  OBVIOUS
<1> USE SandboxUsageAssumption DEF Init
<1>1. RowTyped /\ TimeTyped /\ WorldTyped
  BY DEF RowTyped, Rows, TimeTyped, WorldTyped, Ages
<1>2. AutumnTyped
  BY EmptySeq DEF AutumnTyped
<1>3. WorkTyped
  BY EmptySeq, Apart DEF WorkTyped, PC, Settling, Crediting
<1>4. Metered /\ Listing /\ Aimed
  BY Apart DEF Metered, Listing, Aimed, Settling, Crediting
<1>5. Charged /\ Credited
  BY DEF Charged, Credited
<1>6. Returned
  BY DEF Returned, Unchanged, CreditReturnsCharge, Range, TroubleKinds
<1> QED
  BY <1>1, <1>2, <1>3, <1>4, <1>5, <1>6 DEF IInv, Work

\* Every step of the system keeps it.
LEMMA NextInv == IInv /\ [Next]_vars => IInv'
<1> SUFFICES ASSUME IInv, [Next]_vars PROVE IInv'
  OBVIOUS
<1>1. ASSUME NEW s \in Settlers, SettleStep(s) \/ Crash(s) PROVE IInv'
  BY <1>1, SetChargeStep, LookUpPlanStep, TrackStep, MarkBilledStep, CrashStep DEF SettleStep
<1>2. ASSUME NEW r \in Periods,
             MeterStep(r) \/ Heartbeat(r) \/ Waive(r) \/ GrowOlder(r) \/ WaiverGrowsOlder(r)
      PROVE  IInv'
  BY <1>1, <1>2, StartMeterStep, StopMeterStep, HeartbeatStep, WaiveStep, GrowOlderStep,
     WaiverGrowsOlderStep, Apart DEF MeterStep
<1>3. ASSUME NEW p \in Passes, PassStep(p) \/ MeetDeadline(p) PROVE IInv'
  BY <1>1, <1>3, CloseStaleStep, ListUnbilledStep, ListUncreditedStep, CreditStep,
     MarkCreditedStep, MeetDeadlineStep, Apart DEF PassStep
<1>4. CASE UNCHANGED vars
  <2>1. TimeTyped' /\ WorldTyped' /\ AutumnTyped' /\ Charged' /\ Credited'
    BY <1>4 DEF vars, IInv, TimeTyped, WorldTyped, AutumnTyped, Charged, Credited, Closed
  <2>2. Returned'
    BY <1>4 DEF vars, IInv, Returned, Unchanged, Reported, Held, CreditReturnsCharge
  <2> QED
    BY <1>4, <2>1, <2>2, HeldInTime, SettlersStay DEF vars
<1> QED
  BY <1>1, <1>2, <1>3, <1>4, ReplanStep, ForgetPlansStep DEF Next

\* The invariant of all that follows.
THEOREM InvAlways == Spec => []IInv
BY InitInv, NextInv, PTL DEF Spec

-----------------------------------------------------------------------------
(* What follows from the invariant. *)

\* The state has its types.
THEOREM TypeCorrect == Spec => []TypeOK
<1>1. IInv => TypeOK
  <2> SUFFICES ASSUME IInv PROVE TypeOK
    OBVIOUS
  <2>1. /\ RowTyped /\ TimeTyped /\ WorldTyped /\ AutumnTyped /\ WorkTyped
    BY DEF IInv, Work
  <2> QED
    BY <2>1 DEF TypeOK, RowTyped, Rows, TimeTyped, WorldTyped, AutumnTyped, WorkTyped
<1> QED
  BY <1>1, InvAlways, PTL

\* Autumn charges a period at most once, although its meter and the passes of
\* several workers report it and may see different plans.
THEOREM ChargedOnceCorrect == Spec => []ChargedOnce
<1>1. IInv => ChargedOnce
  BY DEF IInv, Charged, ChargedOnce
<1> QED
  BY <1>1, InvAlways, PTL

\* A charge counts the period as its row keeps it: nobody moves the stop of a
\* period that was charged.
THEOREM ChargedAsMeasuredCorrect == Spec => []ChargedAsMeasured
<1>1. IInv => ChargedAsMeasured
  BY DEF IInv, Charged, ChargedAsMeasured
<1> QED
  BY <1>1, InvAlways, PTL

\* A period is credited at most once, only when it was waived, and as long as
\* the plan stays with what was charged.
THEOREM CreditedOnceCorrect == Spec => []CreditedOnce
<1>1. IInv => CreditedOnce
  BY DEF IInv, Credited, Returned, Unchanged, CreditedOnce
<1> QED
  BY <1>1, InvAlways, PTL
=============================================================================
