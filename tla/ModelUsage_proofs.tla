------------------------- MODULE ModelUsage_proofs -------------------------
(***************************************************************************)
(* Machine-checked proofs about ModelUsage, for any number of requests and *)
(* passes, any use, prices and allowance and any budget of trouble.        *)
(***************************************************************************)
EXTENDS ModelUsage, SequenceTheorems, FiniteSetTheorems, TLAPS

Brokering == {"none", "allow", "insert", "call", "release", "price", "complete", "done"}
Settling  == {"settle", "setcost", "track", "mark"}
Items     == [id: Requests, cost: Nat]

\* The types, by what they are about.
RowTyped ==
  /\ row \in [Requests -> [state: {"none", "reserved", "completed", "billed", "gone"}, cost: Nat]]
  /\ age \in [Requests -> Ages]
WorldTyped ==
  /\ priced \in SUBSET Requests /\ blind \in SUBSET Requests
  /\ trouble \in [TroubleKinds -> Nat]
TriedTyped == tried \in Seq(Requests)
WorkTyped ==
  /\ at \in [Settlers -> PC]
  /\ required \in [Requests -> [Requests -> Nat]]
  /\ quote \in [Settlers -> Nat]
  /\ todo \in [Passes -> Seq(Items)]
  /\ failed \in [Passes -> SUBSET Requests]
  /\ \A p \in Passes : /\ at[p] \in {"idle", "list", "attempt"} <=> todo[p] = <<>>
                       /\ at[p] \in {"idle", "list"} => failed[p] = {}
AutumnTyped ==
  /\ keys \in [Requests -> {"unused", "early", "late"}]
  /\ charges \in [Requests -> [times: Nat, micros: Nat]]

\* The request of r was used and counted.
Used(r) == row[r].state \in {"completed", "billed"}

\* A broker has its reservation until it completes or releases it, and is done
\* before the reservation may be dropped.
Broking ==
  \A r \in Requests :
    /\ at[r] \in Brokering \cup Settling
    /\ at[r] \in {"none", "allow", "insert"} => row[r].state = "none"
    /\ at[r] \in {"call", "price"} => row[r].state = "reserved"
    /\ at[r] = "complete" => row[r].state = "reserved" \/ Used(r)
    /\ at[r] \in Settling => Used(r)
    /\ at[r] # "done" => age[r] \in {"new", "due"}

\* The list of a pass has the row of r.
Lists(p, r) == \E i \in DOMAIN todo[p] : todo[p][i].id = r

\* A pass holds used rows, and a quick one none that Autumn has forgotten.
Passing ==
  \A p \in Passes :
    /\ at[p] \in Settling \cup {"idle", "list", "attempt"}
    /\ \A r \in Requests :
         Lists(p, r) => Used(r) /\ (PassesAreQuick => age[r] # "forgotten")

\* Autumn remembers what it charged until no one is left to report it.
Charged ==
  \A r \in Requests :
    /\ keys[r] = "unused" => charges[r].times = 0 \/ age[r] = "forgotten"
    /\ keys[r] # "unused" => charges[r].times > 0
    /\ PassesAreQuick => charges[r].times <= 1

\* What the settlers are doing.
Work == WorkTyped /\ Broking /\ Passing

IInv == RowTyped /\ WorldTyped /\ TriedTyped /\ AutumnTyped /\ Work /\ Charged

-----------------------------------------------------------------------------
(* What the helpers do. *)

\* Trouble is taken from the budget.
LEMMA MeetOK ==
  ASSUME WorldTyped, NEW kind \in TroubleKinds, Meet(kind)
  PROVE  trouble' \in [TroubleKinds -> Nat]
BY DEF WorldTyped, Meet

\* A call spends nothing but a fault.
LEMMA CallsOK ==
  ASSUME WorldTyped, UNCHANGED trouble \/ Meet("fault")
  PROVE  trouble' \in [TroubleKinds -> Nat]
BY MeetOK DEF WorldTyped, TroubleKinds

\* A broker is no pass.
LEMMA Apart ==
  /\ \A r \in Requests : r \in Settlers /\ r \notin Passes
  /\ \A p \in Passes : p \in Settlers /\ p \notin Requests
  /\ \A s \in Settlers : s \in Requests \/ s \in Passes
BY ModelUsageAssumption DEF Settlers

\* A settler that goes on leaves the others where they are.
LEMMA GotoOK ==
  ASSUME WorkTyped, NEW s \in Settlers, NEW pc \in PC, Goto(s, pc)
  PROVE  /\ at' \in [Settlers -> PC] /\ at'[s] = pc
         /\ \A x \in Settlers : x # s => at'[x] = at[x]
BY DEF WorkTyped, Goto

\* The row that a settler holds: a broker its own, a pass the first of its list.
LEMMA HeldOK ==
  ASSUME Work, NEW s \in Settlers, at[s] \in Settling
  PROVE  /\ Held(s) \in Requests /\ Used(Held(s))
         /\ s \in Requests => Held(s) = s
         /\ PassesAreQuick => age[Held(s)] # "forgotten"
         /\ s \in Passes => /\ todo[s] \in Seq(Items) /\ todo[s] # <<>>
                            /\ 1 \in DOMAIN todo[s] /\ Held(s) = todo[s][1].id
                            /\ Lists(s, Held(s))
<1>1. CASE s \in Requests
  BY <1>1, Apart DEF Held, Work, Broking, Settling
<1>2. CASE s \notin Requests
  <2>1. s \in Passes /\ todo[s] \in Seq(Items) /\ todo[s] # <<>>
    BY <1>2, Apart DEF Work, WorkTyped, Settling
  <2>2. Head(todo[s]) \in Items /\ 1 \in DOMAIN todo[s] /\ Head(todo[s]) = todo[s][1]
    BY <2>1
  <2> QED
    BY <1>2, <2>1, <2>2 DEF Held, Items, Work, Passing, Lists
<1> QED
  BY <1>1, <1>2

\* What is left of a list was on it.
LEMMA TailOK ==
  ASSUME NEW q \in Seq(Items), q # <<>>
  PROVE  /\ Tail(q) \in Seq(Items)
         /\ \A i \in DOMAIN Tail(q) : \E j \in DOMAIN q : Tail(q)[i] = q[j]
         /\ Tail(q) # <<>> => 1 \in DOMAIN Tail(q) /\ Head(Tail(q)) = Tail(q)[1]
<1>1. /\ Tail(q) \in Seq(Items) /\ Len(Tail(q)) = Len(q) - 1 /\ Len(q) \in Nat \ {0}
      /\ \A i \in 1 .. Len(Tail(q)) : Tail(q)[i] = q[i + 1]
  BY HeadTailProperties, EmptySeq
<1>2. \A i \in DOMAIN Tail(q) : i + 1 \in DOMAIN q /\ Tail(q)[i] = q[i + 1]
  BY <1>1
<1>3. ASSUME NEW t \in Seq(Items), t # <<>> PROVE 1 \in DOMAIN t /\ Head(t) = t[1]
  BY <1>3
<1> QED
  BY <1>1, <1>2, <1>3

\* A settler that leaves its row: the broker ends, a pass goes on with what is
\* left of its list, or marks what failed.
LEMMA LeaveOK ==
  ASSUME Work, NEW s \in Settlers, at[s] \in Settling, NEW settled \in BOOLEAN, Leave(s, settled)
  PROVE  /\ at' \in [Settlers -> PC] /\ \A x \in Settlers : x # s => at'[x] = at[x]
         /\ quote' \in [Settlers -> Nat] /\ \A x \in Settlers : x # s => quote'[x] = quote[x]
         /\ todo' \in [Passes -> Seq(Items)] /\ \A p \in Passes : p # s => todo'[p] = todo[p]
         /\ \A p \in Passes : \A i \in DOMAIN todo'[p] :
              \E j \in DOMAIN todo[p] : todo'[p][i] = todo[p][j]
         /\ failed' \in [Passes -> SUBSET Requests] /\ \A p \in Passes : p # s => failed'[p] = failed[p]
         /\ s \in Requests => at'[s] = "done"
         /\ s \in Passes => /\ at'[s] = (IF todo'[s] = <<>> THEN "attempt" ELSE "settle")
                            /\ todo'[s] # <<>> => /\ 1 \in DOMAIN todo'[s]
                                                  /\ quote'[s] = todo'[s][1].cost
<1> USE DEF Work
<1>1. CASE s \in Requests
  <2>1. Goto(s, "done") /\ UNCHANGED <<quote, todo, failed>> /\ s \notin Passes
    BY <1>1, Apart DEF Leave, pass
  <2> QED
    BY <1>1, <2>1, GotoOK DEF WorkTyped, PC
<1>2. CASE s \notin Requests
  <2> DEFINE rest == Tail(todo[s])
             pc == IF rest = <<>> THEN "attempt" ELSE "settle"
             micros == IF rest = <<>> THEN Unpriced ELSE Head(rest).cost
  <2>1. s \in Passes /\ todo[s] \in Seq(Items) /\ todo[s] # <<>> /\ Held(s) \in Requests
    BY <1>2, HeldOK, Apart
  <2>2. /\ todo' = [todo EXCEPT ![s] = rest]
        /\ quote' = [quote EXCEPT ![s] = micros]
        /\ Goto(s, pc)
        /\ failed' = [failed EXCEPT ![s] = IF settled THEN @ ELSE @ \cup {Held(s)}]
    BY <1>2 DEF Leave
  <2>3. /\ rest \in Seq(Items) /\ (rest # <<>> => 1 \in DOMAIN rest /\ Head(rest) = rest[1])
        /\ \A i \in DOMAIN rest : \E j \in DOMAIN todo[s] : rest[i] = todo[s][j]
    BY <2>1, TailOK
  <2>4. micros \in Nat /\ pc \in PC
    <3>1. rest # <<>> => Head(rest) \in Items
      BY <2>3
    <3> QED
      BY <3>1 DEF Items, Unpriced, PC
  <2> HIDE DEF rest, pc, micros
  <2>5. at' \in [Settlers -> PC] /\ at'[s] = pc /\ \A x \in Settlers : x # s => at'[x] = at[x]
    BY <2>2, <2>4, GotoOK
  <2>6. quote' \in [Settlers -> Nat] /\ quote'[s] = micros /\ \A x \in Settlers : x # s => quote'[x] = quote[x]
    BY <2>2, <2>4 DEF WorkTyped
  <2>7. todo' \in [Passes -> Seq(Items)] /\ todo'[s] = rest /\ \A p \in Passes : p # s => todo'[p] = todo[p]
    BY <2>1, <2>2, <2>3 DEF WorkTyped
  <2>8. failed' \in [Passes -> SUBSET Requests] /\ \A p \in Passes : p # s => failed'[p] = failed[p]
    BY <2>1, <2>2 DEF WorkTyped
  <2>9. \A p \in Passes : \A i \in DOMAIN todo'[p] : \E j \in DOMAIN todo[p] : todo'[p][i] = todo[p][j]
    BY <2>3, <2>7
  <2> QED
    BY <1>2, <2>1, <2>3, <2>5, <2>6, <2>7, <2>8, <2>9 DEF pc, micros
<1> QED
  BY <1>1, <1>2

-----------------------------------------------------------------------------
(* What keeps the work of the settlers in order. *)

\* A settler writes to used rows only, and they stay used.
RowsKept ==
  /\ \A r \in Requests : Used(r) => Used(r)'
  /\ \A r \in Requests : ~Used(r) => row'[r] = row[r]
  /\ UNCHANGED age

\* A settler goes on with its row.
LEMMA GoesOn ==
  ASSUME Work, RowsKept, NEW s \in Settlers, at[s] \in Settling, NEW pc \in Settling, Goto(s, pc),
         UNCHANGED <<required, pass>>, quote' \in [Settlers -> Nat]
  PROVE  Work' /\ at'[s] = pc /\ \A x \in Settlers : x # s => at'[x] = at[x]
<1> USE DEF Work
<1>1. /\ at' \in [Settlers -> PC] /\ at'[s] = pc
      /\ \A x \in Settlers : x # s => at'[x] = at[x]
  <2>1. pc \in PC
    BY DEF PC, Settling
  <2> QED
    BY <2>1, GotoOK
<1>2. WorkTyped'
  BY <1>1, Apart DEF WorkTyped, Settling, pass
<1>3. Broking'
  BY <1>1, Apart DEF Broking, RowsKept, Used, Settling
<1>4. Passing'
  <2>1. \A p \in Passes : \A r : Lists(p, r)' <=> Lists(p, r)
    BY DEF Lists, pass
  <2> QED
    BY <1>1, <2>1, Apart DEF Passing, RowsKept
<1> QED
  BY <1>1, <1>2, <1>3, <1>4

\* A settler leaves its row.
LEMMA GoesOff ==
  ASSUME Work, RowsKept, NEW s \in Settlers, at[s] \in Settling, NEW settled \in BOOLEAN,
         Leave(s, settled), UNCHANGED required
  PROVE  Work'
<1> USE DEF Work
<1> DEFINE Off ==
      /\ s \in Requests => at'[s] = "done"
      /\ s \in Passes => at'[s] = (IF todo'[s] = <<>> THEN "attempt" ELSE "settle")
<1>1. /\ at' \in [Settlers -> PC] /\ \A x \in Settlers : x # s => at'[x] = at[x]
      /\ Off
  BY LeaveOK
<1>2. /\ quote' \in [Settlers -> Nat]
      /\ failed' \in [Passes -> SUBSET Requests] /\ \A p \in Passes : p # s => failed'[p] = failed[p]
  BY LeaveOK
<1>3. todo' \in [Passes -> Seq(Items)] /\ \A p \in Passes : p # s => todo'[p] = todo[p]
  BY LeaveOK
<1>4. \A p \in Passes : \A i \in DOMAIN todo'[p] : \E j \in DOMAIN todo[p] : todo'[p][i] = todo[p][j]
  BY LeaveOK
<1>5. WorkTyped'
  <2>1. \A p \in Passes : /\ at'[p] \in {"idle", "list", "attempt"} <=> todo'[p] = <<>>
                          /\ at'[p] \in {"idle", "list"} => failed'[p] = {}
    BY <1>1, <1>2, <1>3, Apart DEF WorkTyped, Settling
  <2> QED
    BY <1>1, <1>2, <1>3, <2>1 DEF WorkTyped
<1>6. Broking'
  <2>1. \A r \in Requests : at'[r] = at[r] \/ at'[r] = "done"
    BY <1>1, Apart
  <2> QED
    BY <2>1 DEF Broking, RowsKept, Used, Brokering, Settling
<1>7. Passing'
  <2>1. \A p \in Passes : at'[p] \in Settling \cup {"idle", "list", "attempt"}
    BY <1>1, Apart DEF Passing, Settling
  <2>2. \A p \in Passes : \A r : Lists(p, r)' => Lists(p, r)
    BY <1>4 DEF Lists
  <2> QED
    BY <2>1, <2>2 DEF Passing, RowsKept
<1> QED
  BY <1>5, <1>6, <1>7

\* The broker goes on; the row it has written is of its own request.
LEMMA BrokerGoes ==
  ASSUME Work, NEW r \in Requests, at[r] \in Brokering \ {"done"},
         NEW pc \in Brokering \cup {"settle"}, Goto(r, pc),
         UNCHANGED <<age, pass>>, required' \in [Requests -> [Requests -> Nat]],
         quote' \in [Settlers -> Nat],
         \A q \in Requests : q # r => row'[q] = row[q],
         Used(r) => Used(r)',
         pc \in {"none", "allow", "insert"} => row'[r].state = "none",
         pc \in {"call", "price"} => row'[r].state = "reserved",
         pc = "complete" => row'[r].state = "reserved" \/ Used(r)',
         pc = "settle" => Used(r)'
  PROVE  Work' /\ at'[r] = pc /\ \A x \in Settlers : x # r => at'[x] = at[x]
<1> USE DEF Work
<1>1. /\ at' \in [Settlers -> PC] /\ at'[r] = pc
      /\ \A x \in Settlers : x # r => at'[x] = at[x]
  <2>1. pc \in PC /\ r \in Settlers
    BY Apart DEF PC, Brokering
  <2> QED
    BY <2>1, GotoOK
<1>2. WorkTyped'
  BY <1>1, Apart DEF WorkTyped, pass
<1>3. Broking'
  BY <1>1, Apart DEF Broking, Used, Settling, Brokering
<1>4. Passing'
  <2>1. \A p \in Passes : \A q : Lists(p, q)' <=> Lists(p, q)
    BY DEF Lists, pass
  <2>2. \A q \in Requests : Used(q) => Used(q)'
    BY DEF Used
  <2> QED
    BY <1>1, <2>1, <2>2, Apart DEF Passing
<1> QED
  BY <1>1, <1>2, <1>3, <1>4

\* A pass that holds no row goes on.
LEMMA PassGoes ==
  ASSUME Work, NEW p \in Passes, at[p] \in {"idle", "list", "attempt"},
         NEW pc \in {"idle", "list", "settle"}, Goto(p, pc),
         UNCHANGED <<age, required>>, quote' \in [Settlers -> Nat],
         \A r \in Requests : \/ row'[r] = row[r]
                             \/ /\ row[r].state = "reserved" /\ age[r] \notin {"new", "due"}
                                /\ row'[r].state = "gone",
         todo' \in [Passes -> Seq(Items)], \A x \in Passes : x # p => todo'[x] = todo[x],
         pc = "settle" <=> todo'[p] # <<>>,
         \A r \in Requests : Lists(p, r)' => Used(r) /\ age[r] # "forgotten",
         failed' \in [Passes -> SUBSET Requests], \A x \in Passes : x # p => failed'[x] = failed[x],
         failed'[p] = {}
  PROVE  Work' /\ at'[p] = pc /\ \A x \in Settlers : x # p => at'[x] = at[x]
<1> USE DEF Work
<1>1. /\ at' \in [Settlers -> PC] /\ at'[p] = pc
      /\ \A x \in Settlers : x # p => at'[x] = at[x]
  <2>1. pc \in PC /\ p \in Settlers
    BY Apart DEF PC
  <2> QED
    BY <2>1, GotoOK
<1>2. WorkTyped'
  <2>1. \A x \in Passes : /\ at'[x] \in {"idle", "list", "attempt"} <=> todo'[x] = <<>>
                          /\ at'[x] \in {"idle", "list"} => failed'[x] = {}
    BY <1>1, Apart DEF WorkTyped
  <2> QED
    BY <1>1, <2>1 DEF WorkTyped
<1>3. Broking'
  BY <1>1, Apart DEF Broking, Used, Settling
<1>4. Passing'
  <2>1. \A x \in Passes : x # p => \A r : Lists(x, r)' => Lists(x, r)
    BY DEF Lists
  <2>2. \A r \in Requests : Used(r) => Used(r)'
    BY DEF Used
  <2>3. \A x \in Passes : at'[x] \in Settling \cup {"idle", "list", "attempt"}
    BY <1>1, Apart DEF Passing, Settling
  <2>4. \A x \in Passes : \A r \in Requests : Lists(x, r)' =>
           Used(r) /\ (PassesAreQuick => age[r] # "forgotten")
    BY <2>1 DEF Passing
  <2> QED
    BY <2>2, <2>3, <2>4 DEF Passing
<1> QED
  BY <1>1, <1>2, <1>3, <1>4

-----------------------------------------------------------------------------
(* Every step keeps the invariant. *)

\* A product of numbers is a number.
LEMMA ProductOK == ASSUME NEW m \in Nat, NEW n \in Nat PROVE m * n \in Nat
OBVIOUS

\* A price is one of those a lookup may return.
LEMMA PriceOK ==
  ASSUME NEW price \in Prices
  PROVE  price \in Nat /\ MinPrice <= price /\ price <= MaxPrice /\ price # 0
BY ModelUsageAssumption DEF Prices

LEMMA ReserveOK == ASSUME IInv, NEW r \in Requests, Reserve(r) PROVE IInv'
<1> USE DEF IInv
<1>1. /\ UNCHANGED <<row, tried, age, priced, blind, todo, failed, keys, charges, trouble>>
      /\ at[r] = "none" /\ row[r].state = "none"
  BY DEF Reserve, rows, world, pass, autumn, Work, Broking
<1>2. /\ required' \in [Requests -> [Requests -> Nat]] /\ quote' \in [Settlers -> Nat]
      /\ \E pc \in {"allow", "done"} : Goto(r, pc)
  <2>1. CASE r \in priced /\ \E price \in Prices :
               /\ quote' = [quote EXCEPT ![r] = MaxUse * price]
               /\ required' = [required EXCEPT ![r] = [Outstanding EXCEPT ![r] = MaxUse * price]]
               /\ Goto(r, "allow")
    <3>1. PICK price \in Prices :
               /\ quote' = [quote EXCEPT ![r] = MaxUse * price]
               /\ required' = [required EXCEPT ![r] = [Outstanding EXCEPT ![r] = MaxUse * price]]
               /\ Goto(r, "allow")
      BY <2>1
    <3> DEFINE micros == MaxUse * price
               open   == [Outstanding EXCEPT ![r] = micros]
    <3>2. micros \in Nat
      BY ProductOK, PriceOK, ModelUsageAssumption
    <3> HIDE DEF micros
    <3>3. Outstanding \in [Requests -> Nat]
      BY DEF Outstanding, RowTyped
    <3>4. open \in [Requests -> Nat]
      BY <3>2, <3>3
    <3> HIDE DEF open
    <3>5. required' = [required EXCEPT ![r] = open] /\ quote' = [quote EXCEPT ![r] = micros]
      BY <3>1 DEF open, micros
    <3>6. required' \in [Requests -> [Requests -> Nat]]
      BY <3>4, <3>5 DEF Work, WorkTyped
    <3>7. quote' \in [Settlers -> Nat]
      BY <3>2, <3>5 DEF Work, WorkTyped
    <3> QED
      BY <3>1, <3>6, <3>7
  <2>2. CASE Goto(r, "done") /\ UNCHANGED <<quote, required>>
    BY <2>2 DEF Work, WorkTyped
  <2> QED
    BY <2>1, <2>2 DEF Reserve
<1>3. Work'
  <2>1. PICK pc \in {"allow", "done"} : Goto(r, pc)
    BY <1>2
  <2> QED
    BY <1>1, <1>2, <2>1, BrokerGoes DEF Brokering, Used, pass
<1>4. RowTyped' /\ WorldTyped' /\ TriedTyped' /\ AutumnTyped' /\ Charged'
  BY <1>1 DEF RowTyped, WorldTyped, TriedTyped, AutumnTyped, Charged
<1> QED
  BY <1>3, <1>4

LEMMA CheckAllowanceOK == ASSUME IInv, NEW r \in Requests, CheckAllowance(r) PROVE IInv'
<1> USE DEF IInv
<1>1. /\ UNCHANGED <<row, tried, age, priced, blind, required, quote, todo, failed, keys, charges>>
      /\ at[r] = "allow" /\ row[r].state = "none"
      /\ UNCHANGED trouble \/ Meet("fault")
      /\ \E pc \in {"insert", "done"} : Goto(r, pc)
  BY DEF CheckAllowance, rows, world, pass, autumn, Work, Broking
<1>2. Work'
  <2>1. PICK pc \in {"insert", "done"} : Goto(r, pc)
    BY <1>1
  <2> QED
    BY <1>1, <2>1, BrokerGoes DEF Brokering, Used, pass, Work, WorkTyped
<1>3. RowTyped' /\ WorldTyped' /\ TriedTyped' /\ AutumnTyped' /\ Charged'
  BY <1>1, CallsOK DEF RowTyped, WorldTyped, TriedTyped, AutumnTyped, Charged
<1> QED
  BY <1>2, <1>3

LEMMA InsertReservationOK == ASSUME IInv, NEW r \in Requests, InsertReservation(r) PROVE IInv'
<1> USE DEF IInv
<1>1. /\ UNCHANGED <<tried, age, priced, blind, required, quote, todo, failed, keys, charges>>
      /\ at[r] = "insert" /\ row[r].state = "none"
      /\ UNCHANGED trouble \/ Meet("fault")
      /\ \E pc \in {"call", "done"} : Goto(r, pc)
      /\ \/ row' = [row EXCEPT ![r] = [state |-> "reserved", cost |-> quote[r]]]
         \/ at'[r] = "done" /\ UNCHANGED row
  BY DEF InsertReservation, world, pass, autumn, Work, Broking
<1>2. quote[r] \in Nat /\ at \in [Settlers -> PC]
  BY Apart DEF Work, WorkTyped
<1>3. RowTyped' /\ \A q \in Requests : q # r => row'[q] = row[q]
  BY <1>1, <1>2 DEF RowTyped
<1>4. Work'
  <2>1. PICK pc \in {"call", "done"} : Goto(r, pc)
    BY <1>1
  <2>2. pc = "call" => row'[r].state = "reserved"
    BY <1>1, <1>2, <2>1, Apart DEF Goto, RowTyped
  <2> QED
    BY <1>1, <1>3, <2>1, <2>2, BrokerGoes DEF Brokering, Used, pass, Work, WorkTyped
<1>5. WorldTyped' /\ TriedTyped' /\ AutumnTyped' /\ Charged'
  BY <1>1, CallsOK DEF WorldTyped, TriedTyped, AutumnTyped, Charged
<1> QED
  BY <1>3, <1>4, <1>5

LEMMA CallProviderOK == ASSUME IInv, NEW r \in Requests, CallProvider(r) PROVE IInv'
<1> USE DEF IInv
<1>1. /\ UNCHANGED <<row, tried, age, priced, blind, required, quote, todo, failed, keys, charges, trouble>>
      /\ at[r] = "call" /\ row[r].state = "reserved"
      /\ \E pc \in {"price", "release"} : Goto(r, pc)
  BY DEF CallProvider, rows, world, pass, autumn, Work, Broking
<1>2. Work'
  <2>1. PICK pc \in {"price", "release"} : Goto(r, pc)
    BY <1>1
  <2> QED
    BY <1>1, <2>1, BrokerGoes DEF Brokering, Used, pass, Work, WorkTyped
<1>3. RowTyped' /\ WorldTyped' /\ TriedTyped' /\ AutumnTyped' /\ Charged'
  BY <1>1 DEF RowTyped, WorldTyped, TriedTyped, AutumnTyped, Charged
<1> QED
  BY <1>2, <1>3

LEMMA ReleaseOK == ASSUME IInv, NEW r \in Requests, Release(r) PROVE IInv'
<1> USE DEF IInv
<1>1. /\ UNCHANGED <<tried, age, priced, blind, required, quote, todo, failed, keys, charges>>
      /\ at[r] = "release" /\ Goto(r, "done")
      /\ UNCHANGED trouble \/ Meet("fault")
      /\ \/ row' = [row EXCEPT ![r].state = IF @ = "reserved" THEN "gone" ELSE @]
         \/ UNCHANGED row
  BY DEF Release, world, pass, autumn
<1>2. /\ RowTyped' /\ \A q \in Requests : q # r => row'[q] = row[q]
      /\ Used(r) => Used(r)'
  BY <1>1 DEF RowTyped, Used
<1>3. Work'
  BY <1>1, <1>2, BrokerGoes DEF Brokering, pass, Work, WorkTyped
<1>4. WorldTyped' /\ TriedTyped' /\ AutumnTyped' /\ Charged'
  BY <1>1, CallsOK DEF WorldTyped, TriedTyped, AutumnTyped, Charged
<1> QED
  BY <1>2, <1>3, <1>4

LEMMA PriceUseOK == ASSUME IInv, NEW r \in Requests, PriceUse(r) PROVE IInv'
<1> USE DEF IInv
<1>1. /\ UNCHANGED <<row, tried, age, priced, blind, required, todo, failed, keys, charges>>
      /\ at[r] = "price" /\ Goto(r, "complete") /\ row[r].state = "reserved"
      /\ UNCHANGED trouble \/ Meet("fault")
      /\ \/ \E price \in Prices : quote' = [quote EXCEPT ![r] = Use[r] * price]
         \/ quote' = [quote EXCEPT ![r] = Unpriced]
  BY DEF PriceUse, rows, world, pass, autumn, Work, Broking
<1>2. quote' \in [Settlers -> Nat]
  <2>1. CASE \E price \in Prices : quote' = [quote EXCEPT ![r] = Use[r] * price]
    <3>1. PICK price \in Prices : quote' = [quote EXCEPT ![r] = Use[r] * price]
      BY <2>1
    <3>2. Use[r] * price \in Nat
      <4>1. Use[r] \in Nat /\ price \in Nat
        BY PriceOK, ModelUsageAssumption
      <4> QED
        BY <4>1, ProductOK
    <3> QED
      BY <3>1, <3>2 DEF Work, WorkTyped
  <2>2. CASE quote' = [quote EXCEPT ![r] = Unpriced]
    BY <2>2 DEF Work, WorkTyped, Unpriced
  <2> QED
    BY <1>1, <2>1, <2>2
<1>3. Work'
  BY <1>1, <1>2, BrokerGoes DEF Brokering, Used, pass, Work, WorkTyped
<1>4. RowTyped' /\ WorldTyped' /\ TriedTyped' /\ AutumnTyped' /\ Charged'
  BY <1>1, CallsOK DEF RowTyped, WorldTyped, TriedTyped, AutumnTyped, Charged
<1> QED
  BY <1>3, <1>4

LEMMA CompleteUseOK == ASSUME IInv, NEW r \in Requests, CompleteUse(r) PROVE IInv'
<1> USE DEF IInv
<1>1. /\ UNCHANGED <<tried, age, priced, required, quote, todo, failed, keys, charges>>
      /\ at[r] = "complete"
      /\ UNCHANGED trouble \/ Meet("fault")
      /\ Completed(r) \/ UNCHANGED <<row, blind>>
  BY DEF CompleteUse, pass, autumn
<1>2. \/ Completed(r) /\ Goto(r, IF row[r].state = "reserved" THEN "settle" ELSE "done")
      \/ UNCHANGED at
      \/ Goto(r, "done")
  BY DEF CompleteUse
<1>3. quote[r] \in Nat /\ at \in [Settlers -> PC]
  BY Apart DEF Work, WorkTyped
<1>4. /\ RowTyped' /\ \A q \in Requests : q # r => row'[q] = row[q]
      /\ Used(r) => Used(r)'
      /\ row[r].state = "reserved" \/ Used(r)
      /\ row'[r].state = "reserved" \/ Used(r)'
      /\ Completed(r) => Used(r)'
  BY <1>1, <1>3 DEF RowTyped, Used, Completed, Work, Broking
<1>5. Work'
  <2>1. PICK pc \in {"settle", "done", "complete"} : Goto(r, pc) /\ (pc = "settle" => Used(r)')
    BY <1>1, <1>2, <1>3, <1>4 DEF Goto
  <2> QED
    BY <1>1, <1>4, <2>1, BrokerGoes DEF Brokering, pass, Work, WorkTyped
<1>6. WorldTyped' /\ TriedTyped' /\ AutumnTyped' /\ Charged'
  <2>1. blind' \in SUBSET Requests
    BY <1>1 DEF Completed, WorldTyped
  <2> QED
    BY <1>1, <2>1, CallsOK DEF WorldTyped, TriedTyped, AutumnTyped, Charged
<1> QED
  BY <1>4, <1>5, <1>6

\* What a settler writes to its row keeps it used, and no other row changes.
LEMMA RowWritten ==
  ASSUME IInv, NEW r \in Requests, Used(r), UNCHANGED age,
         row' \in [Requests -> [state: {"none", "reserved", "completed", "billed", "gone"}, cost: Nat]],
         \A q \in Requests : q # r => row'[q] = row[q], Used(r)'
  PROVE  RowsKept /\ RowTyped'
BY DEF RowsKept, Used, RowTyped, IInv

LEMMA PriceRowOK == ASSUME IInv, NEW s \in Settlers, PriceRow(s) PROVE IInv'
<1> USE DEF IInv
<1>1. /\ UNCHANGED <<row, tried, age, priced, blind, required, keys, charges>>
      /\ at[s] = "settle" /\ at[s] \in Settling
      /\ UNCHANGED trouble \/ Meet("fault")
  BY DEF PriceRow, rows, world, autumn, Settling
<1>2. RowsKept /\ RowTyped'
  BY <1>1 DEF RowsKept, Used, RowTyped
<1>3. Work'
  <2>1. CASE Leave(s, FALSE)
    BY <1>1, <1>2, <2>1, GoesOff
  <2>2. CASE Goto(s, "track") /\ UNCHANGED <<quote, pass>>
    BY <1>1, <1>2, <2>2, GoesOn DEF Settling, Work, WorkTyped
  <2>3. CASE /\ \E price \in Prices : quote' = [quote EXCEPT ![s] = Use[Held(s)] * price]
             /\ Goto(s, "setcost") /\ UNCHANGED pass
    <3>1. PICK price \in Prices : quote' = [quote EXCEPT ![s] = Use[Held(s)] * price]
      BY <2>3
    <3>2. Use[Held(s)] * price \in Nat
      <4>1. Use[Held(s)] \in Nat /\ price \in Nat
        BY <1>1, HeldOK, PriceOK, ModelUsageAssumption
      <4> QED
        BY <4>1, ProductOK
    <3>3. quote' \in [Settlers -> Nat]
      BY <3>1, <3>2 DEF Work, WorkTyped
    <3> QED
      BY <1>1, <1>2, <2>3, <3>3, GoesOn DEF Settling
  <2> QED
    BY <2>1, <2>2, <2>3 DEF PriceRow
<1>4. WorldTyped' /\ TriedTyped' /\ AutumnTyped' /\ Charged'
  BY <1>1, CallsOK DEF WorldTyped, TriedTyped, AutumnTyped, Charged
<1> QED
  BY <1>2, <1>3, <1>4

LEMMA SetCostOK == ASSUME IInv, NEW s \in Settlers, SetCost(s) PROVE IInv'
<1> USE DEF IInv
<1>1. /\ UNCHANGED <<tried, age, priced, blind, required, keys, charges>>
      /\ at[s] = "setcost" /\ at[s] \in Settling
      /\ UNCHANGED trouble \/ Meet("fault")
      /\ \/ row' = [row EXCEPT ![Held(s)].cost = IF @ = Unpriced THEN quote[s] ELSE @]
         \/ UNCHANGED row
  BY DEF SetCost, world, autumn, Settling
<1>2. RowsKept /\ RowTyped'
  <2>1. Held(s) \in Requests /\ Used(Held(s)) /\ quote[s] \in Nat
    BY <1>1, HeldOK DEF Work, WorkTyped
  <2> QED
    BY <1>1, <2>1, RowWritten DEF RowTyped, Used
<1>3. Work'
  <2>1. CASE Leave(s, FALSE)
    BY <1>1, <1>2, <2>1, GoesOff
  <2>2. CASE Goto(s, "track") /\ UNCHANGED <<quote, pass>>
    BY <1>1, <1>2, <2>2, GoesOn DEF Settling, Work, WorkTyped
  <2> QED
    BY <2>1, <2>2 DEF SetCost
<1>4. WorldTyped' /\ TriedTyped' /\ AutumnTyped' /\ Charged'
  BY <1>1, CallsOK DEF WorldTyped, TriedTyped, AutumnTyped, Charged
<1> QED
  BY <1>2, <1>3, <1>4

\* A charge is made at most once while Autumn remembers it.
LEMMA ChargeOK ==
  ASSUME IInv, NEW r \in Requests, NEW micros \in Nat, Charge(r, micros), UNCHANGED age,
         PassesAreQuick => age[r] # "forgotten"
  PROVE  AutumnTyped' /\ Charged'
<1> USE DEF IInv
<1>1. charges[r] \in [times: Nat, micros: Nat] /\ keys[r] \in {"unused", "early", "late"}
  BY DEF AutumnTyped
<1>2. CASE keys[r] = "unused"
  <2> DEFINE entry == [times |-> charges[r].times + 1, micros |-> charges[r].micros + micros]
             key   == IF age[r] \in {"late", "forgotten"} THEN "late" ELSE "early"
  <2>1. entry \in [times: Nat, micros: Nat] /\ entry.times = charges[r].times + 1
    BY <1>1
  <2>2. charges' = [charges EXCEPT ![r] = entry] /\ keys' = [keys EXCEPT ![r] = key]
    BY <1>2 DEF Charge
  <2>3. key \in {"early", "late"}
    OBVIOUS
  <2>4. PassesAreQuick => charges[r].times = 0
    BY <1>2 DEF Charged
  <2> HIDE DEF entry, key
  <2>5. AutumnTyped'
    BY <2>1, <2>2, <2>3 DEF AutumnTyped
  <2>6. /\ charges'[r].times > 0 /\ (PassesAreQuick => charges'[r].times <= 1)
        /\ keys'[r] # "unused"
        /\ \A q \in Requests : q # r => charges'[q] = charges[q] /\ keys'[q] = keys[q]
    BY <1>1, <2>1, <2>2, <2>3, <2>4 DEF AutumnTyped
  <2> QED
    BY <2>5, <2>6 DEF Charged
<1>3. CASE keys[r] # "unused"
  BY <1>3 DEF Charge, AutumnTyped, Charged, autumn
<1> QED
  BY <1>2, <1>3

LEMMA TrackOK == ASSUME IInv, NEW s \in Settlers, Track(s) PROVE IInv'
<1> USE DEF IInv
<1>1. /\ UNCHANGED <<row, tried, age, priced, blind, required>>
      /\ at[s] = "track" /\ at[s] \in Settling
      /\ UNCHANGED trouble \/ Meet("fault")
      /\ Charge(Held(s), quote[s]) \/ UNCHANGED <<keys, charges>>
  BY DEF Track, rows, world, autumn, Settling
<1>2. RowsKept /\ RowTyped'
  BY <1>1 DEF RowsKept, Used, RowTyped
<1>3. Work'
  <2>1. CASE Leave(s, FALSE)
    BY <1>1, <1>2, <2>1, GoesOff
  <2>2. CASE Goto(s, "mark") /\ UNCHANGED <<quote, pass>>
    BY <1>1, <1>2, <2>2, GoesOn DEF Settling, Work, WorkTyped
  <2> QED
    BY <2>1, <2>2 DEF Track
<1>4. AutumnTyped' /\ Charged'
  <2>1. /\ Held(s) \in Requests /\ quote[s] \in Nat
        /\ PassesAreQuick => age[Held(s)] # "forgotten"
    BY <1>1, HeldOK DEF Work, WorkTyped
  <2>2. CASE UNCHANGED <<keys, charges>>
    BY <1>1, <2>2 DEF AutumnTyped, Charged
  <2> QED
    BY <1>1, <2>1, <2>2, ChargeOK
<1>5. WorldTyped' /\ TriedTyped'
  BY <1>1, CallsOK DEF WorldTyped, TriedTyped
<1> QED
  BY <1>2, <1>3, <1>4, <1>5

LEMMA MarkBilledOK == ASSUME IInv, NEW s \in Settlers, MarkBilled(s) PROVE IInv'
<1> USE DEF IInv
<1>1. /\ UNCHANGED <<tried, age, priced, blind, required, keys, charges>>
      /\ at[s] = "mark" /\ at[s] \in Settling
      /\ UNCHANGED trouble \/ Meet("fault")
      /\ row' = [row EXCEPT ![Held(s)].state = "billed"] \/ UNCHANGED row
      /\ Leave(s, TRUE) \/ Leave(s, FALSE)
  BY DEF MarkBilled, world, autumn, Settling
<1>2. RowsKept /\ RowTyped'
  <2>1. Held(s) \in Requests /\ Used(Held(s))
    BY <1>1, HeldOK
  <2> QED
    BY <1>1, <2>1, RowWritten DEF RowTyped, Used
<1>3. Work'
  BY <1>1, <1>2, GoesOff
<1>4. WorldTyped' /\ TriedTyped' /\ AutumnTyped' /\ Charged'
  BY <1>1, CallsOK DEF WorldTyped, TriedTyped, AutumnTyped, Charged
<1> QED
  BY <1>2, <1>3, <1>4

LEMMA PurgeAbandonedOK == ASSUME IInv, NEW p \in Passes, PurgeAbandoned(p) PROVE IInv'
<1> USE DEF IInv
<1>1. /\ UNCHANGED <<tried, age, priced, blind, required, quote, todo, failed, keys, charges>>
      /\ at[p] = "idle"
      /\ UNCHANGED trouble \/ Meet("fault")
      /\ Goto(p, "list") \/ UNCHANGED at
      /\ \/ row' = [r \in Requests |-> IF row[r].state = "reserved" /\ ~Reserved(r)
                                       THEN [row[r] EXCEPT !.state = "gone"] ELSE row[r]]
         \/ UNCHANGED row
  BY DEF PurgeAbandoned, world, pass, autumn
<1>2. /\ RowTyped'
      /\ \A r \in Requests : \/ row'[r] = row[r]
                             \/ /\ row[r].state = "reserved" /\ age[r] \notin {"new", "due"}
                                /\ row'[r].state = "gone"
  BY <1>1 DEF RowTyped, Reserved
<1>3. /\ todo \in [Passes -> Seq(Items)] /\ todo[p] = <<>>
      /\ failed \in [Passes -> SUBSET Requests] /\ failed[p] = {}
      /\ \A r \in Requests : ~Lists(p, r)
  BY <1>1 DEF Work, WorkTyped, Lists
<1>4. Work'
  <2>1. PICK pc \in {"list", "idle"} : Goto(p, pc)
    BY <1>1, Apart DEF Goto, Work, WorkTyped
  <2>2. \A r \in Requests : ~Lists(p, r)'
    BY <1>1, <1>3 DEF Lists
  <2> QED
    BY <1>1, <1>2, <1>3, <2>1, <2>2, PassGoes DEF Work, WorkTyped
<1>5. WorldTyped' /\ TriedTyped' /\ AutumnTyped' /\ Charged'
  BY <1>1, CallsOK DEF WorldTyped, TriedTyped, AutumnTyped, Charged
<1> QED
  BY <1>2, <1>4, <1>5

LEMMA ListFailsOK == ASSUME IInv, NEW p \in Passes, ListFails(p) PROVE IInv'
<1> USE DEF IInv
<1>1. /\ UNCHANGED <<row, tried, age, priced, blind, required, quote, todo, failed, keys, charges>>
      /\ at[p] = "list" /\ Meet("fault") /\ Goto(p, "idle")
  BY DEF ListFails, rows, world, pass, autumn
<1>2. /\ todo \in [Passes -> Seq(Items)] /\ todo[p] = <<>>
      /\ failed \in [Passes -> SUBSET Requests] /\ failed[p] = {}
  BY <1>1 DEF Work, WorkTyped
<1>3. Work'
  <2>1. \A r \in Requests : ~Lists(p, r)'
    BY <1>1, <1>2 DEF Lists
  <2> QED
    BY <1>1, <1>2, <2>1, PassGoes DEF Work, WorkTyped
<1>4. RowTyped' /\ WorldTyped' /\ TriedTyped' /\ AutumnTyped' /\ Charged'
  BY <1>1, CallsOK DEF RowTyped, WorldTyped, TriedTyped, AutumnTyped, Charged
<1> QED
  BY <1>3, <1>4

\* An order of some requests is a sequence of them.
LEMMA OrderOK ==
  ASSUME NEW S \in SUBSET Requests, NEW order \in SetToSeqs(S)
  PROVE  order \in Seq(Requests) /\ \A i \in DOMAIN order : order[i] \in S
<1>1. Cardinality(S) \in Nat
  BY ModelUsageAssumption, FS_Subset, FS_CardinalityType
<1>2. order \in [1 .. Cardinality(S) -> S]
  BY DEF SetToSeqs
<1>3. order \in [1 .. Cardinality(S) -> Requests]
  BY <1>2
<1> QED
  BY <1>1, <1>2, <1>3

LEMMA ListUnbilledOK == ASSUME IInv, NEW p \in Passes, ListUnbilled(p) PROVE IInv'
<1> USE DEF IInv
<1>1. /\ UNCHANGED <<row, tried, age, priced, blind, required, failed, keys, charges, trouble>>
      /\ at[p] = "list"
  BY DEF ListUnbilled, rows, world, autumn
<1> DEFINE listed == {r \in Requests : Listed(r)}
<1>2. PICK order \in SetToSeqs(listed) :
        LET ids == SubSeq(order, 1, IF Len(order) < ListLimit THEN Len(order) ELSE ListLimit)
        IN /\ todo' = [todo EXCEPT ![p] = [i \in DOMAIN ids |->
                                             [id |-> ids[i], cost |-> row[ids[i]].cost]]]
           /\ quote' = [quote EXCEPT ![p] = IF ids = <<>> THEN Unpriced ELSE row[ids[1]].cost]
           /\ Goto(p, IF ids = <<>> THEN "idle" ELSE "settle")
  BY DEF ListUnbilled
<1> DEFINE n    == IF Len(order) < ListLimit THEN Len(order) ELSE ListLimit
           ids  == SubSeq(order, 1, n)
           list == [i \in DOMAIN ids |-> [id |-> ids[i], cost |-> row[ids[i]].cost]]
<1>3. order \in Seq(Requests) /\ \A i \in DOMAIN order : order[i] \in listed
  BY OrderOK
<1>4. n \in 0 .. Len(order)
  BY <1>3, ModelUsageAssumption
<1>5. /\ ids \in Seq(Requests) /\ Len(ids) = n
      /\ \A i \in DOMAIN ids : i \in DOMAIN order /\ ids[i] = order[i]
  <2> HIDE DEF n
  <2>1. ids = [i \in 1 .. n |-> order[i]]
    BY <1>3, <1>4
  <2> QED
    BY <1>3, <1>4, <2>1
<1>6. \A i \in DOMAIN ids : ids[i] \in Requests /\ Listed(ids[i])
  <2> HIDE DEF ids
  <2> QED
    BY <1>3, <1>5
<1>7. todo' = [todo EXCEPT ![p] = list]
  BY <1>2
<1>8. /\ quote' = [quote EXCEPT ![p] = IF ids = <<>> THEN Unpriced ELSE row[ids[1]].cost]
      /\ Goto(p, IF ids = <<>> THEN "idle" ELSE "settle")
  BY <1>2
<1> HIDE DEF ids, n, listed
<1>9. /\ list \in Seq(Items) /\ (list = <<>> <=> ids = <<>>)
      /\ \A i \in DOMAIN list : i \in DOMAIN ids /\ list[i].id = ids[i] /\ list[i].cost = row[ids[i]].cost
  <2>1. DOMAIN ids = 1 .. Len(ids) /\ Len(ids) \in Nat
    BY <1>5
  <2>2. \A i \in 1 .. Len(ids) : [id |-> ids[i], cost |-> row[ids[i]].cost] \in Items
    BY <1>6, <2>1 DEF Items, RowTyped
  <2>3. list \in [1 .. Len(ids) -> Items]
    BY <2>1, <2>2
  <2>4. list \in Seq(Items) /\ Len(list) = Len(ids)
    BY <2>1, <2>3
  <2>5. list = <<>> <=> ids = <<>>
    <3> HIDE DEF list
    <3> QED
      BY <1>5, <2>4, EmptySeq
  <2> QED
    BY <2>4, <2>5
<1>10. quote' \in [Settlers -> Nat]
  <2>1. ids # <<>> => 1 \in DOMAIN ids
    BY <1>5, EmptySeq
  <2>2. (IF ids = <<>> THEN Unpriced ELSE row[ids[1]].cost) \in Nat
    BY <1>6, <2>1 DEF RowTyped, Unpriced
  <2> QED
    BY <1>8, <2>2 DEF Work, WorkTyped
<1>11. Work'
  <2> HIDE DEF list
  <2>1. /\ todo' \in [Passes -> Seq(Items)] /\ todo'[p] = list
        /\ \A x \in Passes : x # p => todo'[x] = todo[x]
    <3>1. list \in Seq(Items)
      BY <1>9
    <3>2. todo \in [Passes -> Seq(Items)]
      BY DEF Work, WorkTyped
    <3> QED
      BY <1>7, <3>1, <3>2
  <2>2. PICK pc \in {"idle", "settle"} : Goto(p, pc) /\ (pc = "settle" <=> todo'[p] # <<>>)
    BY <1>8, <1>9, <2>1
  <2>3. \A r \in Requests : Lists(p, r)' => Used(r) /\ age[r] # "forgotten"
    <3>1. \A i \in DOMAIN list : Listed(list[i].id)
      BY <1>6, <1>9
    <3>2. \A r : Listed(r) => Used(r) /\ age[r] # "forgotten"
      BY DEF Listed, Used
    <3> QED
      BY <2>1, <3>1, <3>2 DEF Lists
  <2>4. failed \in [Passes -> SUBSET Requests] /\ failed[p] = {}
    BY <1>1 DEF Work, WorkTyped
  <2> QED
    BY <1>1, <1>10, <2>1, <2>2, <2>3, <2>4, PassGoes
<1>12. RowTyped' /\ WorldTyped' /\ TriedTyped' /\ AutumnTyped' /\ Charged'
  BY <1>1 DEF RowTyped, WorldTyped, TriedTyped, AutumnTyped, Charged
<1> QED
  BY <1>11, <1>12

LEMMA MarkAttemptedOK == ASSUME IInv, NEW p \in Passes, MarkAttempted(p) PROVE IInv'
<1> USE DEF IInv
<1>1. /\ UNCHANGED <<row, age, priced, blind, required, quote, todo, keys, charges>>
      /\ at[p] = "attempt" /\ Goto(p, "idle")
      /\ UNCHANGED trouble \/ Meet("fault")
      /\ failed' = [failed EXCEPT ![p] = {}]
      /\ tried' \in SetToSeqs(Range(tried) \cup failed[p]) \/ UNCHANGED tried
  BY DEF MarkAttempted, world, autumn
<1>2. /\ todo \in [Passes -> Seq(Items)] /\ todo[p] = <<>>
      /\ failed \in [Passes -> SUBSET Requests]
  BY <1>1 DEF Work, WorkTyped
<1>3. Work'
  <2>1. \A r \in Requests : ~Lists(p, r)'
    BY <1>1, <1>2 DEF Lists
  <2> QED
    BY <1>1, <1>2, <2>1, PassGoes DEF Work, WorkTyped
<1>4. TriedTyped'
  <2>1. Range(tried) \cup failed[p] \in SUBSET Requests
    BY <1>2 DEF TriedTyped, Range
  <2> QED
    BY <1>1, <2>1, OrderOK DEF TriedTyped
<1>5. RowTyped' /\ WorldTyped' /\ AutumnTyped' /\ Charged'
  BY <1>1, CallsOK DEF RowTyped, WorldTyped, AutumnTyped, Charged
<1> QED
  BY <1>3, <1>4, <1>5

LEMMA CrashOK == ASSUME IInv, NEW s \in Settlers, Crash(s) PROVE IInv'
<1> USE DEF IInv
<1>1. /\ UNCHANGED <<row, tried, age, priced, blind, required, keys, charges>>
      /\ at[s] \notin {"none", "done", "idle"}
      /\ Meet("crash")
      /\ Goto(s, IF s \in Requests THEN "done" ELSE "idle")
      /\ quote' = [quote EXCEPT ![s] = Unpriced]
      /\ todo' = [p \in Passes |-> IF p = s THEN <<>> ELSE todo[p]]
      /\ failed' = [p \in Passes |-> IF p = s THEN {} ELSE failed[p]]
  BY DEF Crash, rows, world, autumn
<1>2. /\ at' \in [Settlers -> PC] /\ \A x \in Settlers : x # s => at'[x] = at[x]
      /\ s \in Requests => at'[s] = "done"
      /\ s \in Passes => at'[s] = "idle"
  <2>1. PICK pc \in {"done", "idle"} : /\ Goto(s, pc)
                                       /\ s \in Requests => pc = "done"
                                       /\ s \in Passes => pc = "idle"
    BY <1>1, Apart
  <2>2. pc \in PC
    BY DEF PC
  <2> QED
    BY <2>1, <2>2, GotoOK DEF Work
<1>3. /\ todo' \in [Passes -> Seq(Items)]
      /\ \A p \in Passes : IF p = s THEN todo'[p] = <<>> ELSE todo'[p] = todo[p]
  BY <1>1 DEF Work, WorkTyped
<1>4. quote' \in [Settlers -> Nat]
  BY <1>1 DEF Work, WorkTyped, Unpriced
<1>5. /\ failed' \in [Passes -> SUBSET Requests]
      /\ \A p \in Passes : IF p = s THEN failed'[p] = {} ELSE failed'[p] = failed[p]
  BY <1>1 DEF Work, WorkTyped
<1>6. WorkTyped'
  <2>1. \A p \in Passes : /\ at'[p] \in {"idle", "list", "attempt"} <=> todo'[p] = <<>>
                          /\ at'[p] \in {"idle", "list"} => failed'[p] = {}
    BY <1>2, <1>3, <1>5, Apart DEF Work, WorkTyped
  <2> QED
    BY <1>1, <1>2, <1>3, <1>4, <1>5, <2>1 DEF Work, WorkTyped
<1>7. Broking'
  <2>1. \A r \in Requests : at'[r] = at[r] \/ at'[r] = "done"
    BY <1>2, Apart
  <2> QED
    BY <1>1, <2>1 DEF Work, Broking, Used, Brokering, Settling
<1>8. Passing'
  <2>1. \A p \in Passes : \A r : Lists(p, r)' => Lists(p, r)
    BY <1>3 DEF Lists
  <2>2. \A p \in Passes : at'[p] \in Settling \cup {"idle", "list", "attempt"}
    BY <1>2, Apart DEF Work, Passing
  <2> QED
    BY <1>1, <2>1, <2>2 DEF Work, Passing, Used
<1>9. WorldTyped'
  BY <1>1, MeetOK DEF WorldTyped, TroubleKinds
<1>10. RowTyped' /\ TriedTyped' /\ AutumnTyped' /\ Charged'
  BY <1>1 DEF RowTyped, TriedTyped, AutumnTyped, Charged
<1> QED
  BY <1>6, <1>7, <1>8, <1>9, <1>10 DEF Work

LEMMA GrowOlderOK == ASSUME IInv, NEW r \in Requests, GrowOlder(r) PROVE IInv'
<1> USE DEF IInv
<1>1. /\ UNCHANGED <<row, tried, priced, blind, at, required, quote, todo, failed, charges, trouble>>
      /\ age[r] # "forgotten"
      /\ age[r] = "due" => at[r] = "done"
      /\ age[r] = "late" /\ PassesAreQuick => ~InPass(r)
      /\ age' = [age EXCEPT ![r] = Older[@]]
      /\ keys' = [keys EXCEPT ![r] = IF age[r] = "late" /\ @ = "early" THEN "unused" ELSE @]
  BY DEF GrowOlder, rows, pass
<1>2. age[r] \in Ages
  BY DEF RowTyped
<1>3. /\ Older[age[r]] \in Ages
      /\ Older[age[r]] = "due" <=> age[r] = "new"
      /\ Older[age[r]] = "forgotten" <=> age[r] = "late"
  BY <1>1, <1>2 DEF Ages, Older
<1>4. age'[r] = Older[age[r]] /\ \A q \in Requests : q # r => age'[q] = age[q]
  BY <1>1 DEF RowTyped
<1>5. RowTyped'
  BY <1>1, <1>3 DEF RowTyped
<1>6. AutumnTyped'
  BY <1>1 DEF AutumnTyped
<1>7. Work'
  <2>1. WorkTyped'
    BY <1>1 DEF Work, WorkTyped
  <2>2. Broking'
    <3>1. at[r] # "done" => age'[r] \in {"new", "due"}
      BY <1>1, <1>3, <1>4 DEF Work, Broking
    <3> QED
      BY <1>1, <1>4, <3>1 DEF Work, Broking, Used
  <2>3. Passing'
    <3>1. \A p \in Passes : \A q : Lists(p, q)' <=> Lists(p, q)
      BY <1>1 DEF Lists
    <3>2. \A p \in Passes : Lists(p, r) /\ PassesAreQuick => age'[r] # "forgotten"
      BY <1>1, <1>3, <1>4 DEF InPass, Lists
    <3> QED
      BY <1>1, <1>4, <3>1, <3>2 DEF Work, Passing, Used
  <2> QED
    BY <2>1, <2>2, <2>3 DEF Work
<1>8. Charged'
  <2>1. /\ keys'[r] = "unused" => keys[r] = "unused" \/ age'[r] = "forgotten"
        /\ keys'[r] # "unused" => keys[r] # "unused"
        /\ \A q \in Requests : q # r => keys'[q] = keys[q]
    BY <1>1, <1>3, <1>4 DEF AutumnTyped
  <2> QED
    BY <1>1, <1>4, <2>1 DEF Charged
<1>9. WorldTyped' /\ TriedTyped'
  BY <1>1 DEF WorldTyped, TriedTyped
<1> QED
  BY <1>5, <1>6, <1>7, <1>8, <1>9

\* What the world does to prices touches nobody's work.
LEMMA PriceChanges == ASSUME IInv, NEW r \in Requests, Delist(r) \/ Relist(r) PROVE IInv'
<1> USE DEF IInv
<1>1. /\ UNCHANGED <<row, tried, age, at, required, quote, todo, failed, keys, charges>>
      /\ priced' \in SUBSET Requests /\ UNCHANGED blind
      /\ UNCHANGED trouble \/ Meet("delist")
  BY DEF Delist, Relist, rows, pass, autumn, WorldTyped
<1>2. WorldTyped'
  BY <1>1, MeetOK DEF WorldTyped, TroubleKinds
<1>3. RowTyped' /\ TriedTyped' /\ AutumnTyped' /\ Charged'
  BY <1>1 DEF RowTyped, TriedTyped, AutumnTyped, Charged
<1>4. Work'
  BY <1>1 DEF Work, WorkTyped, Broking, Passing, Lists, Used
<1> QED
  BY <1>2, <1>3, <1>4

-----------------------------------------------------------------------------
(* The theorems. *)

LEMMA InitInv == ASSUME Init PROVE IInv
<1> USE DEF Init
<1>1. RowTyped /\ TriedTyped /\ AutumnTyped /\ Charged
  BY DEF RowTyped, TriedTyped, AutumnTyped, Charged, Ages, Unpriced
<1>2. WorldTyped
  BY ModelUsageAssumption DEF WorldTyped
<1>3. Work
  <2>1. /\ \A r \in Requests : at[r] = "none"
        /\ \A p \in Passes : at[p] = "idle" /\ todo[p] = <<>> /\ failed[p] = {}
    BY Apart
  <2>2. WorkTyped
    BY <2>1 DEF WorkTyped, PC, Unpriced
  <2>3. Broking
    BY <2>1 DEF Broking, Brokering, Settling
  <2>4. Passing
    BY <2>1 DEF Passing, Lists
  <2> QED
    BY <2>2, <2>3, <2>4 DEF Work
<1> QED
  BY <1>1, <1>2, <1>3 DEF IInv

LEMMA NextInv == ASSUME IInv, [Next]_vars PROVE IInv'
<1>1. CASE UNCHANGED vars
  <2>1. UNCHANGED <<row, age, tried, priced, blind, at, required, quote, todo, failed, keys, charges, trouble>>
    BY <1>1 DEF vars
  <2>2. RowTyped' /\ WorldTyped' /\ TriedTyped' /\ AutumnTyped' /\ Charged'
    BY <2>1 DEF IInv, RowTyped, WorldTyped, TriedTyped, AutumnTyped, Charged
  <2>3. Work'
    BY <2>1 DEF IInv, Work, WorkTyped, Broking, Passing, Lists, Used
  <2> QED
    BY <2>2, <2>3 DEF IInv
<1>2. ASSUME NEW r \in Requests, Reserve(r) \/ BrokerStep(r) PROVE IInv'
  BY <1>2, ReserveOK, CheckAllowanceOK, InsertReservationOK, CallProviderOK, ReleaseOK, PriceUseOK,
     CompleteUseOK DEF BrokerStep
<1>3. ASSUME NEW r \in Requests, GrowOlder(r) \/ Delist(r) \/ Relist(r) PROVE IInv'
  BY <1>3, GrowOlderOK, PriceChanges
<1>4. ASSUME NEW p \in Passes, PassStep(p) PROVE IInv'
  BY <1>4, PurgeAbandonedOK, ListUnbilledOK, ListFailsOK, MarkAttemptedOK DEF PassStep
<1>5. ASSUME NEW s \in Settlers, SettleStep(s) \/ Crash(s) PROVE IInv'
  BY <1>5, PriceRowOK, SetCostOK, TrackOK, MarkBilledOK, CrashOK DEF SettleStep
<1> QED
  BY <1>1, <1>2, <1>3, <1>4, <1>5 DEF Next

LEMMA Invariant == Spec => []IInv
<1>1. Init => IInv
  BY InitInv
<1>2. IInv /\ [Next]_vars => IInv'
  BY NextInv
<1> QED
  BY <1>1, <1>2, PTL DEF Spec

\* Every reachable state of the ledger is well-typed.
THEOREM TypeCorrect == Spec => []TypeOK
<1>1. ASSUME IInv PROVE TypeOK
  <2>1. /\ row \in [Requests -> [state: {"none", "reserved", "completed", "billed", "gone"}, cost: Nat]]
        /\ age \in [Requests -> Ages]
    BY <1>1 DEF IInv, RowTyped
  <2>2. /\ tried \in Seq(Requests) /\ priced \in SUBSET Requests /\ blind \in SUBSET Requests
        /\ trouble \in [TroubleKinds -> Nat]
    BY <1>1 DEF IInv, TriedTyped, WorldTyped
  <2>3. /\ keys \in [Requests -> {"unused", "early", "late"}]
        /\ charges \in [Requests -> [times: Nat, micros: Nat]]
    BY <1>1 DEF IInv, AutumnTyped
  <2>4. WorkTyped
    BY <1>1 DEF IInv, Work
  <2> QED
    BY <2>1, <2>2, <2>3, <2>4 DEF WorkTyped, Items, TypeOK
<1> QED
  BY <1>1, Invariant, PTL

\* Autumn charges a request at most once, whoever reports it and however often
\* calls fail, if no pass holds a row for longer than its key lasts: the retry
\* window (usageRetryWindowMs) ends before the key does.
THEOREM ChargedOnceCorrect == PassesAreQuick => (Spec => []ChargedOnce)
<1> SUFFICES ASSUME PassesAreQuick PROVE Spec => []ChargedOnce
  OBVIOUS
<1>1. IInv => ChargedOnce
  BY DEF IInv, Charged, ChargedOnce
<1> QED
  BY <1>1, Invariant, PTL

\* Usage that the broker has yet to record finds its reservation: the purge of
\* abandoned reservations never takes it away.
THEOREM UseFindsRowCorrect == Spec => []UseFindsRow
<1>1. IInv => UseFindsRow
  BY DEF IInv, Work, Broking, Used, UseFindsRow
<1> QED
  BY <1>1, Invariant, PTL

-----------------------------------------------------------------------------
(* A row is charged what it holds, if it was completed with a cost. *)

Worths(r) == {Use[r] * price : price \in Prices}

\* Someone knows what the row of r costs, or that it was completed blind.
Knows(r, micros) == IF micros = Unpriced THEN r \in blind ELSE row[r].cost = micros

RowsValued ==
  \A r \in Requests :
    /\ Used(r) => row[r].cost \in Worths(r) \/ (row[r].cost = Unpriced /\ r \in blind)
    /\ r \in blind => Used(r)
    /\ row[r].state = "billed" => row[r].cost # Unpriced /\ charges[r].times > 0
    /\ at[r] = "complete" => quote[r] \in Worths(r) \cup {Unpriced}
ListsValued ==
  \A p \in Passes : \A i \in DOMAIN todo[p] : Knows(todo[p][i].id, todo[p][i].cost)
ChargesValued ==
  \A r \in Requests :
    /\ charges[r].times = 0 => charges[r].micros = 0
    /\ charges[r].times > 0 => Used(r) /\ charges[r].micros \in Costs(r)

\* A settler reports what its row holds, or what it looked up for a blind one.
Quoted(s) ==
  /\ at[s] = "settle" => Knows(Held(s), quote[s])
  /\ at[s] = "setcost" => Held(s) \in blind /\ quote[s] \in Worths(Held(s))
  /\ at[s] = "track" => row[Held(s)].cost # Unpriced /\ quote[s] \in Costs(Held(s))
  /\ at[s] = "mark" => row[Held(s)].cost # Unpriced /\ charges[Held(s)].times > 0

Valued == RowsValued /\ ListsValued /\ ChargesValued /\ \A s \in Settlers : Quoted(s)

\* What was used has a cost at every price.
LEMMA WorthOK ==
  ASSUME NEW r \in Requests, NEW price \in Prices
  PROVE  Use[r] * price \in Nat \ {Unpriced}
<1>1. Use[r] \in Nat /\ Use[r] # 0 /\ price \in Nat /\ price # 0
  BY PriceOK, ModelUsageAssumption
<1>2. \A m, n \in Nat : m # 0 /\ n # 0 => m * n \in Nat /\ m * n # 0
  OBVIOUS
<1> QED
  BY <1>1, <1>2 DEF Unpriced

LEMMA WorthsOK == ASSUME NEW r \in Requests PROVE Worths(r) \subseteq Nat \ {Unpriced}
BY WorthOK DEF Worths

\* A used row keeps its cost, or gets one when it had none, and stays blind or
\* not; a charge stays.
CostsKept ==
  \A r \in Requests :
    /\ Used(r) => /\ \/ row'[r].cost = row[r].cost
                     \/ row[r].cost = Unpriced /\ row'[r].cost \in Worths(r)
                  /\ r \in blind' <=> r \in blind
                  /\ Used(r)'
    /\ charges[r].times > 0 => charges'[r] = charges[r]

\* What someone knows of a used row stays true, and what may be charged for it
\* stays the same.
LEMMA KnownStays ==
  ASSUME IInv, Valued, CostsKept, NEW r \in Requests, Used(r), NEW micros
  PROVE  /\ Knows(r, micros) => Knows(r, micros)'
         /\ row[r].cost # Unpriced => row'[r].cost # Unpriced
         /\ Costs(r)' = Costs(r)
<1>1. r \notin blind => row[r].cost # Unpriced
  BY WorthsOK DEF Valued, RowsValued
<1>2. /\ \/ row'[r].cost = row[r].cost
         \/ row[r].cost = Unpriced /\ row'[r].cost \in Worths(r)
      /\ r \in blind' <=> r \in blind
  BY DEF CostsKept
<1>3. row[r].cost # Unpriced => row'[r].cost = row[r].cost
  BY <1>2
<1>4. Knows(r, micros) => Knows(r, micros)'
  BY <1>2, <1>3 DEF Knows
<1>5. Costs(r)' = Costs(r)
  <2>1. CASE r \in blind
    BY <1>2, <2>1 DEF Costs
  <2>2. CASE r \notin blind
    BY <1>1, <1>2, <1>3, <2>2 DEF Costs
  <2> QED
    BY <2>1, <2>2
<1> QED
  BY <1>3, <1>4, <1>5

\* Who stays where it is goes on reporting what its row holds.
LEMMA QuotedStays ==
  ASSUME IInv, Valued, CostsKept, NEW x \in Settlers,
         at'[x] = at[x], quote'[x] = quote[x], Held(x)' = Held(x)
  PROVE  Quoted(x)'
<1>1. CASE at[x] \in Settling
  <2> DEFINE r == Held(x)
  <2>1. r \in Requests /\ Used(r)
    BY <1>1, HeldOK DEF IInv
  <2>2. Quoted(x)
    BY DEF Valued
  <2>3. /\ Knows(r, quote[x]) => Knows(r, quote[x])'
        /\ row[r].cost # Unpriced => row'[r].cost # Unpriced
        /\ Costs(r)' = Costs(r)
    BY <2>1, KnownStays
  <2>4. (r \in blind' <=> r \in blind) /\ (charges[r].times > 0 => charges'[r].times > 0)
    BY <2>1 DEF CostsKept
  <2>5. at'[x] = "settle" => Knows(Held(x), quote[x])'
    BY <2>2, <2>3 DEF Quoted, Knows
  <2>6. at'[x] = "setcost" => Held(x)' \in blind' /\ quote'[x] \in Worths(Held(x))'
    BY <2>2, <2>4 DEF Quoted, Worths
  <2>7. at'[x] = "track" => row'[Held(x)'].cost # Unpriced /\ quote'[x] \in Costs(Held(x))'
    BY <2>2, <2>3 DEF Quoted, Costs
  <2>8. at'[x] = "mark" => row'[Held(x)'].cost # Unpriced /\ charges'[Held(x)'].times > 0
    BY <2>2, <2>3, <2>4 DEF Quoted
  <2> QED
    BY <2>5, <2>6, <2>7, <2>8 DEF Quoted
<1>2. CASE at[x] \notin Settling
  BY <1>2 DEF Quoted, Settling
<1> QED
  BY <1>1, <1>2

\* A list keeps its costs, also when it gets shorter.
LEMMA ListsStay ==
  ASSUME IInv, Valued, CostsKept,
         \A p \in Passes : \A i \in DOMAIN todo'[p] : \E j \in DOMAIN todo[p] : todo'[p][i] = todo[p][j]
  PROVE  ListsValued'
<1>1. ASSUME NEW p \in Passes, NEW i \in DOMAIN todo'[p]
      PROVE  Knows(todo[p][i].id, todo[p][i].cost)'
  <2>1. PICK j \in DOMAIN todo[p] : todo'[p][i] = todo[p][j]
    BY <1>1
  <2> DEFINE r == todo[p][j].id
             micros == todo[p][j].cost
  <2>2. Knows(r, micros)
    BY DEF Valued, ListsValued
  <2>3. r \in Requests /\ Used(r)
    <3>1. todo[p] \in Seq(Items)
      BY DEF IInv, Work, WorkTyped
    <3>2. todo[p][j] \in Items
      BY <3>1
    <3> QED
      BY <3>2 DEF Items, Lists, IInv, Work, Passing
  <2> HIDE DEF r, micros
  <2>4. /\ \/ row'[r].cost = row[r].cost
           \/ row[r].cost = Unpriced /\ row'[r].cost \in Worths(r)
        /\ r \in blind' <=> r \in blind
    BY <2>3 DEF CostsKept
  <2>5. IF micros = Unpriced THEN r \in blind' ELSE row'[r].cost = micros
    BY <2>2, <2>4 DEF Knows
  <2> QED
    BY <2>1, <2>5 DEF Knows, r, micros
<1> QED
  BY <1>1 DEF ListsValued

\* A charge stays right when no row changes that was charged.
LEMMA ChargesStay ==
  ASSUME IInv, Valued, CostsKept, UNCHANGED charges
  PROVE  ChargesValued'
<1>1. ASSUME NEW r \in Requests, charges[r].times > 0
      PROVE  Used(r)' /\ charges[r].micros \in Costs(r)'
  <2>1. Used(r) /\ charges[r].micros \in Costs(r)
    BY <1>1 DEF Valued, ChargesValued
  <2>2. Used(r)' /\ Costs(r)' = Costs(r)
    BY <2>1, KnownStays DEF CostsKept
  <2> QED
    BY <2>1, <2>2
<1>2. \A r \in Requests : charges[r].times = 0 => charges[r].micros = 0
  BY DEF Valued, ChargesValued
<1> QED
  BY <1>1, <1>2 DEF ChargesValued

\* A step that writes no used row and begins no report.
LEMMA Undisturbed ==
  ASSUME IInv, Valued, UNCHANGED <<charges, blind>>,
         \A r \in Requests : Used(r) => row'[r] = row[r],
         \A r \in Requests : Used(r)' => Used(r),
         \A r \in Requests : at'[r] = "complete" => quote'[r] \in Worths(r) \cup {Unpriced},
         \A s \in Settlers : at'[s] \in Settling =>
           at'[s] = at[s] /\ quote'[s] = quote[s] /\ Held(s)' = Held(s),
         \A p \in Passes : \A i \in DOMAIN todo'[p] : \E j \in DOMAIN todo[p] : todo'[p][i] = todo[p][j]
  PROVE  Valued'
<1>1. CostsKept
  BY DEF CostsKept, Used
<1>2. \A s \in Settlers : Quoted(s)'
  <2>1. ASSUME NEW s \in Settlers, at'[s] \notin Settling PROVE Quoted(s)'
    BY <2>1 DEF Quoted, Settling
  <2> QED
    BY <1>1, <2>1, QuotedStays
<1>3. ListsValued' /\ ChargesValued'
  BY <1>1, ListsStay, ChargesStay
<1>4. RowsValued'
  BY DEF Valued, RowsValued, Used, Worths
<1> QED
  BY <1>2, <1>3, <1>4 DEF Valued

\* The broker, before it has completed its row.
LEMMA BrokerValued ==
  ASSUME IInv, Valued, NEW r \in Requests,
         \/ Reserve(r) \/ CheckAllowance(r) \/ InsertReservation(r) \/ CallProvider(r)
         \/ Release(r) \/ PriceUse(r)
  PROVE  Valued'
<1>1. /\ UNCHANGED <<charges, blind, todo>>
      /\ at[r] \in {"none", "allow", "insert", "call", "release", "price"}
      /\ \E pc \in {"allow", "insert", "call", "release", "price", "complete", "done"} :
           /\ Goto(r, pc)
           /\ pc = "complete" => PriceUse(r)
      /\ UNCHANGED quote \/ \E micros : quote' = [quote EXCEPT ![r] = micros]
  BY DEF Reserve, CheckAllowance, InsertReservation, CallProvider, Release, PriceUse, world, pass, autumn
<1>2. /\ at \in [Settlers -> PC] /\ quote \in [Settlers -> Nat] /\ r \in Settlers
      /\ row \in [Requests -> [state: {"none", "reserved", "completed", "billed", "gone"}, cost: Nat]]
  BY Apart DEF IInv, Work, WorkTyped, RowTyped
<1>3. /\ \A q \in Requests : Used(q) => row'[q] = row[q]
      /\ \A q \in Requests : Used(q)' => Used(q)
  <2>1. CASE UNCHANGED row
    BY <2>1 DEF Used
  <2>2. CASE at[r] = "insert" /\ row' = [row EXCEPT ![r] = [state |-> "reserved", cost |-> quote[r]]]
    BY <1>2, <2>2 DEF IInv, Work, Broking, Used
  <2>3. CASE row' = [row EXCEPT ![r].state = IF @ = "reserved" THEN "gone" ELSE @]
    BY <1>2, <2>3 DEF Used
  <2> QED
    BY <2>1, <2>2, <2>3 DEF Reserve, CheckAllowance, InsertReservation, CallProvider, Release, PriceUse,
       rows
<1>4. PICK pc \in {"allow", "insert", "call", "release", "price", "complete", "done"} :
        Goto(r, pc) /\ (pc = "complete" => PriceUse(r))
  BY <1>1
<1>5. at'[r] = pc /\ \A x \in Settlers : x # r => at'[x] = at[x] /\ quote'[x] = quote[x]
  BY <1>1, <1>2, <1>4 DEF Goto
<1>6. pc = "complete" => quote'[r] \in Worths(r) \cup {Unpriced}
  <2>1. ASSUME PriceUse(r) PROVE \/ \E price \in Prices : quote' = [quote EXCEPT ![r] = Use[r] * price]
                                 \/ quote' = [quote EXCEPT ![r] = Unpriced]
    BY <2>1 DEF PriceUse
  <2>2. ASSUME NEW price \in Prices, quote' = [quote EXCEPT ![r] = Use[r] * price]
        PROVE  quote'[r] \in Worths(r)
    BY <1>2, <2>2 DEF Worths
  <2> QED
    BY <1>2, <1>4, <2>1, <2>2
<1>7. \A q \in Requests : at'[q] = "complete" => quote'[q] \in Worths(q) \cup {Unpriced}
  BY <1>5, <1>6, Apart DEF Valued, RowsValued
<1>8. \A s \in Settlers : at'[s] \in Settling =>
        at'[s] = at[s] /\ quote'[s] = quote[s] /\ Held(s)' = Held(s)
  BY <1>1, <1>5 DEF Settling, Held
<1>9. \A p \in Passes : \A i \in DOMAIN todo'[p] : \E j \in DOMAIN todo[p] : todo'[p][i] = todo[p][j]
  BY <1>1
<1> QED
  BY <1>1, <1>3, <1>7, <1>8, <1>9, Undisturbed

LEMMA CompleteUseValued ==
  ASSUME IInv, Valued, NEW r \in Requests, CompleteUse(r)
  PROVE  Valued'
<1>1. /\ UNCHANGED <<charges, todo, quote>>
      /\ at[r] = "complete" /\ quote[r] \in Worths(r) \cup {Unpriced} /\ quote[r] \in Nat
      /\ Completed(r) \/ UNCHANGED <<row, blind>>
      /\ row \in [Requests -> [state: {"none", "reserved", "completed", "billed", "gone"}, cost: Nat]]
      /\ at \in [Settlers -> PC] /\ r \in Settlers /\ blind \in SUBSET Requests
  BY Apart DEF CompleteUse, pass, autumn, Valued, RowsValued, IInv, RowTyped, Work, WorkTyped, WorldTyped
<1>2. \/ UNCHANGED <<row, blind>>
      \/ /\ row[r].state = "reserved"
         /\ row'[r] = [state |-> "completed", cost |-> quote[r]]
         /\ \A q \in Requests : q # r => row'[q] = row[q]
         /\ blind' = IF quote[r] = Unpriced THEN blind \cup {r} ELSE blind
  BY <1>1 DEF Completed
<1>3. /\ \/ at'[r] \in {"complete", "done"}
         \/ at'[r] = "settle" /\ row[r].state = "reserved" /\ Completed(r)
      /\ \A x \in Settlers : x # r => at'[x] = at[x]
  BY <1>1 DEF CompleteUse, Goto
<1>4. CostsKept
  BY <1>1, <1>2 DEF CostsKept, Used
<1>5. r \notin blind \/ Used(r)
  BY DEF Valued, RowsValued
<1>6. \A s \in Settlers : Quoted(s)'
  <2>1. Quoted(r)'
    <3>1. at'[r] = "settle" => Knows(r, quote[r])'
      BY <1>1, <1>2, <1>3 DEF Knows, Completed
    <3> QED
      BY <1>3, <3>1 DEF Quoted, Held
  <2>2. \A s \in Settlers : Held(s)' = Held(s)
    BY <1>1 DEF Held
  <2> QED
    BY <1>1, <1>3, <1>4, <2>1, <2>2, QuotedStays
<1>7. ListsValued' /\ ChargesValued'
  BY <1>1, <1>4, ListsStay, ChargesStay
<1>8. RowsValued'
  <2>1. \A q \in Requests : at'[q] = "complete" => at[q] = "complete"
    BY <1>1, <1>3, Apart
  <2>2. \A q \in Requests : Used(q)' =>
          row'[q].cost \in Worths(q) \/ (row'[q].cost = Unpriced /\ q \in blind')
    BY <1>1, <1>2 DEF Valued, RowsValued, Used
  <2>3. \A q \in Requests : q \in blind' => Used(q)'
    BY <1>1, <1>2 DEF Valued, RowsValued, Used
  <2>4. \A q \in Requests :
          row'[q].state = "billed" => row'[q].cost # Unpriced /\ charges'[q].times > 0
    BY <1>1, <1>2 DEF Valued, RowsValued
  <2>5. \A q \in Requests : at'[q] = "complete" => quote'[q] \in Worths(q) \cup {Unpriced}
    BY <1>1, <2>1 DEF Valued, RowsValued
  <2> QED
    BY <2>2, <2>3, <2>4, <2>5 DEF RowsValued, Worths
<1> QED
  BY <1>6, <1>7, <1>8 DEF Valued

\* A pass that holds no row, a settler that dies, and the clock.
LEMMA IdleValued ==
  ASSUME IInv, Valued, NEW p \in Passes, PurgeAbandoned(p) \/ ListFails(p) \/ MarkAttempted(p)
  PROVE  Valued'
<1>1. /\ UNCHANGED <<charges, blind, todo, quote>>
      /\ \E pc \in {"idle", "list"} : Goto(p, pc) \/ UNCHANGED at
  BY DEF PurgeAbandoned, ListFails, MarkAttempted, world, pass, autumn
<1>2. /\ at \in [Settlers -> PC] /\ p \in Settlers
      /\ row \in [Requests -> [state: {"none", "reserved", "completed", "billed", "gone"}, cost: Nat]]
  BY Apart DEF IInv, Work, WorkTyped, RowTyped
<1>3. /\ \A q \in Requests : Used(q) => row'[q] = row[q]
      /\ \A q \in Requests : Used(q)' => Used(q)
  BY <1>2 DEF PurgeAbandoned, ListFails, MarkAttempted, rows, Used
<1>4. at'[p] \in {"idle", "list"} \/ UNCHANGED at
  BY <1>1, <1>2 DEF Goto
<1>5. \A x \in Settlers : x # p => at'[x] = at[x]
  BY <1>1, <1>2 DEF Goto
<1>6. \A q \in Requests : at'[q] = "complete" => quote'[q] \in Worths(q) \cup {Unpriced}
  BY <1>1, <1>5, Apart DEF Valued, RowsValued
<1>7. \A s \in Settlers : at'[s] \in Settling =>
        at'[s] = at[s] /\ quote'[s] = quote[s] /\ Held(s)' = Held(s)
  BY <1>1, <1>4, <1>5 DEF Settling, Held
<1>8. \A x \in Passes : \A i \in DOMAIN todo'[x] : \E j \in DOMAIN todo[x] : todo'[x][i] = todo[x][j]
  BY <1>1
<1> QED
  BY <1>1, <1>3, <1>6, <1>7, <1>8, Undisturbed

LEMMA CrashValued ==
  ASSUME IInv, Valued, NEW s \in Settlers, Crash(s)
  PROVE  Valued'
<1>1. /\ UNCHANGED <<charges, blind, row>>
      /\ Goto(s, IF s \in Requests THEN "done" ELSE "idle")
      /\ quote' = [quote EXCEPT ![s] = Unpriced]
      /\ todo' = [p \in Passes |-> IF p = s THEN <<>> ELSE todo[p]]
      /\ at \in [Settlers -> PC] /\ quote \in [Settlers -> Nat]
  BY DEF Crash, rows, world, autumn, IInv, Work, WorkTyped
<1>2. at'[s] \in {"done", "idle"} /\ \A x \in Settlers : x # s => at'[x] = at[x] /\ quote'[x] = quote[x]
  BY <1>1 DEF Goto
<1>3. \A q \in Requests : at'[q] = "complete" => quote'[q] \in Worths(q) \cup {Unpriced}
  BY <1>2, Apart DEF Valued, RowsValued
<1>4. \A x \in Settlers : at'[x] \in Settling =>
        at'[x] = at[x] /\ quote'[x] = quote[x] /\ Held(x)' = Held(x)
  BY <1>1, <1>2, Apart DEF Settling, Held
<1>5. \A p \in Passes : \A i \in DOMAIN todo'[p] : \E j \in DOMAIN todo[p] : todo'[p][i] = todo[p][j]
  BY <1>1
<1> QED
  BY <1>1, <1>3, <1>4, <1>5, Undisturbed DEF Used

\* A step that changes none of this.
LEMMA NothingValued ==
  ASSUME Valued, UNCHANGED <<row, blind, at, quote, todo, charges>>
  PROVE  Valued'
<1>1. \A s \in Settlers : Quoted(s) => Quoted(s)'
  BY DEF Quoted, Knows, Held, Costs, Worths
<1>2. RowsValued' /\ ListsValued'
  BY DEF Valued, RowsValued, ListsValued, Knows, Used, Worths
<1>3. ChargesValued'
  BY DEF Valued, ChargesValued, Costs, Used
<1> QED
  BY <1>1, <1>2, <1>3 DEF Valued

LEMMA WorldValued ==
  ASSUME IInv, Valued, NEW r \in Requests, GrowOlder(r) \/ Delist(r) \/ Relist(r)
  PROVE  Valued'
<1>1. UNCHANGED <<row, blind, at, quote, todo, charges>>
  BY DEF GrowOlder, Delist, Relist, rows, pass, autumn
<1> QED
  BY <1>1, NothingValued

\* A pass lists the rows with the costs they have.
LEMMA ListUnbilledValued ==
  ASSUME IInv, Valued, NEW p \in Passes, ListUnbilled(p)
  PROVE  Valued'
<1>1. /\ UNCHANGED <<row, blind, charges>>
      /\ at[p] = "list" /\ p \in Settlers
      /\ at \in [Settlers -> PC] /\ quote \in [Settlers -> Nat] /\ todo \in [Passes -> Seq(Items)]
  BY Apart DEF ListUnbilled, rows, world, autumn, IInv, Work, WorkTyped
<1>2. PICK order \in SetToSeqs({r \in Requests : Listed(r)}) :
        LET ids == SubSeq(order, 1, IF Len(order) < ListLimit THEN Len(order) ELSE ListLimit)
        IN /\ todo' = [todo EXCEPT ![p] = [i \in DOMAIN ids |->
                                             [id |-> ids[i], cost |-> row[ids[i]].cost]]]
           /\ quote' = [quote EXCEPT ![p] = IF ids = <<>> THEN Unpriced ELSE row[ids[1]].cost]
           /\ Goto(p, IF ids = <<>> THEN "idle" ELSE "settle")
  BY DEF ListUnbilled
<1> DEFINE ids == SubSeq(order, 1, IF Len(order) < ListLimit THEN Len(order) ELSE ListLimit)
<1> HIDE DEF ids
<1> DEFINE list == [i \in DOMAIN ids |-> [id |-> ids[i], cost |-> row[ids[i]].cost]]
<1>3. /\ todo'[p] = list /\ \A x \in Passes : x # p => todo'[x] = todo[x]
      /\ quote'[p] = (IF ids = <<>> THEN Unpriced ELSE row[ids[1]].cost)
      /\ at'[p] = (IF ids = <<>> THEN "idle" ELSE "settle")
      /\ \A x \in Settlers : x # p => at'[x] = at[x] /\ quote'[x] = quote[x]
  BY <1>1, <1>2 DEF Goto, ids
<1>4. \A i \in DOMAIN list : Knows(list[i].id, list[i].cost)
  <2>1. IInv'
    BY ListUnbilledOK
  <2> SUFFICES ASSUME NEW i \in DOMAIN list PROVE Knows(list[i].id, list[i].cost)
    OBVIOUS
  <2>2. todo'[p] \in Seq(Items) /\ i \in DOMAIN todo'[p]
    BY <1>3, <2>1 DEF IInv, Work, WorkTyped
  <2>3. list[i].id \in Requests
    BY <1>3, <2>2 DEF Items
  <2>4. Used(list[i].id)
    BY <1>1, <1>3, <2>1, <2>2, <2>3 DEF IInv, Work, Passing, Lists, Used
  <2>5. list[i].cost = row[list[i].id].cost
    OBVIOUS
  <2>6. row[list[i].id].cost = Unpriced => list[i].id \in blind
    BY <2>3, <2>4, WorthsOK DEF Valued, RowsValued
  <2> HIDE DEF list
  <2> QED
    BY <2>5, <2>6 DEF Knows
<1>5. CostsKept
  BY <1>1 DEF CostsKept, Used
<1>6. Quoted(p)'
  <2>1. CASE ids = <<>>
    BY <1>3, <2>1 DEF Quoted
  <2>2. CASE ids # <<>>
    <3>1. IInv'
      BY ListUnbilledOK
    <3>2. at'[p] = "settle" /\ quote'[p] = row[ids[1]].cost
      BY <1>3, <2>2
    <3>3. todo' \in [Passes -> Seq(Items)] /\ todo'[p] # <<>>
      BY <3>1, <3>2 DEF IInv, Work, WorkTyped
    <3>4. Head(todo'[p]) = todo'[p][1] /\ 1 \in DOMAIN todo'[p]
      BY <3>3
    <3>5. Held(p)' = ids[1] /\ 1 \in DOMAIN list /\ list[1].id = ids[1] /\ list[1].cost = row[ids[1]].cost
      BY <1>3, <3>4, Apart DEF Held
    <3>6. Knows(ids[1], row[ids[1]].cost)
      BY <1>4, <3>5
    <3>7. Knows(Held(p), quote[p])'
      BY <1>1, <3>2, <3>5, <3>6 DEF Knows
    <3> QED
      BY <3>2, <3>7 DEF Quoted
  <2> QED
    BY <2>1, <2>2
<1>7. \A s \in Settlers : Quoted(s)'
  <2>1. \A s \in Settlers : s # p => Held(s)' = Held(s)
    BY <1>3, Apart DEF Held
  <2> QED
    BY <1>3, <1>5, <1>6, <2>1, QuotedStays
<1>8. ListsValued'
  <2>1. ASSUME NEW x \in Passes, NEW i \in DOMAIN todo'[x]
        PROVE  Knows(todo[x][i].id, todo[x][i].cost)'
    <3>1. CASE x = p
      <4> HIDE DEF list
      <4>1. Knows(todo'[x][i].id, todo'[x][i].cost)
        BY <1>3, <1>4, <2>1, <3>1
      <4> QED
        BY <1>1, <4>1 DEF Knows
    <3>2. CASE x # p
      <4>1. Knows(todo[x][i].id, todo[x][i].cost) /\ todo'[x] = todo[x]
        BY <1>3, <2>1, <3>2 DEF Valued, ListsValued
      <4> QED
        BY <1>1, <4>1 DEF Knows
    <3> QED
      BY <3>1, <3>2
  <2> QED
    BY <2>1 DEF ListsValued
<1>9. ChargesValued'
  BY <1>1, <1>5, ChargesStay
<1>10. RowsValued'
  BY <1>1, <1>3, Apart DEF Valued, RowsValued, Used, Worths
<1> QED
  BY <1>7, <1>8, <1>9, <1>10 DEF Valued

\* A settler that leaves its row: a pass that goes on knows the next row as it
\* listed it.
LEMMA LeaveValued ==
  ASSUME IInv, Valued, CostsKept, NEW s \in Settlers, at[s] \in Settling,
         NEW settled \in BOOLEAN, Leave(s, settled), IInv'
  PROVE  /\ ListsValued' /\ \A x \in Settlers : Quoted(x)'
         /\ \A r \in Requests : at'[r] = "complete" => at[r] = "complete" /\ quote'[r] = quote[r]
<1>1. /\ at' \in [Settlers -> PC] /\ \A x \in Settlers : x # s => at'[x] = at[x]
      /\ quote' \in [Settlers -> Nat] /\ \A x \in Settlers : x # s => quote'[x] = quote[x]
      /\ todo' \in [Passes -> Seq(Items)] /\ \A p \in Passes : p # s => todo'[p] = todo[p]
  BY LeaveOK DEF IInv
<1>2. \A p \in Passes : \A i \in DOMAIN todo'[p] : \E j \in DOMAIN todo[p] : todo'[p][i] = todo[p][j]
  BY LeaveOK DEF IInv
<1>3. /\ s \in Requests => at'[s] = "done"
      /\ s \in Passes => /\ at'[s] = (IF todo'[s] = <<>> THEN "attempt" ELSE "settle")
                         /\ todo'[s] # <<>> => /\ 1 \in DOMAIN todo'[s]
                                               /\ quote'[s] = todo'[s][1].cost
  BY LeaveOK DEF IInv
<1>4. ListsValued'
  BY <1>2, ListsStay
<1>5. Quoted(s)'
  <2>1. CASE s \in Requests
    BY <1>3, <2>1 DEF Quoted
  <2>2. CASE s \in Passes /\ todo'[s] = <<>>
    BY <1>3, <2>2 DEF Quoted
  <2>3. CASE s \in Passes /\ todo'[s] # <<>>
    <3>1. at'[s] = "settle" /\ 1 \in DOMAIN todo'[s] /\ quote'[s] = todo'[s][1].cost
      BY <1>3, <2>3
    <3>2. todo'[s] \in Seq(Items)
      BY <1>1, <2>3
    <3>3. Head(todo'[s]) = todo'[s][1] /\ todo'[s][1] \in Items
      BY <2>3, <3>1, <3>2
    <3>4. Held(s)' = todo'[s][1].id
      BY <2>3, <3>3, Apart DEF Held
    <3>5. Knows(todo[s][1].id, todo[s][1].cost)'
      BY <1>4, <2>3, <3>1 DEF ListsValued
    <3>6. Knows(Held(s), quote[s])'
      BY <3>1, <3>4, <3>5 DEF Knows
    <3> QED
      BY <3>1, <3>6 DEF Quoted
  <2> QED
    BY <2>1, <2>2, <2>3, Apart
<1>6. \A x \in Settlers : Quoted(x)'
  <2>1. \A x \in Settlers : x # s => Held(x)' = Held(x)
    BY <1>1, Apart DEF Held
  <2> QED
    BY <1>1, <1>5, <2>1, QuotedStays
<1>7. \A r \in Requests : at'[r] = "complete" => at[r] = "complete" /\ quote'[r] = quote[r]
  BY <1>1, <1>3, Apart
<1> QED
  BY <1>4, <1>6, <1>7

\* A settler that goes on with its row.
LEMMA GoesOnValued ==
  ASSUME IInv, Valued, CostsKept, NEW s \in Settlers, at[s] \in Settling, NEW pc \in Settling,
         Goto(s, pc), UNCHANGED pass,
         \A x \in Settlers : x # s => quote'[x] = quote[x], Quoted(s)'
  PROVE  /\ ListsValued' /\ \A x \in Settlers : Quoted(x)'
         /\ \A r \in Requests : at'[r] = "complete" => at[r] = "complete" /\ quote'[r] = quote[r]
<1>1. at'[s] = pc /\ \A x \in Settlers : x # s => at'[x] = at[x]
  BY DEF Goto, IInv, Work, WorkTyped
<1>2. \A x \in Settlers : Held(x)' = Held(x)
  BY DEF Held, pass
<1>3. \A x \in Settlers : Quoted(x)'
  BY <1>1, <1>2, QuotedStays
<1>4. ListsValued'
  BY ListsStay DEF pass
<1>5. \A r \in Requests : at'[r] = "complete" => at[r] = "complete" /\ quote'[r] = quote[r]
  BY <1>1, Apart DEF Settling
<1> QED
  BY <1>3, <1>4, <1>5

LEMMA PriceRowValued ==
  ASSUME IInv, Valued, NEW s \in Settlers, PriceRow(s)
  PROVE  Valued'
<1>1. /\ UNCHANGED <<row, blind, charges>>
      /\ at[s] = "settle" /\ at[s] \in Settling
      /\ at \in [Settlers -> PC] /\ quote \in [Settlers -> Nat]
  BY DEF PriceRow, rows, world, autumn, Settling, IInv, Work, WorkTyped
<1>2. Held(s) \in Requests /\ Used(Held(s)) /\ CostsKept /\ IInv' /\ Knows(Held(s), quote[s])
  BY <1>1, HeldOK, PriceRowOK DEF CostsKept, Used, IInv, Valued, Quoted
<1>3. /\ ListsValued' /\ \A x \in Settlers : Quoted(x)'
      /\ \A r \in Requests : at'[r] = "complete" => at[r] = "complete" /\ quote'[r] = quote[r]
  <2>1. CASE Leave(s, FALSE)
    BY <1>1, <1>2, <2>1, LeaveValued
  <2>2. CASE quote[s] # Unpriced /\ Goto(s, "track") /\ UNCHANGED <<quote, pass>>
    <3>1. at'[s] = "track" /\ Held(s)' = Held(s) /\ row[Held(s)].cost = quote[s]
      BY <1>1, <1>2, <2>2 DEF Goto, Held, pass, Knows
    <3>2. quote[s] \in Costs(Held(s))
      BY <1>2, <2>2, <3>1 DEF Valued, RowsValued, Costs, Worths
    <3>3. Costs(Held(s))' = Costs(Held(s))
      BY <1>1, <3>1 DEF Costs
    <3>4. Quoted(s)'
      BY <1>1, <2>2, <3>1, <3>2, <3>3 DEF Quoted
    <3>5. "track" \in Settling
      BY DEF Settling
    <3> QED
      BY <1>1, <1>2, <2>2, <3>4, <3>5, GoesOnValued
  <2>3. CASE /\ quote[s] = Unpriced
             /\ \E price \in Prices : quote' = [quote EXCEPT ![s] = Use[Held(s)] * price]
             /\ Goto(s, "setcost") /\ UNCHANGED pass
    <3>1. PICK price \in Prices : quote' = [quote EXCEPT ![s] = Use[Held(s)] * price]
      BY <2>3
    <3>2. quote'[s] \in Worths(Held(s)) /\ \A x \in Settlers : x # s => quote'[x] = quote[x]
      BY <1>1, <3>1 DEF Worths
    <3>3. at'[s] = "setcost" /\ Held(s)' = Held(s) /\ Held(s) \in blind
      BY <1>1, <1>2, <2>3 DEF Goto, Held, pass, Knows
    <3>4. Quoted(s)'
      BY <1>1, <3>2, <3>3 DEF Quoted, Worths
    <3>5. "setcost" \in Settling
      BY DEF Settling
    <3> QED
      BY <1>1, <1>2, <2>3, <3>2, <3>4, <3>5, GoesOnValued
  <2> QED
    BY <2>1, <2>2, <2>3 DEF PriceRow
<1>4. RowsValued' /\ ChargesValued'
  BY <1>1, <1>2, <1>3, ChargesStay DEF Valued, RowsValued, Used, Worths
<1> QED
  BY <1>3, <1>4 DEF Valued

LEMMA SetCostValued ==
  ASSUME IInv, Valued, NEW s \in Settlers, SetCost(s)
  PROVE  Valued'
<1>1. /\ UNCHANGED <<charges, blind>>
      /\ at[s] = "setcost" /\ at[s] \in Settling
      /\ at \in [Settlers -> PC] /\ quote \in [Settlers -> Nat]
      /\ row \in [Requests -> [state: {"none", "reserved", "completed", "billed", "gone"}, cost: Nat]]
      /\ \/ row' = [row EXCEPT ![Held(s)].cost = IF @ = Unpriced THEN quote[s] ELSE @]
         \/ UNCHANGED row
  BY DEF SetCost, world, autumn, Settling, IInv, Work, WorkTyped, RowTyped
<1>2. /\ Held(s) \in Requests /\ Used(Held(s)) /\ IInv'
      /\ Held(s) \in blind /\ quote[s] \in Worths(Held(s))
  BY <1>1, HeldOK, SetCostOK DEF IInv, Valued, Quoted
<1>3. /\ \A r \in Requests : row'[r].state = row[r].state
      /\ \A r \in Requests : r # Held(s) => row'[r] = row[r]
      /\ \/ row'[Held(s)].cost = row[Held(s)].cost
         \/ row[Held(s)].cost = Unpriced /\ row'[Held(s)].cost \in Worths(Held(s))
  BY <1>1, <1>2
<1>4. CostsKept
  BY <1>1, <1>2, <1>3 DEF CostsKept, Used
<1>5. /\ ListsValued' /\ \A x \in Settlers : Quoted(x)'
      /\ \A r \in Requests : at'[r] = "complete" => at[r] = "complete" /\ quote'[r] = quote[r]
  <2>1. CASE Leave(s, FALSE)
    BY <1>1, <1>2, <1>4, <2>1, LeaveValued
  <2>2. CASE Goto(s, "track") /\ UNCHANGED <<quote, pass, trouble>>
    <3>1. at'[s] = "track" /\ Held(s)' = Held(s)
      BY <1>1, <2>2 DEF Goto, Held, pass
    <3>2. row' = [row EXCEPT ![Held(s)].cost = IF @ = Unpriced THEN quote[s] ELSE @]
      BY <2>2 DEF SetCost
    <3>3. row'[Held(s)].cost # Unpriced
      BY <1>1, <1>2, <3>2, WorthsOK
    <3>4. quote[s] \in Costs(Held(s))
      BY <1>2 DEF Costs, Worths
    <3>5. Costs(Held(s))' = Costs(Held(s))
      BY <1>1, <1>2, <3>1 DEF Costs
    <3>6. Quoted(s)'
      BY <2>2, <3>1, <3>3, <3>4, <3>5 DEF Quoted
    <3>7. "track" \in Settling
      BY DEF Settling
    <3> QED
      BY <1>1, <1>4, <2>2, <3>6, <3>7, GoesOnValued
  <2> QED
    BY <2>1, <2>2 DEF SetCost
<1>6. RowsValued'
  <2>1. \A r \in Requests : \/ row'[r].cost = row[r].cost
                            \/ row[r].cost = Unpriced /\ row'[r].cost \in Worths(r)
    BY <1>3
  <2>2. \A r \in Requests : Worths(r) \subseteq Nat \ {Unpriced}
    BY WorthsOK
  <2> QED
    BY <1>1, <1>3, <1>5, <2>1, <2>2 DEF Valued, RowsValued, Used, Worths
<1>7. ChargesValued'
  BY <1>1, <1>4, ChargesStay
<1> QED
  BY <1>5, <1>6, <1>7 DEF Valued

LEMMA TrackValued ==
  ASSUME IInv, Valued, PassesAreQuick, NEW s \in Settlers, Track(s)
  PROVE  Valued'
<1>1. /\ UNCHANGED <<row, blind>>
      /\ at[s] = "track" /\ at[s] \in Settling
      /\ at \in [Settlers -> PC] /\ quote \in [Settlers -> Nat]
      /\ charges \in [Requests -> [times: Nat, micros: Nat]]
      /\ Charge(Held(s), quote[s]) \/ UNCHANGED <<keys, charges>>
  BY DEF Track, rows, world, autumn, Settling, IInv, Work, WorkTyped, AutumnTyped
<1>2. /\ Held(s) \in Requests /\ Used(Held(s)) /\ age[Held(s)] # "forgotten" /\ IInv'
      /\ row[Held(s)].cost # Unpriced /\ quote[s] \in Costs(Held(s)) /\ quote[s] \in Nat
  BY <1>1, HeldOK, TrackOK DEF IInv, Valued, Quoted
<1> DEFINE r == Held(s)
           entry == [times |-> charges[r].times + 1, micros |-> charges[r].micros + quote[s]]
<1>3. /\ keys[r] = "unused" => charges[r].times = 0
      /\ keys[r] # "unused" => charges[r].times > 0
      /\ charges[r].times = 0 => charges[r].micros = 0
  BY <1>2 DEF IInv, Charged, Valued, ChargesValued
<1>4. Charge(r, quote[s]) => \/ charges[r].times = 0 /\ charges' = [charges EXCEPT ![r] = entry]
                             \/ charges[r].times > 0 /\ UNCHANGED charges
  BY <1>3 DEF Charge, autumn
<1>5. /\ \A q \in Requests : q # r => charges'[q] = charges[q]
      /\ charges[r].times > 0 => charges'[r] = charges[r]
      /\ charges[r].times = 0 => \/ charges'[r] = charges[r]
                                 \/ charges'[r] = [times |-> 1, micros |-> quote[s]]
      /\ Charge(r, quote[s]) => charges'[r].times > 0
  BY <1>1, <1>2, <1>3, <1>4
<1> HIDE DEF r
<1>6. CostsKept
  BY <1>1, <1>5 DEF CostsKept, Used
<1>7. /\ ListsValued' /\ \A x \in Settlers : Quoted(x)'
      /\ \A q \in Requests : at'[q] = "complete" => at[q] = "complete" /\ quote'[q] = quote[q]
  <2>1. CASE Leave(s, FALSE)
    BY <1>1, <1>2, <1>6, <2>1, LeaveValued
  <2>2. CASE Charge(r, quote[s]) /\ Goto(s, "mark") /\ UNCHANGED <<quote, pass>>
    <3>1. at'[s] = "mark" /\ Held(s)' = Held(s)
      BY <1>1, <2>2 DEF Goto, Held, pass
    <3>2. Quoted(s)'
      BY <1>1, <1>2, <1>5, <2>2, <3>1 DEF Quoted, r
    <3>3. "mark" \in Settling
      BY DEF Settling
    <3> QED
      BY <1>1, <1>6, <2>2, <3>2, <3>3, GoesOnValued
  <2> QED
    BY <2>1, <2>2 DEF Track, r
<1>8. RowsValued'
  <2>1. \A q \in Requests : charges[q].times > 0 => charges'[q].times > 0
    BY <1>6 DEF CostsKept
  <2> QED
    BY <1>1, <1>7, <2>1 DEF Valued, RowsValued, Used, Worths
<1>9. ChargesValued'
  <2>1. \A q \in Requests : Costs(q)' = Costs(q) /\ (Used(q)' <=> Used(q))
    BY <1>1 DEF Costs, Used
  <2>2. charges[r].times = 0 \/ charges[r].times > 0
    BY <1>1, <1>2 DEF r
  <2>3. charges'[r] = charges[r] \/ charges'[r] = [times |-> 1, micros |-> quote[s]]
    BY <1>5, <2>2
  <2>4. \A q \in Requests : q # r => charges'[q] = charges[q]
    BY <1>5
  <2>5. r \in Requests /\ Used(r) /\ quote[s] \in Costs(r)
    BY <1>2 DEF r
  <2>6. ASSUME NEW q \in Requests
        PROVE  /\ charges'[q].times = 0 => charges'[q].micros = 0
               /\ charges'[q].times > 0 => Used(q)' /\ charges'[q].micros \in Costs(q)'
    <3>1. CASE charges'[q] = charges[q]
      BY <2>1, <3>1 DEF Valued, ChargesValued
    <3>2. CASE q = r /\ charges'[r] = [times |-> 1, micros |-> quote[s]]
      BY <2>1, <2>5, <3>2
    <3> QED
      BY <2>3, <2>4, <3>1, <3>2
  <2> QED
    BY <2>6 DEF ChargesValued
<1> QED
  BY <1>7, <1>8, <1>9 DEF Valued

LEMMA MarkBilledValued ==
  ASSUME IInv, Valued, NEW s \in Settlers, MarkBilled(s)
  PROVE  Valued'
<1>1. /\ UNCHANGED <<charges, blind>>
      /\ at[s] = "mark" /\ at[s] \in Settling
      /\ row \in [Requests -> [state: {"none", "reserved", "completed", "billed", "gone"}, cost: Nat]]
      /\ row' = [row EXCEPT ![Held(s)].state = "billed"] \/ UNCHANGED row
      /\ Leave(s, TRUE) \/ Leave(s, FALSE)
  BY DEF MarkBilled, world, autumn, Settling, IInv, RowTyped
<1>2. /\ Held(s) \in Requests /\ Used(Held(s)) /\ IInv'
      /\ row[Held(s)].cost # Unpriced /\ charges[Held(s)].times > 0
  BY <1>1, HeldOK, MarkBilledOK DEF IInv, Valued, Quoted
<1>3. /\ \A r \in Requests : r # Held(s) => row'[r] = row[r]
      /\ \A r \in Requests : row'[r].cost = row[r].cost
      /\ \A r \in Requests : Used(r) => Used(r)'
  BY <1>1, <1>2 DEF Used
<1>4. CostsKept
  BY <1>1, <1>3 DEF CostsKept, Used
<1>5. /\ ListsValued' /\ \A x \in Settlers : Quoted(x)'
      /\ \A r \in Requests : at'[r] = "complete" => at[r] = "complete" /\ quote'[r] = quote[r]
  BY <1>1, <1>2, <1>4, LeaveValued
<1>6. RowsValued'
  <2>1. \A r \in Requests : at'[r] = "complete" => quote'[r] \in Worths(r) \cup {Unpriced}
    BY <1>5 DEF Valued, RowsValued
  <2>2. \A r \in Requests :
          row'[r].state = "billed" => row'[r].cost # Unpriced /\ charges'[r].times > 0
    BY <1>1, <1>2, <1>3 DEF Valued, RowsValued
  <2>3. \A r \in Requests : Used(r)' => Used(r)
    BY <1>2, <1>3 DEF Used
  <2>4. \A r \in Requests : r \in blind' => Used(r)'
    BY <1>1, <1>4 DEF Valued, RowsValued, CostsKept
  <2>5. \A r \in Requests : Used(r)' =>
          row'[r].cost \in Worths(r) \/ (row'[r].cost = Unpriced /\ r \in blind')
    BY <1>1, <1>3, <2>3 DEF Valued, RowsValued
  <2> QED
    BY <2>1, <2>2, <2>4, <2>5 DEF RowsValued, Worths
<1>7. ChargesValued'
  BY <1>1, <1>4, ChargesStay
<1> QED
  BY <1>5, <1>6, <1>7 DEF Valued

LEMMA InitValued == ASSUME Init PROVE Valued
<1>1. /\ \A r \in Requests : at[r] = "none" /\ row[r].state = "none" /\ r \notin blind
      /\ \A p \in Passes : at[p] = "idle" /\ todo[p] = <<>>
      /\ \A r \in Requests : charges[r].times = 0 /\ charges[r].micros = 0
  BY Apart DEF Init
<1>2. \A s \in Settlers : at[s] \in {"none", "idle"}
  BY <1>1, Apart
<1>3. \A s \in Settlers : Quoted(s)
  BY <1>2 DEF Quoted
<1>4. RowsValued /\ ListsValued /\ ChargesValued
  BY <1>1 DEF RowsValued, ListsValued, ChargesValued, Used
<1> QED
  BY <1>3, <1>4 DEF Valued

LEMMA NextValued ==
  ASSUME IInv, Valued, PassesAreQuick, [Next]_vars
  PROVE  Valued'
<1>1. CASE UNCHANGED vars
  BY <1>1, NothingValued DEF vars
<1>2. ASSUME NEW r \in Requests, Reserve(r) \/ BrokerStep(r) PROVE Valued'
  BY <1>2, BrokerValued, CompleteUseValued DEF BrokerStep
<1>3. ASSUME NEW r \in Requests, GrowOlder(r) \/ Delist(r) \/ Relist(r) PROVE Valued'
  BY <1>3, WorldValued
<1>4. ASSUME NEW p \in Passes, PassStep(p) PROVE Valued'
  BY <1>4, IdleValued, ListUnbilledValued DEF PassStep
<1>5. ASSUME NEW s \in Settlers, SettleStep(s) \/ Crash(s) PROVE Valued'
  BY <1>5, PriceRowValued, SetCostValued, TrackValued, MarkBilledValued, CrashValued DEF SettleStep
<1> QED
  BY <1>1, <1>2, <1>3, <1>4, <1>5 DEF Next

\* A billed row has a cost and was charged exactly that, whichever of the broker
\* and the passes settled it and whatever prices they looked up; one that was
\* completed blind was charged at a price of its model. No pass outlives a key.
THEOREM ChargedAsRecordedCorrect == PassesAreQuick => (Spec => []ChargedAsRecorded)
<1> SUFFICES ASSUME PassesAreQuick PROVE Spec => []ChargedAsRecorded
  OBVIOUS
<1>1. Init => Valued
  BY InitValued
<1>2. IInv /\ Valued /\ [Next]_vars => Valued'
  BY NextValued
<1>3. Valued => ChargedAsRecorded
  BY DEF Valued, RowsValued, ChargesValued, ChargedAsRecorded
<1> QED
  BY <1>1, <1>2, <1>3, Invariant, PTL DEF Spec

-----------------------------------------------------------------------------
(* Totals. *)

\* f gives the sum of m over each set of requests in U, as MapThenSumSet does.
Pick(S) == CHOOSE x \in S : TRUE
Sums(f, m, U) ==
  f = [S \in SUBSET U |-> IF S = {} THEN 0 ELSE m[Pick(S)] + f[S \ {Pick(S)}]]

\* The total as the library computes it.
LEMMA TotalIs == ASSUME NEW m PROVE Total(m) = (CHOOSE f : Sums(f, m, Requests))[Requests]
BY DEF Total, Sums, Pick, MapThenSumSet, MapThenFoldSet

\* What holds of a set of requests when it holds of the smaller ones holds of
\* them all.
LEMMA SubsetInduction ==
  ASSUME NEW T, \A S \in SUBSET Requests : (\A V \in SUBSET S : V # S => V \in T) => S \in T
  PROVE  SUBSET Requests \subseteq T
<1> SUFFICES ASSUME (SUBSET Requests) \ T # {} PROVE FALSE
  OBVIOUS
<1>1. IsWellFoundedOn(StrictSubsetOrdering(Requests), SUBSET Requests)
  <2>1. IsFiniteSet(Requests)
    BY ModelUsageAssumption
  <2>2. FiniteSubsetsOf(Requests) = SUBSET Requests
    BY <2>1, FS_FiniteSubsetsOfFinite, Zenon
  <2>3. IsWellFoundedOn(StrictSubsetOrdering(Requests), FiniteSubsetsOf(Requests))
    BY FS_StrictSubsetOrderingWellFounded
  <2> QED
    BY <2>2, <2>3, Zenon
<1> DEFINE O == StrictSubsetOrdering(Requests)
           P == SUBSET Requests
           C == P \ T
<1>2. IsWellFoundedOn(O, P) /\ C \subseteq P /\ C # {}
  BY <1>1
<1>3. PICK S \in C : \A V \in C : ~ (<<V, S>> \in O)
  <2> HIDE DEF O, P, C
  <2> QED
    BY <1>2, WFMin
<1>4. ASSUME NEW V \in SUBSET S, V # S PROVE V \in T
  <2>1. V \in P /\ S \in P
    BY <1>3, <1>4
  <2>2. <<V, S>> \in O
    BY <1>4, <2>1 DEF StrictSubsetOrdering
  <2> QED
    BY <1>3, <2>1, <2>2
<1>5. S \in SUBSET Requests /\ S \notin T
  BY <1>3
<1> QED
  BY <1>4, <1>5

\* A set without the request that is picked from it is smaller.
LEMMA PickOK ==
  ASSUME NEW U, NEW S \in SUBSET U, S # {}
  PROVE  /\ Pick(S) \in S /\ Pick(S) \in U
         /\ S \ {Pick(S)} \in SUBSET S /\ S \ {Pick(S)} # S /\ S \ {Pick(S)} \in SUBSET U
BY DEF Pick

\* There is one such sum.
LEMMA SumsAgree ==
  ASSUME NEW m, NEW U \in SUBSET Requests, NEW V \in SUBSET Requests,
         NEW f, Sums(f, m, U), NEW g, Sums(g, m, V)
  PROVE  \A S \in SUBSET U : S \in SUBSET V => f[S] = g[S]
<1> DEFINE T == {S \in SUBSET Requests : S \in SUBSET U /\ S \in SUBSET V => f[S] = g[S]}
<1>1. ASSUME NEW S \in SUBSET Requests, \A W \in SUBSET S : W # S => W \in T
      PROVE  S \in T
  <2> SUFFICES ASSUME S \in SUBSET U, S \in SUBSET V PROVE f[S] = g[S]
    OBVIOUS
  <2>1. /\ f[S] = IF S = {} THEN 0 ELSE m[Pick(S)] + f[S \ {Pick(S)}]
        /\ g[S] = IF S = {} THEN 0 ELSE m[Pick(S)] + g[S \ {Pick(S)}]
    BY DEF Sums
  <2>2. S # {} => f[S \ {Pick(S)}] = g[S \ {Pick(S)}]
    BY <1>1, PickOK
  <2> QED
    BY <2>1, <2>2
<1>2. SUBSET Requests \subseteq T
  <2> HIDE DEF T
  <2> QED
    BY <1>1, SubsetInduction
<1> QED
  BY <1>2

\* There is such a sum, for every finite set of requests.
LEMMA SumsExist == ASSUME NEW m PROVE \E f : Sums(f, m, Requests)
<1> DEFINE T == {U \in SUBSET Requests : \E f : Sums(f, m, U)}
<1>1. ASSUME NEW U \in SUBSET Requests, \A V \in SUBSET U : V # U => V \in T
      PROVE  U \in T
  <2> DEFINE sum(V) == CHOOSE f : Sums(f, m, V)
             val == [V \in SUBSET U |-> sum(V)[V]]
             f == [V \in SUBSET U |-> IF V = {} THEN 0 ELSE m[Pick(V)] + val[V \ {Pick(V)}]]
  <2>1. ASSUME NEW V \in SUBSET U, V # U PROVE f[V] = val[V]
    <3>1. Sums(sum(V), m, V)
      BY <1>1, <2>1
    <3>2. sum(V)[V] = IF V = {} THEN 0 ELSE m[Pick(V)] + sum(V)[V \ {Pick(V)}]
      BY <3>1 DEF Sums
    <3>3. V # {} => sum(V)[V \ {Pick(V)}] = val[V \ {Pick(V)}]
      <4> SUFFICES ASSUME V # {} PROVE sum(V)[V \ {Pick(V)}] = val[V \ {Pick(V)}]
        OBVIOUS
      <4> DEFINE W == V \ {Pick(V)}
      <4>1. W \in SUBSET V /\ W \in SUBSET U /\ W # U /\ W \in SUBSET W
        BY PickOK
      <4>2. Sums(sum(W), m, W)
        BY <1>1, <4>1
      <4>3. V \in SUBSET Requests /\ W \in SUBSET Requests
        BY <4>1
      <4> HIDE DEF W
      <4>4. sum(V)[W] = sum(W)[W]
        <5> HIDE DEF sum
        <5> QED
          BY <3>1, <4>1, <4>2, <4>3, SumsAgree
      <4>5. val[W] = sum(W)[W]
        BY <4>1
      <4> QED
        BY <4>4, <4>5 DEF W
    <3> QED
      BY <3>2, <3>3
  <2>2. \A V \in SUBSET U : V # {} => f[V \ {Pick(V)}] = val[V \ {Pick(V)}]
    <3> SUFFICES ASSUME NEW V \in SUBSET U, V # {} PROVE f[V \ {Pick(V)}] = val[V \ {Pick(V)}]
      OBVIOUS
    <3>1. V \ {Pick(V)} \in SUBSET U /\ V \ {Pick(V)} # U
      BY PickOK
    <3> HIDE DEF f, val
    <3> QED
      BY <2>1, <3>1
  <2>3. Sums(f, m, U)
    <3> HIDE DEF val
    <3> QED
      BY <2>2 DEF Sums
  <2> QED
    BY <2>3
<1>2. SUBSET Requests \subseteq T
  <2> HIDE DEF T
  <2> QED
    BY <1>1, SubsetInduction
<1> QED
  BY <1>2

\* The total is the sum over all requests of a function that sums.
LEMMA TotalSums ==
  ASSUME NEW m
  PROVE  \E f : /\ Total(m) = f[Requests] /\ f[{}] = 0
                /\ \A S \in SUBSET Requests : S # {} => f[S] = m[Pick(S)] + f[S \ {Pick(S)}]
<1> DEFINE f == CHOOSE f : Sums(f, m, Requests)
<1>1. Sums(f, m, Requests)
  BY SumsExist
<1>2. Total(m) = f[Requests]
  BY TotalIs
<1> HIDE DEF f
<1>3. \A S \in SUBSET Requests : f[S] = IF S = {} THEN 0 ELSE m[Pick(S)] + f[S \ {Pick(S)}]
  BY <1>1 DEF Sums
<1> QED
  BY <1>2, <1>3

\* Totals of numbers are numbers, and larger numbers have a larger total.
LEMMA TotalGrows ==
  ASSUME NEW m \in [Requests -> Nat], NEW n \in [Requests -> Nat],
         \A q \in Requests : m[q] <= n[q]
  PROVE  Total(m) \in Nat /\ Total(n) \in Nat /\ Total(m) <= Total(n)
<1>1. PICK f : /\ Total(m) = f[Requests] /\ f[{}] = 0
               /\ \A S \in SUBSET Requests : S # {} => f[S] = m[Pick(S)] + f[S \ {Pick(S)}]
  BY TotalSums
<1>2. PICK g : /\ Total(n) = g[Requests] /\ g[{}] = 0
               /\ \A S \in SUBSET Requests : S # {} => g[S] = n[Pick(S)] + g[S \ {Pick(S)}]
  BY TotalSums
<1> DEFINE T == {S \in SUBSET Requests : f[S] \in Nat /\ g[S] \in Nat /\ f[S] <= g[S]}
<1>3. ASSUME NEW S \in SUBSET Requests, \A V \in SUBSET S : V # S => V \in T
      PROVE  S \in T
  <2>1. CASE S = {}
    BY <1>1, <1>2, <2>1
  <2>2. CASE S # {}
    <3>1. Pick(S) \in Requests /\ S \ {Pick(S)} \in T
      BY <1>3, <2>2, PickOK
    <3>2. m[Pick(S)] \in Nat /\ n[Pick(S)] \in Nat /\ m[Pick(S)] <= n[Pick(S)]
      BY <3>1
    <3>3. f[S] = m[Pick(S)] + f[S \ {Pick(S)}] /\ g[S] = n[Pick(S)] + g[S \ {Pick(S)}]
      BY <1>1, <1>2, <2>2
    <3> QED
      BY <3>1, <3>2, <3>3
  <2> QED
    BY <2>1, <2>2
<1>4. SUBSET Requests \subseteq T
  <2> HIDE DEF T
  <2> QED
    BY <1>3, SubsetInduction
<1> QED
  BY <1>1, <1>2, <1>4

\* Where numbers differ at one request only, so do their totals.
LEMMA TotalChanges ==
  ASSUME NEW m \in [Requests -> Nat], NEW n \in [Requests -> Nat], NEW r \in Requests,
         \A q \in Requests : q # r => m[q] = n[q]
  PROVE  Total(m) + n[r] = Total(n) + m[r]
<1>1. PICK f : /\ Total(m) = f[Requests] /\ f[{}] = 0
               /\ \A S \in SUBSET Requests : S # {} => f[S] = m[Pick(S)] + f[S \ {Pick(S)}]
  BY TotalSums
<1>2. PICK g : /\ Total(n) = g[Requests] /\ g[{}] = 0
               /\ \A S \in SUBSET Requests : S # {} => g[S] = n[Pick(S)] + g[S \ {Pick(S)}]
  BY TotalSums
<1> DEFINE T == {S \in SUBSET Requests :
                   /\ f[S] \in Nat /\ g[S] \in Nat
                   /\ r \notin S => f[S] = g[S]
                   /\ r \in S => f[S] + n[r] = g[S] + m[r]}
<1>3. ASSUME NEW S \in SUBSET Requests, \A V \in SUBSET S : V # S => V \in T
      PROVE  S \in T
  <2>1. CASE S = {}
    BY <1>1, <1>2, <2>1
  <2>2. CASE S # {}
    <3>1. Pick(S) \in Requests /\ S \ {Pick(S)} \in T /\ Pick(S) \in S
      BY <1>3, <2>2, PickOK
    <3>2. m[Pick(S)] \in Nat /\ n[Pick(S)] \in Nat /\ m[r] \in Nat /\ n[r] \in Nat
      BY <3>1
    <3>3. f[S] = m[Pick(S)] + f[S \ {Pick(S)}] /\ g[S] = n[Pick(S)] + g[S \ {Pick(S)}]
      BY <1>1, <1>2, <2>2
    <3>4. CASE Pick(S) = r
      <4>1. r \in S /\ r \notin S \ {Pick(S)}
        BY <3>1, <3>4
      <4> QED
        BY <3>1, <3>2, <3>3, <3>4, <4>1
    <3>5. CASE Pick(S) # r
      <4>1. m[Pick(S)] = n[Pick(S)] /\ (r \in S <=> r \in S \ {Pick(S)})
        BY <3>1, <3>5
      <4> QED
        BY <3>1, <3>2, <3>3, <4>1
    <3> QED
      BY <3>4, <3>5
  <2> QED
    BY <2>1, <2>2
<1>4. SUBSET Requests \subseteq T
  <2> HIDE DEF T
  <2> QED
    BY <1>3, SubsetInduction
<1> QED
  BY <1>1, <1>2, <1>4

\* The total of sums is the sum of the totals.
LEMMA TotalAdds ==
  ASSUME NEW m \in [Requests -> Nat], NEW n \in [Requests -> Nat], NEW k \in [Requests -> Nat],
         \A q \in Requests : k[q] = m[q] + n[q]
  PROVE  Total(k) = Total(m) + Total(n)
<1>1. PICK f : /\ Total(m) = f[Requests] /\ f[{}] = 0
               /\ \A S \in SUBSET Requests : S # {} => f[S] = m[Pick(S)] + f[S \ {Pick(S)}]
  BY TotalSums
<1>2. PICK g : /\ Total(n) = g[Requests] /\ g[{}] = 0
               /\ \A S \in SUBSET Requests : S # {} => g[S] = n[Pick(S)] + g[S \ {Pick(S)}]
  BY TotalSums
<1>3. PICK h : /\ Total(k) = h[Requests] /\ h[{}] = 0
               /\ \A S \in SUBSET Requests : S # {} => h[S] = k[Pick(S)] + h[S \ {Pick(S)}]
  BY TotalSums
<1> DEFINE T == {S \in SUBSET Requests :
                   f[S] \in Nat /\ g[S] \in Nat /\ h[S] \in Nat /\ h[S] = f[S] + g[S]}
<1>4. ASSUME NEW S \in SUBSET Requests, \A V \in SUBSET S : V # S => V \in T
      PROVE  S \in T
  <2>1. CASE S = {}
    BY <1>1, <1>2, <1>3, <2>1
  <2>2. CASE S # {}
    <3>1. Pick(S) \in Requests /\ S \ {Pick(S)} \in T
      BY <1>4, <2>2, PickOK
    <3>2. m[Pick(S)] \in Nat /\ n[Pick(S)] \in Nat /\ k[Pick(S)] = m[Pick(S)] + n[Pick(S)]
      BY <3>1
    <3>3. /\ f[S] = m[Pick(S)] + f[S \ {Pick(S)}] /\ g[S] = n[Pick(S)] + g[S \ {Pick(S)}]
          /\ h[S] = k[Pick(S)] + h[S \ {Pick(S)}]
      BY <1>1, <1>2, <1>3, <2>2
    <3> QED
      BY <3>1, <3>2, <3>3
  <2> QED
    BY <2>1, <2>2
<1>5. SUBSET Requests \subseteq T
  <2> HIDE DEF T
  <2> QED
    BY <1>4, SubsetInduction
<1> QED
  BY <1>1, <1>2, <1>3, <1>5

\* The total of multiples is the multiple of the total.
LEMMA TotalScales ==
  ASSUME NEW c \in Nat, NEW m \in [Requests -> Nat], NEW k \in [Requests -> Nat],
         \A q \in Requests : k[q] = c * m[q]
  PROVE  Total(k) = c * Total(m)
<1>1. PICK f : /\ Total(m) = f[Requests] /\ f[{}] = 0
               /\ \A S \in SUBSET Requests : S # {} => f[S] = m[Pick(S)] + f[S \ {Pick(S)}]
  BY TotalSums
<1>2. PICK g : /\ Total(k) = g[Requests] /\ g[{}] = 0
               /\ \A S \in SUBSET Requests : S # {} => g[S] = k[Pick(S)] + g[S \ {Pick(S)}]
  BY TotalSums
<1> DEFINE T == {S \in SUBSET Requests : f[S] \in Nat /\ g[S] = c * f[S]}
<1>3. ASSUME NEW S \in SUBSET Requests, \A V \in SUBSET S : V # S => V \in T
      PROVE  S \in T
  <2>1. CASE S = {}
    BY <1>1, <1>2, <2>1
  <2>2. CASE S # {}
    <3>1. Pick(S) \in Requests /\ S \ {Pick(S)} \in T
      BY <1>3, <2>2, PickOK
    <3>2. m[Pick(S)] \in Nat /\ k[Pick(S)] = c * m[Pick(S)]
      BY <3>1
    <3>3. f[S] = m[Pick(S)] + f[S \ {Pick(S)}] /\ g[S] = k[Pick(S)] + g[S \ {Pick(S)}]
      BY <1>1, <1>2, <2>2
    <3>4. f[S \ {Pick(S)}] \in Nat /\ g[S \ {Pick(S)}] = c * f[S \ {Pick(S)}]
      BY <3>1
    <3>5. \A x, y \in Nat : c * x + c * y = c * (x + y)
      OBVIOUS
    <3>6. g[S] = c * f[S] /\ f[S] \in Nat
      BY <3>2, <3>3, <3>4, <3>5
    <3> QED
      BY <3>6
  <2> QED
    BY <2>1, <2>2
<1>4. SUBSET Requests \subseteq T
  <2> HIDE DEF T
  <2> QED
    BY <1>3, SubsetInduction
<1> QED
  BY <1>1, <1>2, <1>4

\* The total of nothing is nothing.
LEMMA TotalOfZeros ==
  ASSUME NEW m, \A q \in Requests : m[q] = 0
  PROVE  Total(m) = 0
<1>1. PICK f : /\ Total(m) = f[Requests] /\ f[{}] = 0
               /\ \A S \in SUBSET Requests : S # {} => f[S] = m[Pick(S)] + f[S \ {Pick(S)}]
  BY TotalSums
<1> DEFINE T == {S \in SUBSET Requests : f[S] = 0}
<1>2. ASSUME NEW S \in SUBSET Requests, \A V \in SUBSET S : V # S => V \in T
      PROVE  S \in T
  <2>1. CASE S = {}
    BY <1>1, <2>1
  <2>2. CASE S # {}
    <3>1. Pick(S) \in Requests /\ S \ {Pick(S)} \in T
      BY <1>2, <2>2, PickOK
    <3> QED
      BY <1>1, <2>2, <3>1
  <2> QED
    BY <2>1, <2>2
<1>3. SUBSET Requests \subseteq T
  <2> HIDE DEF T
  <2> QED
    BY <1>2, SubsetInduction
<1> QED
  BY <1>1, <1>3

-----------------------------------------------------------------------------
(* The allowance covers every request, but for the spread of the prices. *)

\* What a row takes of the allowance, whether it was charged or not.
Weight(r) ==
  IF r \in blind THEN 0
  ELSE IF Reserved(r) THEN MaxPrice * row[r].cost
  ELSE IF Used(r) THEN MinPrice * row[r].cost
  ELSE 0

Weights == [r \in Requests |-> Weight(r)]
Micros  == [r \in Requests |-> charges[r].micros]

Holding(r) == at[r] \in {"allow", "insert"}

\* One request at a time asks Autumn, for at least what the others take and were
\* not charged for; an estimate is for the most that a request may use.
Covering ==
  /\ \A r, q \in Requests : Holding(r) /\ Holding(q) => r = q
  /\ \A r \in Requests : Holding(r) => MaxUse * MinPrice <= quote[r]
  /\ \A r \in Requests : row[r].state = "reserved" => MaxUse * MinPrice <= row[r].cost
  /\ \A r \in Requests : at[r] = "allow" =>
       /\ required[r][r] = quote[r]
       /\ \A q \in Requests \ {r} : Weight(q) <= MaxPrice * (required[r][q] + charges[q].micros)
  /\ \A r \in Requests : at[r] = "insert" =>
       Total(Weights) + MaxPrice * quote[r] <= MaxPrice * Allowance
  /\ Total(Weights) <= MaxPrice * Allowance

\* A larger number has larger multiples.
LEMMA ScaleOK ==
  ASSUME NEW c \in Nat, NEW m \in Nat, NEW n \in Nat, m <= n
  PROVE  c * m <= c * n /\ c * m \in Nat /\ c * n \in Nat
<1>1. \A d \in Nat : c * (m + d) = c * m + c * d /\ c * d \in Nat
  OBVIOUS
<1>2. n - m \in Nat /\ n = m + (n - m)
  OBVIOUS
<1> DEFINE d == n - m
<1> HIDE DEF d
<1>3. d \in Nat /\ n = m + d
  BY <1>2 DEF d
<1>4. c * n = c * m + c * d /\ c * d \in Nat /\ c * m \in Nat
  BY <1>1, <1>3, ProductOK
<1> QED
  BY <1>4, ProductOK

\* What was used costs no more, at the least price, than its estimate at the most.
LEMMA UseFits ==
  ASSUME NEW r \in Requests, NEW cost \in Worths(r) \cup {Unpriced}, NEW estimate \in Nat,
         MaxUse * MinPrice <= estimate
  PROVE  MinPrice * cost <= MaxPrice * estimate
<1>1. /\ Use[r] \in Nat /\ MaxUse \in Nat /\ Use[r] <= MaxUse
      /\ MinPrice \in Nat /\ MaxPrice \in Nat
  BY ModelUsageAssumption
<1> DEFINE most == MaxUse * MaxPrice
           least == MaxUse * MinPrice
<1>2. most \in Nat /\ least \in Nat
  BY <1>1, ProductOK
<1>3. cost \in Nat /\ cost <= most
  <2>1. CASE cost = Unpriced
    BY <1>2, <2>1 DEF Unpriced
  <2>2. CASE cost \in Worths(r)
    <3>1. PICK price \in Prices : cost = Use[r] * price
      BY <2>2 DEF Worths
    <3>2. price \in Nat /\ price <= MaxPrice
      BY PriceOK
    <3>3. Use[r] * price <= Use[r] * MaxPrice
      BY <1>1, <3>2, ScaleOK
    <3>4. Use[r] * MaxPrice <= MaxUse * MaxPrice
      <4>1. MaxPrice * Use[r] <= MaxPrice * MaxUse
        BY <1>1, ScaleOK
      <4>2. \A m, n \in Nat : m * n = n * m
        OBVIOUS
      <4> QED
        BY <1>1, <4>1, <4>2
    <3>5. Use[r] * price \in Nat /\ Use[r] * MaxPrice \in Nat
      BY <1>1, <3>2, ProductOK
    <3> QED
      BY <1>2, <3>1, <3>3, <3>4, <3>5
  <2> QED
    BY <2>1, <2>2
<1>4. MinPrice * cost <= MinPrice * most /\ MinPrice * most \in Nat /\ MinPrice * cost \in Nat
  <2> HIDE DEF most
  <2> QED
    BY <1>1, <1>2, <1>3, ScaleOK
<1>5. MinPrice * most = MaxPrice * least
  <2>1. \A m, n, k \in Nat : m * (k * n) = n * (k * m)
    OBVIOUS
  <2> QED
    BY <1>1, <2>1
<1>6. MaxPrice * least <= MaxPrice * estimate /\ MaxPrice * least \in Nat /\ MaxPrice * estimate \in Nat
  <2>1. least <= estimate
    OBVIOUS
  <2> HIDE DEF least
  <2> QED
    BY <1>1, <1>2, <2>1, ScaleOK
<1> HIDE DEF most, least
<1> QED
  BY <1>4, <1>5, <1>6

\* Weights and charges are numbers.
LEMMA WeightOK ==
  ASSUME IInv
  PROVE  /\ \A r \in Requests : Weight(r) \in Nat
         /\ Weights \in [Requests -> Nat] /\ \A r \in Requests : Weights[r] = Weight(r)
         /\ Micros \in [Requests -> Nat] /\ \A r \in Requests : Micros[r] = charges[r].micros
<1>1. ASSUME NEW r \in Requests PROVE Weight(r) \in Nat
  <2>1. row[r].cost \in Nat
    BY DEF IInv, RowTyped
  <2>2. MaxPrice * row[r].cost \in Nat /\ MinPrice * row[r].cost \in Nat
    BY <2>1, ProductOK, ModelUsageAssumption
  <2> QED
    BY <2>2 DEF Weight
<1>2. Micros \in [Requests -> Nat]
  BY DEF Micros, IInv, AutumnTyped
<1> QED
  BY <1>1, <1>2 DEF Weights, Micros

\* The same after a step.
LEMMA WeightNextOK ==
  ASSUME IInv'
  PROVE  /\ \A r \in Requests : Weight(r)' \in Nat
         /\ Weights' \in [Requests -> Nat] /\ \A r \in Requests : Weights'[r] = Weight(r)'
<1>1. ASSUME NEW r \in Requests PROVE Weight(r)' \in Nat
  <2>1. row'[r].cost \in Nat
    BY DEF IInv, RowTyped
  <2>2. MaxPrice * row'[r].cost \in Nat /\ MinPrice * row'[r].cost \in Nat
    BY <2>1, ProductOK, ModelUsageAssumption
  <2> QED
    BY <2>2 DEF Weight
<1> QED
  BY <1>1 DEF Weights

\* What a step may do to the row of r that makes it no heavier.
Lightens(r) ==
  \/ row'[r] = row[r] /\ (r \in blind' <=> r \in blind) /\ (Reserved(r)' => Reserved(r))
  \/ row'[r].state = "gone"
  \/ r \in blind'
  \/ Used(r) /\ Used(r)' /\ row'[r].cost = row[r].cost /\ (r \in blind' <=> r \in blind)
  \/ /\ Reserved(r) /\ r \notin blind /\ row'[r].state = "completed"
     /\ MinPrice * row'[r].cost <= MaxPrice * row[r].cost

LEMMA WeightShrinks ==
  ASSUME IInv, IInv', NEW r \in Requests, Lightens(r)
  PROVE  Weight(r)' <= Weight(r)
<1>1. Weight(r) \in Nat /\ Weight(r)' \in Nat
  BY WeightOK, WeightNextOK
<1>2. /\ Reserved(r) => row[r].state = "reserved"
      /\ Reserved(r)' => row'[r].state = "reserved"
  BY DEF Reserved
<1>3. CASE row'[r] = row[r] /\ (r \in blind' <=> r \in blind) /\ (Reserved(r)' => Reserved(r))
  <2>1. CASE Reserved(r)' <=> Reserved(r)
    <3>1. Weight(r)' = Weight(r)
      BY <1>3, <2>1 DEF Weight, Used
    <3> QED
      BY <1>1, <3>1
  <2>2. CASE Reserved(r) /\ ~Reserved(r)'
    <3>1. Weight(r)' = 0
      BY <1>2, <1>3, <2>2 DEF Weight, Used
    <3> QED
      BY <1>1, <3>1
  <2> QED
    BY <1>3, <2>1, <2>2
<1>4. CASE row'[r].state = "gone" \/ r \in blind'
  <2>1. Weight(r)' = 0
    BY <1>2, <1>4 DEF Weight, Used
  <2> QED
    BY <1>1, <2>1
<1>5. CASE Used(r) /\ Used(r)' /\ row'[r].cost = row[r].cost /\ (r \in blind' <=> r \in blind)
  <2>1. ~Reserved(r) /\ ~Reserved(r)'
    BY <1>2, <1>5 DEF Used
  <2>2. Weight(r)' = Weight(r)
    BY <1>5, <2>1 DEF Weight
  <2> QED
    BY <1>1, <2>2
<1>6. CASE /\ Reserved(r) /\ r \notin blind /\ row'[r].state = "completed" /\ r \notin blind'
           /\ MinPrice * row'[r].cost <= MaxPrice * row[r].cost
  <2>1. Weight(r) = MaxPrice * row[r].cost
    BY <1>6 DEF Weight
  <2>2. Weight(r)' = MinPrice * row'[r].cost
    BY <1>2, <1>6 DEF Weight, Used
  <2> QED
    BY <1>6, <2>1, <2>2
<1> QED
  BY <1>3, <1>4, <1>5, <1>6 DEF Lightens

\* A step that makes no row heavier, takes no charge back and lets no broker
\* begin to ask.
LEMMA Shrinks ==
  ASSUME IInv, IInv', Covering,
         \A r \in Requests : Lightens(r) /\ charges[r].micros <= charges'[r].micros,
         \A r \in Requests : Holding(r)' =>
           at'[r] = at[r] /\ quote'[r] = quote[r] /\ required'[r] = required[r],
         \A r \in Requests : row'[r].state = "reserved" => row'[r] = row[r]
  PROVE  Covering'
<1>1. \A r \in Requests : /\ Weight(r) \in Nat /\ Weight(r)' \in Nat /\ Weight(r)' <= Weight(r)
                          /\ charges[r].micros \in Nat /\ charges'[r].micros \in Nat
  BY WeightOK, WeightNextOK, WeightShrinks DEF IInv, AutumnTyped
<1>2. Total(Weights)' \in Nat /\ Total(Weights) \in Nat /\ Total(Weights)' <= Total(Weights)
  <2>1. /\ Weights \in [Requests -> Nat] /\ Weights' \in [Requests -> Nat]
        /\ \A r \in Requests : Weights'[r] <= Weights[r]
    BY <1>1, WeightOK, WeightNextOK
  <2>2. Total(Weights') \in Nat /\ Total(Weights) \in Nat /\ Total(Weights') <= Total(Weights)
    BY <2>1, TotalGrows
  <2>3. Total(Weights)' = Total(Weights')
    OBVIOUS
  <2> QED
    BY <2>2, <2>3
<1>3. \A r \in Requests : Holding(r)' => Holding(r)
  BY DEF Holding
<1>4. MaxPrice \in Nat /\ MaxPrice * Allowance \in Nat
  BY ProductOK, ModelUsageAssumption
<1>5. ASSUME NEW r \in Requests, at'[r] = "allow"
      PROVE  /\ required'[r][r] = quote'[r]
             /\ \A q \in Requests \ {r} :
                  Weight(q)' <= MaxPrice * (required'[r][q] + charges'[q].micros)
  <2>1. at[r] = "allow" /\ quote'[r] = quote[r] /\ required'[r] = required[r]
    BY <1>5 DEF Holding
  <2>2. required[r][r] = quote[r]
    BY <2>1 DEF Covering
  <2>3. ASSUME NEW q \in Requests \ {r}
        PROVE  Weight(q)' <= MaxPrice * (required'[r][q] + charges'[q].micros)
    <3> DEFINE before == required[r][q] + charges[q].micros
               after  == required'[r][q] + charges'[q].micros
    <3>1. before \in Nat /\ after \in Nat /\ before <= after
      <4>1. required[r][q] \in Nat
        BY DEF IInv, Work, WorkTyped
      <4>2. charges[q].micros <= charges'[q].micros
        OBVIOUS
      <4> QED
        BY <1>1, <2>1, <4>1, <4>2
    <3>2. Weight(q) <= MaxPrice * before
      BY <2>1 DEF Covering
    <3> HIDE DEF before, after
    <3>3. /\ MaxPrice * before <= MaxPrice * after
          /\ MaxPrice * before \in Nat /\ MaxPrice * after \in Nat
      BY <1>4, <3>1, ScaleOK
    <3>4. Weight(q)' <= MaxPrice * after
      BY <1>1, <3>2, <3>3
    <3> QED
      BY <3>4 DEF after
  <2> QED
    BY <2>1, <2>2, <2>3
<1>6. ASSUME NEW r \in Requests, at'[r] = "insert"
      PROVE  Total(Weights)' + MaxPrice * quote'[r] <= MaxPrice * Allowance
  <2>1. at[r] = "insert" /\ quote'[r] = quote[r]
    BY <1>6 DEF Holding
  <2>2. Total(Weights) + MaxPrice * quote[r] <= MaxPrice * Allowance
    BY <2>1 DEF Covering
  <2>3. MaxPrice * quote[r] \in Nat
    BY <1>4, ProductOK, Apart DEF IInv, Work, WorkTyped
  <2> QED
    BY <1>2, <1>4, <2>1, <2>2, <2>3
<1>7. Total(Weights)' <= MaxPrice * Allowance
  BY <1>2, <1>4 DEF Covering
<1>8. /\ \A r, q \in Requests : Holding(r)' /\ Holding(q)' => r = q
      /\ \A r \in Requests : Holding(r)' => MaxUse * MinPrice <= quote'[r]
      /\ \A r \in Requests : row'[r].state = "reserved" => MaxUse * MinPrice <= row'[r].cost
  BY <1>3 DEF Covering
<1> QED
  BY <1>5, <1>6, <1>7, <1>8 DEF Covering

\* The same for a step that charges nothing.
LEMMA ShrinksUncharged ==
  ASSUME IInv, IInv', Covering, UNCHANGED charges,
         \A r \in Requests : Lightens(r),
         \A r \in Requests : Holding(r)' =>
           at'[r] = at[r] /\ quote'[r] = quote[r] /\ required'[r] = required[r],
         \A r \in Requests : row'[r].state = "reserved" => row'[r] = row[r]
  PROVE  Covering'
<1>1. \A r \in Requests : charges[r].micros <= charges'[r].micros
  BY DEF IInv, AutumnTyped
<1> QED
  BY <1>1, Shrinks

\* Whoever goes on without asking Autumn leaves those who ask alone.
LEMMA HoldersStay ==
  ASSUME IInv, NEW s \in Settlers, NEW pc \in PC \ {"allow", "insert"}, Goto(s, pc),
         UNCHANGED required, \A x \in Settlers : x # s => quote'[x] = quote[x]
  PROVE  \A r \in Requests : Holding(r)' =>
           at'[r] = at[r] /\ quote'[r] = quote[r] /\ required'[r] = required[r]
<1>1. at'[s] = pc /\ \A x \in Settlers : x # s => at'[x] = at[x]
  BY GotoOK DEF IInv, Work
<1> QED
  BY <1>1, Apart DEF Holding

\* So does whoever leaves its row.
LEMMA HoldersStayOn ==
  ASSUME IInv, NEW s \in Settlers, at[s] \in Settling, NEW settled \in BOOLEAN,
         Leave(s, settled), UNCHANGED required
  PROVE  \A r \in Requests : Holding(r)' =>
           at'[r] = at[r] /\ quote'[r] = quote[r] /\ required'[r] = required[r]
<1>1. /\ at'[s] \notin {"allow", "insert"} /\ \A x \in Settlers : x # s => at'[x] = at[x]
      /\ \A x \in Settlers : x # s => quote'[x] = quote[x]
  BY LeaveOK, Apart DEF IInv
<1> QED
  BY <1>1, Apart DEF Holding

\* What a row takes was counted as outstanding, or charged.
LEMMA WeightCounted ==
  ASSUME IInv, Valued, NEW q \in Requests
  PROVE  Weight(q) <= MaxPrice * (Outstanding[q] + charges[q].micros)
<1>1. /\ row[q].cost \in Nat /\ charges[q].micros \in Nat /\ Outstanding[q] \in Nat
      /\ charges[q].times \in Nat
  BY DEF IInv, RowTyped, AutumnTyped, Outstanding
<1>2. MinPrice \in Nat /\ MaxPrice \in Nat /\ MinPrice <= MaxPrice
  BY ModelUsageAssumption
<1> DEFINE counted == Outstanding[q] + charges[q].micros
<1>3. counted \in Nat /\ MaxPrice * counted \in Nat
  BY <1>1, <1>2, ProductOK
<1>4. CASE q \notin blind /\ (Reserved(q) \/ Used(q))
  <2>1. row[q].cost <= counted
    <3>1. CASE Reserved(q) \/ row[q].state = "completed"
      BY <1>1, <3>1 DEF Outstanding
    <3>2. CASE row[q].state = "billed"
      <4>1. charges[q].micros = row[q].cost
        BY <1>4, <3>2 DEF Valued, RowsValued, ChargesValued, Costs
      <4> QED
        BY <1>1, <4>1
    <3> QED
      BY <1>4, <3>1, <3>2 DEF Used
  <2>2. MaxPrice * row[q].cost <= MaxPrice * counted /\ MaxPrice * row[q].cost \in Nat
    <3> HIDE DEF counted
    <3> QED
      BY <1>1, <1>2, <1>3, <2>1, ScaleOK
  <2>3. MinPrice * row[q].cost <= MaxPrice * row[q].cost /\ MinPrice * row[q].cost \in Nat
    <3>1. row[q].cost * MinPrice <= row[q].cost * MaxPrice
      BY <1>1, <1>2, ScaleOK
    <3>2. \A m, n \in Nat : m * n = n * m
      OBVIOUS
    <3> QED
      BY <1>1, <1>2, <3>1, <3>2, ProductOK
  <2>4. Weight(q) \in {MaxPrice * row[q].cost, MinPrice * row[q].cost}
    BY <1>4 DEF Weight
  <2> HIDE DEF counted
  <2>5. Weight(q) <= MaxPrice * counted
    BY <1>3, <2>2, <2>3, <2>4
  <2> QED
    BY <2>5 DEF counted
<1>5. CASE q \in blind \/ ~(Reserved(q) \/ Used(q))
  <2>1. Weight(q) = 0
    BY <1>5 DEF Weight
  <2> QED
    BY <1>3, <2>1
<1> QED
  BY <1>4, <1>5

LEMMA ReserveCovers ==
  ASSUME IInv, IInv', Valued, Covering, NEW r \in Requests, Reserve(r)
  PROVE  Covering'
<1>1. /\ UNCHANGED <<row, age, blind, charges>> /\ ~Locked
      /\ \/ /\ \E price \in Prices :
                 /\ quote' = [quote EXCEPT ![r] = MaxUse * price]
                 /\ required' = [required EXCEPT ![r] = [Outstanding EXCEPT ![r] = MaxUse * price]]
            /\ Goto(r, "allow")
         \/ Goto(r, "done") /\ UNCHANGED <<quote, required>>
  BY DEF Reserve, rows, world, autumn
<1>2. \A q \in Requests : ~Holding(q)
  BY <1>1 DEF Locked, Holding
<1>3. CASE Goto(r, "done") /\ UNCHANGED <<quote, required>>
  <2>1. r \in Settlers /\ "done" \in PC \ {"allow", "insert"}
    BY Apart DEF PC
  <2>2. \A q \in Requests : Holding(q)' =>
          at'[q] = at[q] /\ quote'[q] = quote[q] /\ required'[q] = required[q]
    BY <1>3, <2>1, HoldersStay
  <2>3. \A q \in Requests : Lightens(q)
    BY <1>1 DEF Lightens, Reserved
  <2> QED
    BY <1>1, <2>2, <2>3, ShrinksUncharged
<1>4. ASSUME NEW price \in Prices,
             quote' = [quote EXCEPT ![r] = MaxUse * price],
             required' = [required EXCEPT ![r] = [Outstanding EXCEPT ![r] = MaxUse * price]],
             Goto(r, "allow")
      PROVE  Covering'
  <2> DEFINE micros == MaxUse * price
  <2>1. micros \in Nat /\ MaxUse * MinPrice <= micros
    <3>1. MaxUse \in Nat /\ MinPrice \in Nat /\ price \in Nat /\ MinPrice <= price
      BY PriceOK, ModelUsageAssumption
    <3> QED
      BY <3>1, ScaleOK
  <2> HIDE DEF micros
  <2>2. /\ at'[r] = "allow" /\ \A x \in Settlers : x # r => at'[x] = at[x]
        /\ r \in Settlers
    <3>1. r \in Settlers /\ "allow" \in PC
      BY Apart DEF PC
    <3> QED
      BY <1>4, <3>1, GotoOK DEF IInv, Work
  <2>3. \A q \in Requests : Holding(q)' <=> q = r
    BY <1>2, <2>2, Apart DEF Holding
  <2>4. /\ quote'[r] = micros /\ required'[r][r] = micros
        /\ \A q \in Requests \ {r} : required'[r][q] = Outstanding[q]
    BY <1>4, <2>2 DEF micros, IInv, Work, WorkTyped, Outstanding
  <2>5. \A q \in Requests : Weight(q)' = Weight(q)
    BY <1>1 DEF Weight, Reserved, Used
  <2>6. Total(Weights)' <= MaxPrice * Allowance
    <3>1. Weights' = Weights
      BY <2>5 DEF Weights
    <3> QED
      BY <3>1 DEF Covering
  <2>7. \A q \in Requests : row'[q].state = "reserved" => MaxUse * MinPrice <= row'[q].cost
    BY <1>1 DEF Covering
  <2>8. \A q \in Requests \ {r} : Weight(q)' <= MaxPrice * (required'[r][q] + charges'[q].micros)
    BY <1>1, <2>4, <2>5, WeightCounted
  <2>9. \A q \in Requests : at'[q] = "allow" =>
          /\ required'[q][q] = quote'[q]
          /\ \A x \in Requests \ {q} : Weight(x)' <= MaxPrice * (required'[q][x] + charges'[x].micros)
    BY <2>3, <2>4, <2>8 DEF Holding
  <2>10. \A q \in Requests : at'[q] # "insert"
    BY <2>2, <2>3 DEF Holding
  <2> QED
    BY <2>1, <2>3, <2>4, <2>6, <2>7, <2>9, <2>10 DEF Covering
<1> QED
  BY <1>1, <1>3, <1>4

\* What a broker asks for and what was charged cover all that was there, and its
\* own estimate.
LEMMA AskedFor ==
  ASSUME IInv, NEW r \in Requests, Weight(r) = 0,
         NEW asked \in [Requests -> Nat],
         \A q \in Requests \ {r} : Weight(q) <= MaxPrice * (asked[q] + charges[q].micros)
  PROVE  /\ Total(Weights) + MaxPrice * asked[r] <= MaxPrice * (Total(asked) + Total(Micros))
         /\ Total(asked) \in Nat /\ Total(Micros) \in Nat /\ Total(Weights) \in Nat
<1>1. /\ Weights \in [Requests -> Nat] /\ \A q \in Requests : Weights[q] = Weight(q)
      /\ Micros \in [Requests -> Nat] /\ \A q \in Requests : Micros[q] = charges[q].micros
      /\ MaxPrice \in Nat
  BY WeightOK, ModelUsageAssumption
<1> DEFINE n == [q \in Requests |-> asked[q] + Micros[q]]
           k == [q \in Requests |-> MaxPrice * n[q]]
           w == [Weights EXCEPT ![r] = MaxPrice * asked[r]]
<1>2. /\ n \in [Requests -> Nat] /\ \A q \in Requests : n[q] = asked[q] + Micros[q]
  BY <1>1
<1>3. /\ k \in [Requests -> Nat] /\ \A q \in Requests : k[q] = MaxPrice * n[q]
  <2> HIDE DEF n
  <2> QED
    BY <1>1, <1>2, ProductOK
<1>4. MaxPrice * asked[r] \in Nat
  BY <1>1, ProductOK
<1>5. /\ w \in [Requests -> Nat] /\ w[r] = MaxPrice * asked[r]
      /\ \A q \in Requests : q # r => w[q] = Weights[q]
  BY <1>1, <1>4
<1> HIDE DEF n, k, w
<1>6. \A q \in Requests : w[q] <= k[q]
  <2>1. w[r] <= k[r]
    <3>1. asked[r] \in Nat /\ n[r] \in Nat /\ asked[r] <= n[r]
      BY <1>1, <1>2
    <3>2. MaxPrice * asked[r] <= MaxPrice * n[r]
      BY <1>1, <3>1, ScaleOK
    <3> QED
      BY <1>3, <1>5, <3>2
  <2>2. ASSUME NEW q \in Requests \ {r} PROVE w[q] <= k[q]
    <3>1. Weight(q) <= MaxPrice * (asked[q] + charges[q].micros)
      OBVIOUS
    <3>2. w[q] = Weight(q) /\ k[q] = MaxPrice * (asked[q] + charges[q].micros)
      BY <1>1, <1>2, <1>3, <1>5
    <3> QED
      BY <3>1, <3>2
  <2> QED
    BY <2>1, <2>2
<1>7. Total(w) \in Nat /\ Total(k) \in Nat /\ Total(w) <= Total(k)
  BY <1>3, <1>5, <1>6, TotalGrows
<1>8. Total(n) = Total(asked) + Total(Micros)
  BY <1>1, <1>2, TotalAdds
<1>9. Total(k) = MaxPrice * Total(n)
  BY <1>1, <1>2, <1>3, TotalScales
<1>10. Total(Weights) + w[r] = Total(w) + Weights[r]
  <2>1. \A q \in Requests : q # r => Weights[q] = w[q]
    BY <1>5
  <2> QED
    BY <1>1, <1>5, <2>1, TotalChanges
<1>11. Total(Weights) \in Nat /\ Total(asked) \in Nat /\ Total(Micros) \in Nat
  BY <1>1, TotalGrows
<1>12. Weights[r] = 0
  BY <1>1
<1>13. Total(Weights) + MaxPrice * asked[r] = Total(w)
  BY <1>4, <1>5, <1>7, <1>10, <1>11, <1>12
<1> QED
  BY <1>7, <1>8, <1>9, <1>11, <1>13

LEMMA CheckAllowanceCovers ==
  ASSUME IInv, IInv', Valued, Covering, NEW r \in Requests, CheckAllowance(r)
  PROVE  Covering'
<1>1. /\ UNCHANGED <<row, age, blind, charges, required, quote>>
      /\ at[r] = "allow" /\ row[r].state = "none" /\ r \in Settlers
      /\ \/ Allowance - Spent >= Total(required[r]) /\ Goto(r, "insert")
         \/ Goto(r, "done")
  BY Apart DEF CheckAllowance, rows, world, autumn, IInv, Work, Broking
<1>2. CASE Goto(r, "done")
  <2>1. "done" \in PC \ {"allow", "insert"}
    BY DEF PC
  <2>2. \A q \in Requests : Holding(q)' =>
          at'[q] = at[q] /\ quote'[q] = quote[q] /\ required'[q] = required[q]
    BY <1>1, <1>2, <2>1, HoldersStay
  <2>3. \A q \in Requests : Lightens(q)
    BY <1>1 DEF Lightens, Reserved
  <2> QED
    BY <1>1, <2>2, <2>3, ShrinksUncharged
<1>3. CASE Allowance - Spent >= Total(required[r]) /\ Goto(r, "insert")
  <2>1. at'[r] = "insert" /\ \A x \in Settlers : x # r => at'[x] = at[x]
    BY <1>1, <1>3, GotoOK DEF IInv, Work, PC
  <2>2. \A q \in Requests : Holding(q)' <=> q = r
    BY <1>1, <2>1, Apart DEF Covering, Holding
  <2>3. /\ required[r] \in [Requests -> Nat] /\ quote[r] \in Nat
        /\ required[r][r] = quote[r]
        /\ \A q \in Requests \ {r} : Weight(q) <= MaxPrice * (required[r][q] + charges[q].micros)
    BY <1>1 DEF Covering, IInv, Work, WorkTyped
  <2>4. Weight(r) = 0
    BY <1>1 DEF Weight, Reserved, Used
  <2>5. /\ Total(Weights) + MaxPrice * quote[r] <= MaxPrice * (Total(required[r]) + Total(Micros))
        /\ Total(required[r]) \in Nat /\ Total(Micros) \in Nat /\ Total(Weights) \in Nat
    <3>1. /\ Total(Weights) + MaxPrice * required[r][r] <= MaxPrice * (Total(required[r]) + Total(Micros))
          /\ Total(required[r]) \in Nat /\ Total(Micros) \in Nat /\ Total(Weights) \in Nat
      BY <2>3, <2>4, AskedFor
    <3> QED
      BY <2>3, <3>1
  <2>6. Total(Weights) + MaxPrice * quote[r] <= MaxPrice * Allowance
    <3> DEFINE taken == Total(required[r]) + Total(Micros)
    <3>1. Spent = Total(Micros)
      BY DEF Spent, Micros
    <3>2. taken \in Nat /\ taken <= Allowance /\ Allowance \in Nat /\ MaxPrice \in Nat
      BY <1>3, <2>5, <3>1, ModelUsageAssumption
    <3>3. Total(Weights) + MaxPrice * quote[r] <= MaxPrice * taken
      BY <2>5
    <3> HIDE DEF taken
    <3>4. MaxPrice * taken <= MaxPrice * Allowance /\ MaxPrice * taken \in Nat /\ MaxPrice * Allowance \in Nat
      BY <3>2, ScaleOK
    <3>5. MaxPrice * quote[r] \in Nat
      BY <2>3, <3>2, ProductOK
    <3> QED
      BY <2>5, <3>3, <3>4, <3>5
  <2>7. Total(Weights)' = Total(Weights)
    <3>1. Weights' = Weights
      BY <1>1 DEF Weights, Weight, Reserved, Used
    <3> QED
      BY <3>1
  <2>8. \A q \in Requests : Holding(q)' => MaxUse * MinPrice <= quote'[q]
    BY <1>1, <2>2 DEF Covering, Holding
  <2>9. \A q \in Requests : row'[q].state = "reserved" => MaxUse * MinPrice <= row'[q].cost
    BY <1>1 DEF Covering
  <2>10. \A q \in Requests : at'[q] # "allow"
    BY <2>1, <2>2 DEF Holding
  <2>11. \A q \in Requests : at'[q] = "insert" =>
           Total(Weights)' + MaxPrice * quote'[q] <= MaxPrice * Allowance
    BY <1>1, <2>2, <2>6, <2>7 DEF Holding
  <2>12. Total(Weights)' <= MaxPrice * Allowance
    BY <2>7 DEF Covering
  <2> QED
    BY <2>2, <2>8, <2>9, <2>10, <2>11, <2>12 DEF Covering
<1> QED
  BY <1>1, <1>2, <1>3

LEMMA InsertReservationCovers ==
  ASSUME IInv, IInv', Valued, Covering, NEW r \in Requests, InsertReservation(r)
  PROVE  Covering'
<1>1. /\ UNCHANGED <<age, blind, charges, required, quote>>
      /\ at[r] = "insert" /\ row[r].state = "none" /\ r \in Settlers /\ quote[r] \in Nat
      /\ \E pc \in {"call", "done"} : Goto(r, pc)
      /\ row' = [row EXCEPT ![r] = [state |-> "reserved", cost |-> quote[r]]] \/ UNCHANGED row
  BY Apart DEF InsertReservation, world, autumn, IInv, Work, WorkTyped, Broking
<1>2. PICK pc \in {"call", "done"} : Goto(r, pc)
  BY <1>1
<1>3. \A q \in Requests : Holding(q)' =>
        at'[q] = at[q] /\ quote'[q] = quote[q] /\ required'[q] = required[q]
  <2>1. pc \in PC \ {"allow", "insert"}
    BY DEF PC
  <2> QED
    BY <1>1, <1>2, <2>1, HoldersStay
<1>4. CASE UNCHANGED row
  <2>1. \A q \in Requests : Lightens(q)
    BY <1>1, <1>4 DEF Lightens, Reserved
  <2> QED
    BY <1>1, <1>3, <1>4, <2>1, ShrinksUncharged
<1>5. CASE row' = [row EXCEPT ![r] = [state |-> "reserved", cost |-> quote[r]]]
  <2>1. /\ row'[r] = [state |-> "reserved", cost |-> quote[r]]
        /\ \A q \in Requests : q # r => row'[q] = row[q]
    BY <1>5 DEF IInv, RowTyped
  <2>2. \A q \in Requests : ~Holding(q)'
    <3>1. at'[r] = pc
      BY <1>1, <1>2, GotoOK DEF IInv, Work, PC
    <3>2. Holding(r)
      BY <1>1 DEF Holding
    <3>3. \A q \in Requests : Holding(q)' => q = r
      BY <1>3, <3>2 DEF Covering, Holding
    <3> QED
      BY <3>1, <3>3 DEF Holding
  <2>3. /\ Weights \in [Requests -> Nat] /\ Weights' \in [Requests -> Nat]
        /\ Weights[r] = 0 /\ \A q \in Requests : q # r => Weights[q] = Weights'[q]
    <3>1. Weight(r) = 0
      BY <1>1 DEF Weight, Reserved, Used
    <3>2. \A q \in Requests : q # r => Weight(q)' = Weight(q)
      BY <1>1, <2>1 DEF Weight, Reserved, Used
    <3> QED
      BY <3>1, <3>2, WeightOK, WeightNextOK
  <2>4. Weights'[r] \in {0, MaxPrice * quote[r]} /\ MaxPrice * quote[r] \in Nat
    <3>1. Weight(r)' \in {0, MaxPrice * quote[r]}
      BY <2>1 DEF Weight, Used
    <3>2. Weights'[r] = Weight(r)'
      BY WeightNextOK
    <3>3. MaxPrice * quote[r] \in Nat
      BY <1>1, ProductOK, ModelUsageAssumption
    <3> QED
      BY <3>1, <3>2, <3>3
  <2>5. Total(Weights)' <= MaxPrice * Allowance
    <3>1. Total(Weights) + Weights'[r] = Total(Weights') + Weights[r]
      BY <2>3, TotalChanges
    <3>2. Total(Weights) \in Nat /\ Total(Weights') \in Nat
      BY <2>3, TotalGrows
    <3>3. Total(Weights) + MaxPrice * quote[r] <= MaxPrice * Allowance
      BY <1>1 DEF Covering
    <3>4. MaxPrice * Allowance \in Nat
      BY ProductOK, ModelUsageAssumption
    <3>5. Total(Weights') <= MaxPrice * Allowance
      BY <2>3, <2>4, <3>1, <3>2, <3>3, <3>4
    <3>6. Total(Weights)' = Total(Weights')
      OBVIOUS
    <3> QED
      BY <3>5, <3>6
  <2>6. \A q \in Requests : row'[q].state = "reserved" => MaxUse * MinPrice <= row'[q].cost
    <3>1. MaxUse * MinPrice <= quote[r]
      BY <1>1 DEF Covering, Holding
    <3> QED
      BY <2>1, <3>1 DEF Covering
  <2> QED
    BY <2>2, <2>5, <2>6 DEF Covering, Holding
<1> QED
  BY <1>1, <1>4, <1>5

\* The other steps of a broker.
LEMMA BrokerCovers ==
  ASSUME IInv, IInv', Valued, Covering, NEW r \in Requests,
         CallProvider(r) \/ Release(r) \/ PriceUse(r) \/ CompleteUse(r)
  PROVE  Covering'
<1>1. /\ UNCHANGED <<age, charges, required>> /\ r \in Settlers
      /\ row \in [Requests -> [state: {"none", "reserved", "completed", "billed", "gone"}, cost: Nat]]
      /\ quote \in [Settlers -> Nat]
  BY Apart DEF CallProvider, Release, PriceUse, CompleteUse, world, autumn, IInv, RowTyped,
     Work, WorkTyped
<1>2. \A x \in Settlers : x # r => quote'[x] = quote[x]
  <2>1. UNCHANGED quote \/ \E micros : quote' = [quote EXCEPT ![r] = micros]
    BY DEF CallProvider, Release, PriceUse, CompleteUse
  <2> QED
    BY <1>1, <2>1
<1>3. \A q \in Requests : Holding(q)' =>
        at'[q] = at[q] /\ quote'[q] = quote[q] /\ required'[q] = required[q]
  <2>1. CASE UNCHANGED at /\ at[r] = "complete"
    BY <1>1, <1>2, <2>1, Apart DEF Holding
  <2>2. CASE \E pc \in {"price", "release", "done", "complete", "settle"} : Goto(r, pc)
    <3>1. PICK pc \in {"price", "release", "done", "complete", "settle"} : Goto(r, pc)
      BY <2>2
    <3>2. pc \in PC \ {"allow", "insert"}
      BY DEF PC
    <3> QED
      BY <1>1, <1>2, <3>1, <3>2, HoldersStay
  <2> QED
    BY <2>1, <2>2 DEF CallProvider, Release, PriceUse, CompleteUse
<1>4. \A q \in Requests : Lightens(q) /\ (row'[q].state = "reserved" => row'[q] = row[q])
  <2>1. \A q \in Requests :
          row'[q] = row[q] /\ (q \in blind' <=> q \in blind) => Lightens(q)
    BY <1>1 DEF Lightens, Reserved
  <2>2. CASE UNCHANGED <<row, blind>>
    BY <2>1, <2>2
  <2>3. CASE row' = [row EXCEPT ![r].state = IF @ = "reserved" THEN "gone" ELSE @] /\ UNCHANGED blind
    <3>1. \A q \in Requests : row'[q] = row[q] \/ row'[q].state = "gone"
      BY <1>1, <2>3
    <3> QED
      BY <2>1, <2>3, <3>1 DEF Lightens
  <2>4. CASE at[r] = "complete" /\ Completed(r) /\ row[r].state = "reserved"
    <3>1. /\ row'[r] = [state |-> "completed", cost |-> quote[r]]
          /\ \A q \in Requests : q # r => row'[q] = row[q] /\ (q \in blind' <=> q \in blind)
      BY <1>1, <2>4 DEF Completed
    <3>2. quote[r] \in Worths(r) \cup {Unpriced}
      BY <2>4 DEF Valued, RowsValued
    <3>3. MaxUse * MinPrice <= row[r].cost /\ row[r].cost \in Nat
      BY <1>1, <2>4 DEF Covering
    <3>4. MinPrice * quote[r] <= MaxPrice * row[r].cost
      BY <3>2, <3>3, UseFits
    <3>5. Reserved(r)
      BY <2>4 DEF Reserved, IInv, Work, Broking
    <3>6. r \notin blind
      BY <2>4 DEF Valued, RowsValued, Used
    <3>7. Lightens(r)
      BY <3>1, <3>4, <3>5, <3>6 DEF Lightens
    <3> QED
      BY <2>1, <3>1, <3>7
  <2> QED
    BY <2>2, <2>3, <2>4 DEF CallProvider, Release, PriceUse, CompleteUse, Completed, rows, world
<1> QED
  BY <1>1, <1>3, <1>4, ShrinksUncharged

\* A settler prices its row, stores the price or marks the row as billed.
LEMMA SettlerCovers ==
  ASSUME IInv, IInv', Valued, Covering, NEW s \in Settlers,
         PriceRow(s) \/ SetCost(s) \/ MarkBilled(s)
  PROVE  Covering'
<1>1. /\ UNCHANGED <<age, blind, charges, required>> /\ at[s] \in Settling
      /\ row \in [Requests -> [state: {"none", "reserved", "completed", "billed", "gone"}, cost: Nat]]
      /\ quote \in [Settlers -> Nat]
  BY DEF PriceRow, SetCost, MarkBilled, Settling, world, autumn, IInv, RowTyped, Work, WorkTyped
<1>2. Held(s) \in Requests /\ Used(Held(s))
  BY <1>1, HeldOK DEF IInv
<1>3. \A q \in Requests : Holding(q)' =>
        at'[q] = at[q] /\ quote'[q] = quote[q] /\ required'[q] = required[q]
  <2>1. CASE Leave(s, TRUE) \/ Leave(s, FALSE)
    BY <1>1, <2>1, HoldersStayOn
  <2>2. CASE \E pc \in {"track", "setcost"} :
               Goto(s, pc) /\ (UNCHANGED quote \/ \E micros : quote' = [quote EXCEPT ![s] = micros])
    <3>1. PICK pc \in {"track", "setcost"} :
               Goto(s, pc) /\ (UNCHANGED quote \/ \E micros : quote' = [quote EXCEPT ![s] = micros])
      BY <2>2
    <3>2. pc \in PC \ {"allow", "insert"}
      BY DEF PC
    <3>3. \A x \in Settlers : x # s => quote'[x] = quote[x]
      BY <1>1, <3>1
    <3> QED
      BY <1>1, <3>1, <3>2, <3>3, HoldersStay
  <2> QED
    BY <2>1, <2>2 DEF PriceRow, SetCost, MarkBilled
<1>4. \A q \in Requests : Lightens(q) /\ (row'[q].state = "reserved" => row'[q] = row[q])
  <2>1. \A q \in Requests : row'[q] = row[q] => Lightens(q)
    BY <1>1 DEF Lightens, Reserved
  <2>2. CASE UNCHANGED row
    BY <2>1, <2>2
  <2>3. CASE row' = [row EXCEPT ![Held(s)].state = "billed"]
    <3>1. /\ row'[Held(s)].state = "billed" /\ row'[Held(s)].cost = row[Held(s)].cost
          /\ \A q \in Requests : q # Held(s) => row'[q] = row[q]
      BY <1>1, <1>2, <2>3
    <3>2. \A q \in Requests : q = Held(s) => Lightens(q)
      BY <1>1, <1>2, <3>1 DEF Lightens, Used
    <3> QED
      BY <2>1, <3>1, <3>2
  <2>4. CASE /\ at[s] = "setcost"
             /\ row' = [row EXCEPT ![Held(s)].cost = IF @ = Unpriced THEN quote[s] ELSE @]
    <3>1. Held(s) \in blind
      BY <2>4 DEF Valued, Quoted
    <3>2. /\ row'[Held(s)].state = row[Held(s)].state
          /\ \A q \in Requests : q # Held(s) => row'[q] = row[q]
      BY <1>1, <1>2, <2>4
    <3>3. \A q \in Requests : q = Held(s) => Lightens(q)
      BY <1>1, <3>1 DEF Lightens
    <3> QED
      BY <1>2, <2>1, <3>2, <3>3 DEF Used
  <2> QED
    BY <2>2, <2>3, <2>4 DEF PriceRow, SetCost, MarkBilled, rows
<1> QED
  BY <1>1, <1>3, <1>4, ShrinksUncharged

\* A charge changes no row, and none is taken back.
LEMMA TrackCovers ==
  ASSUME IInv, IInv', Valued, Covering, NEW s \in Settlers, Track(s)
  PROVE  Covering'
<1>1. /\ UNCHANGED <<row, age, blind, required>>
      /\ at[s] = "track" /\ at[s] \in Settling
      /\ Charge(Held(s), quote[s]) \/ UNCHANGED <<keys, charges>>
      /\ row \in [Requests -> [state: {"none", "reserved", "completed", "billed", "gone"}, cost: Nat]]
      /\ charges \in [Requests -> [times: Nat, micros: Nat]]
      /\ quote \in [Settlers -> Nat]
  BY DEF Track, rows, world, autumn, Settling, IInv, RowTyped, AutumnTyped, Work, WorkTyped
<1>2. \A q \in Requests : Holding(q)' =>
        at'[q] = at[q] /\ quote'[q] = quote[q] /\ required'[q] = required[q]
  <2>1. CASE Leave(s, FALSE)
    BY <1>1, <2>1, HoldersStayOn
  <2>2. CASE Goto(s, "mark") /\ UNCHANGED quote
    <3>1. "mark" \in PC \ {"allow", "insert"}
      BY DEF PC
    <3> QED
      BY <1>1, <2>2, <3>1, HoldersStay
  <2> QED
    BY <2>1, <2>2 DEF Track
<1>3. \A q \in Requests : Lightens(q)
  BY <1>1 DEF Lightens, Reserved
<1>4. \A q \in Requests : charges[q].micros <= charges'[q].micros
  <2>1. CASE UNCHANGED charges
    BY <1>1, <2>1
  <2>2. CASE charges' = [charges EXCEPT ![Held(s)] = [times |-> @.times + 1, micros |-> @.micros + quote[s]]]
    <3>1. quote[s] \in Nat /\ \A q \in Requests : charges[q].micros \in Nat
      BY <1>1
    <3>2. Held(s) \in Requests
      BY <1>1, HeldOK DEF IInv
    <3> QED
      BY <1>1, <2>2, <3>1, <3>2
  <2> QED
    BY <1>1, <2>1, <2>2 DEF Charge, autumn
<1> QED
  BY <1>1, <1>2, <1>3, <1>4, Shrinks

\* A pass that holds no row, a process that dies, and time.
LEMMA OthersCover ==
  ASSUME IInv, IInv', Valued, Covering,
         \/ \E p \in Passes : PassStep(p)
         \/ \E s \in Settlers : Crash(s)
         \/ \E r \in Requests : GrowOlder(r) \/ Delist(r) \/ Relist(r)
         \/ UNCHANGED vars
  PROVE  Covering'
<1>1. UNCHANGED <<required, blind, charges>> /\ age \in [Requests -> Ages] /\ quote \in [Settlers -> Nat]
      /\ row \in [Requests -> [state: {"none", "reserved", "completed", "billed", "gone"}, cost: Nat]]
  BY DEF PassStep, PurgeAbandoned, ListUnbilled, ListFails, MarkAttempted, Crash, GrowOlder,
     Delist, Relist, vars, world, autumn, IInv, RowTyped, Work, WorkTyped
<1>2. \A q \in Requests :
        \/ row'[q] = row[q] /\ (Reserved(q)' => Reserved(q))
        \/ row'[q].state = "gone"
  <2>1. CASE \E p \in Passes : PurgeAbandoned(p)
    <3>1. UNCHANGED age
      BY <2>1 DEF PurgeAbandoned, world
    <3>2. \A q \in Requests : row'[q] = row[q] \/ row'[q].state = "gone"
      BY <1>1, <2>1 DEF PurgeAbandoned
    <3> QED
      BY <3>1, <3>2 DEF Reserved
  <2>2. CASE \E r \in Requests : GrowOlder(r)
    <3>1. PICK r \in Requests :
            age[r] # "forgotten" /\ age' = [age EXCEPT ![r] = Older[age[r]]] /\ UNCHANGED row
      BY <2>2 DEF GrowOlder, rows
    <3>2. \A q \in Requests : age'[q] \in {"new", "due"} => age[q] \in {"new", "due"}
      BY <1>1, <3>1 DEF Older, Ages
    <3> QED
      BY <3>1, <3>2 DEF Reserved
  <2>3. CASE UNCHANGED <<row, age>>
    BY <2>3 DEF Reserved
  <2> QED
    BY <2>1, <2>2, <2>3 DEF PassStep, ListUnbilled, ListFails, MarkAttempted, Crash, Delist, Relist, vars,
       rows, world
<1>3. \A q \in Requests : Holding(q)' =>
        at'[q] = at[q] /\ quote'[q] = quote[q] /\ required'[q] = required[q]
  <2>1. CASE UNCHANGED <<at, quote>>
    BY <1>1, <2>1 DEF Holding
  <2>2. ASSUME NEW s \in Settlers, NEW pc \in {"idle", "list", "settle", "done"}, Goto(s, pc),
               UNCHANGED quote \/ \E micros : quote' = [quote EXCEPT ![s] = micros]
        PROVE  \A q \in Requests : Holding(q)' =>
                 at'[q] = at[q] /\ quote'[q] = quote[q] /\ required'[q] = required[q]
    <3>1. pc \in PC \ {"allow", "insert"}
      BY DEF PC
    <3>2. \A x \in Settlers : x # s => quote'[x] = quote[x]
      BY <1>1, <2>2
    <3> QED
      BY <1>1, <2>2, <3>1, <3>2, HoldersStay
  <2>3. CASE \E p \in Passes : PassStep(p)
    <3>1. PICK p \in Passes : PassStep(p)
      BY <2>3
    <3>2. p \in Settlers
      BY Apart
    <3>3. CASE PurgeAbandoned(p)
      BY <2>1, <2>2, <3>2, <3>3 DEF PurgeAbandoned
    <3>4. CASE ListUnbilled(p)
      BY <2>2, <3>2, <3>4 DEF ListUnbilled
    <3>5. CASE ListFails(p) \/ MarkAttempted(p)
      BY <2>2, <3>2, <3>5 DEF ListFails, MarkAttempted
    <3> QED
      BY <3>1, <3>3, <3>4, <3>5 DEF PassStep
  <2>4. CASE \E s \in Settlers : Crash(s)
    BY <2>2, <2>4 DEF Crash
  <2> QED
    BY <2>1, <2>3, <2>4 DEF GrowOlder, Delist, Relist, vars
<1>4. \A q \in Requests : Lightens(q) /\ (row'[q].state = "reserved" => row'[q] = row[q])
  BY <1>1, <1>2 DEF Lightens
<1> QED
  BY <1>1, <1>3, <1>4, ShrinksUncharged

LEMMA InitCovers == ASSUME Init PROVE Covering
<1>1. \A r \in Requests : at[r] = "none" /\ row[r].state = "none"
  BY Apart DEF Init
<1>2. Total(Weights) = 0
  <2>1. \A r \in Requests : Weights[r] = 0
    BY <1>1 DEF Weights, Weight, Reserved, Used
  <2> QED
    BY <2>1, TotalOfZeros
<1>3. MaxPrice * Allowance \in Nat
  BY ProductOK, ModelUsageAssumption
<1> QED
  BY <1>1, <1>2, <1>3 DEF Covering, Holding

LEMMA NextCovers ==
  ASSUME IInv, IInv', Valued, Covering, [Next]_vars
  PROVE  Covering'
<1>1. ASSUME NEW r \in Requests, Reserve(r) \/ BrokerStep(r) PROVE Covering'
  BY <1>1, ReserveCovers, CheckAllowanceCovers, InsertReservationCovers, BrokerCovers DEF BrokerStep
<1>2. ASSUME NEW s \in Settlers, SettleStep(s) PROVE Covering'
  BY <1>2, SettlerCovers, TrackCovers DEF SettleStep
<1> QED
  BY <1>1, <1>2, OthersCover DEF Next

\* What a request claims is no more than what its row weighs.
LEMMA ClaimsWeighed ==
  ASSUME IInv, Valued, Covering
  PROVE  Covered
<1> DEFINE claims == [r \in Requests |-> Claim(r)]
<1>1. ASSUME NEW r \in Requests PROVE Claim(r) \in Nat /\ Claim(r) <= Weight(r)
  <2>1. /\ Weight(r) \in Nat /\ row[r].cost \in Nat
        /\ charges[r].micros \in Nat /\ charges[r].times \in Nat
    BY WeightOK DEF IInv, RowTyped, AutumnTyped
  <2>2. CASE r \in blind \/ Reserved(r)
    <3>1. Claim(r) = Weight(r)
      BY <2>2 DEF Claim, Weight
    <3> QED
      BY <2>1, <3>1
  <2>3. CASE r \notin blind /\ ~Reserved(r) /\ charges[r].times > 0
    <3>1. Used(r) /\ charges[r].micros = row[r].cost
      BY <2>3 DEF Valued, ChargesValued, Costs
    <3>2. Claim(r) = Weight(r)
      BY <2>3, <3>1 DEF Claim, Weight
    <3> QED
      BY <2>1, <3>2
  <2>4. CASE r \notin blind /\ ~Reserved(r) /\ ~(charges[r].times > 0)
    <3>1. Claim(r) = IF row[r].state = "completed" THEN MinPrice * row[r].cost ELSE 0
      BY <2>4 DEF Claim
    <3>2. row[r].state = "completed" => Weight(r) = MinPrice * row[r].cost
      BY <2>4 DEF Weight, Used
    <3> QED
      BY <2>1, <3>1, <3>2
  <2> QED
    BY <2>2, <2>3, <2>4
<1>2. /\ claims \in [Requests -> Nat] /\ Weights \in [Requests -> Nat]
      /\ \A r \in Requests : claims[r] <= Weights[r]
  BY <1>1, WeightOK
<1> HIDE DEF claims
<1>3. Total(claims) \in Nat /\ Total(Weights) \in Nat /\ Total(claims) <= Total(Weights)
  BY <1>2, TotalGrows
<1>4. MaxPrice * Allowance \in Nat /\ Total(Weights) <= MaxPrice * Allowance
  BY ProductOK, ModelUsageAssumption DEF Covering
<1>5. Total(claims) <= MaxPrice * Allowance
  BY <1>3, <1>4
<1> QED
  BY <1>5 DEF Covered, claims

\* Concurrent requests see each other: whatever prices the lookups return, what
\* is reserved, used and charged never exceeds the allowance but by the spread of
\* the prices, rows that were completed blind aside. No pass outlives a key.
THEOREM CoveredCorrect == PassesAreQuick => (Spec => []Covered)
<1> SUFFICES ASSUME PassesAreQuick PROVE Spec => []Covered
  OBVIOUS
<1>1. Init => Valued /\ Covering
  BY InitValued, InitCovers
<1>2. IInv /\ Valued /\ [Next]_vars => Valued'
  BY NextValued
<1>3. IInv /\ IInv' /\ Valued /\ Covering /\ [Next]_vars => Covering'
  BY NextCovers
<1>4. IInv /\ Valued /\ Covering => Covered
  BY ClaimsWeighed
<1> QED
  BY <1>1, <1>2, <1>3, <1>4, Invariant, PTL DEF Spec
=============================================================================
