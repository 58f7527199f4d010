------------------------ MODULE Investigation_proofs ------------------------
(***************************************************************************)
(* Machine-checked proofs about Investigation, for any number of           *)
(* deliveries, members, workers and drains, any limits and any budget of   *)
(* trouble.                                                                *)
(***************************************************************************)
EXTENDS Investigation, FiniteSetTheorems, TLAPS

\* A row that is under way, or failed, has not filed its report in this round.
Rounds ==
  /\ status # "none" => round >= 1
  /\ status \in Pending \cup {"failed"} => filed < round
  /\ FiledOnce

\* A credit that is spent, or about to be, belongs to a round after the first.
Payers == {c \in Callers : hold[c] = "confirmed" \/ at[c] = "confirm"}
Paid   == Cardinality(Payers) <= IF round = 0 THEN 0 ELSE round - 1

\* Only drains and workers write to a replay, and those who end its request
\* found it resolved.
Replayed ==
  kind = "replay" =>
    /\ \A c \in Callers : at[c] = "idle"
    /\ \A w \in Workers : handler[w].pc # "resolve"
    /\ \A w \in Drains : at[w] = "settle" => status = "resolved"
    /\ request.status # "none"
    /\ status = "resolved" <=> request.status = "completed"

\* A replay has no job before it has a row, and no caller who would delete it.
Inserted ==
  kind = "replay" /\ status = "none" =>
    /\ \A j \in Jobs : job[j].state = "none"
    /\ \A w \in Workers : handler[w] = Idle
    /\ \A w \in Drains : at[w] # "send"

\* What is asked of an investigation before AloneAtWork promises anything.
Orderly == /\ round <= 1 /\ Spared({"overrun"})
           /\ kind = "replay" => Spared({"crash", "fault"})

\* Who will send a job, or may still come to do so.
Sender(c) == IF c \in Callers THEN at[c] \in {"admit", "send", "confirm", "undo"}
                              ELSE at[c] \in {"prepare", "send", "release"}

\* An orderly investigation has one sender or one job, and one handler at work.
Solo ==
  Orderly =>
    /\ \A c, d \in Callers \cup Drains : Sender(c) /\ Sender(d) => c = d
    /\ \A c \in Callers \cup Drains, j \in Jobs : Sender(c) => job[j].state = "none"
    /\ \A i, j \in Jobs : job[i].state # "none" /\ job[j].state # "none" => i = j
    /\ \A w \in Workers :
         handler[w] # Idle => handler[w].job \in Jobs /\ job[handler[w].job].state = "active"
    /\ \A v, w \in Workers : v # w => handler[v] = Idle \/ handler[w] = Idle

\* Nobody has sent anything before the first round. A rerun comes after it.
First ==
  kind = "event" =>
    /\ \A w \in Drains : at[w] = "idle"
    /\ \A c \in Callers : at[c] \in {"confirm", "undo"} => round > 1
    /\ round = 0 => /\ status = "none"
                    /\ \A c \in Callers : ~Sender(c)
                    /\ \A j \in Jobs : job[j].state = "none"
                    /\ \A w \in Workers : handler[w] = Idle

\* A replay that meets no trouble is claimed once, by a drain that carries it
\* to its queue or its end.
Once ==
  kind = "replay" /\ Orderly =>
    /\ request.status = "pending" => /\ \A w \in Drains : at[w] = "idle"
                                     /\ \A j \in Jobs : job[j].state = "none"
    /\ request.status = "processing" => \E w \in Drains : Claimed(w)
    /\ request.stale => request.status # "processing"
    /\ \A w \in Drains : at[w] # "release"
    /\ \A w \in Drains : at[w] = "fail" => request.status \notin {"pending", "processing"}

\* Trouble is taken from the budget.
Budgeted == \A l \in Limits : trouble[l] <= Budget[kind][l]

IInv == /\ TypeOK /\ ReportKept /\ Rounds /\ Paid /\ Replayed /\ Inserted
        /\ Solo /\ First /\ Once /\ Budgeted

\* What the queue knows of its jobs.
JobRows == [Jobs -> [state: {"none", "created", "active", "over"}, tries: 0 .. RetryLimit]]

-----------------------------------------------------------------------------
(* The helpers keep the types. *)

\* What was met is taken from the budget.
LEMMA MeetOK ==
  ASSUME TypeOK, NEW k \in TroubleKinds, Meet(k)
  PROVE  trouble' \in [Limits -> Nat]
BY DEF TypeOK, Meet, Limits

\* A caller or a drain goes on.
LEMMA GoOK ==
  ASSUME TypeOK, NEW c \in Callers \cup Drains, NEW pc \in CallerPcs \cup DrainPcs, Go(c, pc)
  PROVE  at' \in [Callers \cup Drains -> CallerPcs \cup DrainPcs]
BY DEF TypeOK, Go

\* A handler goes on.
LEMMA WorkOK ==
  ASSUME TypeOK, NEW w \in Workers, NEW pc \in HandlerPcs, Work(w, pc)
  PROVE  handler' \in [Workers -> [pc: HandlerPcs, job: Jobs \cup {NoJob}]]
BY DEF TypeOK, Work

\* A handler that goes on, or ends, leaves the others where they are.
LEMMA WorkMoves ==
  ASSUME TypeOK, NEW w \in Workers, NEW pc, Work(w, pc)
  PROVE  \A v \in Workers : handler'[v].pc = IF v = w THEN pc ELSE handler[v].pc
BY DEF TypeOK, Work

\* A handler that ends leaves the others where they are.
LEMMA EndWorkMoves ==
  ASSUME TypeOK, NEW w \in Workers, NEW outcome, EndWork(w, outcome)
  PROVE  \A v \in Workers : handler'[v].pc = IF v = w THEN "idle" ELSE handler[v].pc
BY DEF TypeOK, EndWork, Idle

\* The queue ends a job.
LEMMA EndedOK ==
  ASSUME TypeOK, NEW j \in Jobs, NEW outcome
  PROVE  Ended(j, outcome) \in
           JobRows
BY InvestigationAssumption DEF TypeOK, Ended, JobRows

\* A handler ends, and its job if it has not ended before.
LEMMA EndWorkOK ==
  ASSUME TypeOK, NEW w \in Workers, NEW outcome, EndWork(w, outcome)
  PROVE  /\ handler' \in [Workers -> [pc: HandlerPcs, job: Jobs \cup {NoJob}]]
         /\ job' \in JobRows
<1>1. handler' \in [Workers -> [pc: HandlerPcs, job: Jobs \cup {NoJob}]]
  BY DEF TypeOK, EndWork, Idle, HandlerPcs
<1>2. CASE handler[w].job = NoJob
  BY <1>1, <1>2 DEF TypeOK, EndWork, JobRows
<1>3. CASE handler[w].job # NoJob
  <2>1. handler[w].job \in Jobs
    BY <1>3 DEF TypeOK
  <2> QED
    BY <1>1, <1>3, <2>1, EndedOK DEF EndWork
<1> QED
  BY <1>2, <1>3

\* The queue takes a job.
LEMMA SentOK ==
  ASSUME TypeOK, Sent
  PROVE  job' \in JobRows
BY DEF TypeOK, Sent, JobRows

\* The request gets a new status.
LEMMA RequestOK ==
  ASSUME TypeOK, NEW new \in Unsettled \cup {"none", "completed", "failed"}, Request(new)
  PROVE  request' \in [status: Unsettled \cup {"none", "completed", "failed"},
                       attempts: 0 .. MaxClaims, stale: BOOLEAN]
BY DEF TypeOK, Request

\* Nobody spends a credit as long as nobody is about to, and rounds only grow.
LEMMA PaidKept ==
  ASSUME TypeOK, Paid, Payers' \subseteq Payers, round' \in Nat, round' >= round
  PROVE  Paid'
<1>1. IsFiniteSet(Payers)
  BY InvestigationAssumption, FS_Subset DEF Payers
<1>2. Cardinality(Payers') <= Cardinality(Payers) /\ Cardinality(Payers') \in Nat
  BY <1>1, FS_Subset, FS_CardinalityType
<1>3. Cardinality(Payers) \in Nat
  BY <1>1, FS_CardinalityType
<1> QED
  BY <1>2, <1>3 DEF Paid, TypeOK

\* One who reset the row may spend a credit.
LEMMA PaidOnce ==
  ASSUME TypeOK, Paid, NEW c \in Callers, Payers' \subseteq Payers \cup {c},
         round >= 1, round' = round + 1
  PROVE  Paid'
<1>1. IsFiniteSet(Payers) /\ Payers \subseteq Callers
  BY InvestigationAssumption, FS_Subset DEF Payers
<1>2. /\ IsFiniteSet(Payers \cup {c})
      /\ Cardinality(Payers \cup {c}) <= Cardinality(Payers) + 1
  <2>1. IsFiniteSet(Payers \cup {c})
    BY <1>1, FS_AddElement
  <2>2. Cardinality(Payers \cup {c}) =
          IF c \in Payers THEN Cardinality(Payers) ELSE Cardinality(Payers) + 1
    BY <1>1, FS_AddElement
  <2>3. Cardinality(Payers) \in Nat
    BY <1>1, FS_CardinalityType
  <2> QED
    BY <2>1, <2>2, <2>3
<1>3. Cardinality(Payers') <= Cardinality(Payers \cup {c}) /\ Cardinality(Payers') \in Nat
  BY <1>2, FS_Subset, FS_CardinalityType
<1>4. Cardinality(Payers) \in Nat /\ Cardinality(Payers \cup {c}) \in Nat
  BY <1>1, <1>2, FS_CardinalityType
<1> QED
  BY <1>2, <1>3, <1>4 DEF Paid, TypeOK

-----------------------------------------------------------------------------
(* What a step moves, and what it leaves where it is. *)

\* A caller or a drain that goes on leaves the others where they are.
LEMMA GoMoves ==
  ASSUME TypeOK, NEW c \in Callers \cup Drains, NEW pc, Go(c, pc)
  PROVE  \A x \in Callers \cup Drains : at'[x] = IF x = c THEN pc ELSE at[x]
BY DEF TypeOK, Go

\* One job is new.
LEMMA SentMoves ==
  ASSUME TypeOK, Sent
  PROVE  \E j \in Jobs : /\ job[j].state = "none"
                         /\ \A i \in Jobs : i # j => job'[i] = job[i]
BY DEF Sent

\* One job ends, or waits for its retry.
LEMMA EndedMoves ==
  ASSUME TypeOK, NEW j \in Jobs, NEW outcome
  PROVE  /\ Ended(j, outcome)[j].state \in {"created", "over"}
         /\ \A i \in Jobs : i # j => Ended(j, outcome)[i] = job[i]
BY DEF TypeOK, Ended

\* A step that meets trouble cannot be undone: an investigation that is orderly
\* after a step was so before.
LEMMA OrderlyKept ==
  ASSUME TypeOK, Budgeted, kind' = kind, round' \in Nat, round' >= round,
         UNCHANGED trouble \/ \E k \in TroubleKinds : Meet(k)
  PROVE  Budgeted' /\ (Orderly' => Orderly)
<1> USE InvestigationAssumption
<1>1. Budget[kind] \in [Limits -> Nat]
  BY DEF TypeOK
<1>2. CASE UNCHANGED trouble
  BY <1>2 DEF Budgeted, Orderly, Spared, TypeOK
<1>3. ASSUME NEW k \in TroubleKinds, Meet(k) PROVE Budgeted' /\ (Orderly' => Orderly)
  <2>1. \A l \in Limits : trouble'[l] = IF l \in {k, "any"} THEN trouble[l] - 1 ELSE trouble[l]
    BY <1>3 DEF Meet, TypeOK, Limits, TroubleKinds
  <2>2. \A l \in Limits : trouble'[l] <= trouble[l]
    BY <2>1 DEF TypeOK
  <2>3. Budgeted'
    BY <1>1, <2>1 DEF Budgeted, TypeOK
  <2>4. \A l \in TroubleKinds : trouble'[l] = Budget[kind][l] => trouble[l] = Budget[kind][l]
    BY <1>1, <2>1 DEF Budgeted, TypeOK, Limits, TroubleKinds
  <2>5. Orderly' => Orderly
    BY <2>4 DEF Orderly, Spared, TroubleKinds, TypeOK
  <2> QED
    BY <2>3, <2>5
<1> QED
  BY <1>2, <1>3

\* What an orderly investigation may have met: it is one of an event.
LEMMA OrderlyMeets ==
  ASSUME TypeOK, Budgeted, kind' = kind, NEW k \in TroubleKinds, Meet(k), Orderly'
  PROVE  k # "overrun" /\ kind = "event"
<1> USE InvestigationAssumption
<1>1. Budget[kind] \in [Limits -> Nat] /\ k \in Limits /\ k # "any"
  BY DEF TypeOK, Limits, TroubleKinds
<1>2. trouble'[k] = trouble[k] - 1
  BY <1>1 DEF Meet, TypeOK
<1>3. trouble'[k] # Budget[kind][k]
  BY <1>1, <1>2 DEF Budgeted, TypeOK
<1> QED
  BY <1>3 DEF Orderly, Spared, TroubleKinds, TypeOK, Kinds

\* A step without a new sender that touches neither jobs nor handlers.
LEMMA SoloKept ==
  ASSUME Solo, Orderly' => Orderly, UNCHANGED <<handler, job>>,
         Orderly' => \A c \in Callers \cup Drains : Sender(c)' => Sender(c)
  PROVE  Solo'
BY DEF Solo

\* A handler goes on.
LEMMA SoloWorks ==
  ASSUME TypeOK, Solo, Orderly' => Orderly, UNCHANGED <<at, job>>,
         NEW w \in Workers, NEW pc, handler[w].pc # "idle", Work(w, pc)
  PROVE  Solo'
<1>1. handler[w] # Idle /\ handler'[w].job = handler[w].job
  BY DEF Idle, Work, TypeOK
<1>2. \A v \in Workers : v # w => handler'[v] = handler[v]
  BY DEF Work
<1> QED
  BY <1>1, <1>2 DEF Solo, Sender

\* A handler ends, with its job.
LEMMA SoloEnds ==
  ASSUME TypeOK, Solo, Orderly' => Orderly, UNCHANGED at,
         NEW w \in Workers, NEW outcome, handler[w].pc # "idle", EndWork(w, outcome)
  PROVE  Solo'
<1>1. handler[w] # Idle
  BY DEF Idle
<1>2. handler'[w] = Idle /\ \A v \in Workers : v # w => handler'[v] = handler[v]
  BY DEF EndWork, TypeOK
<1> SUFFICES ASSUME Orderly' PROVE Solo'
  BY DEF Solo
<1>3. /\ handler[w].job \in Jobs /\ job[handler[w].job].state = "active"
      /\ \A v \in Workers : v # w => handler[v] = Idle
  BY <1>1 DEF Solo
<1>4. \A v \in Workers : handler'[v] = Idle
  BY <1>2, <1>3
<1>5. handler[w].job # NoJob
  BY <1>3 DEF Jobs, NoJob
<1>6. job' = Ended(handler[w].job, outcome)
  BY <1>5 DEF EndWork
<1>7. \A i \in Jobs : job'[i].state # "none" => job[i].state # "none"
  BY <1>3, <1>6, EndedMoves
<1> QED
  BY <1>3, <1>4, <1>7 DEF Solo, Sender

\* The only sender sends its job.
LEMMA SoloSends ==
  ASSUME TypeOK, Solo, Orderly' => Orderly, UNCHANGED handler, Sent \/ UNCHANGED job,
         NEW c \in Callers \cup Drains, Sender(c),
         Orderly' => \A x \in Callers \cup Drains : Sender(x)' => Sender(x) /\ x # c
  PROVE  Solo'
<1> SUFFICES ASSUME Orderly' PROVE Solo'
  BY DEF Solo
<1>1. \A x \in Callers \cup Drains : ~Sender(x)'
  BY DEF Solo
<1>2. \A j \in Jobs : job[j].state = "none"
  BY DEF Solo
<1>3. \A w \in Workers : handler[w] = Idle
  BY <1>2 DEF Solo
<1>4. \A i, j \in Jobs : job'[i].state # "none" /\ job'[j].state # "none" => i = j
  BY <1>2, SentMoves
<1> QED
  BY <1>1, <1>3, <1>4 DEF Solo

\* A caller goes on in the round it is in.
LEMMA FirstGoes ==
  ASSUME TypeOK, First, UNCHANGED <<kind, round, handler>>, NEW c \in Callers, NEW pc, Go(c, pc),
         round = 0 => UNCHANGED <<status, job>> /\ pc \notin {"admit", "send"},
         pc \in {"confirm", "undo"} => round > 1
  PROVE  First'
<1>1. \A w \in Drains : at'[w] = at[w]
  BY InvestigationAssumption, GoMoves
<1>2. \A x \in Callers : at'[x] = IF x = c THEN pc ELSE at[x]
  BY GoMoves
<1>3. \A x \in Callers :
        at'[x] \in {"confirm", "undo"} => at[x] \in {"confirm", "undo"} \/ round > 1
  BY <1>2
<1>4. round = 0 => \A x \in Callers : Sender(x)' => Sender(x)
  BY <1>2 DEF Sender
<1> QED
  BY <1>1, <1>3, <1>4 DEF First

\* An investigation with a handler at work has begun.
LEMMA FirstHandled ==
  ASSUME First, UNCHANGED <<kind, round, at>>, kind = "event" => round # 0
  PROVE  First'
BY DEF First

-----------------------------------------------------------------------------
(* Every action keeps the invariant. *)

\* The first delivery of the event inserts the row.
LEMMA BeginStep == ASSUME IInv, NEW d \in Deliveries, Begin(d) PROVE IInv'
<1> USE InvestigationAssumption DEF IInv
<1>0. \/ /\ status = "none" /\ round' = round + 1
         /\ Go(d, "admit") \/ Go(d, "done")
      \/ UNCHANGED round /\ (Go(d, "look") \/ Go(d, "done"))
  BY DEF Begin, Calls, AfterDuplicate
<1>1. TypeOK'
  BY GoOK, MeetOK DEF work, AfterDuplicate, Begin, Calls, TypeOK, CallerPcs, DrainPcs,
     HandlerPcs, TroubleKinds, Unsettled, Callers, Pending, Finished, Kinds, Limits
<1>2. ReportKept'
  BY DEF work, AfterDuplicate, Begin, Calls, ReportKept
<1>3. Rounds'
  BY DEF work, AfterDuplicate, Begin, Calls, Rounds, FiledOnce, TypeOK, Pending
<1>4. Paid'
  BY PaidKept DEF work, AfterDuplicate, Begin, Calls, Go, TypeOK, Callers, Payers
<1>5. Replayed'
  BY DEF work, AfterDuplicate, Begin, Calls, Go, Replayed, Callers
<1>6. Inserted'
  BY DEF work, AfterDuplicate, Begin, Calls, Go, Replayed, Inserted, Callers, Idle
<1>7. Budgeted' /\ (Orderly' => Orderly)
  BY OrderlyKept DEF work, AfterDuplicate, Begin, Calls, TypeOK, TroubleKinds
<1>8. Solo'
  <2>1. CASE round' = round + 1 /\ Orderly'
    <3>1. round = 0 /\ kind = "event"
      BY <2>1 DEF Orderly, TypeOK, Begin
    <3>2. /\ \A x \in Callers \cup Drains : ~Sender(x)
          /\ \A j \in Jobs : job[j].state = "none"
          /\ \A w \in Workers : handler[w] = Idle
      BY <3>1 DEF First, Sender
    <3>3. \A x \in Callers \cup Drains : Sender(x)' => x = d
      BY <1>0, <3>2, GoMoves DEF Sender, Callers
    <3> QED
      BY <3>2, <3>3 DEF Solo, Begin, work
  <2>2. CASE UNCHANGED round
    <3>1. Go(d, "look") \/ Go(d, "done")
      BY <1>0, <2>2 DEF TypeOK
    <3>2. \A x \in Callers \cup Drains : Sender(x)' => Sender(x)
      BY <3>1, GoMoves DEF Sender, Callers
    <3> QED
      BY <1>7, <3>2, SoloKept DEF Begin, work
  <2> QED
    BY <1>0, <2>1, <2>2 DEF Solo
<1>9. First'
  BY <1>7, GoMoves DEF work, AfterDuplicate, Begin, Calls, First, Sender, Callers, TypeOK
<1>10. Once'
  BY DEF Begin, Replayed, Once, Callers
<1> QED
  BY <1>1, <1>2, <1>3, <1>4, <1>5, <1>6, <1>7, <1>8, <1>9, <1>10

\* A member asks for a rerun.
LEMMA StartRerunStep == ASSUME IInv, NEW u \in Users, StartRerun(u) PROVE IInv'
<1> USE InvestigationAssumption DEF IInv
<1>1. TypeOK'
  BY GoOK DEF row, work, StartRerun, TypeOK, Finished, CallerPcs, DrainPcs, HandlerPcs,
     TroubleKinds, Unsettled, Callers, Pending, Kinds, Limits
<1>2. ReportKept'
  BY DEF row, work, StartRerun, ReportKept, Finished
<1>3. Rounds'
  BY DEF row, work, StartRerun, Rounds, FiledOnce, Pending, Finished
<1>4. Paid'
  BY PaidKept DEF row, work, StartRerun, Go, TypeOK, Callers, Payers, Finished
<1>5. Replayed'
  BY DEF row, work, StartRerun, Go, Replayed, Callers, Finished
<1>6. Inserted'
  BY DEF row, work, StartRerun, Go, Replayed, Inserted, Callers, Idle, Finished
<1>7. Budgeted' /\ (Orderly' => Orderly)
  BY OrderlyKept DEF row, work, StartRerun, TypeOK, TroubleKinds
<1>8. Solo'
  <2>1. Orderly' => \A x \in Callers \cup Drains : Sender(x)' => Sender(x)
    BY GoMoves DEF row, work, StartRerun, Sender, Callers
  <2> QED
    BY <1>7, <2>1, SoloKept DEF row, work, StartRerun
<1>9. First'
  <2>1. round # 0
    BY DEF StartRerun, Rounds, Finished
  <2> QED
    BY <2>1, FirstGoes DEF StartRerun, row, work, Callers
<1>10. Once'
  BY DEF StartRerun, Replayed, Once, Callers
<1> QED
  BY <1>1, <1>2, <1>3, <1>4, <1>5, <1>6, <1>7, <1>8, <1>9, <1>10

\* A scan looks at the row of a duplicate.
LEMMA LookStep == ASSUME IInv, NEW c \in Deliveries, Look(c) PROVE IInv'
<1> USE InvestigationAssumption DEF IInv
<1>1. TypeOK'
  BY GoOK DEF row, work, Look, TypeOK, CallerPcs, DrainPcs, HandlerPcs, TroubleKinds,
     Unsettled, Callers, Pending, Finished, Kinds, Limits
<1>2. ReportKept'
  BY DEF row, work, Look, ReportKept
<1>3. Rounds'
  BY DEF row, work, Look, Rounds, FiledOnce, Pending
<1>4. Paid'
  BY PaidKept DEF row, work, Look, Go, TypeOK, Callers, Payers
<1>5. Replayed'
  BY DEF row, work, Look, Go, Replayed, Callers
<1>6. Inserted'
  BY DEF row, work, Look, Go, Replayed, Inserted, Callers, Idle
<1>7. Budgeted' /\ (Orderly' => Orderly)
  BY OrderlyKept DEF row, work, Look, TypeOK, TroubleKinds
<1>8. Solo'
  <2>1. Orderly' => \A x \in Callers \cup Drains : Sender(x)' => Sender(x)
    BY GoMoves DEF row, work, Look, Sender, Callers
  <2> QED
    BY <1>7, <2>1, SoloKept DEF row, work, Look
<1>9. First'
  BY SMTT(30), <1>7, GoMoves DEF row, work, Look, First, Sender, Callers, TypeOK
<1>10. Once'
  BY DEF Look, Replayed, Once, Callers
<1> QED
  BY <1>1, <1>2, <1>3, <1>4, <1>5, <1>6, <1>7, <1>8, <1>9, <1>10

\* The allowance admits the investigation or not.
LEMMA AdmitStep == ASSUME IInv, NEW c \in Deliveries, Admit(c) PROVE IInv'
<1> USE InvestigationAssumption DEF IInv
<1>1. TypeOK'
  BY GoOK, MeetOK DEF row, work, Admit, TypeOK, CallerPcs, DrainPcs, HandlerPcs, TroubleKinds,
     Unsettled, Callers, Pending, Finished, Kinds, Limits
<1>2. ReportKept'
  BY DEF row, work, Admit, ReportKept
<1>3. Rounds'
  BY DEF row, work, Admit, Rounds, FiledOnce, Pending
<1>4. Paid'
  BY PaidKept DEF row, work, Admit, Go, TypeOK, Callers, Payers
<1>5. Replayed'
  BY DEF row, work, Admit, Go, Replayed, Callers
<1>6. Inserted'
  BY DEF row, work, Admit, Go, Replayed, Inserted, Callers, Idle
<1>7. Budgeted' /\ (Orderly' => Orderly)
  BY OrderlyKept DEF row, work, Admit, TypeOK, TroubleKinds
<1>8. Solo'
  <2>1. Orderly' => \A x \in Callers \cup Drains : Sender(x)' => Sender(x)
    BY GoMoves DEF row, work, Admit, Sender, Callers
  <2> QED
    BY <1>7, <2>1, SoloKept DEF row, work, Admit
<1>9. First'
  <2>1. round # 0
    BY DEF Admit, First, Replayed, Sender, Callers, Kinds, TypeOK
  <2> QED
    BY <2>1, FirstGoes DEF Admit, row, work, Callers
<1>10. Once'
  BY DEF Admit, Replayed, Once, Callers
<1> QED
  BY <1>1, <1>2, <1>3, <1>4, <1>5, <1>6, <1>7, <1>8, <1>9, <1>10

\* A refused investigation is deleted.
LEMMA DiscardStep == ASSUME IInv, NEW c \in Deliveries, Discard(c) PROVE IInv'
<1> USE InvestigationAssumption DEF IInv
<1>1. TypeOK'
  BY GoOK, MeetOK DEF work, Discarded, Discard, Calls, TypeOK, CallerPcs, DrainPcs, HandlerPcs,
     TroubleKinds, Unsettled, Callers, Pending, Finished, Kinds, Limits
<1>2. ReportKept'
  BY DEF work, Discarded, Discard, Calls, ReportKept
<1>3. Rounds'
  BY DEF work, Discarded, Discard, Calls, Rounds, FiledOnce, Pending
<1>4. Paid'
  BY PaidKept DEF work, Discarded, Discard, Calls, Go, TypeOK, Callers, Payers
<1>5. Replayed'
  BY DEF work, Discarded, Discard, Calls, Go, Replayed, Callers
<1>6. Inserted'
  BY DEF work, Discarded, Discard, Calls, Go, Replayed, Inserted, Callers, Idle
<1>7. Budgeted' /\ (Orderly' => Orderly)
  BY OrderlyKept DEF work, Discarded, Discard, Calls, TypeOK, TroubleKinds
<1>8. Solo'
  <2>1. Orderly' => \A x \in Callers \cup Drains : Sender(x)' => Sender(x)
    BY GoMoves DEF work, Discarded, Discard, Calls, Sender, Callers
  <2> QED
    BY <1>7, <2>1, SoloKept DEF work, Discarded, Discard, Calls
<1>9. First'
  BY <1>7, GoMoves DEF work, Discarded, Discard, Calls, First, Sender, Callers
<1>10. Once'
  BY DEF Discard, Replayed, Once, Callers
<1> QED
  BY <1>1, <1>2, <1>3, <1>4, <1>5, <1>6, <1>7, <1>8, <1>9, <1>10

\* A job is put on the queue.
LEMMA SendStep == ASSUME IInv, NEW c \in Callers, Send(c) PROVE IInv'
<1> USE InvestigationAssumption DEF IInv
<1>1. TypeOK'
  BY GoOK, SentOK, MeetOK DEF row, work, Send, Calls, TypeOK, CallerPcs, DrainPcs, HandlerPcs,
     TroubleKinds, Unsettled, Callers, Pending, Finished, Kinds, Limits, JobRows
<1>2. ReportKept'
  BY DEF row, work, Send, Calls, ReportKept
<1>3. Rounds'
  BY DEF row, work, Send, Calls, Rounds, FiledOnce, Pending
<1>4. Paid'
  BY PaidKept DEF row, work, Send, Calls, Go, TypeOK, Callers, Payers
<1>5. Replayed'
  BY DEF row, work, Send, Calls, Go, Replayed, Callers
<1>6. Inserted'
  BY DEF row, work, Send, Calls, Go, Sent, Replayed, Inserted, Callers, Idle
<1>7. Budgeted' /\ (Orderly' => Orderly)
  BY OrderlyKept DEF row, work, Send, Calls, TypeOK, TroubleKinds
<1>8. Solo'
  <2>1. Sent \/ UNCHANGED job
    BY DEF Send, Calls
  <2>2. Sender(c)
    BY DEF Send, Sender
  <2>3. \A x \in Callers \cup Drains : Sender(x)' => Sender(x) /\ x # c
    BY GoMoves DEF Send, Calls, Sender
  <2> QED
    BY <1>7, <2>1, <2>2, <2>3, SoloSends DEF Send, work
<1>9. First'
  <2>1. CASE kind = "event"
    <3>1. round # 0
      BY <2>1 DEF Send, First, Sender
    <3>2. Go(c, "done") \/ Go(c, "fail")
      BY DEF Send, Calls
    <3> QED
      BY <3>1, <3>2, FirstGoes DEF Send, row, work
  <2> QED
    BY <2>1 DEF Send, First
<1>10. Once'
  BY DEF Send, Replayed, Once
<1> QED
  BY <1>1, <1>2, <1>3, <1>4, <1>5, <1>6, <1>7, <1>8, <1>9, <1>10

\* The row fails when the job may not have reached the queue.
LEMMA FailUnqueuedStep == ASSUME IInv, NEW c \in Callers, FailUnqueued(c) PROVE IInv'
<1> USE InvestigationAssumption DEF IInv
<1>1. TypeOK'
  BY GoOK, MeetOK DEF work, Failable, FailUnqueued, Calls, Fail, TypeOK, Pending, CallerPcs,
     DrainPcs, HandlerPcs, TroubleKinds, Unsettled, Callers, Finished, Kinds, Limits
<1>2. ReportKept'
  BY DEF work, Failable, FailUnqueued, Calls, Fail, ReportKept, Pending
<1>3. Rounds'
  BY DEF work, Failable, FailUnqueued, Calls, Fail, Rounds, FiledOnce, Pending
<1>4. Paid'
  BY PaidKept DEF work, Failable, FailUnqueued, Calls, Go, TypeOK, Callers, Payers, Pending
<1>5. Replayed'
  BY DEF work, Failable, FailUnqueued, Calls, Go, Fail, Replayed, Callers, Pending
<1>6. Inserted'
  BY DEF work, Failable, FailUnqueued, Calls, Go, Fail, Replayed, Inserted, Callers, Idle,
     Pending
<1>7. Budgeted' /\ (Orderly' => Orderly)
  BY OrderlyKept DEF work, Failable, FailUnqueued, Calls, TypeOK, TroubleKinds
<1>8. Solo'
  <2>1. Orderly' => \A x \in Callers \cup Drains : Sender(x)' => Sender(x)
    BY GoMoves DEF work, FailUnqueued, Calls, Sender, Callers
  <2> QED
    BY <1>7, <2>1, SoloKept DEF work, FailUnqueued, Calls
<1>9. First'
  <2>1. CASE kind = "event"
    <3>1. round = 0 => UNCHANGED status
      BY <2>1 DEF FailUnqueued, Calls, Fail, Failable, Pending, First
    <3> QED
      BY <3>1, FirstGoes DEF FailUnqueued, work
  <2> QED
    BY <2>1 DEF FailUnqueued, First
<1>10. Once'
  BY DEF FailUnqueued, Replayed, Once
<1> QED
  BY <1>1, <1>2, <1>3, <1>4, <1>5, <1>6, <1>7, <1>8, <1>9, <1>10

\* A credit is held for a rerun.
LEMMA ReserveStep == ASSUME IInv, NEW c \in Callers, Reserve(c) PROVE IInv'
<1> USE InvestigationAssumption DEF IInv
<1>1. TypeOK'
  <2>1. UNCHANGED <<kind, status, report, round, request, job, attempt, handler, filed>>
    BY DEF Reserve, row, work
  <2>2. at' \in [Callers \cup Drains -> CallerPcs \cup DrainPcs]
    <3>1. Go(c, "prepare") \/ Go(c, "done")
      BY DEF Reserve, Calls
    <3>2. {"prepare", "done"} \subseteq CallerPcs \cup DrainPcs
      BY DEF CallerPcs
    <3> QED
      BY <3>1, <3>2, GoOK
  <2>3. hold' \in [Callers -> {"none", "held", "confirmed"}]
    BY DEF Reserve, Calls, TypeOK
  <2>4. trouble' \in [Limits -> Nat]
    <3>1. Meet("fault") \/ UNCHANGED trouble
      BY DEF Reserve, Calls
    <3>2. trouble \in [Limits -> Nat] /\ "fault" \in TroubleKinds
      BY DEF TypeOK, TroubleKinds
    <3> QED
      BY <3>1, <3>2, MeetOK
  <2> QED
    BY <2>1, <2>2, <2>3, <2>4 DEF TypeOK
<1>2. ReportKept'
  BY DEF row, work, Reserve, Calls, ReportKept
<1>3. Rounds'
  BY DEF row, work, Reserve, Calls, Rounds, FiledOnce, Pending
<1>4. Paid'
  BY PaidKept DEF row, work, Reserve, Calls, Go, TypeOK, Callers, Payers
<1>5. Replayed'
  BY DEF row, work, Reserve, Calls, Go, Replayed, Callers
<1>6. Inserted'
  BY DEF row, work, Reserve, Calls, Go, Replayed, Inserted, Callers, Idle
<1>7. Budgeted' /\ (Orderly' => Orderly)
  BY OrderlyKept DEF row, work, Reserve, Calls, TypeOK, TroubleKinds
<1>8. Solo'
  <2>1. Orderly' => \A x \in Callers \cup Drains : Sender(x)' => Sender(x)
    BY GoMoves DEF row, work, Reserve, Calls, Sender, Callers
  <2> QED
    BY <1>7, <2>1, SoloKept DEF row, work, Reserve, Calls
<1>9. First'
  BY SMTT(30), <1>7, GoMoves DEF row, work, Reserve, Calls, First, Sender, Callers, TypeOK
<1>10. Once'
  BY DEF Reserve, Replayed, Once
<1> QED
  BY <1>1, <1>2, <1>3, <1>4, <1>5, <1>6, <1>7, <1>8, <1>9, <1>10

\* The row is reset: the only step that makes a payer, and it starts a round.
LEMMA PrepareStep == ASSUME IInv, NEW c \in Callers, Prepare(c) PROVE IInv'
<1> USE InvestigationAssumption DEF IInv
<1>0. \/ Reset /\ status \in Finished /\ \E pc \in {"confirm", "send", "release", "done"} : Go(c, pc)
      \/ UNCHANGED row /\ \E pc \in {"release", "done"} : Go(c, pc)
  BY DEF Prepare, Calls, AfterRefusal, WithCredit
<1>1. TypeOK'
  <2>1. at' \in [Callers \cup Drains -> CallerPcs \cup DrainPcs]
    BY GoOK DEF Prepare, Calls, AfterRefusal, WithCredit, CallerPcs, Finished, row
  <2>2. trouble' \in [Limits -> Nat]
    BY MeetOK DEF Prepare, Calls, TypeOK, TroubleKinds
  <2>3. report' \subseteq report
    BY <1>0 DEF Reset, row
  <2>4. /\ status' \in Pending \cup Finished \cup {"none"} /\ round' \in Nat
       /\ report' \in SUBSET {"structured", "markdown", "captured"}
    BY <1>0, <2>3 DEF Reset, row, TypeOK, Pending
  <2> QED
    BY <2>1, <2>2, <2>3, <2>4 DEF Prepare, TypeOK, work
<1>2. ReportKept'
  BY DEF row, work, AfterRefusal, WithCredit, Reset, Prepare, Calls, ReportKept, Finished
<1>3. Rounds'
  BY <1>0 DEF Prepare, Reset, row, work, Rounds, FiledOnce, TypeOK, Pending, Finished
<1>4. Paid'
  <2>1. CASE Reset /\ status \in Finished
    <3>1. Payers' \subseteq Payers \cup {c}
      BY <1>0 DEF Prepare, Go, TypeOK, Callers, Payers
    <3>2. round >= 1 /\ round' = round + 1
      BY <2>1 DEF Rounds, Reset, Finished
    <3> QED
      BY <3>1, <3>2, PaidOnce
  <2>2. CASE UNCHANGED row /\ \E pc \in {"release", "done"} : Go(c, pc)
    <3>1. Payers' \subseteq Payers
      BY <2>2 DEF Prepare, Go, Callers, Payers
    <3> QED
      BY <2>2, <3>1, PaidKept DEF row, TypeOK
  <2> QED
    BY <1>0, <2>1, <2>2
<1>5. Replayed'
  BY DEF row, work, AfterRefusal, WithCredit, Reset, Prepare, Calls, Go, Replayed, Callers, Finished
<1>6. Inserted'
  BY DEF row, work, AfterRefusal, WithCredit, Reset, Prepare, Calls, Go, Replayed, Inserted, Callers, Idle,
     Finished
<1>7. Budgeted' /\ (Orderly' => Orderly)
  BY OrderlyKept DEF row, work, AfterRefusal, WithCredit, Reset, Prepare, Calls, TypeOK, TroubleKinds
<1>8. Solo'
  <2>1. CASE Reset /\ status \in Finished
    <3>1. round' > 1 /\ round' \in Nat
      BY <2>1 DEF Reset, Rounds, Finished, TypeOK
    <3>2. ~Orderly'
      BY <3>1 DEF Orderly
    <3> QED
      BY <3>2 DEF Solo
  <2>2. CASE UNCHANGED row /\ \E pc \in {"release", "done"} : Go(c, pc)
    <3>1. \A x \in Callers \cup Drains : Sender(x)' => Sender(x)
      BY <2>2, GoMoves DEF Sender
    <3> QED
      BY <1>7, <3>1, SoloKept DEF Prepare, work
  <2> QED
    BY <1>0, <2>1, <2>2
<1>9. First'
  <2>1. CASE Reset /\ status \in Finished
    <3>1. round' > 1
      BY <2>1 DEF Reset, Rounds, Finished, TypeOK
    <3>2. \A w \in Drains : at'[w] = at[w]
      BY GoMoves, <1>0
    <3> QED
      BY <3>1, <3>2 DEF First, Prepare
  <2>2. CASE UNCHANGED row /\ \E pc \in {"release", "done"} : Go(c, pc)
    BY <2>2, FirstGoes DEF Prepare, row, work
  <2> QED
    BY <1>0, <2>1, <2>2
<1>10. Once'
  BY DEF Prepare, Replayed, Once
<1> QED
  BY <1>1, <1>2, <1>3, <1>4, <1>5, <1>6, <1>7, <1>8, <1>9, <1>10

\* The held credit is spent by one who reset the row.
LEMMA ConfirmStep == ASSUME IInv, NEW c \in Callers, Confirm(c) PROVE IInv'
<1> USE InvestigationAssumption DEF IInv
<1>1. TypeOK'
  BY GoOK, MeetOK DEF row, work, Confirm, Calls, TypeOK, CallerPcs, DrainPcs, HandlerPcs,
     TroubleKinds, Unsettled, Callers, Pending, Finished, Kinds, Limits
<1>2. ReportKept'
  BY DEF row, work, Confirm, Calls, ReportKept
<1>3. Rounds'
  BY DEF row, work, Confirm, Calls, Rounds, FiledOnce, Pending
<1>4. Paid'
  BY PaidKept DEF row, work, Confirm, Calls, Go, TypeOK, Callers, Payers
<1>5. Replayed'
  BY DEF row, work, Confirm, Calls, Go, Replayed, Callers
<1>6. Inserted'
  BY DEF row, work, Confirm, Calls, Go, Replayed, Inserted, Callers, Idle
<1>7. Budgeted' /\ (Orderly' => Orderly)
  BY OrderlyKept DEF row, work, Confirm, Calls, TypeOK, TroubleKinds
<1>8. Solo'
  <2>1. Orderly' => \A x \in Callers \cup Drains : Sender(x)' => Sender(x)
    BY GoMoves DEF row, work, Confirm, Calls, Sender, Callers
  <2> QED
    BY <1>7, <2>1, SoloKept DEF row, work, Confirm, Calls
<1>9. First'
  BY <1>7, GoMoves DEF row, work, Confirm, Calls, First, Sender, Callers
<1>10. Once'
  BY DEF Confirm, Replayed, Once
<1> QED
  BY <1>1, <1>2, <1>3, <1>4, <1>5, <1>6, <1>7, <1>8, <1>9, <1>10

\* The credit is given back.
LEMMA ReleaseStep == ASSUME IInv, NEW c \in Callers, Release(c) PROVE IInv'
<1> USE InvestigationAssumption DEF IInv
<1>1. TypeOK'
  BY SMTT(30), GoOK, MeetOK DEF row, work, Release, Calls, TypeOK, CallerPcs, DrainPcs, HandlerPcs,
     TroubleKinds, Unsettled, Callers, Pending, Finished, Kinds, Limits
<1>2. ReportKept'
  BY DEF row, work, Release, Calls, ReportKept
<1>3. Rounds'
  BY DEF row, work, Release, Calls, Rounds, FiledOnce, Pending
<1>4. Paid'
  BY PaidKept DEF row, work, Release, Calls, Go, TypeOK, Callers, Payers
<1>5. Replayed'
  BY DEF row, work, Release, Calls, Go, Replayed, Callers
<1>6. Inserted'
  BY DEF row, work, Release, Calls, Go, Replayed, Inserted, Callers, Idle
<1>7. Budgeted' /\ (Orderly' => Orderly)
  BY OrderlyKept DEF row, work, Release, Calls, TypeOK, TroubleKinds
<1>8. Solo'
  <2>1. Orderly' => \A x \in Callers \cup Drains : Sender(x)' => Sender(x)
    BY GoMoves DEF row, work, Release, Calls, Sender, Callers
  <2> QED
    BY <1>7, <2>1, SoloKept DEF row, work, Release, Calls
<1>9. First'
  BY <1>7, GoMoves DEF row, work, Release, Calls, First, Sender, Callers
<1>10. Once'
  BY DEF Release, Replayed, Once
<1> QED
  BY <1>1, <1>2, <1>3, <1>4, <1>5, <1>6, <1>7, <1>8, <1>9, <1>10

\* A control-plane process dies.
LEMMA CallerDiesStep == ASSUME IInv, NEW c \in Callers, CallerDies(c) PROVE IInv'
<1> USE InvestigationAssumption DEF IInv
<1>1. TypeOK'
  BY GoOK, MeetOK DEF row, work, CallerDies, TypeOK, CallerPcs, DrainPcs, HandlerPcs,
     TroubleKinds, Unsettled, Callers, Pending, Finished, Kinds, Limits
<1>2. ReportKept'
  BY DEF row, work, CallerDies, ReportKept
<1>3. Rounds'
  BY DEF row, work, CallerDies, Rounds, FiledOnce, Pending
<1>4. Paid'
  BY PaidKept DEF row, work, CallerDies, Go, TypeOK, Callers, Payers
<1>5. Replayed'
  BY DEF row, work, CallerDies, Go, Replayed, Callers
<1>6. Inserted'
  BY DEF row, work, CallerDies, Go, Replayed, Inserted, Callers, Idle
<1>7. Budgeted' /\ (Orderly' => Orderly)
  BY OrderlyKept DEF row, work, CallerDies, TypeOK, TroubleKinds
<1>8. Solo'
  <2>1. Orderly' => \A x \in Callers \cup Drains : Sender(x)' => Sender(x)
    BY GoMoves DEF row, work, CallerDies, Sender, Callers
  <2> QED
    BY <1>7, <2>1, SoloKept DEF row, work, CallerDies
<1>9. First'
  BY <1>7, GoMoves DEF row, work, CallerDies, First, Sender, Callers
<1>10. Once'
  BY DEF CallerDies, Replayed, Once
<1> QED
  BY <1>1, <1>2, <1>3, <1>4, <1>5, <1>6, <1>7, <1>8, <1>9, <1>10

\* A drain claims the replay request.
LEMMA ClaimStep == ASSUME IInv, NEW w \in Drains, Claim(w) PROVE IInv'
<1> USE InvestigationAssumption DEF IInv
<1>1. TypeOK'
  <2>1. at' \in [Callers \cup Drains -> CallerPcs \cup DrainPcs]
    BY GoOK DEF Claim, Calls, DrainPcs, TypeOK
  <2>2. trouble' \in [Limits -> Nat]
    BY MeetOK DEF Claim, Calls, TypeOK, TroubleKinds
  <2>3. request' \in [status: Unsettled \cup {"none", "completed", "failed"},
                     attempts: 0 .. MaxClaims, stale: BOOLEAN]
    <3>1. request.attempts + 1 \in 0 .. MaxClaims
      BY DEF Claim, Claimable, TypeOK
    <3>2. \/ request' = [status |-> "processing", attempts |-> request.attempts + 1, stale |-> FALSE]
          \/ request' = request
      BY DEF Claim, Calls
    <3>3. CASE request' = [status |-> "processing", attempts |-> request.attempts + 1, stale |-> FALSE]
      BY <3>1, <3>3 DEF Unsettled
    <3>4. CASE request' = request
      BY <3>4 DEF TypeOK
    <3> QED
      BY <3>2, <3>3, <3>4
  <2>4. attempt' \in [Drains -> 0 .. MaxClaims]
    BY <2>3 DEF Claim, TypeOK
  <2> QED
    BY <2>1, <2>2, <2>3, <2>4 DEF Claim, TypeOK, row, work
<1>2. ReportKept'
  BY DEF row, work, Claimable, Claim, Calls, ReportKept
<1>3. Rounds'
  BY DEF row, work, Claimable, Claim, Calls, Rounds, FiledOnce, Pending
<1>4. Paid'
  BY PaidKept DEF row, work, Claimable, Claim, Calls, Go, TypeOK, Callers, Payers
<1>5. Replayed'
  BY DEF row, work, Claimable, Claim, Calls, Go, Replayed, TypeOK, Callers
<1>6. Inserted'
  BY DEF row, work, Claimable, Claim, Calls, Go, Replayed, Inserted, TypeOK, Callers, Idle
<1>7. Budgeted' /\ (Orderly' => Orderly)
  BY OrderlyKept DEF row, work, Claimable, Claim, Calls, TypeOK, TroubleKinds
<1>8. Solo'
  <2> SUFFICES ASSUME Orderly' PROVE Solo'
    BY DEF Solo
  <2>1. request.status = "pending" /\ kind = "replay"
    BY <1>7 DEF Once, Claim, Claimable
  <2>2. \A x \in Callers \cup Drains : ~Sender(x)
    BY <1>7, <2>1 DEF Once, Replayed, Sender, Claim
  <2>3. \A x \in Callers \cup Drains : Sender(x)' => x = w
    BY <2>2, GoMoves DEF Claim, Calls, Sender
  <2>4. \A j \in Jobs : job[j].state = "none"
    BY <1>7, <2>1 DEF Once
  <2> QED
    BY <1>7, <2>3, <2>4 DEF Solo, Claim, work
<1>9. First'
  BY <1>7, GoMoves DEF row, work, Claimable, Claim, Calls, First, Sender, Callers
<1>10. Once'
  <2> SUFFICES ASSUME Orderly' PROVE Once'
    BY DEF Once
  <2>1. request.status = "pending" /\ kind = "replay"
    BY <1>7 DEF Once, Claim, Claimable
  <2>2. request' = [status |-> "processing", attempts |-> request.attempts + 1, stale |-> FALSE]
    BY <2>1, OrderlyMeets DEF Claim, Calls, TroubleKinds
  <2>3. Go(w, "prepare")
    BY <2>1, OrderlyMeets DEF Claim, Calls, TroubleKinds
  <2>4. Claimed(w)'
    BY <2>3, GoMoves DEF Claim, Claimed, TypeOK
  <2>5. \A v \in Drains : at'[v] \in {"idle", "prepare"}
    BY <1>7, <2>1, <2>3, GoMoves DEF Once
  <2> QED
    BY <2>2, <2>4, <2>5 DEF Once
<1> QED
  BY <1>1, <1>2, <1>3, <1>4, <1>5, <1>6, <1>7, <1>8, <1>9, <1>10

\* The request that was claimed too often fails.
LEMMA GiveUpStep == ASSUME IInv, NEW w \in Drains, GiveUp(w) PROVE IInv'
<1> USE InvestigationAssumption DEF IInv
<1>1. TypeOK'
  <2>1. trouble' \in [Limits -> Nat]
    BY MeetOK DEF GiveUp, Calls, TypeOK, TroubleKinds
  <2>2. request' \in [status: Unsettled \cup {"none", "completed", "failed"},
                     attempts: 0 .. MaxClaims, stale: BOOLEAN]
    BY DEF GiveUp, Calls, TypeOK
  <2>3. status' \in Pending \cup Finished \cup {"none"}
    BY DEF GiveUp, Calls, TypeOK, Finished
  <2> QED
    BY <2>1, <2>2, <2>3 DEF GiveUp, TypeOK, work
<1>2. ReportKept'
  BY DEF work, GiveUp, Calls, ReportKept
<1>3. Rounds'
  BY DEF work, Exhausted, GiveUp, Calls, Rounds, FiledOnce, Pending
<1>4. Paid'
  BY PaidKept DEF work, Exhausted, GiveUp, Calls, TypeOK, Callers, Payers
<1>5. Replayed'
  BY DEF work, Exhausted, GiveUp, Calls, Replayed, TypeOK, Callers
<1>6. Inserted'
  BY DEF work, Exhausted, GiveUp, Calls, Replayed, Inserted, Callers, Idle
<1>7. Budgeted' /\ (Orderly' => Orderly)
  BY OrderlyKept DEF work, Exhausted, GiveUp, Calls, TypeOK, TroubleKinds
<1>8. Solo'
  <2>1. Orderly' => \A x \in Callers \cup Drains : Sender(x)' => Sender(x)
    BY GoMoves, OrderlyMeets DEF work, Exhausted, GiveUp, Calls, Sender, Callers, TroubleKinds,
       Replayed
  <2> QED
    BY <1>7, <2>1, SoloKept DEF work, Exhausted, GiveUp, Calls
<1>9. First'
  BY <1>7 DEF work, Exhausted, GiveUp, Calls, First, Sender, Callers
<1>10. Once'
  BY <1>7, OrderlyMeets, GoMoves DEF work, Exhausted, GiveUp, Calls, Once, Claimed,
     TroubleKinds, Unsettled
<1> QED
  BY <1>1, <1>2, <1>3, <1>4, <1>5, <1>6, <1>7, <1>8, <1>9, <1>10

\* The row of the replay is inserted or found.
LEMMA PrepareReplayStep == ASSUME IInv, NEW w \in Drains, PrepareReplay(w) PROVE IInv'
<1> USE InvestigationAssumption DEF IInv
<1>0. /\ \/ status = "none" /\ status' = "pending" /\ round' = round + 1
         \/ UNCHANGED <<status, round>>
      /\ \E pc \in DrainPcs : Go(w, pc) /\ (pc = "settle" => status = "resolved")
  BY DEF PrepareReplay, Calls, DrainPcs
<1>1. TypeOK'
  <2>1. at' \in [Callers \cup Drains -> CallerPcs \cup DrainPcs]
    BY <1>0, GoOK DEF DrainPcs
  <2>2. trouble' \in [Limits -> Nat]
    BY MeetOK DEF PrepareReplay, Calls, TypeOK, TroubleKinds
  <2>3. status' \in Pending \cup Finished \cup {"none"} /\ round' \in Nat
    BY <1>0 DEF TypeOK, Pending
  <2> QED
    BY <2>1, <2>2, <2>3 DEF PrepareReplay, TypeOK, work
<1>2. ReportKept'
  BY <1>0 DEF PrepareReplay, ReportKept
<1>3. Rounds'
  BY <1>0 DEF PrepareReplay, work, Rounds, FiledOnce, TypeOK, Pending
<1>4. Paid'
  <2>1. Payers' \subseteq Payers
    BY <1>0 DEF PrepareReplay, Go, Callers, Payers
  <2>2. round' \in Nat /\ round' >= round
    BY <1>0 DEF TypeOK
  <2> QED
    BY <2>1, <2>2, PaidKept
<1>5. Replayed'
  BY <1>0 DEF PrepareReplay, work, Go, Replayed, Callers
<1>6. Inserted'
  BY DEF work, PrepareReplay, Calls, Go, Replayed, Inserted, TypeOK, Callers, Idle
<1>7. Budgeted' /\ (Orderly' => Orderly)
  BY OrderlyKept DEF work, PrepareReplay, Calls, TypeOK, TroubleKinds
<1>8. Solo'
  <2>1. Orderly' => \A x \in Callers \cup Drains : Sender(x)' => Sender(x)
    BY GoMoves, OrderlyMeets DEF work, PrepareReplay, Calls, Sender, Callers, TroubleKinds,
       Replayed
  <2> QED
    BY <1>7, <2>1, SoloKept DEF work, PrepareReplay, Calls
<1>9. First'
  BY <1>7, GoMoves DEF work, PrepareReplay, Calls, First, Sender, Callers
<1>10. Once'
  <2> SUFFICES ASSUME Orderly', kind = "replay" PROVE Once'
    BY DEF Once, PrepareReplay
  <2>1. \E pc \in {"settle", "refuse", "send", "forbid"} : Go(w, pc)
    BY OrderlyMeets DEF PrepareReplay, Calls, TroubleKinds
  <2>2. request.status # "pending"
    BY <1>7 DEF PrepareReplay, Once
  <2>3. \A v \in Drains : Claimed(v) => Claimed(v)'
    BY <2>1, GoMoves DEF PrepareReplay, Claimed
  <2>4. \A v \in Drains : at'[v] = at[v] \/ at'[v] \in {"settle", "refuse", "send", "forbid"}
    BY <2>1, GoMoves
  <2> QED
    BY <1>7, <2>2, <2>3, <2>4 DEF PrepareReplay, Once
<1> QED
  BY <1>1, <1>2, <1>3, <1>4, <1>5, <1>6, <1>7, <1>8, <1>9, <1>10

\* The request ends like the row it belongs to.
LEMMA SettleReplayStep == ASSUME IInv, NEW w \in Drains, SettleReplay(w) PROVE IInv'
<1> USE InvestigationAssumption DEF IInv
<1>1. TypeOK'
  BY GoOK, RequestOK, MeetOK DEF row, work, SettleReplay, Calls, FailRequest, CompleteRequest,
     TypeOK, Unsettled, CallerPcs, DrainPcs, HandlerPcs, TroubleKinds, Callers, Pending,
     Finished, Kinds, Limits
<1>2. ReportKept'
  BY DEF row, work, SettleReplay, Calls, ReportKept, Unsettled
<1>3. Rounds'
  BY DEF row, work, SettleReplay, Calls, Rounds, FiledOnce, Pending, Unsettled
<1>4. Paid'
  BY PaidKept DEF row, work, SettleReplay, Calls, Go, TypeOK, Callers, Payers, Unsettled
<1>5. Replayed'
  BY DEF row, work, SettleReplay, Calls, Go, Request, FailRequest, CompleteRequest, Replayed,
     TypeOK, Callers, Unsettled
<1>6. Inserted'
  BY DEF row, work, SettleReplay, Calls, Go, Replayed, Inserted, TypeOK, Callers, Idle,
     Unsettled
<1>7. Budgeted' /\ (Orderly' => Orderly)
  BY OrderlyKept DEF row, work, SettleReplay, Calls, TypeOK, TroubleKinds
<1>8. Solo'
  <2>1. kind = "replay"
    BY DEF SettleReplay, First, Kinds, TypeOK
  <2>2. Orderly' => Go(w, "idle")
    BY <2>1, OrderlyMeets DEF SettleReplay, Calls, TroubleKinds
  <2>3. Orderly' => \A x \in Callers \cup Drains : Sender(x)' => Sender(x)
    BY <2>2, GoMoves DEF Sender
  <2> QED
    BY <1>7, <2>3, SoloKept DEF SettleReplay, work
<1>9. First'
  BY <1>7, GoMoves DEF row, work, SettleReplay, Calls, First, Sender, Callers
<1>10. Once'
  BY <1>7, OrderlyMeets, GoMoves DEF row, work, SettleReplay, Calls, Request, FailRequest,
     CompleteRequest, Once, Claimed, TroubleKinds, TypeOK, Unsettled
<1> QED
  BY <1>1, <1>2, <1>3, <1>4, <1>5, <1>6, <1>7, <1>8, <1>9, <1>10

\* The request can never be met.
LEMMA ForbidStep == ASSUME IInv, NEW w \in Drains, Forbid(w) PROVE IInv'
<1> USE InvestigationAssumption DEF IInv
<1>1. TypeOK'
  BY GoOK, RequestOK, MeetOK DEF row, work, Forbid, Calls, FailRequest, TypeOK, Unsettled,
     CallerPcs, DrainPcs, HandlerPcs, TroubleKinds, Callers, Pending, Finished, Kinds, Limits
<1>2. ReportKept'
  BY DEF row, work, Forbid, Calls, ReportKept, Unsettled
<1>3. Rounds'
  BY DEF row, work, Forbid, Calls, Rounds, FiledOnce, Pending, Unsettled
<1>4. Paid'
  BY PaidKept DEF row, work, Forbid, Calls, Go, TypeOK, Callers, Payers, Unsettled
<1>5. Replayed'
  BY DEF row, work, Forbid, Calls, Go, Request, FailRequest, Replayed, TypeOK, Callers,
     Unsettled
<1>6. Inserted'
  BY DEF row, work, Forbid, Calls, Go, Replayed, Inserted, TypeOK, Callers, Idle, Unsettled
<1>7. Budgeted' /\ (Orderly' => Orderly)
  BY OrderlyKept DEF row, work, Forbid, Calls, TypeOK, TroubleKinds
<1>8. Solo'
  <2>1. Orderly' => \A x \in Callers \cup Drains : Sender(x)' => Sender(x)
    BY GoMoves, OrderlyMeets DEF row, work, Forbid, Calls, Sender, Callers, TroubleKinds,
       Replayed
  <2> QED
    BY <1>7, <2>1, SoloKept DEF row, work, Forbid, Calls
<1>9. First'
  BY <1>7, GoMoves DEF row, work, Forbid, Calls, First, Sender, Callers
<1>10. Once'
  BY <1>7, OrderlyMeets, GoMoves DEF row, work, Forbid, Calls, Request, FailRequest, Once,
     Claimed, TroubleKinds, TypeOK, Unsettled
<1> QED
  BY <1>1, <1>2, <1>3, <1>4, <1>5, <1>6, <1>7, <1>8, <1>9, <1>10

\* The job of a replay is put on the queue.
LEMMA SendReplayStep == ASSUME IInv, NEW w \in Drains, SendReplay(w) PROVE IInv'
<1> USE InvestigationAssumption DEF IInv
<1>0. kind = "replay"
  BY DEF SendReplay, First, Kinds, TypeOK
<1>1. TypeOK'
  BY GoOK, SentOK, MeetOK DEF row, work, SendReplay, Calls, TypeOK, CallerPcs, DrainPcs,
     HandlerPcs, TroubleKinds, Unsettled, Callers, Pending, Finished, Kinds, Limits, JobRows
<1>2. ReportKept'
  BY DEF row, work, SendReplay, Calls, ReportKept
<1>3. Rounds'
  BY DEF row, work, SendReplay, Calls, Rounds, FiledOnce, Pending
<1>4. Paid'
  BY PaidKept DEF row, work, SendReplay, Calls, Go, TypeOK, Callers, Payers
<1>5. Replayed'
  BY DEF row, work, SendReplay, Calls, Go, Replayed, TypeOK, Callers
<1>6. Inserted'
  BY DEF row, work, SendReplay, Calls, Go, Sent, Replayed, Inserted, Callers, Idle
<1>7. Budgeted' /\ (Orderly' => Orderly)
  BY OrderlyKept DEF row, work, SendReplay, Calls, TypeOK, TroubleKinds
<1>8. Solo'
  <2>1. Sent \/ UNCHANGED job
    BY DEF SendReplay, Calls
  <2>2. Sender(w) /\ w \notin Callers
    BY DEF SendReplay, Sender
  <2>3. Orderly' => Go(w, "mark")
    BY <1>0, OrderlyMeets DEF SendReplay, Calls, TroubleKinds
  <2>4. Orderly' => \A x \in Callers \cup Drains : Sender(x)' => Sender(x) /\ x # w
    BY <2>2, <2>3, GoMoves DEF Sender
  <2> QED
    BY <1>7, <2>1, <2>2, <2>4, SoloSends DEF SendReplay, work
<1>9. First'
  BY <1>7, GoMoves DEF row, work, SendReplay, Calls, Sent, First, Sender, Callers
<1>10. Once'
  <2>1. Orderly' => Go(w, "mark")
    BY <1>0, OrderlyMeets DEF SendReplay, Calls, TroubleKinds
  <2>2. Orderly' => request.status # "pending"
    BY <1>0, <1>7 DEF SendReplay, Once
  <2>3. Orderly' => \A v \in Drains : Claimed(v) => Claimed(v)'
    BY <2>1, GoMoves DEF SendReplay, Claimed
  <2>4. Orderly' => \A v \in Drains : at'[v] = at[v] \/ at'[v] = "mark"
    BY <2>1, GoMoves
  <2> QED
    BY <1>0, <1>7, <2>2, <2>3, <2>4 DEF SendReplay, Once
<1> QED
  BY <1>1, <1>2, <1>3, <1>4, <1>5, <1>6, <1>7, <1>8, <1>9, <1>10

\* The request is marked as queued.
LEMMA MarkQueuedStep == ASSUME IInv, NEW w \in Drains, MarkQueued(w) PROVE IInv'
<1> USE InvestigationAssumption DEF IInv
<1>1. TypeOK'
  BY GoOK, RequestOK, MeetOK DEF row, work, Markable, MarkQueued, Calls, TypeOK, CallerPcs,
     DrainPcs, HandlerPcs, TroubleKinds, Unsettled, Callers, Pending, Finished, Kinds, Limits
<1>2. ReportKept'
  BY DEF row, work, Markable, MarkQueued, Calls, ReportKept
<1>3. Rounds'
  BY DEF row, work, Markable, MarkQueued, Calls, Rounds, FiledOnce, Pending
<1>4. Paid'
  BY PaidKept DEF row, work, Markable, MarkQueued, Calls, Go, TypeOK, Callers, Payers
<1>5. Replayed'
  BY DEF row, work, Markable, MarkQueued, Calls, Go, Request, Replayed, TypeOK, Callers
<1>6. Inserted'
  BY DEF row, work, Markable, MarkQueued, Calls, Go, Replayed, Inserted, TypeOK, Callers, Idle
<1>7. Budgeted' /\ (Orderly' => Orderly)
  BY OrderlyKept DEF row, work, Markable, MarkQueued, Calls, TypeOK, TroubleKinds
<1>8. Solo'
  <2>1. kind = "replay"
    BY DEF MarkQueued, First, Kinds, TypeOK
  <2>2. Orderly' => Go(w, "idle")
    BY <2>1, OrderlyMeets DEF MarkQueued, Calls, TroubleKinds
  <2>3. Orderly' => \A x \in Callers \cup Drains : Sender(x)' => Sender(x)
    BY <2>2, GoMoves DEF Sender
  <2> QED
    BY <1>7, <2>3, SoloKept DEF MarkQueued, work
<1>9. First'
  BY <1>7, GoMoves DEF row, work, Markable, MarkQueued, Calls, First, Sender, Callers
<1>10. Once'
  BY <1>7, OrderlyMeets, GoMoves DEF row, work, Markable, MarkQueued, Calls, Request, Once,
     Claimed, TroubleKinds, TypeOK, Unsettled
<1> QED
  BY <1>1, <1>2, <1>3, <1>4, <1>5, <1>6, <1>7, <1>8, <1>9, <1>10

\* The request is given back.
LEMMA ReleaseRequestStep == ASSUME IInv, NEW w \in Drains, ReleaseRequest(w) PROVE IInv'
<1> USE InvestigationAssumption DEF IInv
<1>1. TypeOK'
  BY GoOK, RequestOK, MeetOK DEF row, work, ReleaseRequest, Calls, TypeOK, CallerPcs, DrainPcs,
     HandlerPcs, TroubleKinds, Unsettled, Callers, Pending, Finished, Kinds, Limits
<1>2. ReportKept'
  BY DEF row, work, ReleaseRequest, Calls, ReportKept
<1>3. Rounds'
  BY DEF row, work, ReleaseRequest, Calls, Rounds, FiledOnce, Pending
<1>4. Paid'
  BY PaidKept DEF row, work, ReleaseRequest, Calls, Go, TypeOK, Callers, Payers
<1>5. Replayed'
  BY DEF row, work, ReleaseRequest, Calls, Go, Request, Replayed, TypeOK, Callers
<1>6. Inserted'
  BY DEF row, work, ReleaseRequest, Calls, Go, Replayed, Inserted, TypeOK, Callers, Idle
<1>7. Budgeted' /\ (Orderly' => Orderly)
  BY OrderlyKept DEF row, work, ReleaseRequest, Calls, TypeOK, TroubleKinds
<1>8. Solo'
  <2>1. Orderly' => \A x \in Callers \cup Drains : Sender(x)' => Sender(x)
    BY GoMoves, OrderlyMeets DEF row, work, ReleaseRequest, Calls, Sender, Callers,
       TroubleKinds, Replayed
  <2> QED
    BY <1>7, <2>1, SoloKept DEF row, work, ReleaseRequest, Calls
<1>9. First'
  BY <1>7, GoMoves DEF row, work, ReleaseRequest, Calls, First, Sender, Callers
<1>10. Once'
  BY <1>7, OrderlyMeets, GoMoves DEF row, work, ReleaseRequest, Calls, Request, Once, Claimed,
     TroubleKinds, Unsettled
<1> QED
  BY <1>1, <1>2, <1>3, <1>4, <1>5, <1>6, <1>7, <1>8, <1>9, <1>10

\* The row of the replay fails after its request.
LEMMA FailReplayStep == ASSUME IInv, NEW w \in Drains, FailReplay(w) PROVE IInv'
<1> USE InvestigationAssumption DEF IInv
<1>1. TypeOK'
  BY GoOK, MeetOK DEF work, Failable, FailReplay, Calls, Fail, TypeOK, Pending, CallerPcs,
     DrainPcs, HandlerPcs, TroubleKinds, Unsettled, Callers, Finished, Kinds, Limits
<1>2. ReportKept'
  BY DEF work, Failable, FailReplay, Calls, Fail, ReportKept, Pending
<1>3. Rounds'
  BY DEF work, Failable, FailReplay, Calls, Fail, Rounds, FiledOnce, Pending
<1>4. Paid'
  BY PaidKept DEF work, Failable, FailReplay, Calls, Go, TypeOK, Callers, Payers, Pending
<1>5. Replayed'
  BY DEF work, Failable, FailReplay, Calls, Go, Fail, Replayed, Callers, Pending
<1>6. Inserted'
  BY DEF work, Failable, FailReplay, Calls, Go, Fail, Replayed, Inserted, Callers, Idle, Pending
<1>7. Budgeted' /\ (Orderly' => Orderly)
  BY OrderlyKept DEF work, Failable, FailReplay, Calls, TypeOK, TroubleKinds
<1>8. Solo'
  <2>1. Orderly' => \A x \in Callers \cup Drains : Sender(x)' => Sender(x)
    BY GoMoves, OrderlyMeets DEF work, FailReplay, Calls, Sender, Callers, TroubleKinds,
       Replayed
  <2> QED
    BY <1>7, <2>1, SoloKept DEF work, FailReplay, Calls
<1>9. First'
  BY <1>7, GoMoves DEF work, Failable, FailReplay, Calls, Fail, First, Sender, Callers
<1>10. Once'
  BY <1>7, OrderlyMeets, GoMoves DEF work, FailReplay, Calls, Once, Claimed, TroubleKinds,
     Unsettled
<1> QED
  BY <1>1, <1>2, <1>3, <1>4, <1>5, <1>6, <1>7, <1>8, <1>9, <1>10

\* A worker takes a job.
LEMMA MarkStartedStep ==
  ASSUME IInv, NEW w \in Workers, NEW j \in Jobs, MarkStarted(w, j)
  PROVE  IInv'
<1> USE InvestigationAssumption DEF IInv
<1>1. TypeOK'
  <2>1. handler' \in [Workers -> [pc: HandlerPcs, job: Jobs \cup {NoJob}]]
    BY DEF MarkStarted, TypeOK, HandlerPcs
  <2>2. job' \in JobRows
    <3>1. \A outcome : Ended(j, outcome) \in JobRows
      BY EndedOK
    <3>2. [job EXCEPT ![j].state = "active"] \in JobRows
      BY DEF TypeOK, JobRows
    <3>3. job' = [job EXCEPT ![j].state = "active"] \/ \E outcome : job' = Ended(j, outcome)
      BY DEF MarkStarted
    <3> QED
      BY <3>1, <3>2, <3>3
  <2>3. trouble' \in [Limits -> Nat]
    BY MeetOK DEF MarkStarted, TypeOK, TroubleKinds
  <2>4. status' \in Pending \cup Finished \cup {"none"}
    BY DEF MarkStarted, TypeOK, Pending
  <2> QED
    BY <2>1, <2>2, <2>3, <2>4 DEF MarkStarted, TypeOK, JobRows
<1>2. ReportKept'
  BY DEF Startable, MarkStarted, ReportKept, Pending, Idle
<1>3. Rounds'
  BY DEF Startable, MarkStarted, Rounds, FiledOnce, Pending, Idle
<1>4. Paid'
  BY PaidKept DEF Startable, MarkStarted, TypeOK, Callers, Payers, Pending, Idle
<1>5. Replayed'
  <2>1. \A v \in Workers : handler'[v].pc = "resolve" => handler[v].pc = "resolve"
    BY DEF MarkStarted, TypeOK
  <2>2. status' = "resolved" <=> status = "resolved"
    BY DEF MarkStarted, Startable, Pending
  <2> QED
    BY <2>1, <2>2 DEF MarkStarted, Replayed
<1>6. Inserted'
  BY DEF Startable, MarkStarted, Ended, Replayed, Inserted, Callers, Idle, Pending
<1>7. Budgeted' /\ (Orderly' => Orderly)
  BY OrderlyKept DEF Startable, MarkStarted, TypeOK, TroubleKinds
<1>8. Solo'
  <2> SUFFICES ASSUME Orderly' PROVE Solo'
    BY DEF Solo
  <2>1. /\ \A i \in Jobs : i # j => job[i].state = "none"
        /\ \A x \in Callers \cup Drains : ~Sender(x)
    BY <1>7 DEF Solo, MarkStarted
  <2>2. \A v \in Workers : handler[v] = Idle
    BY <1>7, <2>1 DEF Solo, MarkStarted
  <2>3. \A i \in Jobs : i # j => job'[i] = job[i]
    BY EndedMoves DEF MarkStarted, TypeOK
  <2>4. \A v \in Workers : v # w => handler'[v] = handler[v]
    BY DEF MarkStarted, TypeOK
  <2>5. handler'[w] # Idle => handler'[w].job = j /\ job'[j].state = "active"
    BY <2>2 DEF MarkStarted, TypeOK
  <2>6. \A x \in Callers \cup Drains : ~Sender(x)'
    BY <2>1 DEF MarkStarted, Sender
  <2> QED
    BY <2>1, <2>2, <2>3, <2>4, <2>5, <2>6 DEF Solo
<1>9. First'
  BY <1>7 DEF Startable, MarkStarted, First, Sender, Callers
<1>10. Once'
  BY <1>7, OrderlyMeets DEF Startable, MarkStarted, Once, Solo, Idle, Claimed, TroubleKinds,
     Unsettled
<1> QED
  BY <1>1, <1>2, <1>3, <1>4, <1>5, <1>6, <1>7, <1>8, <1>9, <1>10

\* The agent files its report.
LEMMA SubmitReportStep == ASSUME IInv, NEW w \in Workers, SubmitReport(w) PROVE IInv'
<1> USE InvestigationAssumption DEF IInv
<1>1. TypeOK'
  <2>1. report' \in SUBSET {"structured", "markdown", "captured"}
    BY DEF SubmitReport, TypeOK
  <2>2. status' \in Pending \cup Finished \cup {"none"} /\ filed' \in Nat
    BY DEF SubmitReport, TypeOK, Finished
  <2> QED
    BY <2>1, <2>2 DEF SubmitReport, TypeOK
<1>2. ReportKept'
  BY DEF Reportable, SubmitReport, ReportKept, Pending
<1>3. Rounds'
  BY DEF Reportable, SubmitReport, Rounds, FiledOnce, TypeOK, Pending
<1>4. Paid'
  BY PaidKept DEF Reportable, SubmitReport, TypeOK, Callers, Payers, Pending
<1>5. Replayed'
  BY DEF Reportable, SubmitReport, Replayed, Callers, Pending
<1>6. Inserted'
  BY DEF Reportable, SubmitReport, Replayed, Inserted, Callers, Idle, Pending
<1>7. Budgeted' /\ (Orderly' => Orderly)
  BY OrderlyKept DEF Reportable, SubmitReport, TypeOK, TroubleKinds
<1>8. Solo'
  BY <1>7 DEF Reportable, SubmitReport, Solo, Sender
<1>9. First'
  <2>1. kind = "event" => round # 0
    BY DEF SubmitReport, First, Idle
  <2> QED
    BY <2>1, FirstHandled DEF SubmitReport
<1>10. Once'
  BY <1>7, OrderlyMeets DEF Reportable, SubmitReport, Once, Solo, Idle, Claimed, TroubleKinds,
     Unsettled
<1> QED
  BY <1>1, <1>2, <1>3, <1>4, <1>5, <1>6, <1>7, <1>8, <1>9, <1>10

\* The agent ends.
LEMMA EndAgentStep == ASSUME IInv, NEW w \in Workers, EndAgent(w) PROVE IInv'
<1> USE InvestigationAssumption DEF IInv
<1>1. TypeOK'
  BY WorkOK DEF row, EndAgent, TypeOK, CallerPcs, DrainPcs, HandlerPcs, TroubleKinds,
     Unsettled, Callers, Pending, Finished, Kinds, Limits
<1>2. ReportKept'
  BY DEF row, EndAgent, ReportKept
<1>3. Rounds'
  BY DEF row, EndAgent, Rounds, FiledOnce, Pending
<1>4. Paid'
  BY PaidKept DEF row, EndAgent, TypeOK, Callers, Payers
<1>5. Replayed'
  <2>1. \A v \in Workers : handler'[v].pc = "resolve" => handler[v].pc = "resolve"
    BY WorkMoves DEF EndAgent
  <2> QED
    BY <2>1 DEF EndAgent, row, Replayed
<1>6. Inserted'
  BY DEF row, EndAgent, Replayed, Inserted, Callers, Idle
<1>7. Budgeted' /\ (Orderly' => Orderly)
  BY OrderlyKept DEF row, EndAgent, TypeOK, TroubleKinds
<1>8. Solo'
  BY <1>7, SoloWorks, SoloEnds DEF row, EndAgent
<1>9. First'
  <2>1. kind = "event" => round # 0
    BY DEF EndAgent, First, Idle
  <2> QED
    BY <2>1, FirstHandled DEF row, EndAgent
<1>10. Once'
  BY <1>7, OrderlyMeets DEF row, EndAgent, Once, Solo, Idle, Claimed, TroubleKinds, Unsettled
<1> QED
  BY <1>1, <1>2, <1>3, <1>4, <1>5, <1>6, <1>7, <1>8, <1>9, <1>10

\* A row with a filed report is left as it is.
LEMMA LookAtReportStep == ASSUME IInv, NEW w \in Workers, LookAtReport(w) PROVE IInv'
<1> USE InvestigationAssumption DEF IInv
<1>1. TypeOK'
  BY WorkOK, EndWorkOK, MeetOK DEF row, LookAtReport, TypeOK, Idle, CallerPcs, DrainPcs,
     HandlerPcs, TroubleKinds, Unsettled, Callers, Pending, Finished, Kinds, Limits, JobRows
<1>2. ReportKept'
  BY DEF row, LookAtReport, ReportKept
<1>3. Rounds'
  BY DEF row, LookAtReport, Rounds, FiledOnce, Pending
<1>4. Paid'
  BY PaidKept DEF row, LookAtReport, TypeOK, Callers, Payers, Idle
<1>5. Replayed'
  BY DEF row, LookAtReport, Work, EndWork, Replayed, Callers, Idle
<1>6. Inserted'
  BY DEF row, LookAtReport, Replayed, Inserted, Callers, Idle
<1>7. Budgeted' /\ (Orderly' => Orderly)
  BY OrderlyKept DEF row, LookAtReport, TypeOK, TroubleKinds
<1>8. Solo'
  BY <1>7, SoloWorks, SoloEnds DEF row, LookAtReport
<1>9. First'
  <2>1. kind = "event" => round # 0
    BY DEF LookAtReport, First, Idle
  <2> QED
    BY <2>1, FirstHandled DEF row, LookAtReport
<1>10. Once'
  BY <1>7, OrderlyMeets DEF row, LookAtReport, Once, Solo, Idle, Claimed, TroubleKinds,
     Unsettled
<1> QED
  BY <1>1, <1>2, <1>3, <1>4, <1>5, <1>6, <1>7, <1>8, <1>9, <1>10

\* The row is resolved with the agent's text.
LEMMA ResolveStep == ASSUME IInv, NEW w \in Workers, Resolve(w) PROVE IInv'
<1> USE InvestigationAssumption DEF IInv
<1>1. TypeOK'
  <2>1. handler' \in [Workers -> [pc: HandlerPcs, job: Jobs \cup {NoJob}]]
    BY WorkOK, EndWorkOK DEF Resolve, TypeOK, HandlerPcs
  <2>2. job' \in JobRows
    BY EndWorkOK DEF Resolve, TypeOK, JobRows
  <2>3. trouble' \in [Limits -> Nat]
    BY MeetOK DEF Resolve, TypeOK, TroubleKinds
  <2> QED
    BY <2>1, <2>2, <2>3 DEF Resolve, TypeOK, JobRows, Unsettled, Pending, Finished
<1>2. ReportKept'
  BY DEF Resolve, ReportKept
<1>3. Rounds'
  BY DEF Resolve, Rounds, FiledOnce, Pending
<1>4. Paid'
  BY PaidKept DEF Resolve, TypeOK, Callers, Payers, Idle
<1>5. Replayed'
  BY DEF Resolve, Work, EndWork, Replayed, Callers, Idle
<1>6. Inserted'
  BY DEF Resolve, Replayed, Inserted, Callers, Idle
<1>7. Budgeted' /\ (Orderly' => Orderly)
  BY OrderlyKept DEF Resolve, TypeOK, TroubleKinds
<1>8. Solo'
  BY <1>7, SoloWorks, SoloEnds DEF Resolve
<1>9. First'
  <2>1. kind = "event" => round # 0
    BY DEF Resolve, First, Idle
  <2> QED
    BY <2>1, FirstHandled DEF Resolve
<1>10. Once'
  BY <1>7, OrderlyMeets DEF Resolve, Once, Solo, Idle, Claimed, TroubleKinds, Unsettled
<1> QED
  BY <1>1, <1>2, <1>3, <1>4, <1>5, <1>6, <1>7, <1>8, <1>9, <1>10

\* The row of a replay is resolved and its request completed.
LEMMA CompleteReplayStep == ASSUME IInv, NEW w \in Workers, CompleteReplay(w) PROVE IInv'
<1> USE InvestigationAssumption DEF IInv
<1>1. TypeOK'
  BY WorkOK, EndWorkOK, RequestOK, MeetOK DEF ReplayDone, CompleteReplay, CompleteRequest,
     TypeOK, Unsettled, Idle, CallerPcs, DrainPcs, HandlerPcs, TroubleKinds, Callers, Pending,
     Finished, Kinds, Limits, JobRows
<1>2. ReportKept'
  BY DEF ReplayDone, CompleteReplay, ReportKept, Unsettled
<1>3. Rounds'
  <2>1. status # "none" /\ (status' = "resolved" \/ UNCHANGED status)
    BY DEF CompleteReplay, ReplayDone, Inserted, Idle
  <2> QED
    BY <2>1 DEF CompleteReplay, Rounds, FiledOnce, Pending
<1>4. Paid'
  BY PaidKept DEF ReplayDone, CompleteReplay, TypeOK, Callers, Payers, Unsettled, Idle
<1>5. Replayed'
  <2>1. \A v \in Workers : handler'[v].pc = "resolve" => handler[v].pc = "resolve"
    BY WorkMoves, EndWorkMoves DEF CompleteReplay
  <2>2. \/ status' = "resolved" /\ CompleteRequest
        \/ UNCHANGED <<status, request>>
    BY DEF CompleteReplay, ReplayDone
  <2>3. CASE status' = "resolved" /\ CompleteRequest
    <3>1. kind = "replay" => request'.status = "completed"
      BY <2>3 DEF CompleteRequest, Request, Replayed, TypeOK
    <3> QED
      BY <2>1, <2>3, <3>1 DEF CompleteReplay, Replayed
  <2>4. CASE UNCHANGED <<status, request>>
    BY <2>1, <2>4 DEF CompleteReplay, Replayed
  <2> QED
    BY <2>2, <2>3, <2>4
<1>6. Inserted'
  BY DEF ReplayDone, CompleteReplay, Replayed, Inserted, Callers, Idle, Unsettled
<1>7. Budgeted' /\ (Orderly' => Orderly)
  BY OrderlyKept DEF ReplayDone, CompleteReplay, TypeOK, TroubleKinds
<1>8. Solo'
  BY <1>7, SoloWorks, SoloEnds DEF ReplayDone, CompleteReplay
<1>9. First'
  <2>1. kind = "event" => round # 0
    BY DEF CompleteReplay, First, Idle
  <2> QED
    BY <2>1, FirstHandled DEF CompleteReplay
<1>10. Once'
  BY <1>7, OrderlyMeets DEF ReplayDone, CompleteReplay, Request, CompleteRequest, Once, Solo,
     Idle, Claimed, TroubleKinds, TypeOK, Unsettled
<1> QED
  BY <1>1, <1>2, <1>3, <1>4, <1>5, <1>6, <1>7, <1>8, <1>9, <1>10

\* The row fails with the run.
LEMMA FailRunStep == ASSUME IInv, NEW w \in Workers, FailRun(w) PROVE IInv'
<1> USE InvestigationAssumption DEF IInv
<1>1. TypeOK'
  BY WorkOK, EndWorkOK, MeetOK DEF Failable, FailRun, Fail, TypeOK, Pending, Idle, CallerPcs,
     DrainPcs, HandlerPcs, TroubleKinds, Unsettled, Callers, Finished, Kinds, Limits, JobRows
<1>2. ReportKept'
  BY DEF Failable, FailRun, Fail, ReportKept, Pending
<1>3. Rounds'
  BY DEF Failable, FailRun, Fail, Rounds, FiledOnce, Pending
<1>4. Paid'
  BY PaidKept DEF Failable, FailRun, TypeOK, Callers, Payers, Pending, Idle
<1>5. Replayed'
  <2>1. \A v \in Workers : handler'[v].pc = "resolve" => handler[v].pc = "resolve"
    BY WorkMoves, EndWorkMoves DEF FailRun
  <2>2. status' = "resolved" <=> status = "resolved"
    BY DEF FailRun, Fail, Failable, Pending
  <2> QED
    BY <2>1, <2>2 DEF FailRun, Replayed
<1>6. Inserted'
  BY DEF Failable, FailRun, Fail, Replayed, Inserted, Callers, Idle, Pending
<1>7. Budgeted' /\ (Orderly' => Orderly)
  BY OrderlyKept DEF Failable, FailRun, TypeOK, TroubleKinds
<1>8. Solo'
  BY <1>7, SoloWorks, SoloEnds DEF FailRun
<1>9. First'
  <2>1. kind = "event" => round # 0
    BY DEF FailRun, First, Idle
  <2> QED
    BY <2>1, FirstHandled DEF FailRun
<1>10. Once'
  BY <1>7, OrderlyMeets DEF FailRun, Once, Solo, Idle, Claimed, TroubleKinds, Unsettled
<1> QED
  BY <1>1, <1>2, <1>3, <1>4, <1>5, <1>6, <1>7, <1>8, <1>9, <1>10

\* The request of a replay fails after its row.
LEMMA FailRunRequestStep == ASSUME IInv, NEW w \in Workers, FailRunRequest(w) PROVE IInv'
<1> USE InvestigationAssumption DEF IInv
<1>1. TypeOK'
  BY EndWorkOK, RequestOK, MeetOK DEF row, FailRunRequest, Calls, FailRequest, TypeOK,
     Unsettled, Idle, CallerPcs, DrainPcs, HandlerPcs, TroubleKinds, Callers, Pending,
     Finished, Kinds, Limits, JobRows
<1>2. ReportKept'
  BY DEF row, FailRunRequest, Calls, ReportKept, Unsettled
<1>3. Rounds'
  BY DEF row, FailRunRequest, Calls, Rounds, FiledOnce, Pending, Unsettled
<1>4. Paid'
  BY PaidKept DEF row, FailRunRequest, Calls, TypeOK, Callers, Payers, Unsettled, Idle
<1>5. Replayed'
  BY DEF row, FailRunRequest, Calls, EndWork, Request, FailRequest, Replayed, TypeOK, Callers,
     Unsettled, Idle
<1>6. Inserted'
  BY DEF row, FailRunRequest, Calls, Replayed, Inserted, Callers, Idle, Unsettled
<1>7. Budgeted' /\ (Orderly' => Orderly)
  BY OrderlyKept DEF row, FailRunRequest, Calls, TypeOK, TroubleKinds
<1>8. Solo'
  BY <1>7, SoloWorks, SoloEnds DEF row, FailRunRequest, Calls
<1>9. First'
  <2>1. kind = "event" => round # 0
    BY DEF FailRunRequest, First, Idle
  <2> QED
    BY <2>1, FirstHandled DEF row, FailRunRequest, Calls
<1>10. Once'
  BY <1>7, OrderlyMeets DEF row, FailRunRequest, Calls, Request, FailRequest, Once, Solo, Idle,
     Claimed, TroubleKinds, TypeOK, Unsettled
<1> QED
  BY <1>1, <1>2, <1>3, <1>4, <1>5, <1>6, <1>7, <1>8, <1>9, <1>10

\* A worker dies.
LEMMA WorkerDiesStep == ASSUME IInv, NEW w \in Workers, WorkerDies(w) PROVE IInv'
<1> USE InvestigationAssumption DEF IInv
<1>1. TypeOK'
  BY MeetOK DEF row, WorkerDies, TypeOK, Idle, CallerPcs, DrainPcs, HandlerPcs, TroubleKinds,
     Unsettled, Callers, Pending, Finished, Kinds, Limits
<1>2. ReportKept'
  BY DEF row, WorkerDies, ReportKept, Idle
<1>3. Rounds'
  BY DEF row, WorkerDies, Rounds, FiledOnce, Pending, Idle
<1>4. Paid'
  BY PaidKept DEF row, WorkerDies, TypeOK, Callers, Payers, Idle
<1>5. Replayed'
  BY DEF row, WorkerDies, Replayed, TypeOK, Callers, Idle
<1>6. Inserted'
  BY DEF row, WorkerDies, Replayed, Inserted, TypeOK, Callers, Idle
<1>7. Budgeted' /\ (Orderly' => Orderly)
  BY OrderlyKept DEF row, WorkerDies, TypeOK, TroubleKinds
<1>8. Solo'
  BY <1>7 DEF row, WorkerDies, Solo, Sender, TypeOK
<1>9. First'
  <2>1. kind = "event" => round # 0
    BY DEF WorkerDies, First
  <2>2. \A x \in Callers \cup Drains : at'[x] \in {"idle", at[x]}
    BY DEF WorkerDies, TypeOK
  <2> QED
    BY <2>1, <2>2 DEF First, WorkerDies, row
<1>10. Once'
  BY <1>7, OrderlyMeets DEF row, WorkerDies, Once, Solo, Idle, Claimed, TroubleKinds, Unsettled
<1> QED
  BY <1>1, <1>2, <1>3, <1>4, <1>5, <1>6, <1>7, <1>8, <1>9, <1>10

\* A job without heartbeats ends.
LEMMA JobExpiresStep == ASSUME IInv, NEW j \in Jobs, JobExpires(j) PROVE IInv'
<1> USE InvestigationAssumption DEF IInv
<1>1. TypeOK'
  BY EndedOK DEF row, work, JobExpires, TypeOK, CallerPcs, DrainPcs, HandlerPcs, TroubleKinds,
     Unsettled, Callers, Pending, Finished, Kinds, Limits, JobRows
<1>2. ReportKept'
  BY DEF row, work, JobExpires, ReportKept
<1>3. Rounds'
  BY DEF row, work, JobExpires, Rounds, FiledOnce, Pending
<1>4. Paid'
  BY PaidKept DEF row, work, JobExpires, TypeOK, Callers, Payers
<1>5. Replayed'
  BY DEF row, work, JobExpires, Replayed, Callers
<1>6. Inserted'
  BY DEF row, work, JobExpires, Ended, Replayed, Inserted, Callers, Idle
<1>7. Budgeted' /\ (Orderly' => Orderly)
  BY OrderlyKept DEF row, work, JobExpires, TypeOK, TroubleKinds
<1>8. Solo'
  <2>1. \A i \in Jobs : i # j => job'[i] = job[i]
    BY EndedMoves DEF JobExpires
  <2>2. job[j].state = "active" /\ \A v \in Workers : handler[v].job # j
    BY DEF JobExpires
  <2>3. \A i \in Jobs : job'[i].state # "none" => job[i].state # "none"
    BY <2>1, <2>2
  <2>4. \A x \in Callers \cup Drains : Sender(x)' <=> Sender(x)
    BY DEF JobExpires, Sender
  <2> QED
    BY <1>7, <2>1, <2>2, <2>3, <2>4 DEF JobExpires, work, Solo
<1>9. First'
  BY <1>7 DEF row, work, JobExpires, First, Sender, Callers
<1>10. Once'
  BY <1>7, OrderlyMeets DEF row, work, JobExpires, Once, Solo, Idle, Claimed, TroubleKinds,
     Unsettled
<1> QED
  BY <1>1, <1>2, <1>3, <1>4, <1>5, <1>6, <1>7, <1>8, <1>9, <1>10

\* A job ends while its handler goes on.
LEMMA OverrunStep == ASSUME IInv, NEW w \in Workers, Overrun(w) PROVE IInv'
<1> USE InvestigationAssumption DEF IInv
<1>1. TypeOK'
  <2>1. handler' \in [Workers -> [pc: HandlerPcs, job: Jobs \cup {NoJob}]]
    BY SMTT(30) DEF Overrun, TypeOK
  <2>2. job' \in JobRows
    <3>1. handler[w].job \in Jobs
      BY DEF Overrun, TypeOK
    <3> QED
      BY <3>1, EndedOK DEF Overrun
  <2>3. trouble' \in [Limits -> Nat]
    BY MeetOK DEF Overrun, TroubleKinds
  <2> QED
    BY <2>1, <2>2, <2>3 DEF Overrun, TypeOK, row, JobRows
<1>2. ReportKept'
  BY DEF row, Overrun, ReportKept
<1>3. Rounds'
  BY DEF row, Overrun, Rounds, FiledOnce, Pending
<1>4. Paid'
  BY PaidKept DEF row, Overrun, TypeOK, Callers, Payers
<1>5. Replayed'
  BY DEF row, Overrun, Replayed, Callers
<1>6. Inserted'
  BY DEF row, Overrun, Ended, Replayed, Inserted, Callers, Idle
<1>7. Budgeted' /\ (Orderly' => Orderly)
  BY OrderlyKept DEF row, Overrun, TypeOK, TroubleKinds
<1>8. Solo'
  <2>1. ~Orderly'
    BY OrderlyMeets DEF Overrun, TroubleKinds
  <2> QED
    BY <2>1 DEF Solo
<1>9. First'
  <2>1. kind = "event" => round # 0
    BY DEF Overrun, First, Idle, NoJob, Jobs
  <2> QED
    BY <2>1, FirstHandled DEF row, Overrun
<1>10. Once'
  BY <1>7, OrderlyMeets DEF row, Overrun, Once, Solo, Idle, Claimed, TroubleKinds, Unsettled
<1> QED
  BY <1>1, <1>2, <1>3, <1>4, <1>5, <1>6, <1>7, <1>8, <1>9, <1>10

\* The claim of the request grows old.
LEMMA GrowStaleStep == ASSUME IInv, GrowStale PROVE IInv'
<1> USE InvestigationAssumption DEF IInv
<1>1. TypeOK'
  BY MeetOK DEF row, work, Claimed, GrowStale, TypeOK, CallerPcs, DrainPcs, HandlerPcs,
     TroubleKinds, Unsettled, Callers, Pending, Finished, Kinds, Limits
<1>2. ReportKept'
  BY DEF row, work, Claimed, GrowStale, ReportKept
<1>3. Rounds'
  BY DEF row, work, Claimed, GrowStale, Rounds, FiledOnce, Pending
<1>4. Paid'
  BY PaidKept DEF row, work, Claimed, GrowStale, TypeOK, Callers, Payers
<1>5. Replayed'
  BY DEF row, work, Claimed, GrowStale, Replayed, Callers
<1>6. Inserted'
  BY DEF row, work, Claimed, GrowStale, Replayed, Inserted, Callers, Idle
<1>7. Budgeted' /\ (Orderly' => Orderly)
  BY OrderlyKept DEF row, work, Claimed, GrowStale, TypeOK, TroubleKinds
<1>8. Solo'
  BY <1>7 DEF row, work, Claimed, GrowStale, Solo, Sender
<1>9. First'
  BY <1>7 DEF row, work, Claimed, GrowStale, First, Sender, Callers
<1>10. Once'
  BY <1>7, OrderlyMeets DEF row, work, Claimed, GrowStale, Once, Solo, Idle, TroubleKinds,
     Unsettled
<1> QED
  BY <1>1, <1>2, <1>3, <1>4, <1>5, <1>6, <1>7, <1>8, <1>9, <1>10

\* An investigation that has not begun satisfies the invariant.
LEMMA InitInv == Init => IInv
<1> SUFFICES ASSUME Init PROVE IInv
  OBVIOUS
<1> USE InvestigationAssumption DEF Init
<1>1. TypeOK
  BY DEF TypeOK, Idle, HandlerPcs, CallerPcs, DrainPcs, Unsettled, Finished
<1>2. ReportKept /\ Rounds /\ Replayed /\ Inserted
  BY DEF ReportKept, Rounds, FiledOnce, Replayed, Inserted, Idle, Pending
<1>3. Paid
  <2>1. Payers = {}
    BY DEF Payers
  <2> QED
    BY <2>1, FS_EmptySet DEF Paid
<1>4. First /\ Once /\ Budgeted
  <2>1. \A c \in Callers : ~Sender(c)
    BY DEF Sender
  <2> QED
    BY <2>1 DEF First, Once, Budgeted, Limits
<1>5. Solo
  BY DEF Solo, Sender
<1> QED
  BY <1>1, <1>2, <1>3, <1>4, <1>5 DEF IInv

\* Every step of the system keeps it.
LEMMA NextInv == IInv /\ [Next]_vars => IInv'
<1> SUFFICES ASSUME IInv, [Next]_vars PROVE IInv'
  OBVIOUS
<1>1. ASSUME NEW c \in Callers, CallerStep(c) \/ CallerDies(c) PROVE IInv'
  BY <1>1, LookStep, AdmitStep, DiscardStep, ReserveStep, PrepareStep, ConfirmStep,
     ReleaseStep, SendStep, FailUnqueuedStep, CallerDiesStep DEF CallerStep
<1>2. ASSUME NEW w \in Drains, Claim(w) \/ GiveUp(w) \/ DrainStep(w) PROVE IInv'
  BY <1>2, ClaimStep, GiveUpStep, PrepareReplayStep, SettleReplayStep, ForbidStep,
     SendReplayStep, MarkQueuedStep, ReleaseRequestStep, FailReplayStep DEF DrainStep
<1>3. ASSUME NEW w \in Workers,
             HandlerStep(w) \/ SubmitReport(w) \/ WorkerDies(w) \/ Overrun(w)
      PROVE  IInv'
  BY <1>3, EndAgentStep, LookAtReportStep, ResolveStep, CompleteReplayStep, FailRunStep,
     FailRunRequestStep, SubmitReportStep, WorkerDiesStep, OverrunStep DEF HandlerStep
<1>4. ASSUME Rest \/ UNCHANGED vars PROVE IInv'
  <2>1. UNCHANGED vars
    BY <1>4 DEF Rest
  <2>2. Payers' = Payers
    BY <2>1 DEF vars, Payers
  <2>3. TypeOK' /\ ReportKept' /\ Rounds'
    BY <2>1 DEF vars, IInv, TypeOK, ReportKept, Rounds, FiledOnce
  <2>4. Paid' /\ Replayed' /\ Inserted'
    BY <2>1, <2>2 DEF vars, IInv, Paid, Replayed, Inserted
  <2>5. Solo' /\ First' /\ Once' /\ Budgeted'
    BY <2>1 DEF vars, IInv, Solo, First, Once, Budgeted, Orderly, Spared, Sender, Claimed
  <2> QED
    BY <2>3, <2>4, <2>5 DEF IInv
<1> QED
  BY <1>1, <1>2, <1>3, <1>4, BeginStep, StartRerunStep, MarkStartedStep, JobExpiresStep,
     GrowStaleStep DEF Next

\* The invariant of all that follows.
THEOREM InvAlways == Spec => []IInv
BY InitInv, NextInv, PTL DEF Spec

-----------------------------------------------------------------------------
(* What follows from the invariant. *)

\* The state has its types.
THEOREM TypeCorrect == Spec => []TypeOK
<1>1. IInv => TypeOK
  BY DEF IInv
<1> QED
  BY <1>1, InvAlways, PTL

\* A filed report stays with a resolved row until a rerun.
THEOREM ReportKeptCorrect == Spec => []ReportKept
<1>1. IInv => ReportKept
  BY DEF IInv
<1> QED
  BY <1>1, InvAlways, PTL

\* Issues are filed at most once for each time the investigation is run.
THEOREM FiledOnceCorrect == Spec => []FiledOnce
<1>1. IInv => FiledOnce
  BY DEF IInv, Rounds
<1> QED
  BY <1>1, InvAlways, PTL

\* Credits are spent by payers only.
LEMMA PayersPay == IInv => ChargedPerRerun
<1> SUFFICES ASSUME IInv PROVE ChargedPerRerun
  OBVIOUS
<1> DEFINE Charged == {c \in Callers : hold[c] = "confirmed"}
<1>1. IsFiniteSet(Payers)
  BY InvestigationAssumption, FS_Subset DEF Payers
<1>2. /\ Cardinality(Charged) <= Cardinality(Payers) /\ Cardinality(Charged) \in Nat
      /\ Cardinality(Payers) \in Nat
  BY <1>1, FS_Subset, FS_CardinalityType DEF Payers
<1> QED
  BY <1>2 DEF IInv, Paid, TypeOK, ChargedPerRerun

\* There are at most as many charges as reruns.
THEOREM ChargedPerRerunCorrect == Spec => []ChargedPerRerun
BY PayersPay, InvAlways, PTL

\* A replay is resolved when, and only when, its request is completed.
THEOREM ReplayAgreesCorrect == Spec => []ReplayAgrees
<1>1. IInv => ReplayAgrees
  BY DEF IInv, Replayed, ReplayAgrees
<1> QED
  BY <1>1, InvAlways, PTL

\* Without a rerun and without an overrun one worker at a time runs the
\* investigation, that of a replay unless something failed.
THEOREM AloneAtWorkCorrect == Spec => []AloneAtWork
<1>1. IInv => AloneAtWork
  BY DEF IInv, Solo, Orderly, AloneAtWork
<1> QED
  BY <1>1, InvAlways, PTL
=============================================================================
