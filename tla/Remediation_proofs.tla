------------------------- MODULE Remediation_proofs -------------------------
(***************************************************************************)
(* Machine-checked proofs about Remediation, for every set of requests,    *)
(* workers and drains and every budget of trouble.                         *)
(*                                                                         *)
(* The parts of the inductive invariant IInv build on each other: Claimed  *)
(* and Handled say that one queuer and one handler at a time act for a     *)
(* request, KeptYoung and Unrecovered relate them to the clock and to the  *)
(* recovery, Published to GitHub.                                          *)
(***************************************************************************)
EXTENDS Remediation, TLAPS

QueuingOK == /\ queuing \in [Queuers -> At({"idle", "insert", "load", "claim", "send", "session", "fail"})]
             /\ \A q \in Queuers : queuing[q].pc = "idle" <=> queuing[q].r = None
HandlerOK == /\ handler \in [Workers -> At({"idle", "check", "start", "open", "record", "fail"})]
             /\ \A w \in Workers : handler[w].pc = "idle" <=> handler[w].r = None
SweepOK   == /\ sweep \in [Drains -> At({"idle", "find", "recover"})]
             /\ \A w \in Drains : sweep[w].pc = "idle" <=> sweep[w].r = None

RowOK ==
  /\ kind \in Kinds
  /\ status \in [Requests -> Statuses]
  /\ stale \in SUBSET Requests
  /\ job \in [Requests -> {"none", "created", "active", "completed", "failed"}]
  /\ \A r \in Requests : status[r] \in {"none", "queued"} => job[r] = "none"
  /\ begun \in [Requests -> Nat]
  /\ branch \in SUBSET Requests
  /\ trouble \in [Limits -> Nat]
  /\ \A k \in Limits : trouble[k] <= Budget[k]

\* A request that is not claimed is only looked at, before its insert by the
\* one who inserts it; one that is claimed and has no job yet is sent by one
\* process.
Claimed ==
  /\ \A q \in Queuers, r \in Requests :
       queuing[q].r = r /\ status[r] \in {"none", "queued"} =>
         queuing[q].pc \in {"insert", "load", "claim"}
  /\ \A q \in Queuers :
       queuing[q].pc = "insert" => queuing[q].r = q /\ q \in Requests /\ status[q] = "none"
  /\ \A q \in Queuers : queuing[q].pc = "send" => job[queuing[q].r] = "none"
  /\ \A p, q \in Queuers :
       queuing[p].pc = "send" /\ queuing[q].pc = "send" /\ queuing[p].r = queuing[q].r => p = q

\* A request is taken from the queue once and by one handler.
Handled ==
  /\ \A w \in Workers, r \in Requests :
       handler[w].r = r => job[r] \in {"active", "completed", "failed"}
  /\ \A v, w \in Workers : handler[v].r = handler[w].r /\ handler[w].r # None => v = w
  /\ \A w \in Workers : handler[w].pc \in {"check", "start"} => begun[handler[w].r] = 0
  /\ \A r \in Requests : job[r] \in {"none", "created"} => begun[r] = 0
  /\ WorkedOnce

\* A request whose handler is in time is not old, and nobody else ends it.
KeptYoung ==
  /\ \A w \in Workers :
       handler[w].pc \in {"open", "record"} /\ InTime(w) => handler[w].r \notin stale
  /\ Spared({"fault", "discard"}) => \A q \in Queuers : queuing[q].pc # "fail"
  /\ KeepsRequest

\* An abandoned request has neither a sender nor, once the recovery looked, a
\* live job; without an overrun a handler has its job.
Unrecovered ==
  /\ \A q \in Queuers, r \in Requests :
       queuing[q].r = r /\ queuing[q].pc = "send" => ~Abandoned(r)
  /\ \A w \in Drains, r \in Requests :
       sweep[w].r = r /\ sweep[w].pc = "recover" /\ Abandoned(r) => ~LiveJob(r)
  /\ Spared({"overrun"}) =>
       \A w \in Workers, r \in Requests : handler[w].r = r => job[r] = "active"

\* One request of the subject is under way or open, and a branch belongs to
\* one that is recorded, or is about to be.
Published ==
  /\ \A r, s \in Requests :
       {status[r], status[s]} \subseteq {"queued", "creating", "created"} => r = s
  /\ \A r \in Requests : job[r] \in {"none", "created"} => r \notin branch
  /\ \A w \in Workers : handler[w].pc \in {"check", "start", "open"} => handler[w].r \notin branch
  /\ Spared(TroubleKinds) =>
       \A r \in branch : \/ status[r] \in {"created", "merged"}
                         \/ \E w \in Workers : handler[w].r = r /\ handler[w].pc = "record"

IInv == /\ QueuingOK /\ HandlerOK /\ SweepOK /\ RowOK
        /\ Claimed /\ Handled /\ KeptYoung /\ Unrecovered /\ Published

\* A queuer goes on.
LEMMA QueueOK ==
  ASSUME QueuingOK, NEW q \in Queuers, NEW pc \in {"load", "claim", "send", "session", "fail"},
         queuing[q].pc # "idle", Queue(q, pc)
  PROVE  QueuingOK'
BY DEF QueuingOK, Queue, At

\* A queuer takes up a request.
LEMMA BeginQueuingOK ==
  ASSUME QueuingOK, NEW q \in Queuers, NEW r \in Requests, NEW pc \in {"insert", "load"},
         queuing' = [queuing EXCEPT ![q] = [pc |-> pc, r |-> r]]
  PROVE  QueuingOK'
BY RemediationAssumption DEF QueuingOK, At

\* A queuer ends.
LEMMA EndQueuingOK ==
  ASSUME QueuingOK, NEW q \in Queuers, EndQueuing(q)
  PROVE  QueuingOK'
BY DEF QueuingOK, EndQueuing, At, Idle

\* A handler goes on.
LEMMA WorkOK ==
  ASSUME HandlerOK, NEW w \in Workers, NEW pc \in {"check", "start", "open", "record", "fail"},
         handler[w].pc # "idle", Work(w, pc)
  PROVE  HandlerOK'
BY DEF HandlerOK, Work, At

\* A handler takes up a request.
LEMMA BeginWorkOK ==
  ASSUME HandlerOK, NEW w \in Workers, NEW r \in Requests,
         handler' = [handler EXCEPT ![w] = [pc |-> "check", r |-> r]]
  PROVE  HandlerOK'
BY RemediationAssumption DEF HandlerOK, At

\* A handler ends.
LEMMA EndWorkOK ==
  ASSUME HandlerOK, NEW w \in Workers, handler' = [handler EXCEPT ![w] = Idle]
  PROVE  HandlerOK'
BY DEF HandlerOK, At, Idle

\* A recovery ends.
LEMMA EndSweepOK ==
  ASSUME SweepOK, NEW w \in Drains, EndSweep(w)
  PROVE  SweepOK'
BY DEF SweepOK, EndSweep, At, Idle

\* What was met is taken from the budget.
LEMMA MeetOK ==
  ASSUME trouble \in [Limits -> Nat], NEW k \in TroubleKinds, Meet(k)
  PROVE  trouble' \in [Limits -> Nat]
BY DEF Meet, Limits

\* A row is written.
LEMMA WriteOK ==
  ASSUME RowOK, NEW r \in Requests, NEW s \in Statuses, Write(r, s)
  PROVE  /\ status' \in [Requests -> Statuses]
         /\ stale' \in SUBSET Requests
BY DEF RowOK, Write

\* What a handler, a queuer or a sweep does leaves the others where they are.
LEMMA WorkMoves ==
  ASSUME HandlerOK, NEW w \in Workers, NEW pc, Work(w, pc)
  PROVE  /\ handler'[w].pc = pc /\ handler'[w].r = handler[w].r
         /\ \A v \in Workers : v # w => handler'[v] = handler[v]
         /\ \A v \in Workers : handler'[v].r = handler[v].r
BY DEF HandlerOK, Work

\* A handler that ends leaves the others, and the other jobs, where they are.
LEMMA EndWorkMoves ==
  ASSUME HandlerOK, RowOK, NEW w \in Workers, handler[w].r \in Requests,
         NEW outcome, EndWork(w, outcome)
  PROVE  /\ handler'[w].pc = "idle" /\ handler'[w].r = None
         /\ \A v \in Workers : v # w => handler'[v] = handler[v]
         /\ job'[handler[w].r] = IF job[handler[w].r] = "active" THEN outcome ELSE job[handler[w].r]
         /\ \A r \in Requests : r # handler[w].r => job'[r] = job[r]
BY DEF HandlerOK, RowOK, EndWork, Idle

\* A queuer that goes on leaves the others where they are.
LEMMA QueueMoves ==
  ASSUME QueuingOK, NEW q \in Queuers, NEW pc, Queue(q, pc)
  PROVE  /\ queuing'[q].pc = pc /\ queuing'[q].r = queuing[q].r
         /\ \A p \in Queuers : p # q => queuing'[p] = queuing[p]
BY DEF QueuingOK, Queue

\* A queuer that ends leaves the others where they are.
LEMMA EndQueuingMoves ==
  ASSUME QueuingOK, NEW q \in Queuers, EndQueuing(q)
  PROVE  /\ queuing'[q].pc = "idle" /\ queuing'[q].r = None
         /\ \A p \in Queuers : p # q => queuing'[p] = queuing[p]
BY DEF QueuingOK, EndQueuing, Idle

\* A recovery that ends leaves the others where they are.
LEMMA EndSweepMoves ==
  ASSUME SweepOK, NEW w \in Drains, EndSweep(w)
  PROVE  /\ sweep'[w].pc = "idle" /\ sweep'[w].r = None
         /\ \A v \in Drains : v # w => sweep'[v] = sweep[v]
BY DEF SweepOK, EndSweep, Idle

\* A write to a row makes it young and leaves the other rows as they are.
LEMMA WriteMoves ==
  ASSUME RowOK, NEW r \in Requests, NEW new, Write(r, new)
  PROVE  /\ status'[r] = new /\ \A s \in Requests : s # r => status'[s] = status[s]
         /\ r \notin stale' /\ \A s \in Requests : s # r => (s \in stale' <=> s \in stale)
BY DEF RowOK, Write

\* Trouble that was met shows in what is left of the budget.
LEMMA MeetMoves ==
  ASSUME RowOK, NEW k \in TroubleKinds, Meet(k)
  PROVE  /\ trouble' \in [Limits -> Nat]
         /\ \A l \in Limits : trouble'[l] <= trouble[l] /\ trouble'[l] <= Budget[l]
         /\ trouble'[k] # Budget[k]
         /\ \A l \in TroubleKinds : trouble'[l] = Budget[l] => trouble[l] = Budget[l]
BY RemediationAssumption DEF RowOK, Meet, Limits

\* Who writes to requests that are claimed, or closes them, disturbs no queuer.
LEMMA ClaimedKept ==
  ASSUME QueuingOK, Claimed, UNCHANGED queuing,
         \A r \in Requests : job[r] = "none" => job'[r] = "none",
         \A r \in Requests : status'[r] \in {"none", "queued"} => status'[r] = status[r],
         \A r \in Requests : status[r] = "none" => status'[r] = "none"
  PROVE  Claimed'
<1>1. \A q \in Queuers : queuing[q].pc = "send" => queuing[q].r \in Requests
  BY DEF QueuingOK, At
<1> QED
  BY <1>1 DEF Claimed

\* A process that found no request of the subject sets out to insert one.
LEMMA RequestStep == ASSUME IInv, NEW r \in Requests, Request(r) PROVE IInv'
<1> USE RemediationAssumption DEF IInv
<1>1. QueuingOK'
  BY BeginQueuingOK DEF Request, Queuers
<1>2. HandlerOK'
  BY DEF Request, HandlerOK
<1>3. SweepOK'
  BY DEF Request, SweepOK
<1>4. RowOK'
  BY DEF Request, row, github, RowOK
<1>5. Claimed'
  <2>1. \A q \in Queuers : q # r => queuing'[q] = queuing[q]
    BY DEF Request, QueuingOK
  <2>2. queuing'[r].pc = "insert" /\ queuing'[r].r = r /\ status[r] = "none"
    BY DEF Request, QueuingOK, Queuers
  <2> QED
    BY <2>1, <2>2 DEF Request, row, Claimed
<1>6. Handled'
  BY DEF Request, github, Handled, WorkedOnce
<1>7. KeptYoung'
  BY DEF Request, row, KeptYoung, KeepsRequest, InTime, Spared
<1>8. Unrecovered'
  BY DEF Request, row, Unrecovered, Abandoned, LiveJob, Spared
<1>9. Published'
  BY DEF Request, row, github, Published, Spared
<1> QED
  BY <1>1, <1>2, <1>3, <1>4, <1>5, <1>6, <1>7, <1>8, <1>9

\* A new request is queued while no other request of the subject is under way.
LEMMA InsertStep == ASSUME IInv, NEW q \in Queuers, Insert(q) PROVE IInv'
<1> USE RemediationAssumption DEF IInv
<1>0. queuing[q].r \in Requests /\ queuing[q].r = q /\ status[q] = "none" /\ job[q] = "none"
  BY DEF Insert, Claimed, QueuingOK, RowOK, At
<1>a. Spared(TroubleKinds)' => Spared(TroubleKinds)
  BY MeetMoves DEF Insert, Calls, Spared, TroubleKinds
<1>1. QueuingOK'
  BY QueueOK, EndQueuingOK DEF Insert, Calls
<1>2. HandlerOK'
  BY DEF Insert, HandlerOK
<1>3. SweepOK'
  BY DEF Insert, SweepOK
<1>4. RowOK'
  <2>1. status' \in [Requests -> Statuses] /\ stale' \in SUBSET Requests
    BY <1>0, WriteOK DEF Insert, Calls, row, RowOK, Statuses, Pending
  <2>3. \A r \in Requests : r # q => status'[r] = status[r]
    BY <1>0, WriteMoves DEF Insert, Calls, row
  <2>2. trouble' \in [Limits -> Nat] /\ \A k \in Limits : trouble'[k] <= Budget[k]
    BY MeetMoves DEF Insert, Calls, RowOK, TroubleKinds
  <2> QED
    BY <1>0, <2>1, <2>2, <2>3 DEF Insert, github, RowOK
<1>5. Claimed'
  <2>1. \A r \in Requests : r # q => status'[r] = status[r]
    BY <1>0, WriteMoves DEF Insert, Calls, row
  <2>2. \A p \in Queuers : p # q => queuing'[p] = queuing[p]
    BY QueueMoves, EndQueuingMoves DEF Insert, Calls
  <2>3. \/ queuing'[q].pc = "load" /\ queuing'[q].r = q
        \/ queuing'[q].pc = "idle" /\ queuing'[q].r = None
    BY <1>0, QueueMoves, EndQueuingMoves DEF Insert, Calls
  <2>4. \A p \in Queuers : p # q /\ queuing[p].r = q => queuing[p].pc \in {"load", "claim"}
    BY <1>0 DEF Claimed
  <2>5. job' = job
    BY DEF Insert
  <2> QED
    BY <1>0, <2>1, <2>2, <2>3, <2>4, <2>5 DEF Claimed
<1>6. Handled'
  BY DEF Insert, github, Handled, WorkedOnce
<1>7. KeptYoung'
  <2>1. \A w \in Workers : handler[w].r # q
    BY <1>0 DEF Handled
  <2>2. \A r \in Requests : r # q => status'[r] = status[r] /\ (r \in stale' <=> r \in stale)
    BY <1>0, WriteMoves DEF Insert, Calls, row
  <2>3. \A p \in Queuers : queuing'[p].pc = "fail" => queuing[p].pc = "fail"
    BY QueueMoves, EndQueuingMoves DEF Insert, Calls
  <2>4. Spared({"fault", "discard"})' => Spared({"fault", "discard"})
    BY MeetMoves DEF Insert, Calls, Spared, TroubleKinds
  <2>5. \A w \in Workers : InTime(w)' = InTime(w)
    BY DEF Insert, InTime
  <2>6. \A w \in Workers : handler[w].pc \in {"open", "record"} => handler[w].r \in Requests
    BY DEF HandlerOK, At
  <2> QED
    BY <2>1, <2>2, <2>3, <2>4, <2>5, <2>6 DEF Insert, KeptYoung, KeepsRequest
<1>8. Unrecovered'
  <2>1. \A r \in Requests : Abandoned(r)' => Abandoned(r)
    BY <1>0, WriteMoves DEF Insert, Calls, row, Abandoned
  <2>2. \A p \in Queuers : queuing'[p].pc = "send" => queuing'[p] = queuing[p]
    BY QueueMoves, EndQueuingMoves DEF Insert, Calls
  <2>3. Spared({"overrun"})' => Spared({"overrun"})
    BY MeetMoves DEF Insert, Calls, Spared, TroubleKinds
  <2> QED
    BY <2>1, <2>2, <2>3 DEF Insert, Unrecovered, LiveJob
<1>9. Published'
  <2>1. CASE Insertable /\ Write(q, "queued")
    <3>1. \A r \in Requests : status'[r] = IF r = q THEN "queued" ELSE status[r]
      BY <1>0, <2>1, WriteMoves
    <3>2. \A r \in Requests : r # q => status'[r] \notin {"queued", "creating", "created"}
      BY <2>1, <3>1 DEF Insertable, Active, Pending
    <3>3. q \notin branch
      BY <1>0 DEF Published
    <3>4. branch \subseteq Requests
      BY DEF RowOK
    <3> QED
      BY <1>a, <3>1, <3>2, <3>3, <3>4 DEF Insert, github, Published
  <2>2. CASE UNCHANGED row
    BY <1>a, <2>2 DEF Insert, row, github, Published
  <2> QED
    BY <1>0, <2>1, <2>2 DEF Insert, Calls
<1> QED
  BY <1>1, <1>2, <1>3, <1>4, <1>5, <1>6, <1>7, <1>8, <1>9

\* A pull request on record is merged.
LEMMA MergeStep == ASSUME IInv, NEW r \in Requests, Merge(r) PROVE IInv'
<1> USE RemediationAssumption DEF IInv
<1>1. QueuingOK'
  BY DEF Merge, QueuingOK
<1>2. HandlerOK'
  BY DEF Merge, HandlerOK
<1>3. SweepOK'
  BY DEF Merge, SweepOK
<1>4. RowOK'
  BY DEF Merge, github, RowOK, Write, Statuses
<1>5. Claimed'
  BY DEF Merge, Claimed, Write
<1>6. Handled'
  BY DEF Merge, github, Handled, WorkedOnce
<1>7. KeptYoung'
  BY DEF Merge, KeptYoung, KeepsRequest, InTime, Spared, Write
<1>8. Unrecovered'
  BY DEF Merge, Unrecovered, Abandoned, LiveJob, Spared, Write
<1>9. Published'
  BY DEF Merge, github, Published, Spared, Write
<1> QED
  BY <1>1, <1>2, <1>3, <1>4, <1>5, <1>6, <1>7, <1>8, <1>9

\* A starter that dies leaves its request to the others.
LEMMA StarterDiesStep == ASSUME IInv, NEW r \in Requests, StarterDies(r) PROVE IInv'
<1> USE RemediationAssumption DEF IInv
<1>1. QueuingOK'
  BY EndQueuingOK DEF StarterDies, Queuers
<1>2. HandlerOK'
  BY DEF StarterDies, HandlerOK
<1>3. SweepOK'
  BY DEF StarterDies, SweepOK
<1>4. RowOK'
  BY MeetMoves DEF StarterDies, row, github, RowOK, TroubleKinds
<1>5. Claimed'
  BY DEF StarterDies, row, Claimed, EndQueuing, Idle
<1>6. Handled'
  BY DEF StarterDies, github, Handled, WorkedOnce
<1>7. KeptYoung'
  BY DEF StarterDies, row, RowOK, KeptYoung, KeepsRequest, InTime, Spared, EndQueuing, Meet,
     Idle, Limits, TroubleKinds
<1>8. Unrecovered'
  BY DEF StarterDies, row, RowOK, Unrecovered, Abandoned, LiveJob, Spared, EndQueuing, Meet,
     Idle, Limits, TroubleKinds
<1>9. Published'
  BY DEF StarterDies, row, github, RowOK, Published, Spared, Meet, Limits
<1> QED
  BY <1>1, <1>2, <1>3, <1>4, <1>5, <1>6, <1>7, <1>8, <1>9

\* A job expires: only an overrun leaves its handler without it.
LEMMA JobExpiresStep == ASSUME IInv, NEW r \in Requests, JobExpires(r) PROVE IInv'
<1> USE RemediationAssumption DEF IInv
<1>1. QueuingOK'
  BY DEF JobExpires, QueuingOK
<1>2. HandlerOK'
  BY DEF JobExpires, HandlerOK
<1>3. SweepOK'
  BY DEF JobExpires, SweepOK
<1>4. RowOK'
  BY DEF JobExpires, row, github, Calls, RowOK, QueuingOK, HandlerOK, SweepOK, Claimed,
     Handled, Write, Fail, EndQueuing, Queue, Work, EndSweep, Meet, Idle, At, Queuers, Pending,
     Statuses, Limits, TroubleKinds
<1>5. Claimed'
  BY DEF JobExpires, row, Claimed
<1>6. Handled'
  BY DEF JobExpires, github, Handled, WorkedOnce
<1>7. KeptYoung'
  BY DEF JobExpires, row, RowOK, KeptYoung, KeepsRequest, InTime, Spared, Meet, Limits,
     TroubleKinds
<1>8. Unrecovered'
  BY MeetMoves DEF JobExpires, Worked, row, Unrecovered, Abandoned, LiveJob, Spared,
     TroubleKinds
<1>9. Published'
  BY DEF JobExpires, row, github, RowOK, Published, Spared, Meet, Limits
<1> QED
  BY <1>1, <1>2, <1>3, <1>4, <1>5, <1>6, <1>7, <1>8, <1>9

\* A row grows old only when no handler in time works on it.
LEMMA GrowStaleStep == ASSUME IInv, NEW r \in Requests, GrowStale(r) PROVE IInv'
<1> USE RemediationAssumption DEF IInv
<1>1. QueuingOK'
  BY DEF GrowStale, QueuingOK
<1>2. HandlerOK'
  BY DEF GrowStale, HandlerOK
<1>3. SweepOK'
  BY DEF GrowStale, SweepOK
<1>4. RowOK'
  BY DEF GrowStale, github, RowOK
<1>5. Claimed'
  BY DEF GrowStale, Claimed
<1>6. Handled'
  BY DEF GrowStale, github, Handled, WorkedOnce
<1>7. KeptYoung'
  BY DEF GrowStale, KeptYoung, KeepsRequest, InTime, Spared
<1>8. Unrecovered'
  BY DEF GrowStale, Unrecovered, Abandoned, LiveJob, Spared
<1>9. Published'
  BY DEF GrowStale, github, Published, Spared
<1> QED
  BY <1>1, <1>2, <1>3, <1>4, <1>5, <1>6, <1>7, <1>8, <1>9

\* A worker takes a job that no other worker took.
LEMMA FetchStep == ASSUME IInv, NEW w \in Workers, NEW r \in Requests, Fetch(w, r) PROVE IInv'
<1> USE RemediationAssumption DEF IInv
<1>1. QueuingOK'
  BY DEF Fetch, QueuingOK
<1>2. HandlerOK'
  BY BeginWorkOK DEF Fetch, HandlerOK
<1>3. SweepOK'
  BY DEF Fetch, SweepOK
<1>4. RowOK'
  BY MeetMoves DEF Fetch, row, github, RowOK, TroubleKinds
<1>5. Claimed'
  BY DEF Fetch, row, RowOK, QueuingOK, Claimed, At
<1>6. Handled'
  BY SMTT(30), MeetMoves DEF Fetch, github, RowOK, HandlerOK, Handled, WorkedOnce
<1>7. KeptYoung'
  <2>1. CASE handler' = [handler EXCEPT ![w] = [pc |-> "check", r |-> r]]
    BY SMTT(30), <2>1 DEF Fetch, row, RowOK, HandlerOK, At, Handled, KeptYoung, KeepsRequest, InTime,
       Spared
  <2>2. CASE UNCHANGED handler
    BY <2>2, MeetMoves DEF Fetch, row, RowOK, HandlerOK, Handled, KeptYoung, KeepsRequest,
       InTime, Spared, TroubleKinds
  <2> QED
    BY <2>1, <2>2 DEF Fetch
<1>8. Unrecovered'
  BY MeetMoves DEF Fetch, row, RowOK, HandlerOK, Unrecovered, Abandoned, LiveJob, Spared,
     TroubleKinds
<1>9. Published'
  <2>1. CASE handler' = [handler EXCEPT ![w] = [pc |-> "check", r |-> r]]
    BY <2>1 DEF Fetch, row, github, RowOK, HandlerOK, Idle, Published, Spared
  <2>2. CASE UNCHANGED handler
    BY <2>2, MeetMoves DEF Fetch, row, github, RowOK, Published, Spared, TroubleKinds
  <2> QED
    BY <2>1, <2>2 DEF Fetch
<1> QED
  BY <1>1, <1>2, <1>3, <1>4, <1>5, <1>6, <1>7, <1>8, <1>9

\* A drain takes up a queued request.
LEMMA RequeueStep == ASSUME IInv, NEW w \in Drains, NEW r \in Requests, Requeue(w, r) PROVE IInv'
<1> USE RemediationAssumption DEF IInv
<1>1. QueuingOK'
  BY BeginQueuingOK DEF Requeue, Queuers
<1>2. HandlerOK'
  BY DEF Requeue, HandlerOK
<1>3. SweepOK'
  BY EndSweepOK DEF Requeue, row, github, Calls, SweepOK, At
<1>4. RowOK'
  BY DEF Requeue, row, github, Calls, RowOK, QueuingOK, HandlerOK, SweepOK, Claimed, Handled,
     Write, Fail, EndQueuing, Queue, Work, EndSweep, Meet, Idle, At, Queuers, Pending,
     Statuses, Limits, TroubleKinds
<1>5. Claimed'
  BY DEF Requeue, row, Claimed
<1>6. Handled'
  BY DEF Requeue, github, Handled, WorkedOnce
<1>7. KeptYoung'
  BY DEF Requeue, row, KeptYoung, KeepsRequest, InTime, Spared
<1>8. Unrecovered'
  BY DEF Requeue, row, Unrecovered, Abandoned, LiveJob, Spared
<1>9. Published'
  BY DEF Requeue, row, github, Published, Spared
<1> QED
  BY <1>1, <1>2, <1>3, <1>4, <1>5, <1>6, <1>7, <1>8, <1>9

\* A drain finds an abandoned request.
LEMMA ListStaleStep ==
  ASSUME IInv, NEW w \in Drains, NEW r \in Requests, ListStale(w, r)
  PROVE  IInv'
<1> USE RemediationAssumption DEF IInv
<1>1. QueuingOK'
  BY DEF ListStale, QueuingOK
<1>2. HandlerOK'
  BY DEF ListStale, HandlerOK
<1>3. SweepOK'
  BY DEF ListStale, SweepOK, At
<1>4. RowOK'
  BY DEF ListStale, row, github, RowOK
<1>5. Claimed'
  BY DEF ListStale, row, Claimed
<1>6. Handled'
  BY DEF ListStale, github, Handled, WorkedOnce
<1>7. KeptYoung'
  BY DEF ListStale, row, KeptYoung, KeepsRequest, InTime, Spared
<1>8. Unrecovered'
  BY DEF ListStale, Abandoned, row, Unrecovered, LiveJob, Spared
<1>9. Published'
  BY DEF ListStale, row, github, Published, Spared
<1> QED
  BY <1>1, <1>2, <1>3, <1>4, <1>5, <1>6, <1>7, <1>8, <1>9

\* A queuer reads its request.
LEMMA LoadStep == ASSUME IInv, NEW q \in Queuers, Load(q) PROVE IInv'
<1> USE RemediationAssumption DEF IInv
<1>0. queuing[q].r \in Requests
  BY DEF Load, QueuingOK, At
<1>1. QueuingOK'
  BY QueueOK, EndQueuingOK DEF Load
<1>2. HandlerOK'
  BY DEF Load, HandlerOK
<1>3. SweepOK'
  BY DEF Load, SweepOK
<1>4. RowOK'
  BY MeetMoves DEF Load, row, github, RowOK, TroubleKinds
<1>5. Claimed'
  BY QueueMoves, EndQueuingMoves DEF Load, row, Claimed
<1>6. Handled'
  BY DEF Load, github, Handled, WorkedOnce, Queue
<1>7. KeptYoung'
  BY QueueMoves, EndQueuingMoves, MeetMoves DEF Load, row, KeptYoung, KeepsRequest, InTime,
     Spared, TroubleKinds
<1>8. Unrecovered'
  BY QueueMoves, EndQueuingMoves, MeetMoves DEF Load, row, Unrecovered, Abandoned, LiveJob,
     Spared, TroubleKinds
<1>9. Published'
  BY DEF Load, row, github, RowOK, Published, Spared, Queue, Meet, Limits
<1> QED
  BY <1>1, <1>2, <1>3, <1>4, <1>5, <1>6, <1>7, <1>8, <1>9

\* A queuer claims its request, or finds it claimed.
LEMMA ClaimStep == ASSUME IInv, NEW q \in Queuers, Claim(q) PROVE IInv'
<1> USE RemediationAssumption DEF IInv
<1>0. queuing[q].r \in Requests
  BY DEF Claim, QueuingOK, At
<1>1. QueuingOK'
  BY QueueOK, EndQueuingOK DEF Claim, Claimable, Calls
<1>2. HandlerOK'
  BY DEF Claim, Claimable, HandlerOK
<1>3. SweepOK'
  BY DEF Claim, Claimable, SweepOK
<1>4. RowOK'
  BY <1>0, WriteMoves, WriteOK, MeetMoves DEF Claim, Claimable, row, github, Calls, RowOK,
     Pending, Statuses, TroubleKinds
<1>5. Claimed'
  BY <1>0, QueueMoves, EndQueuingMoves, WriteMoves DEF Claim, Claimable, row, Calls, RowOK,
     Claimed
<1>6. Handled'
  BY DEF Claim, Claimable, github, Handled, WorkedOnce, Queue
<1>7. KeptYoung'
  BY DEF Claim, Claimable, row, github, Calls, RowOK, HandlerOK, QueuingOK, SweepOK, Handled,
     KeptYoung, KeepsRequest, InTime, Spared, Write, EndQueuing, Queue, Meet, Idle, At,
     Queuers, Statuses, Limits, TroubleKinds
<1>8. Unrecovered'
  BY <1>0, QueueMoves, EndQueuingMoves, WriteMoves, MeetMoves DEF Claim, Claimable, row, Calls,
     Unrecovered, Abandoned, LiveJob, Spared, TroubleKinds
<1>9. Published'
  BY <1>0, WriteMoves, MeetMoves DEF Claim, Claimable, row, github, Calls, RowOK, Published,
     Spared, TroubleKinds
<1> QED
  BY <1>1, <1>2, <1>3, <1>4, <1>5, <1>6, <1>7, <1>8, <1>9

\* A queuer sends the job of the request that it claimed.
LEMMA SendStep == ASSUME IInv, NEW q \in Queuers, Send(q) PROVE IInv'
<1> USE RemediationAssumption DEF IInv
<1>0. queuing[q].r \in Requests
  BY DEF Send, QueuingOK, At
<1>1. QueuingOK'
  BY QueueOK, EndQueuingOK DEF Send, Calls
<1>2. HandlerOK'
  BY DEF Send, HandlerOK
<1>3. SweepOK'
  BY DEF Send, SweepOK
<1>4. RowOK'
  BY MeetMoves DEF Send, row, github, Calls, RowOK, Claimed, TroubleKinds
<1>5. Claimed'
  BY QueueMoves, EndQueuingMoves DEF Send, Calls, row, RowOK, QueuingOK, At, Claimed
<1>6. Handled'
  BY DEF Send, github, Calls, RowOK, Claimed, Handled, WorkedOnce, Queue
<1>7. KeptYoung'
  <2>1. \A w \in Workers : InTime(w)' => InTime(w)
    BY DEF Send, Calls, InTime, RowOK, HandlerOK, At
  <2>2. Spared({"fault", "discard"})' => \A p \in Queuers : queuing'[p].pc # "fail"
    BY QueueMoves, EndQueuingMoves, MeetMoves DEF Send, Calls, KeptYoung, Spared, TroubleKinds
  <2>3. Spared({"fault", "discard"})' => Spared({"fault", "discard"})
    BY MeetMoves DEF Send, Calls, Spared, TroubleKinds
  <2> QED
    BY <2>1, <2>2, <2>3 DEF Send, row, KeptYoung, KeepsRequest
<1>8. Unrecovered'
  BY QueueMoves, EndQueuingMoves, MeetMoves DEF Send, LiveJob, row, Calls, RowOK, Unrecovered,
     Abandoned, Spared, TroubleKinds
<1>9. Published'
  BY DEF Send, row, github, Calls, RowOK, Claimed, Published, Spared, Queue, Meet, Limits
<1> QED
  BY <1>1, <1>2, <1>3, <1>4, <1>5, <1>6, <1>7, <1>8, <1>9

\* A queuer records the session, and so makes the row young.
LEMMA SetSessionStep == ASSUME IInv, NEW q \in Queuers, SetSession(q) PROVE IInv'
<1> USE RemediationAssumption DEF IInv
<1>0. queuing[q].r \in Requests
  BY DEF SetSession, QueuingOK, At
<1>1. QueuingOK'
  BY EndQueuingOK DEF SetSession
<1>2. HandlerOK'
  BY DEF SetSession, HandlerOK
<1>3. SweepOK'
  BY DEF SetSession, SweepOK
<1>4. RowOK'
  BY DEF SetSession, row, github, Calls, RowOK, Write, Meet
<1>5. Claimed'
  BY DEF SetSession, row, github, Calls, RowOK, Claimed, Write, EndQueuing, Idle
<1>6. Handled'
  BY DEF SetSession, github, Handled, WorkedOnce
<1>7. KeptYoung'
  BY DEF SetSession, row, Calls, RowOK, KeptYoung, KeepsRequest, InTime, Spared, Write,
     EndQueuing, Meet, Idle, Limits, TroubleKinds
<1>8. Unrecovered'
  BY <1>0, EndQueuingMoves, WriteMoves, MeetMoves DEF SetSession, row, Calls, Unrecovered,
     Abandoned, LiveJob, Spared, TroubleKinds
<1>9. Published'
  BY DEF SetSession, row, github, Calls, RowOK, Published, Spared, Write, Meet, Limits
<1> QED
  BY <1>1, <1>2, <1>3, <1>4, <1>5, <1>6, <1>7, <1>8, <1>9

\* A queuer that met trouble fails its request.
LEMMA FailUnqueuedStep == ASSUME IInv, NEW q \in Queuers, FailUnqueued(q) PROVE IInv'
<1> USE RemediationAssumption DEF IInv
<1>0. queuing[q].r \in Requests
  BY DEF FailUnqueued, QueuingOK, At
<1>1. QueuingOK'
  BY QueueOK, BeginQueuingOK, EndQueuingOK DEF FailUnqueued, row, github, Calls, QueuingOK,
     Queuers
<1>2. HandlerOK'
  BY WorkOK, BeginWorkOK, EndWorkOK DEF FailUnqueued, row, github, Calls, HandlerOK
<1>3. SweepOK'
  BY EndSweepOK DEF FailUnqueued, row, github, Calls, SweepOK, At
<1>4. RowOK'
  <2>1. status' \in [Requests -> Statuses] /\ stale' \in SUBSET Requests
    BY <1>0, WriteOK DEF FailUnqueued, Fail, Calls, row, RowOK, Statuses
  <2>2. \A r \in Requests : status'[r] \in {"none", "queued"} => status'[r] = status[r]
    BY <1>0, WriteMoves DEF FailUnqueued, Fail, Calls, row
  <2>3. trouble' \in [Limits -> Nat] /\ \A k \in Limits : trouble'[k] <= Budget[k]
    BY MeetMoves DEF FailUnqueued, Calls, RowOK, TroubleKinds
  <2> QED
    BY <2>1, <2>2, <2>3 DEF FailUnqueued, github, RowOK
<1>5. Claimed'
  BY DEF FailUnqueued, row, github, Calls, RowOK, QueuingOK, Claimed, Write, Fail, EndQueuing,
     Queue, Work, EndSweep, Meet, Idle, At, Queuers, Pending, Statuses, Limits, TroubleKinds
<1>6. Handled'
  BY DEF FailUnqueued, row, github, Calls, RowOK, HandlerOK, QueuingOK, Claimed, Handled,
     WorkedOnce, Write, Fail, EndQueuing, Queue, Work, EndSweep, Meet, Idle, At, Queuers,
     Pending, Statuses, Limits, TroubleKinds
<1>7. KeptYoung'
  BY DEF FailUnqueued, row, github, Calls, RowOK, HandlerOK, QueuingOK, SweepOK, Claimed,
     Handled, KeptYoung, KeepsRequest, InTime, Spared, Write, Fail, EndQueuing, Queue, Work,
     EndSweep, Meet, Idle, At, Queuers, Pending, Statuses, Limits, TroubleKinds
<1>8. Unrecovered'
  BY <1>0, QueueMoves, EndQueuingMoves, WriteMoves, WriteOK, MeetMoves DEF FailUnqueued, row,
     github, Calls, RowOK, HandlerOK, QueuingOK, SweepOK, Claimed, Handled, Unrecovered,
     Abandoned, LiveJob, Spared, Fail, Pending, Statuses, TroubleKinds
<1>9. Published'
  BY DEF FailUnqueued, row, github, Calls, RowOK, HandlerOK, QueuingOK, SweepOK, Claimed,
     Handled, KeptYoung, KeepsRequest, InTime, Unrecovered, Published, Spared, Write, Fail,
     EndQueuing, Queue, Work, EndSweep, Meet, Idle, At, Queuers, Pending, Statuses, Limits,
     TroubleKinds
<1> QED
  BY <1>1, <1>2, <1>3, <1>4, <1>5, <1>6, <1>7, <1>8, <1>9

\* A handler checks its request.
LEMMA CheckRequestStep == ASSUME IInv, NEW w \in Workers, CheckRequest(w) PROVE IInv'
<1> USE RemediationAssumption DEF IInv
<1>0. handler[w].r \in Requests
  BY DEF CheckRequest, HandlerOK, At
<1>1. QueuingOK'
  BY DEF CheckRequest, QueuingOK
<1>2. HandlerOK'
  BY WorkOK DEF CheckRequest
<1>3. SweepOK'
  BY DEF CheckRequest, SweepOK
<1>4. RowOK'
  BY DEF CheckRequest, row, github, RowOK, Work
<1>5. Claimed'
  BY DEF CheckRequest, row, Claimed, Work
<1>6. Handled'
  BY WorkMoves DEF CheckRequest, github, Handled, WorkedOnce
<1>7. KeptYoung'
  BY WorkMoves DEF CheckRequest, row, KeptYoung, KeepsRequest, InTime, Spared
<1>8. Unrecovered'
  BY WorkMoves DEF CheckRequest, row, Unrecovered, Abandoned, LiveJob, Spared
<1>9. Published'
  BY WorkMoves DEF CheckRequest, row, github, Published, Spared
<1> QED
  BY <1>1, <1>2, <1>3, <1>4, <1>5, <1>6, <1>7, <1>8, <1>9

\* A handler starts to work on its request, once.
LEMMA MarkStartedStep == ASSUME IInv, NEW w \in Workers, MarkStarted(w) PROVE IInv'
<1> USE RemediationAssumption DEF IInv
<1>0. handler[w].r \in Requests
  BY DEF MarkStarted, HandlerOK, At
<1>1. QueuingOK'
  BY DEF MarkStarted, QueuingOK
<1>2. HandlerOK'
  BY WorkOK DEF MarkStarted, Calls
<1>3. SweepOK'
  BY DEF MarkStarted, SweepOK
<1>4. RowOK'
  BY <1>0, WriteMoves, WriteOK, MeetMoves DEF MarkStarted, row, Calls, RowOK, Handled, Pending,
     TroubleKinds
<1>5. Claimed'
  BY <1>0, ClaimedKept, WriteMoves DEF MarkStarted, row, Calls, Pending
<1>6. Handled'
  BY <1>0, WorkMoves DEF MarkStarted, Calls, Handled, WorkedOnce
<1>7. KeptYoung'
  <2>1. Spared({"fault", "discard"})' => Spared({"fault", "discard"})
    BY MeetMoves DEF MarkStarted, Calls, Spared, TroubleKinds
  <2>2. \A v \in Workers : v # w => InTime(v)' = InTime(v) /\ handler'[v] = handler[v]
    BY WorkMoves DEF MarkStarted, Calls, InTime
  <2>3. handler'[w].pc = "open" => status'[handler[w].r] = "creating" /\ handler[w].r \notin stale'
    BY <1>0, WorkMoves, WriteMoves DEF MarkStarted, Calls
  <2>4. \A v \in Workers : v # w => handler[v].r # handler[w].r
    BY <1>0, RemediationAssumption DEF Handled
  <2>5. \A r \in Requests :
          r # handler[w].r => status'[r] = status[r] /\ (r \in stale' <=> r \in stale)
    BY <1>0, WriteMoves DEF MarkStarted, Calls, row
  <2>6. handler'[w].pc \in {"open", "fail"} /\ handler'[w].r = handler[w].r
    BY WorkMoves DEF MarkStarted, Calls
  <2>7. \A v \in Workers : InTime(v) => handler[v].r \in Requests
    BY DEF InTime, HandlerOK, At
  <2> QED
    BY <2>1, <2>2, <2>3, <2>4, <2>5, <2>6, <2>7 DEF MarkStarted, KeptYoung, KeepsRequest
<1>8. Unrecovered'
  BY <1>0, WorkMoves, WriteMoves, MeetMoves DEF MarkStarted, row, Calls, Unrecovered,
     Abandoned, LiveJob, Spared, TroubleKinds
<1>9. Published'
  BY <1>0, WorkMoves, WriteMoves, MeetMoves DEF MarkStarted, row, Calls, RowOK, Published,
     Spared, Pending, TroubleKinds
<1> QED
  BY <1>1, <1>2, <1>3, <1>4, <1>5, <1>6, <1>7, <1>8, <1>9

\* A handler makes a branch and opens the pull request.
LEMMA OpenPullRequestStep == ASSUME IInv, NEW w \in Workers, OpenPullRequest(w) PROVE IInv'
<1> USE RemediationAssumption DEF IInv
<1>0. handler[w].r \in Requests
  BY DEF OpenPullRequest, HandlerOK, At
<1>1. QueuingOK'
  BY DEF OpenPullRequest, QueuingOK
<1>2. HandlerOK'
  BY WorkOK DEF OpenPullRequest
<1>3. SweepOK'
  BY DEF OpenPullRequest, SweepOK
<1>4. RowOK'
  BY <1>0, MeetMoves DEF OpenPullRequest, row, RowOK, TroubleKinds
<1>5. Claimed'
  BY DEF OpenPullRequest, row, Claimed, Work
<1>6. Handled'
  BY WorkMoves DEF OpenPullRequest, Handled, WorkedOnce
<1>7. KeptYoung'
  BY WorkMoves, MeetMoves DEF OpenPullRequest, row, KeptYoung, KeepsRequest, InTime, Spared,
     TroubleKinds
<1>8. Unrecovered'
  BY WorkMoves, MeetMoves DEF OpenPullRequest, row, Unrecovered, Abandoned, LiveJob, Spared,
     TroubleKinds
<1>9. Published'
  <2>0. /\ handler'[w].pc \in {"record", "fail"} /\ handler'[w].r = handler[w].r
        /\ \A v \in Workers : v # w => handler'[v] = handler[v]
        /\ UNCHANGED <<status, job>> /\ branch' \subseteq branch \cup {handler[w].r}
    BY WorkMoves DEF OpenPullRequest, row
  <2>1. \A r, s \in Requests :
          {status'[r], status'[s]} \subseteq {"queued", "creating", "created"} => r = s
    BY <2>0 DEF Published
  <2>2. \A r \in Requests : job'[r] \in {"none", "created"} => r \notin branch'
    BY <1>0, <2>0 DEF Published, Handled
  <2>3. \A v \in Workers : handler'[v].pc \in {"check", "start", "open"} => handler'[v].r \notin branch'
    <3>1. \A v \in Workers : v # w => handler[v].r # handler[w].r
      BY <1>0, RemediationAssumption DEF Handled
    <3> QED
      BY <2>0, <3>1 DEF Published
  <2>4. Spared(TroubleKinds)' =>
          \A r \in branch' : \/ status'[r] \in {"created", "merged"}
                             \/ \E v \in Workers : handler'[v].r = r /\ handler'[v].pc = "record"
    <3>1. handler[w].pc = "open"
      BY DEF OpenPullRequest
    <3>2. Spared(TroubleKinds)' =>
            /\ Spared(TroubleKinds)
            /\ branch' = branch \/ handler'[w].pc = "record"
      BY WorkMoves, MeetMoves DEF OpenPullRequest, Spared, TroubleKinds
    <3> QED
      BY <2>0, <3>1, <3>2 DEF Published
  <2> QED
    BY <2>1, <2>2, <2>3, <2>4 DEF Published
<1> QED
  BY <1>1, <1>2, <1>3, <1>4, <1>5, <1>6, <1>7, <1>8, <1>9

\* A handler records its pull request.
LEMMA MarkCreatedStep == ASSUME IInv, NEW w \in Workers, MarkCreated(w) PROVE IInv'
<1> USE RemediationAssumption DEF IInv
<1>0. handler[w].r \in Requests
  BY DEF MarkCreated, HandlerOK, At
<1>1. QueuingOK'
  BY DEF MarkCreated, Recorded, QueuingOK
<1>2. HandlerOK'
  BY WorkOK, EndWorkOK DEF MarkCreated, Recorded, EndWork
<1>3. SweepOK'
  BY DEF MarkCreated, Recorded, SweepOK
<1>4. RowOK'
  <2>1. job' \in [Requests -> {"none", "created", "active", "completed", "failed"}]
    BY DEF MarkCreated, EndWork, RowOK
  <2>2. /\ status' \in [Requests -> Statuses] /\ stale' \in SUBSET Requests
        /\ \A r \in Requests : status'[r] \in {"none", "queued"} => status[r] = status'[r]
    BY <1>0, WriteOK, WriteMoves DEF MarkCreated, Recorded, row, RowOK, Statuses
  <2>3. \A r \in Requests : job[r] = "none" => job'[r] = "none"
    BY <1>0, EndWorkMoves DEF MarkCreated
  <2>4. trouble' \in [Limits -> Nat] /\ \A k \in Limits : trouble'[k] <= Budget[k]
    BY MeetMoves DEF MarkCreated, RowOK, TroubleKinds
  <2> QED
    BY <2>1, <2>2, <2>3, <2>4 DEF MarkCreated, github, RowOK
<1>5. Claimed'
  BY <1>0, ClaimedKept, WriteMoves, EndWorkMoves DEF MarkCreated, Recorded, row, Pending
<1>6. Handled'
  BY <1>0, WorkMoves, EndWorkMoves DEF MarkCreated, Recorded, github, Handled, WorkedOnce
<1>7. KeptYoung'
  <2>1. Spared({"fault", "discard"})' => Spared({"fault", "discard"})
    BY MeetMoves DEF MarkCreated, Spared, TroubleKinds
  <2>2. \A v \in Workers : v # w => handler'[v] = handler[v] /\ handler[v].r # handler[w].r
    BY <1>0, WorkMoves, EndWorkMoves DEF MarkCreated, Handled
  <2>3. handler'[w].pc \notin {"open", "record"}
    BY <1>0, WorkMoves, EndWorkMoves DEF MarkCreated
  <2>4. \A r \in Requests : r # handler[w].r =>
          status'[r] = status[r] /\ job'[r] = job[r] /\ (r \in stale' <=> r \in stale)
    BY <1>0, EndWorkMoves, WriteMoves DEF MarkCreated, Recorded, row
  <2>5. \A v \in Workers : InTime(v)' /\ v # w => InTime(v) /\ handler[v].r \in Requests
    BY <2>2, <2>4 DEF InTime, HandlerOK, At
  <2> QED
    BY <2>1, <2>2, <2>3, <2>4, <2>5 DEF MarkCreated, KeptYoung, KeepsRequest
<1>8. Unrecovered'
  BY <1>0, WorkMoves, EndWorkMoves, WriteMoves, MeetMoves DEF MarkCreated, Recorded, row,
     Handled, Unrecovered, Abandoned, LiveJob, Spared, TroubleKinds
<1>9. Published'
  BY <1>0, WorkMoves, EndWorkMoves, WriteMoves, MeetMoves DEF MarkCreated, Recorded, row,
     github, RowOK, KeptYoung, KeepsRequest, InTime, Unrecovered, Published, Spared, Pending,
     TroubleKinds
<1> QED
  BY <1>1, <1>2, <1>3, <1>4, <1>5, <1>6, <1>7, <1>8, <1>9

\* A handler records a failure.
LEMMA FailRequestStep == ASSUME IInv, NEW w \in Workers, FailRequest(w) PROVE IInv'
<1> USE RemediationAssumption DEF IInv
<1>0. handler[w].r \in Requests
  BY DEF FailRequest, HandlerOK, At
<1>1. QueuingOK'
  BY DEF FailRequest, QueuingOK
<1>2. HandlerOK'
  BY EndWorkOK DEF FailRequest, EndWork, Calls
<1>3. SweepOK'
  BY DEF FailRequest, SweepOK
<1>4. RowOK'
  <2>1. job' \in [Requests -> {"none", "created", "active", "completed", "failed"}]
    BY DEF FailRequest, Calls, EndWork, RowOK
  <2>2. /\ status' \in [Requests -> Statuses] /\ stale' \in SUBSET Requests
        /\ \A r \in Requests : status'[r] \in {"none", "queued"} => status[r] = status'[r]
    BY <1>0, WriteOK, WriteMoves DEF FailRequest, Fail, Calls, row, RowOK, Statuses
  <2>3. \A r \in Requests : job[r] = "none" => job'[r] = "none"
    BY <1>0, EndWorkMoves DEF FailRequest, Calls
  <2>4. trouble' \in [Limits -> Nat] /\ \A k \in Limits : trouble'[k] <= Budget[k]
    BY MeetMoves DEF FailRequest, Calls, RowOK, TroubleKinds
  <2> QED
    BY <2>1, <2>2, <2>3, <2>4 DEF FailRequest, github, RowOK
<1>5. Claimed'
  BY <1>0, ClaimedKept, WriteMoves, EndWorkMoves DEF FailRequest, Fail, Calls, row, Pending
<1>6. Handled'
  BY <1>0, EndWorkMoves DEF FailRequest, github, Calls, Handled, WorkedOnce
<1>7. KeptYoung'
  <2>1. Spared({"fault", "discard"})' => Spared({"fault", "discard"})
    BY MeetMoves DEF FailRequest, Calls, Spared, TroubleKinds
  <2>2. \A v \in Workers : v # w => handler'[v] = handler[v] /\ handler[v].r # handler[w].r
    BY <1>0, EndWorkMoves DEF FailRequest, Calls, Handled
  <2>3. handler'[w].pc \notin {"open", "record"}
    BY <1>0, EndWorkMoves DEF FailRequest, Calls
  <2>4. \A r \in Requests : r # handler[w].r =>
          status'[r] = status[r] /\ job'[r] = job[r] /\ (r \in stale' <=> r \in stale)
    BY <1>0, EndWorkMoves, WriteMoves DEF FailRequest, Calls, Fail, row
  <2>5. \A v \in Workers : InTime(v)' /\ v # w => InTime(v) /\ handler[v].r \in Requests
    BY <2>2, <2>4 DEF InTime, HandlerOK, At
  <2> QED
    BY <2>1, <2>2, <2>3, <2>4, <2>5 DEF FailRequest, KeptYoung, KeepsRequest
<1>8. Unrecovered'
  BY <1>0, EndWorkMoves, WriteMoves, MeetMoves DEF FailRequest, row, Calls, Handled,
     Unrecovered, Abandoned, LiveJob, Spared, Fail, TroubleKinds
<1>9. Published'
  BY <1>0, EndWorkMoves, WriteMoves, MeetMoves DEF FailRequest, row, github, Calls, RowOK,
     Published, Spared, Fail, Pending, TroubleKinds
<1> QED
  BY <1>1, <1>2, <1>3, <1>4, <1>5, <1>6, <1>7, <1>8, <1>9

\* A worker that dies leaves its job active.
LEMMA WorkerDiesStep == ASSUME IInv, NEW w \in Workers, WorkerDies(w) PROVE IInv'
<1> USE RemediationAssumption DEF IInv
<1>1. QueuingOK'
  BY DEF WorkerDies, QueuingOK, At, Idle
<1>2. HandlerOK'
  BY EndWorkOK DEF WorkerDies
<1>3. SweepOK'
  BY DEF WorkerDies, SweepOK, At, Idle
<1>4. RowOK'
  BY MeetMoves DEF WorkerDies, row, github, RowOK, TroubleKinds
<1>5. Claimed'
  BY DEF WorkerDies, row, Claimed, Idle
<1>6. Handled'
  BY DEF WorkerDies, github, Handled, WorkedOnce, Idle
<1>7. KeptYoung'
  BY DEF WorkerDies, row, RowOK, KeptYoung, KeepsRequest, InTime, Spared, Meet, Idle, Limits,
     TroubleKinds
<1>8. Unrecovered'
  BY DEF WorkerDies, row, RowOK, Unrecovered, Abandoned, LiveJob, Spared, Meet, Idle, Limits,
     TroubleKinds
<1>9. Published'
  BY DEF WorkerDies, row, github, RowOK, Published, Spared, Meet, Idle, Limits, TroubleKinds
<1> QED
  BY <1>1, <1>2, <1>3, <1>4, <1>5, <1>6, <1>7, <1>8, <1>9

\* A recovery goes on only when the request has no live job.
LEMMA FindJobsStep == ASSUME IInv, NEW w \in Drains, FindJobs(w) PROVE IInv'
<1> USE RemediationAssumption DEF IInv
<1>0. sweep[w].r \in Requests
  BY DEF FindJobs, SweepOK, At
<1>1. QueuingOK'
  BY DEF FindJobs, QueuingOK
<1>2. HandlerOK'
  BY DEF FindJobs, HandlerOK
<1>3. SweepOK'
  BY EndSweepOK DEF FindJobs, SweepOK, At
<1>4. RowOK'
  BY EndSweepMoves, MeetMoves DEF FindJobs, row, github, RowOK, TroubleKinds
<1>5. Claimed'
  BY DEF FindJobs, row, Claimed
<1>6. Handled'
  BY DEF FindJobs, github, Handled, WorkedOnce
<1>7. KeptYoung'
  BY DEF FindJobs, row, RowOK, KeptYoung, KeepsRequest, InTime, Spared, Meet, Limits,
     TroubleKinds
<1>8. Unrecovered'
  <2>1. \A v \in Drains, r \in Requests :
          sweep'[v].r = r /\ sweep'[v].pc = "recover"
            => (sweep[v].r = r /\ sweep[v].pc = "recover") \/ ~LiveJob(r)
    BY EndSweepMoves DEF FindJobs, SweepOK, At
  <2>2. Spared({"overrun"})' => Spared({"overrun"})
    BY MeetMoves DEF FindJobs, Spared, TroubleKinds
  <2> QED
    BY <2>1, <2>2 DEF FindJobs, row, Unrecovered, Abandoned, LiveJob
<1>9. Published'
  BY DEF FindJobs, row, github, RowOK, Published, Spared, Meet, Limits, TroubleKinds
<1> QED
  BY <1>1, <1>2, <1>3, <1>4, <1>5, <1>6, <1>7, <1>8, <1>9

\* A recovery fails a request that is still abandoned.
LEMMA RecoverStep == ASSUME IInv, NEW w \in Drains, Recover(w) PROVE IInv'
<1> USE RemediationAssumption DEF IInv
<1>0. sweep[w].r \in Requests
  BY DEF Recover, SweepOK, At
<1>1. QueuingOK'
  BY DEF Recover, QueuingOK
<1>2. HandlerOK'
  BY DEF Recover, HandlerOK
<1>3. SweepOK'
  BY EndSweepOK DEF Recover
<1>4. RowOK'
  BY EndSweepMoves, WriteMoves, WriteOK, MeetMoves DEF Recover, Abandoned, row, github, Calls,
     RowOK, Statuses, TroubleKinds
<1>5. Claimed'
  BY <1>0, ClaimedKept, WriteMoves DEF Recover, Abandoned, row, Calls
<1>6. Handled'
  BY DEF Recover, github, Handled, WorkedOnce
<1>7. KeptYoung'
  BY DEF Recover, Abandoned, row, Calls, RowOK, HandlerOK, KeptYoung, KeepsRequest, InTime,
     Spared, Write, Meet, At, Limits, TroubleKinds
<1>8. Unrecovered'
  BY DEF Recover, Abandoned, row, Calls, RowOK, Unrecovered, LiveJob, Spared, Write, EndSweep,
     Meet, Idle, Limits, TroubleKinds
<1>9. Published'
  BY EndSweepMoves, WriteMoves, MeetMoves DEF Recover, Abandoned, row, github, Calls, RowOK,
     Published, Spared, TroubleKinds
<1> QED
  BY <1>1, <1>2, <1>3, <1>4, <1>5, <1>6, <1>7, <1>8, <1>9

\* The investigation fails, and with it every pending request.
LEMMA InvestigationFailsStep == ASSUME IInv, InvestigationFails PROVE IInv'
<1> USE RemediationAssumption DEF IInv
<1>1. QueuingOK'
  BY DEF InvestigationFails, QueuingOK
<1>2. HandlerOK'
  BY DEF InvestigationFails, HandlerOK
<1>3. SweepOK'
  BY DEF InvestigationFails, SweepOK
<1>4. RowOK'
  BY SMTT(30) DEF InvestigationFails, github, RowOK, QueuingOK, HandlerOK, SweepOK, Claimed, Handled,
     Meet, At, Queuers, Pending, Statuses, Limits, TroubleKinds
<1>5. Claimed'
  BY ClaimedKept DEF InvestigationFails, RowOK, Pending
<1>6. Handled'
  BY DEF InvestigationFails, github, Handled, WorkedOnce
<1>7. KeptYoung'
  BY DEF InvestigationFails, RowOK, KeptYoung, KeepsRequest, InTime, Spared, Meet, Limits,
     TroubleKinds
<1>8. Unrecovered'
  BY DEF InvestigationFails, RowOK, Unrecovered, Abandoned, LiveJob, Spared, Meet, Limits,
     TroubleKinds
<1>9. Published'
  BY DEF InvestigationFails, github, RowOK, Published, Spared, Meet, Pending, Limits
<1> QED
  BY <1>1, <1>2, <1>3, <1>4, <1>5, <1>6, <1>7, <1>8, <1>9

-----------------------------------------------------------------------------
(* The theorems. *)

\* A new subject has no request yet.
LEMMA InvInit == Init => IInv
<1> SUFFICES ASSUME Init PROVE IInv
  OBVIOUS
<1> USE RemediationAssumption DEF Init, Idle
<1>1. QueuingOK /\ HandlerOK /\ SweepOK
  BY DEF QueuingOK, HandlerOK, SweepOK, At
<1>2. RowOK
  BY DEF RowOK, Kinds, Statuses
<1>3. Claimed /\ Handled
  BY DEF Claimed, Handled, WorkedOnce
<1>4. KeptYoung /\ Unrecovered /\ Published
  BY DEF KeptYoung, KeepsRequest, Unrecovered, Published
<1> QED
  BY <1>1, <1>2, <1>3, <1>4 DEF IInv

\* Every step keeps the invariant.
LEMMA InvNext == IInv /\ [Next]_vars => IInv'
<1> SUFFICES ASSUME IInv, [Next]_vars PROVE IInv'
  OBVIOUS
<1>1. CASE UNCHANGED vars
  BY <1>1 DEF vars, IInv, QueuingOK, HandlerOK, SweepOK, RowOK, Claimed, Handled, WorkedOnce,
     KeptYoung, KeepsRequest, Unrecovered, Published, InTime, Abandoned, LiveJob, Spared
<1>2. ASSUME NEW r \in Requests,
             Request(r) \/ Merge(r) \/ StarterDies(r) \/ JobExpires(r) \/ GrowStale(r)
      PROVE  IInv'
  BY <1>2, RequestStep, MergeStep, StarterDiesStep, JobExpiresStep, GrowStaleStep
<1>3. ASSUME NEW r \in Requests, NEW w \in Workers, Fetch(w, r) PROVE IInv'
  BY <1>3, FetchStep
<1>4. ASSUME NEW r \in Requests, NEW w \in Drains, Requeue(w, r) \/ ListStale(w, r) PROVE IInv'
  BY <1>4, RequeueStep, ListStaleStep
<1>5. ASSUME NEW q \in Queuers, QueuingStep(q) PROVE IInv'
  BY <1>5, InsertStep, LoadStep, ClaimStep, SendStep, SetSessionStep, FailUnqueuedStep DEF QueuingStep
<1>6. ASSUME NEW w \in Workers, HandlerStep(w) PROVE IInv'
  BY <1>6, CheckRequestStep, MarkStartedStep, OpenPullRequestStep, MarkCreatedStep,
     FailRequestStep DEF HandlerStep
<1>7. ASSUME NEW w \in Workers, WorkerDies(w) PROVE IInv'
  BY <1>7, WorkerDiesStep
<1>8. ASSUME NEW w \in Drains, SweepStep(w) PROVE IInv'
  BY <1>8, FindJobsStep, RecoverStep DEF SweepStep
<1>9. CASE InvestigationFails
  BY <1>9, InvestigationFailsStep
<1> QED
  BY <1>1, <1>2, <1>3, <1>4, <1>5, <1>6, <1>7, <1>8, <1>9 DEF Next, Rest

\* The invariant holds in every reachable state.
LEMMA InvAlways == Spec => []IInv
BY InvInit, InvNext, PTL DEF Spec

\* Every reachable state is well-typed; above all a request that is not claimed
\* has no job.
THEOREM TypeCorrect == Spec => []TypeOK
<1>1. IInv => TypeOK
  BY DEF IInv, QueuingOK, HandlerOK, SweepOK, RowOK, TypeOK
<1> QED
  BY <1>1, InvAlways, PTL

\* However starter, drains, queue and recovery meet, and whatever fails, no
\* request has its pull request opened a second time.
THEOREM WorkedOnceCorrect == Spec => []WorkedOnce
<1>1. IInv => WorkedOnce
  BY DEF IInv, Handled
<1> QED
  BY <1>1, InvAlways, PTL

\* Nobody ends a request while its handler opens the pull request in time.
THEOREM KeepsRequestCorrect == Spec => []KeepsRequest
<1>1. IInv => KeepsRequest
  BY DEF IInv, KeptYoung
<1> QED
  BY <1>1, InvAlways, PTL

\* Without trouble two open pull requests of a subject are one and the same.
LEMMA PublishedOnce == IInv => OnePullRequest
<1> SUFFICES ASSUME IInv, Spared(TroubleKinds), NEW r \in branch, NEW s \in branch,
                    status[r] # "merged", status[s] # "merged"
             PROVE  r = s
  BY DEF OnePullRequest
<1>1. r \in Requests /\ s \in Requests
  BY DEF IInv, RowOK
<1>2. Spared({"fault", "discard"}) /\ Spared({"overrun"})
  BY DEF Spared, TroubleKinds
<1>3. ASSUME NEW t \in branch, t \in Requests, status[t] # "merged"
      PROVE  status[t] \in {"creating", "created"}
  <2>1. CASE status[t] \in {"created", "merged"}
    BY <2>1, <1>3
  <2>2. ASSUME NEW w \in Workers, handler[w].r = t, handler[w].pc = "record"
        PROVE  status[t] = "creating"
    BY <1>2, <1>3, <2>2 DEF IInv, Unrecovered, KeptYoung, KeepsRequest, InTime
  <2>3. \/ status[t] \in {"created", "merged"}
        \/ \E w \in Workers : handler[w].r = t /\ handler[w].pc = "record"
    BY DEF IInv, Published
  <2> QED
    BY <2>1, <2>2, <2>3
<1> QED
  BY <1>1, <1>3 DEF IInv, Published

\* A subject has one pull request that is not merged, as long as nothing fails
\* and no handler overruns its job.
THEOREM OnePullRequestCorrect == Spec => []OnePullRequest
BY PublishedOnce, InvAlways, PTL

\* The recovery fails no request that waits in the queue or that a handler
\* works on, unless the handler overran its job.
THEOREM NotMistakenCorrect == Spec => NotMistaken
<1>1. ASSUME IInv, NEW r \in Requests, NEW w \in Drains,
             Recover(w), sweep[w].r = r, status'[r] # status[r]
      PROVE  job[r] \notin {"created", "active"} /\ (Spared({"overrun"}) => ~Worked(r))
  <2>1. Abandoned(r)
    BY <1>1 DEF Recover, Calls, row
  <2>2. ~LiveJob(r)
    BY <1>1, <2>1 DEF IInv, Unrecovered, Recover
  <2> QED
    BY <1>1, <2>2 DEF IInv, Unrecovered, LiveJob, Worked
<1>2. IInv /\ [Next]_vars =>
        [\A r \in Requests :
           (\E w \in Drains : Recover(w) /\ sweep[w].r = r) /\ status'[r] # status[r]
           => job[r] \notin {"created", "active"} /\ (Spared({"overrun"}) => ~Worked(r))]_vars
  BY <1>1
<1> QED
  BY <1>2, InvAlways, PTL DEF Spec, NotMistaken
=============================================================================
