--------------------- MODULE ExternalAuditImportProofs ---------------------
(***************************************************************************)
(* The import's safety for any number of drafts, operators and workers.    *)
(*                                                                         *)
(* The invariant behind the human gate says what a session's snapshot is   *)
(* still worth: as long as the batch it read has not been replaced, the    *)
(* drafts it is about to promote were approved, and the links it saw are   *)
(* still there.  A snapshot of an older batch is harmless, because its     *)
(* primary keys are gone.                                                  *)
(***************************************************************************)
EXTENDS ExternalAuditImport, TLAPS

JobType == [status : Statuses, aged : BOOLEAN, lease : {"none", "live", "expired"}]
TaskCounts == [Tasks -> Nat]

(* The session part of TypeOK. *)
SessionsOK ==
  /\ lock \in Agents \cup {NoHolder}
  /\ session \in [Agents -> SessionType]
  /\ \A a \in Agents : session[a].pc \in LockingPcs <=> lock = a

DataOK ==
  /\ job \in JobType
  /\ batch \in Nat
  /\ draft \in [Drafts -> DraftStatuses]
  /\ link \in [Drafts -> BOOLEAN]
  /\ findings \in [Drafts -> Nat]
  /\ approved \in SUBSET Drafts

LEMMA TypeParts == TypeOK <=> DataOK /\ broker \in TaskCounts /\ SessionsOK
  BY DEF TypeOK, DataOK, SessionsOK, JobType, TaskCounts

LEMMA TypeParts_Next == TypeOK' <=> DataOK' /\ broker' \in TaskCounts /\ SessionsOK'
  BY DEF TypeOK, DataOK, SessionsOK, JobType, TaskCounts

(***************************************************************************)
(* What the helpers return.                                                *)
(***************************************************************************)
LEMMA RecoveredType == ASSUME job \in JobType PROVE Recovered \in Statuses
  BY DEF Recovered, JobType, Statuses

(* Recovery only ever yields FAILED or REVIEW_REQUIRED. *)
LEMMA RecoveredStale == ASSUME Stale PROVE Recovered \in {"failed", "review_required"}
  BY DEF Recovered

LEMMA IdleType == ASSUME ImportAssumption PROVE Idle \in SessionType
  BY DEF Idle, SessionType, Pcs, Statuses, Verdicts, ImportAssumption

LEMMA ReadingType ==
  ASSUME ImportAssumption, job \in JobType,
         NEW pc \in Pcs, NEW tries \in 0..MaxRetries
  PROVE  /\ Reading(pc, tries) \in SessionType
         /\ Reading(pc, tries).pc = pc
         /\ Reading(pc, tries).rec = Stale
         /\ Reading(pc, tries).seen = Recovered
         /\ Reading(pc, tries).batch = 0
         /\ Reading(pc, tries).todo = {}
  BY RecoveredType, IdleType DEF Reading, Idle, SessionType, Stale

LEMMA ReadingDraftsType ==
  ASSUME ImportAssumption, DataOK,
         NEW tries \in 0..MaxRetries, NEW todo \in SUBSET Drafts
  PROVE  /\ ReadingDrafts(tries, todo) \in SessionType
         /\ ReadingDrafts(tries, todo).pc = "chunks"
         /\ ReadingDrafts(tries, todo).rec = Stale
         /\ ReadingDrafts(tries, todo).seen = Recovered
         /\ ReadingDrafts(tries, todo).batch = batch
         /\ ReadingDrafts(tries, todo).todo = todo
         /\ ReadingDrafts(tries, todo).accepted = todo
         /\ ReadingDrafts(tries, todo).linked = Linked
  <1>1. job \in JobType /\ batch \in Nat /\ Linked \in SUBSET Drafts
    BY DEF DataOK, Linked
  <1>2. Recovered \in Statuses
    BY <1>1, RecoveredType
  <1> QED
    BY <1>1, <1>2 DEF ReadingDrafts, Reading, Idle, SessionType, Stale, Verdicts, Pcs

LEMMA TouchedType ==
  ASSUME job \in JobType, NEW status \in Statuses
  PROVE  /\ Touched(status) \in JobType
         /\ Touched(status).status = status
         /\ Touched(status).lease = job.lease
  BY DEF Touched, JobType

LEMMA FlushedType ==
  ASSUME job \in JobType, NEW s \in SessionType
  PROVE  /\ Flushed(s) \in JobType
         /\ Flushed(s).status = s.seen
         /\ Flushed(s).lease = IF s.seen = "review_required" THEN "none" ELSE job.lease
  BY DEF Flushed, Touched, JobType, SessionType

LEMMA LeaseType ==
  ASSUME job \in JobType, NEW status \in Statuses, NEW l \in {"none", "live", "expired"}
  PROVE  /\ [Touched(status) EXCEPT !.lease = l] \in JobType
         /\ [Touched(status) EXCEPT !.lease = l].status = status
         /\ [Touched(status) EXCEPT !.lease = l].lease = l
  BY DEF Touched, JobType

(* One session moves, and the lock follows it. *)
LEMMA SessionStep ==
  ASSUME ImportAssumption, SessionsOK, NEW a \in Agents, NEW s \in SessionType, Become(a, s),
         \/ s.pc \in LockingPcs /\ lock' = a /\ Free(a)
         \/ s.pc \notin LockingPcs /\ session[a].pc \in LockingPcs /\ lock' = NoHolder
         \/ s.pc \notin LockingPcs /\ session[a].pc \notin LockingPcs /\ lock' = lock
  PROVE  SessionsOK'
  <1>1. session' \in [Agents -> SessionType]
    BY DEF SessionsOK, Become
  <1>2. session'[a] = s /\ \A b \in Agents \ {a} : session'[b] = session[b]
    BY DEF SessionsOK, Become
  <1>3. lock' \in Agents \cup {NoHolder}
    BY DEF SessionsOK
  <1>4. ASSUME NEW b \in Agents PROVE session'[b].pc \in LockingPcs <=> lock' = b
    <2>1. CASE b = a
      BY <2>1, <1>2 DEF SessionsOK, ImportAssumption, Agents
    <2>2. CASE b # a
      BY <2>2, <1>2 DEF SessionsOK, ImportAssumption, Free
    <2> QED BY <2>1, <2>2
  <1> QED
    BY <1>1, <1>3, <1>4 DEF SessionsOK

(***************************************************************************)
(* The inductive invariant.                                                *)
(***************************************************************************)
DraftsOK ==
  /\ FindingsAreLinked
  /\ HumanGate
  /\ Accepted \subseteq approved
  /\ \A d \in approved : draft[d] # "absent"

(* What a snapshot is still worth. *)
Honest(s) ==
  /\ s.batch <= batch
  /\ s.rec => s.seen \in {"failed", "review_required"}
  /\ s.pc = "get" => s.seen \in {"failed", "review_required"}
  /\ s.pc = "chunks" /\ s.batch = batch =>
       s.todo \subseteq approved /\ s.linked \subseteq Linked
  /\ s.pc = "review" => s.value \in Verdicts
  /\ s.pc = "review" /\ s.batch = batch => \A d \in s.todo : draft[d] # "absent"

Snapshots == \A a \in Agents : Honest(session[a])

IInv == TypeOK /\ DraftsOK /\ Snapshots /\ PromotingHasLease

(* The rows of a batch only ever gain approvals and links. *)
RowsAdvance ==
  \/ batch' = batch + 1
  \/ /\ batch' = batch
     /\ approved \subseteq approved'
     /\ Linked \subseteq Linked'
     /\ \A d \in Drafts : draft[d] # "absent" => draft'[d] # "absent"

Lock(a, s) ==
  \/ s.pc \in LockingPcs /\ lock' = a /\ Free(a)
  \/ s.pc \notin LockingPcs /\ session[a].pc \in LockingPcs /\ lock' = NoHolder
  \/ s.pc \notin LockingPcs /\ session[a].pc \notin LockingPcs /\ lock' = lock

JobOK == job \in JobType /\ PromotingHasLease

LEMMA IdleHonest == ASSUME DataOK PROVE Honest(Idle)
  BY DEF Idle, Honest, DataOK

LEMMA RowsKept ==
  ASSUME DataOK, DraftsOK, UNCHANGED rows, job' \in JobType
  PROVE  DataOK' /\ DraftsOK' /\ RowsAdvance
  BY DEF DataOK, DraftsOK, RowsAdvance, rows, FindingsAreLinked, HumanGate, Accepted, Linked

LEMMA HonestAdvance ==
  ASSUME DataOK, DataOK', RowsAdvance, NEW s \in SessionType, Honest(s),
         NEW b \in Agents, session'[b] = s
  PROVE  Honest(session[b])'
  <1>1. s.batch \in Nat /\ batch \in Nat /\ s.todo \in SUBSET Drafts /\ s.linked \in SUBSET Drafts
    BY DEF SessionType, DataOK
  <1>2. CASE batch' = batch + 1
    BY <1>1, <1>2 DEF Honest
  <1>3. CASE batch' = batch /\ RowsAdvance
    BY <1>1, <1>3 DEF Honest, RowsAdvance
  <1> QED BY <1>2, <1>3 DEF RowsAdvance

(* A step that moves one session. *)
LEMMA OneMoves ==
  ASSUME ImportAssumption, IInv, DataOK', DraftsOK', RowsAdvance, PromotingHasLease',
         broker' \in TaskCounts,
         NEW a \in Agents, NEW s \in SessionType, Become(a, s), Honest(s), Lock(a, s)
  PROVE  IInv'
  <1>1. DataOK /\ SessionsOK
    BY TypeParts DEF IInv
  <1>2. SessionsOK'
    BY <1>1, SessionStep DEF Lock
  <1>3. ASSUME NEW b \in Agents PROVE Honest(session[b])'
    <2>1. CASE b = a
      <3>1. session'[b] = s
        BY <2>1, <1>1 DEF SessionsOK, Become
      <3> QED BY <3>1, <1>1, HonestAdvance
    <2>2. CASE b # a
      <3>1. session'[b] = session[b] /\ session[b] \in SessionType
        BY <2>2, <1>1 DEF SessionsOK, Become
      <3>2. Honest(session[b])
        BY DEF IInv, Snapshots
      <3> QED BY <3>1, <3>2, <1>1, HonestAdvance
    <2> QED BY <2>1, <2>2
  <1> QED
    BY <1>2, <1>3, TypeParts_Next DEF IInv, Snapshots

(* The same when the drafts stay as they are, as in most steps. *)
LEMMA OneMovesOnly ==
  ASSUME ImportAssumption, IInv, UNCHANGED rows, JobOK', broker' \in TaskCounts,
         NEW a \in Agents, NEW s \in SessionType, Become(a, s), Honest(s), Lock(a, s)
  PROVE  IInv'
  <1>1. DataOK /\ DraftsOK /\ job' \in JobType /\ PromotingHasLease'
    BY TypeParts DEF IInv, JobOK
  <1> QED
    BY <1>1, RowsKept, OneMoves

(* A step in which no session moves. *)
LEMMA NoneMoves ==
  ASSUME ImportAssumption, IInv, UNCHANGED <<rows, lock, session>>, JobOK',
         broker' \in TaskCounts
  PROVE  IInv'
  <1>1. DataOK /\ DraftsOK /\ SessionsOK /\ job' \in JobType /\ PromotingHasLease'
    BY TypeParts DEF IInv, JobOK
  <1>2. DataOK' /\ DraftsOK'
    BY <1>1, RowsKept
  <1>3. SessionsOK'
    BY <1>1 DEF SessionsOK
  <1>4. Snapshots'
    BY DEF IInv, Snapshots, Honest, rows, Linked
  <1> QED
    BY <1>1, <1>2, <1>3, <1>4, TypeParts_Next DEF IInv

(***************************************************************************)
(* Facts every action's proof uses.                                        *)
(***************************************************************************)
LEMMA Context ==
  ASSUME IInv
  PROVE  /\ DataOK /\ DraftsOK /\ SessionsOK /\ JobOK
         /\ job \in JobType /\ broker \in TaskCounts
         /\ \A a \in Agents : session[a] \in SessionType /\ Honest(session[a])
  BY TypeParts DEF IInv, SessionsOK, JobOK, DataOK, Snapshots

LEMMA SendType ==
  ASSUME broker \in TaskCounts, NEW t \in Tasks, Send(t)
  PROVE  broker' \in TaskCounts
  BY DEF TaskCounts, Send

LEMMA ReceiveType ==
  ASSUME broker \in TaskCounts, NEW t \in Tasks, broker[t] > 0
  PROVE  [broker EXCEPT ![t] = @ - 1] \in TaskCounts
  BY DEF TaskCounts

LEMMA JobKept == ASSUME JobOK, UNCHANGED job PROVE JobOK'
  BY DEF JobOK, PromotingHasLease

LEMMA JobTouched ==
  ASSUME JobOK, NEW status \in Statuses, status # "promoting", job' = Touched(status)
  PROVE  JobOK'
  BY TouchedType DEF JobOK, PromotingHasLease

LEMMA JobFlushed ==
  ASSUME JobOK, NEW s \in SessionType, s.seen \in {"failed", "review_required"},
         job' = Flushed(s)
  PROVE  JobOK'
  BY FlushedType DEF JobOK, PromotingHasLease

LEMMA JobLease ==
  ASSUME JobOK, NEW status \in Statuses, NEW l \in {"none", "live", "expired"},
         status = "promoting" => l # "none",
         job' = [Touched(status) EXCEPT !.lease = l]
  PROVE  JobOK'
  BY LeaseType DEF JobOK, PromotingHasLease

LEMMA AgentIsNot == ASSUME ImportAssumption PROVE NoHolder \notin Agents
  BY DEF ImportAssumption

(***************************************************************************)
(* Requests and tasks that leave the drafts alone.                         *)
(***************************************************************************)
LEMMA InErrorStep ==
  ASSUME ImportAssumption, IInv, UNCHANGED rows, JobOK', NEW a \in Agents, EndInError(a),
         \/ session[a].pc \in LockingPcs /\ lock' = NoHolder
         \/ session[a].pc \notin LockingPcs /\ lock' = lock
  PROVE  IInv'
  <1>1. session[a] \in SessionType /\ broker \in TaskCounts /\ Honest(Idle) /\ Idle \in SessionType
    BY Context, IdleHonest, IdleType
  <1>2. broker' \in TaskCounts
    <2>1. CASE a \in Workers /\ session[a].tries < MaxRetries
      <3>1. [kind |-> KindOf(session[a].pc), tries |-> session[a].tries + 1] \in Tasks
        BY <1>1, <2>1 DEF SessionType, Tasks, KindOf, ImportAssumption
      <3> QED BY <1>1, <2>1, <3>1, SendType DEF EndInError
    <2>2. CASE ~(a \in Workers /\ session[a].tries < MaxRetries)
      BY <1>1, <2>2 DEF EndInError
    <2> QED BY <2>1, <2>2
  <1>3. Become(a, Idle) /\ Lock(a, Idle)
    BY DEF EndInError, Lock, Idle, LockingPcs
  <1> QED
    BY <1>1, <1>2, <1>3, OneMovesOnly

LEMMA ReadingHonest ==
  ASSUME ImportAssumption, IInv, NEW pc \in {"get", "queue", "process", "promote"}, pc = "get" => Stale,
         NEW tries \in 0..MaxRetries
  PROVE  /\ Reading(pc, tries) \in SessionType /\ Honest(Reading(pc, tries))
         /\ Reading(pc, tries).pc \notin LockingPcs
  <1>1. job \in JobType /\ batch \in Nat
    BY Context DEF DataOK
  <1>2. pc \in Pcs
    BY DEF Pcs
  <1> QED
    BY <1>1, <1>2, ReadingType, RecoveredStale DEF Honest, LockingPcs

LEMMA ReadingDraftsHonest ==
  ASSUME ImportAssumption, IInv, NEW tries \in 0..MaxRetries
  PROVE  /\ ReadingDrafts(tries, Accepted) \in SessionType
         /\ Honest(ReadingDrafts(tries, Accepted))
         /\ ReadingDrafts(tries, Accepted).pc \notin LockingPcs
  <1>1. DataOK /\ Accepted \subseteq approved /\ batch \in Nat
    BY Context DEF DataOK, DraftsOK
  <1>2. Accepted \in SUBSET Drafts
    BY DEF Accepted
  <1> QED
    BY <1>1, <1>2, ReadingDraftsType, RecoveredStale DEF Honest, LockingPcs

LEMMA Arrivals ==
  ASSUME ImportAssumption, IInv, NEW o \in Operators,
         StartGet(o) \/ StartQueue(o) \/ StartProcess(o) \/ StartPromote(o)
  PROVE  IInv'
  <1>1. /\ o \in Agents /\ JobOK /\ broker \in TaskCounts /\ session[o].pc = "idle"
        /\ 0 \in 0..MaxRetries
        /\ UNCHANGED <<job, rows, lock, broker>>
    BY Context DEF Agents, At, StartGet, StartQueue, StartProcess, StartPromote, ImportAssumption
  <1>2. JobOK'
    BY <1>1, JobKept
  <1>3. session[o].pc \notin LockingPcs
    BY <1>1 DEF LockingPcs
  <1>4. CASE StartGet(o)
    <2>1. Stale /\ Become(o, Reading("get", 0))
      BY <1>4 DEF StartGet
    <2> QED BY <1>1, <1>2, <1>3, <2>1, ReadingHonest, OneMovesOnly DEF Lock
  <1>5. CASE StartQueue(o)
    <2>1. Become(o, Reading("queue", 0))
      BY <1>5 DEF StartQueue
    <2> QED BY <1>1, <1>2, <1>3, <2>1, ReadingHonest, OneMovesOnly DEF Lock
  <1>6. CASE StartProcess(o)
    <2>1. Become(o, Reading("process", 0))
      BY <1>6 DEF StartProcess
    <2> QED BY <1>1, <1>2, <1>3, <2>1, ReadingHonest, OneMovesOnly DEF Lock
  <1>7. CASE StartPromote(o)
    <2>1. Become(o, Reading("promote", 0))
      BY <1>7 DEF StartPromote
    <2> QED BY <1>1, <1>2, <1>3, <2>1, ReadingHonest, OneMovesOnly DEF Lock
  <1> QED BY <1>4, <1>5, <1>6, <1>7

LEMMA ReviewArrives ==
  ASSUME ImportAssumption, IInv, NEW o \in Operators, NEW D \in SUBSET Reviewable,
         NEW v \in Verdicts, StartReview(o, D, v)
  PROVE  IInv'
  <1> DEFINE s == [Reading("review", 0) EXCEPT !.todo = D, !.value = v, !.batch = batch]
  <1>1. /\ o \in Agents /\ DataOK /\ JobOK /\ broker \in TaskCounts /\ session[o].pc = "idle"
        /\ job \in JobType /\ batch \in Nat /\ 0 \in 0..MaxRetries
        /\ UNCHANGED <<job, rows, lock, broker>> /\ Become(o, s)
    BY Context DEF Agents, At, StartReview, ImportAssumption, DataOK
  <1>2. Reading("review", 0) \in SessionType /\ Reading("review", 0).pc = "review"
        /\ Reading("review", 0).rec = Stale /\ Reading("review", 0).seen = Recovered
    BY <1>1, ReadingType DEF Pcs
  <1>3. /\ s \in SessionType /\ s.pc = "review" /\ s.rec = Stale /\ s.seen = Recovered
        /\ s.todo = D /\ s.value = v /\ s.batch = batch
    BY <1>1, <1>2 DEF SessionType, Reviewable
  <1>4. \A d \in D : draft[d] # "absent"
    BY DEF Reviewable, Verdicts
  <1>5. Honest(s)
    BY <1>1, <1>3, <1>4, RecoveredStale DEF Honest
  <1>6. JobOK' /\ Lock(o, s)
    BY <1>1, <1>3, JobKept DEF Lock, LockingPcs
  <1> QED
    BY <1>1, <1>3, <1>5, <1>6, OneMovesOnly

LEMMA Deliveries ==
  ASSUME ImportAssumption, IInv, NEW w \in Workers, NEW t \in Tasks,
         DeliverProcess(w, t) \/ DeliverPromote(w, t) \/ RefusePromoteTask(w, t)
  PROVE  IInv'
  <1>1. /\ w \in Agents /\ JobOK /\ broker \in TaskCounts /\ session[w].pc = "idle"
        /\ t.tries \in 0..MaxRetries /\ broker[t] > 0 /\ UNCHANGED <<job, rows, lock>>
    BY Context DEF Agents, At, DeliverProcess, DeliverPromote, RefusePromoteTask, Tasks
  <1>2. JobOK' /\ [broker EXCEPT ![t] = @ - 1] \in TaskCounts
    BY <1>1, JobKept, ReceiveType
  <1>3. session[w].pc \notin LockingPcs
    BY <1>1 DEF LockingPcs
  <1>4. CASE DeliverProcess(w, t)
    <2>1. Become(w, Reading("process", t.tries)) /\ broker' \in TaskCounts
      BY <1>2, <1>4 DEF DeliverProcess
    <2> QED BY <1>1, <1>2, <1>3, <2>1, ReadingHonest, OneMovesOnly DEF Lock
  <1>5. CASE DeliverPromote(w, t)
    <2>1. Become(w, ReadingDrafts(t.tries, Accepted)) /\ broker' \in TaskCounts
      BY <1>2, <1>5 DEF DeliverPromote
    <2> QED BY <1>1, <1>2, <1>3, <2>1, ReadingDraftsHonest, OneMovesOnly DEF Lock
  <1>6. CASE RefusePromoteTask(w, t)
    <2>1. UNCHANGED <<rows, lock, session>>
      BY <1>6 DEF RefusePromoteTask
    <2>2. broker' \in TaskCounts
      <3> DEFINE u == [t EXCEPT !.tries = @ + 1]
      <3>1. CASE job.status = "completed" \/ t.tries = MaxRetries
        BY <1>2, <1>6, <3>1 DEF RefusePromoteTask
      <3>2. CASE ~(job.status = "completed" \/ t.tries = MaxRetries)
        <4>1. u \in Tasks
          BY <1>1, <3>2 DEF Tasks, ImportAssumption
        <4>2. broker[u] \in Nat /\ broker[t] \in Nat
          BY <1>1, <4>1 DEF TaskCounts
        <4>3. broker' = [broker EXCEPT ![t] = @ - 1, ![u] = @ + 1]
          BY <1>6, <3>2 DEF RefusePromoteTask
        <4> HIDE DEF u
        <4> QED BY <1>1, <4>1, <4>2, <4>3 DEF TaskCounts
      <3> QED BY <3>1, <3>2
    <2> QED BY <1>2, <2>1, <2>2, NoneMoves
  <1> QED BY <1>4, <1>5, <1>6

LEMMA GetEnds ==
  ASSUME ImportAssumption, IInv, NEW a \in Agents, FinishGet(a) \/ SkipRecovered(a)
  PROVE  IInv'
  <1>1. /\ JobOK /\ broker \in TaskCounts /\ session[a] \in SessionType /\ Honest(session[a])
        /\ Honest(Idle) /\ Idle \in SessionType
    BY Context, IdleHonest, IdleType
  <1>2. /\ session[a].seen \in {"failed", "review_required"} /\ session[a].pc \notin LockingPcs
        /\ job' = Flushed(session[a]) /\ Become(a, Idle) /\ UNCHANGED <<rows, lock, broker>>
    BY <1>1 DEF FinishGet, SkipRecovered, At, Honest, LockingPcs
  <1>3. JobOK'
    BY <1>1, <1>2, JobFlushed DEF Honest
  <1>4. Lock(a, Idle)
    BY <1>2 DEF Lock, Idle, LockingPcs
  <1> QED
    BY <1>1, <1>2, <1>3, <1>4, OneMovesOnly

(* The same session, further on. *)
LEMMA Onward ==
  ASSUME IInv, NEW a \in Agents, NEW pc \in Pcs,
         pc \in {"queue_sent", "queue_unsent", "processing", "dispatch"}
  PROVE  /\ [session[a] EXCEPT !.pc = pc] \in SessionType
         /\ Honest([session[a] EXCEPT !.pc = pc])
         /\ [session[a] EXCEPT !.pc = pc].pc = pc
  <1>1. session[a] \in SessionType /\ Honest(session[a])
    BY Context
  <1> QED BY <1>1 DEF SessionType, Honest

LEMMA Queueing ==
  ASSUME ImportAssumption, IInv, NEW o \in Agents, FlushQueue(o) \/ CommitQueue(o)
  PROVE  IInv'
  <1>1. /\ o \in Agents /\ JobOK /\ broker \in TaskCounts
        /\ Honest(Idle) /\ Idle \in SessionType
    BY Context, IdleHonest, IdleType DEF Agents
  <1>2. CASE FlushQueue(o)
    <2>1. UNCHANGED <<job, rows>> /\ JobOK'
      BY <1>1, <1>2, JobKept DEF FlushQueue
    <2>2. PICK pc \in {"queue_sent", "queue_unsent"} :
            /\ Become(o, [session[o] EXCEPT !.pc = pc])
            /\ Send([kind |-> "process", tries |-> 0]) \/ UNCHANGED broker
      BY <1>2 DEF FlushQueue
    <2>3. broker' \in TaskCounts
      <3>1. [kind |-> "process", tries |-> 0] \in Tasks
        BY DEF Tasks, ImportAssumption
      <3> QED BY <1>1, <2>2, <3>1, SendType
    <2>4. Lock(o, [session[o] EXCEPT !.pc = pc])
      BY <1>1, <1>2, <2>2, Onward DEF FlushQueue, Lock, LockingPcs, Pcs
    <2> QED
      BY <1>1, <2>1, <2>2, <2>3, <2>4, Onward, OneMovesOnly DEF Pcs
  <1>3. CASE CommitQueue(o)
    <2>1. /\ Become(o, Idle) /\ Lock(o, Idle) /\ UNCHANGED <<rows, broker>>
      BY <1>3 DEF CommitQueue, Lock, Idle, LockingPcs
    <2>2. PICK status \in {"queued", "failed"} : job' = Touched(status)
      BY <1>3 DEF CommitQueue
    <2>3. JobOK'
      BY <1>1, <2>2, JobTouched DEF Statuses
    <2> QED
      BY <1>1, <2>1, <2>3, OneMovesOnly
  <1> QED BY <1>2, <1>3

LEMMA Processing ==
  ASSUME ImportAssumption, IInv, NEW a \in Agents,
         SkipProcess(a) \/ ClaimProcess(a) \/ FailProcess(a) \/ RaiseProcess(a)
  PROVE  IInv'
  <1>1. /\ JobOK /\ broker \in TaskCounts /\ session[a] \in SessionType
        /\ Honest(Idle) /\ Idle \in SessionType
    BY Context, IdleHonest, IdleType
  <1>2. CASE SkipProcess(a)
    <2>1. /\ Become(a, Idle) /\ Lock(a, Idle) /\ UNCHANGED <<job, rows, broker>>
      BY <1>2 DEF SkipProcess, At, Lock, Idle, LockingPcs
    <2> QED BY <1>1, <2>1, JobKept, OneMovesOnly
  <1>3. CASE ClaimProcess(a)
    <2>1. /\ Become(a, [session[a] EXCEPT !.pc = "processing"]) /\ lock' = a /\ Free(a)
          /\ UNCHANGED <<job, rows, broker>>
      BY <1>3 DEF ClaimProcess
    <2>2. Lock(a, [session[a] EXCEPT !.pc = "processing"])
      BY <2>1, Onward DEF Lock, LockingPcs, Pcs
    <2> QED BY <1>1, <2>1, <2>2, JobKept, Onward, OneMovesOnly DEF Pcs
  <1>4. CASE FailProcess(a)
    <2>1. /\ Become(a, Idle) /\ Lock(a, Idle) /\ UNCHANGED <<rows, broker>>
      BY <1>4 DEF FailProcess, FinishProcess, At, Lock, Idle, LockingPcs
    <2>2. PICK status \in {"processing", "failed"} : job' = Touched(status)
      BY <1>4 DEF FailProcess, FinishProcess, Assigned
    <2>3. JobOK'
      BY <1>1, <2>2, JobTouched DEF Statuses
    <2> QED BY <1>1, <2>1, <2>3, OneMovesOnly
  <1>5. CASE RaiseProcess(a)
    <2>1. /\ EndInError(a) /\ session[a].pc \in LockingPcs /\ lock' = NoHolder
          /\ UNCHANGED <<job, rows>>
      BY <1>5 DEF RaiseProcess, At, LockingPcs
    <2> QED BY <1>1, <2>1, JobKept, InErrorStep
  <1> QED BY <1>2, <1>3, <1>4, <1>5

LEMMA Claims ==
  ASSUME ImportAssumption, IInv, NEW o \in Agents,
         ClaimPromote(o) \/ RefusePromote(o) \/ DispatchPromote(o)
  PROVE  IInv'
  <1>1. /\ o \in Agents /\ JobOK /\ job \in JobType /\ broker \in TaskCounts
        /\ session[o] \in SessionType /\ Honest(Idle) /\ Idle \in SessionType
        /\ session[o].pc \in {"promote", "dispatch"} /\ session[o].pc \notin LockingPcs
    BY Context, IdleHonest, IdleType
       DEF Agents, At, ClaimPromote, RefusePromote, DispatchPromote, LockingPcs
  <1>2. CASE ClaimPromote(o)
    <2>1. UNCHANGED <<rows, lock, broker>>
      BY <1>2 DEF ClaimPromote
    <2>2. JobOK'
      <3>1. job' = [Touched("promoting") EXCEPT !.lease = "live"]
        BY <1>2 DEF ClaimPromote
      <3> QED BY <1>1, <3>1, JobLease DEF Statuses
    <2>3. \/ Become(o, Idle) \/ Become(o, [session[o] EXCEPT !.pc = "dispatch"])
          \/ \E seen \in {"failed", "review_required"} :
               Become(o, [session[o] EXCEPT !.pc = "get", !.seen = seen])
      BY <1>2 DEF ClaimPromote
    <2>4. CASE Become(o, Idle)
      <3>1. Lock(o, Idle)
        BY <1>1, <2>1 DEF Lock, Idle, LockingPcs
      <3> QED BY <1>1, <2>1, <2>2, <2>4, <3>1, OneMovesOnly
    <2>5. CASE Become(o, [session[o] EXCEPT !.pc = "dispatch"])
      <3>1. Lock(o, [session[o] EXCEPT !.pc = "dispatch"])
        BY <1>1, <2>1, Onward DEF Lock, LockingPcs, Pcs
      <3> QED BY <1>1, <2>1, <2>2, <2>5, <3>1, Onward, OneMovesOnly DEF Pcs
    <2>6. ASSUME NEW seen \in {"failed", "review_required"},
                 Become(o, [session[o] EXCEPT !.pc = "get", !.seen = seen])
          PROVE  IInv'
      <3> DEFINE s == [session[o] EXCEPT !.pc = "get", !.seen = seen]
      <3>1. s \in SessionType /\ s.pc = "get" /\ s.seen = seen /\ s.batch = session[o].batch
        BY <1>1 DEF SessionType, Pcs, Statuses
      <3>2. Honest(s) /\ Lock(o, s)
        <4>1. Honest(session[o])
          BY Context
        <4> HIDE DEF s
        <4> QED BY <1>1, <2>1, <3>1, <4>1 DEF Honest, Lock, LockingPcs
      <3> HIDE DEF s
      <3> QED BY <1>1, <2>1, <2>2, <2>6, <3>1, <3>2, OneMovesOnly DEF s
    <2> QED BY <2>3, <2>4, <2>5, <2>6
  <1>3. CASE RefusePromote(o)
    <2>1. Become(o, Idle) /\ Lock(o, Idle) /\ UNCHANGED <<job, rows, broker>>
      BY <1>1, <1>3 DEF RefusePromote, Lock, Idle, LockingPcs
    <2> QED BY <1>1, <2>1, JobKept, OneMovesOnly
  <1>4. CASE DispatchPromote(o)
    <2>1. UNCHANGED <<job, rows, lock>> /\ JobOK'
      BY <1>1, <1>4, JobKept DEF DispatchPromote
    <2>2. CASE Send([kind |-> "promote", tries |-> 0]) /\ Become(o, Idle)
      <3>1. [kind |-> "promote", tries |-> 0] \in Tasks
        BY DEF Tasks, ImportAssumption
      <3>2. Lock(o, Idle)
        BY <1>1, <2>1 DEF Lock, Idle, LockingPcs
      <3> QED BY <1>1, <2>1, <2>2, <3>1, <3>2, SendType, OneMovesOnly
    <2>3. ASSUME NEW s, Become(o, s), UNCHANGED broker,
                 s = [session[o] EXCEPT !.pc = "chunks", !.todo = Accepted, !.accepted = Accepted,
                                        !.linked = Linked, !.batch = batch]
          PROVE  IInv'
      <3>1. batch \in Nat /\ Accepted \in SUBSET Drafts /\ Linked \in SUBSET Drafts
            /\ Accepted \subseteq approved /\ Honest(session[o])
        BY Context DEF DataOK, DraftsOK, Accepted, Linked
      <3>2. s \in SessionType /\ s.pc = "chunks" /\ s.todo = Accepted /\ s.linked = Linked
            /\ s.accepted = Accepted /\ s.batch = batch /\ s.rec = session[o].rec /\ s.seen = session[o].seen
        BY <1>1, <2>3, <3>1 DEF SessionType, Pcs
      <3>3. Honest(s) /\ Lock(o, s)
        BY <1>1, <2>1, <3>1, <3>2 DEF Honest, Lock, LockingPcs
      <3> QED BY <1>1, <2>1, <2>3, <3>2, <3>3, OneMovesOnly
    <2> QED BY <1>4, <2>2, <2>3 DEF DispatchPromote
  <1> QED BY <1>2, <1>3, <1>4

LEMMA PromotionEnds ==
  ASSUME ImportAssumption, IInv, NEW a \in Agents, FinishPromotion(a) \/ RaisePromotion(a)
  PROVE  IInv'
  <1>1. /\ JobOK /\ job \in JobType /\ broker \in TaskCounts
        /\ Honest(Idle) /\ Idle \in SessionType /\ session[a].pc \notin LockingPcs
    BY Context, IdleHonest, IdleType DEF At, FinishPromotion, RaisePromotion, LockingPcs
  <1>2. CASE FinishPromotion(a)
    <2>1. Become(a, Idle) /\ Lock(a, Idle) /\ UNCHANGED <<rows, broker>>
      BY <1>1, <1>2 DEF FinishPromotion, Lock, Idle, LockingPcs
    <2>2. PICK status \in {"review_required", "completed"} :
            job' = [Touched(status) EXCEPT !.lease = "none"]
      BY <1>2 DEF FinishPromotion
    <2>3. JobOK'
      BY <1>1, <2>2, JobLease DEF Statuses
    <2> QED BY <1>1, <2>1, <2>3, OneMovesOnly
  <1>3. CASE RaisePromotion(a)
    <2>1. EndInError(a) /\ UNCHANGED <<rows, lock>> /\ job' = Touched("review_required")
      BY <1>3 DEF RaisePromotion
    <2>2. JobOK'
      BY <1>1, <2>1, JobTouched DEF Statuses
    <2> QED BY <1>1, <2>1, <2>2, InErrorStep
  <1> QED BY <1>2, <1>3

LEMMA Breakdowns ==
  ASSUME ImportAssumption, IInv, NEW a \in Agents, StatementTimeout(a) \/ Crash(a)
  PROVE  IInv'
  <1>1. /\ JobOK /\ broker \in TaskCounts /\ SessionsOK /\ session[a] \in SessionType
        /\ Honest(Idle) /\ Idle \in SessionType
    BY Context, IdleHonest, IdleType
  <1>2. CASE StatementTimeout(a)
    <2>1. EndInError(a) /\ UNCHANGED <<job, rows, lock>> /\ session[a].pc \notin LockingPcs
      BY <1>2 DEF StatementTimeout, NeedsLock, At, LockingPcs
    <2> QED BY <1>1, <2>1, JobKept, InErrorStep
  <1>3. CASE Crash(a)
    <2>1. Become(a, Idle) /\ UNCHANGED <<job, rows>> /\ JobOK'
      BY <1>1, <1>3, JobKept DEF Crash
    <2>2. broker' \in TaskCounts
      <3>1. [kind |-> KindOf(session[a].pc), tries |-> session[a].tries] \in Tasks
        BY <1>1 DEF SessionType, Tasks, KindOf
      <3> QED BY <1>1, <1>3, <3>1, SendType DEF Crash
    <2>3. Lock(a, Idle)
      BY <1>1, <1>3 DEF Crash, Lock, Idle, LockingPcs, SessionsOK
    <2> QED BY <1>1, <2>1, <2>2, <2>3, OneMovesOnly
  <1> QED BY <1>2, <1>3

LEMMA SweepAndTime ==
  ASSUME ImportAssumption, IInv, Sweep \/ Age \/ LeaseExpire
  PROVE  IInv'
  <1>1. JobOK /\ job \in JobType /\ broker \in TaskCounts
    BY Context
  <1>2. UNCHANGED <<rows, lock, session>> /\ broker' \in TaskCounts
    BY <1>1 DEF Sweep, Age, LeaseExpire
  <1>3. CASE Sweep
    <2>1. CASE job' = Touched("failed")
      BY <1>1, <1>2, <2>1, JobTouched, NoneMoves DEF Statuses
    <2>2. CASE job' = [Touched("review_required") EXCEPT !.lease = "none"]
      BY <1>1, <1>2, <2>2, JobLease, NoneMoves DEF Statuses
    <2> QED BY <1>3, <2>1, <2>2 DEF Sweep
  <1>4. CASE Age
    <2>1. JobOK'
      BY <1>1, <1>4 DEF Age, JobOK, JobType, PromotingHasLease
    <2> QED BY <1>2, <2>1, NoneMoves
  <1>5. CASE LeaseExpire
    <2>1. JobOK'
      BY <1>1, <1>5 DEF LeaseExpire, JobOK, JobType, PromotingHasLease
    <2> QED BY <1>2, <2>1, NoneMoves
  <1> QED BY <1>3, <1>4, <1>5

(***************************************************************************)
(* The three steps that change the drafts.                                 *)
(***************************************************************************)
LEMMA ReviewEnds ==
  ASSUME ImportAssumption, IInv, NEW o \in Agents, FinishReview(o)
  PROVE  IInv'
  <1> DEFINE s == session[o]
  <1>1. /\ o \in Agents /\ DataOK /\ DraftsOK /\ JobOK /\ broker \in TaskCounts
        /\ s \in SessionType /\ Honest(s) /\ Honest(Idle) /\ Idle \in SessionType
        /\ job \in JobType /\ s.pc = "review"
    BY Context, IdleHonest, IdleType DEF Agents, At, FinishReview
  <1>2. /\ Become(o, Idle) /\ Lock(o, Idle) /\ UNCHANGED <<batch, link, findings, broker>>
    BY <1>1 DEF FinishReview, Lock, Idle, LockingPcs
  <1>3. JobOK'
    <2>1. CASE job' = job
      BY <1>1, <2>1, JobKept
    <2>2. CASE job' = Flushed(s) /\ s.rec
      <3>1. s.seen \in {"failed", "review_required"}
        BY <1>1, <2>2 DEF Honest
      <3> QED BY <1>1, <2>2, <3>1, JobFlushed
    <2>3. CASE job' = Touched(job.status)
      <3>1. job.status \in Statuses
        BY <1>1 DEF JobType
      <3> QED BY <1>1, <2>3, <3>1, TouchedType DEF JobOK, PromotingHasLease
    <2> QED BY <2>1, <2>2, <2>3 DEF FinishReview
  <1>4. CASE s.batch = batch
    <2>1. /\ draft' = [d \in Drafts |-> IF d \in s.todo THEN s.value ELSE draft[d]]
          /\ approved' = IF s.value = "accepted" THEN approved \cup s.todo ELSE approved
      BY <1>4 DEF FinishReview
    <2>2. s.value \in Verdicts /\ s.todo \in SUBSET Drafts /\ \A d \in s.todo : draft[d] # "absent"
      BY <1>1, <1>4 DEF Honest, SessionType
    <2>3. DataOK'
      BY <1>1, <1>2, <1>3, <2>1, <2>2 DEF DataOK, JobOK, Verdicts, DraftStatuses
    <2>4. \A d \in Drafts : draft'[d] = IF d \in s.todo THEN s.value ELSE draft[d]
      BY <2>1
    <2>5. DraftsOK'
      <3>1. FindingsAreLinked'
        BY <1>1, <1>2, <2>2, <2>4 DEF DraftsOK, FindingsAreLinked, Verdicts
      <3>2. HumanGate'
        BY <1>1, <1>2, <2>1 DEF DraftsOK, HumanGate
      <3>3. (Accepted \subseteq approved)'
        BY <1>1, <2>1, <2>4 DEF DraftsOK, Accepted
      <3>4. (\A d \in approved : draft[d] # "absent")'
        BY <1>1, <2>1, <2>2, <2>4 DEF DraftsOK, DataOK, Verdicts
      <3> QED BY <3>1, <3>2, <3>3, <3>4 DEF DraftsOK
    <2>6. RowsAdvance
      BY <1>2, <2>1, <2>2, <2>4 DEF RowsAdvance, Linked, Verdicts
    <2> QED
      BY <1>1, <1>2, <1>3, <2>3, <2>5, <2>6, OneMoves DEF JobOK
  <1>5. CASE s.batch # batch
    <2>1. UNCHANGED rows
      BY <1>2, <1>5 DEF FinishReview, rows
    <2> QED BY <1>1, <1>2, <1>3, <2>1, OneMovesOnly
  <1> QED BY <1>4, <1>5

LEMMA AnalysisEnds ==
  ASSUME ImportAssumption, IInv, NEW a \in Agents, CompleteProcess(a)
  PROVE  IInv' /\ (\A d \in Drafts : findings[d] = 0 /\ findings'[d] = 0)
  <1>1. /\ DataOK /\ DraftsOK /\ JobOK /\ broker \in TaskCounts /\ job \in JobType
        /\ Honest(Idle) /\ Idle \in SessionType /\ session[a].pc = "processing"
    BY Context, IdleHonest, IdleType DEF At, CompleteProcess, FinishProcess
  <1>2. /\ Become(a, Idle) /\ Lock(a, Idle) /\ UNCHANGED broker
        /\ job' = Touched(Assigned(a, "review_required"))
    BY <1>1 DEF CompleteProcess, FinishProcess, Lock, Idle, LockingPcs
  <1>3. JobOK'
    <2>1. Assigned(a, "review_required") \in Statuses \ {"promoting"}
      BY DEF Assigned, Statuses
    <2> QED BY <1>1, <1>2, <2>1, JobTouched
  <1>4. PICK N \in SUBSET Drafts : ReplaceDrafts(N)
    BY DEF CompleteProcess
  <1>5. \A d \in Drafts : ~link[d] /\ findings[d] = 0
    BY <1>1 DEF CompleteProcess, Linked, DraftsOK, FindingsAreLinked, DataOK
  <1>6. DataOK'
    BY <1>1, <1>3, <1>4 DEF ReplaceDrafts, DataOK, JobOK, DraftStatuses
  <1>7. DraftsOK'
    BY <1>1, <1>4, <1>5 DEF ReplaceDrafts, DraftsOK, FindingsAreLinked, HumanGate, Accepted
  <1>8. RowsAdvance
    BY <1>4 DEF ReplaceDrafts, RowsAdvance
  <1>9. \A d \in Drafts : findings'[d] = 0
    BY <1>4, <1>5 DEF ReplaceDrafts
  <1> QED
    BY <1>1, <1>2, <1>3, <1>5, <1>6, <1>7, <1>8, <1>9, OneMoves DEF JobOK

LEMMA ChunkCommits ==
  ASSUME ImportAssumption, IInv, NEW a \in Agents,
         NEW C \in SUBSET session[a].todo, NEW F \in SUBSET (C \ session[a].linked),
         PromoteChunk(a, C, F)
  PROVE  IInv'
  <1> DEFINE s == session[a]
             n == [s EXCEPT !.todo = @ \ C, !.failed = @ \/ F # {}]
             made == (C \ F) \ s.linked
  <1>1. /\ DataOK /\ DraftsOK /\ JobOK /\ broker \in TaskCounts /\ job \in JobType
        /\ s \in SessionType /\ Honest(s) /\ s.pc = "chunks" /\ s.batch = batch
    BY Context DEF At, PromoteChunk
  <1>2. s.todo \subseteq approved /\ s.linked \subseteq Linked /\ s.todo \in SUBSET Drafts
    BY <1>1 DEF Honest, SessionType
  <1>3. /\ \A d \in Drafts : findings'[d] = IF d \in made THEN findings[d] + 1 ELSE findings[d]
        /\ \A d \in Drafts : link'[d] = (link[d] \/ d \in made)
        /\ \A d \in Drafts : draft'[d] = IF d \in C \ F THEN "promoted" ELSE draft[d]
        /\ UNCHANGED <<batch, approved, lock, broker>> /\ Become(a, n)
        /\ job' = [Touched(job.status) EXCEPT !.lease = "live"]
    BY DEF PromoteChunk
  <1>4. DataOK'
    <2>1. findings' \in [Drafts -> Nat] /\ link' \in [Drafts -> BOOLEAN]
          /\ draft' \in [Drafts -> DraftStatuses]
      BY <1>1 DEF PromoteChunk, DataOK, DraftStatuses
    <2>2. job' \in JobType
      BY <1>1, <1>3, LeaseType DEF JobType
    <2> QED BY <1>1, <1>3, <2>1, <2>2 DEF DataOK
  <1>5. JobOK'
    <2>1. job.status \in Statuses
      BY <1>1 DEF JobType
    <2> QED BY <1>1, <1>3, <2>1, JobLease
  <1>6. made \subseteq approved /\ C \ F \subseteq made \cup Linked
    BY <1>2
  <1>7. DraftsOK'
    <2>1. ASSUME NEW d \in Drafts
          PROVE  /\ findings'[d] > 0 <=> link'[d]
                 /\ draft'[d] = "promoted" => link'[d]
                 /\ link'[d] => draft'[d] # "absent"
      <3>1. findings[d] \in Nat /\ link[d] \in BOOLEAN /\ (findings[d] > 0 <=> link[d])
            /\ (draft[d] = "promoted" => link[d]) /\ (link[d] => draft[d] # "absent")
            /\ (d \in Linked <=> link[d])
        BY <1>1 DEF DraftsOK, FindingsAreLinked, DataOK, Linked
      <3>2. (d \in made => d \in C \ F) /\ (d \in C \ F => d \in made \/ d \in Linked)
        BY <1>6
      <3>3. findings'[d] > 0 <=> (d \in made \/ findings[d] > 0)
        <4> HIDE DEF made
        <4> QED BY <1>3, <3>1
      <3>4. link'[d] <=> (link[d] \/ d \in made)
        BY <1>3, Zenon
      <3>5. draft'[d] = IF d \in C \ F THEN "promoted" ELSE draft[d]
        BY <1>3
      <3> HIDE DEF made
      <3> QED BY <3>1, <3>2, <3>3, <3>4, <3>5
    <2>5. FindingsAreLinked'
      BY <2>1 DEF FindingsAreLinked
    <2>2. HumanGate'
      <3> SUFFICES ASSUME NEW d \in Drafts, findings'[d] > 0
                   PROVE  d \in approved
        BY <1>3 DEF HumanGate
      <3>1. CASE d \in made
        BY <3>1, <1>6
      <3>2. CASE d \notin made
        <4> HIDE DEF made
        <4> QED BY <3>2, <1>1, <1>3 DEF DraftsOK, HumanGate
      <3> QED BY <3>1, <3>2
    <2>3. (Accepted \subseteq approved)'
      BY <1>1, <1>3 DEF DraftsOK, Accepted
    <2>4. (\A d \in approved : draft[d] # "absent")'
      BY <1>1, <1>3 DEF DraftsOK, DataOK
    <2> QED BY <2>5, <2>2, <2>3, <2>4 DEF DraftsOK
  <1>8. RowsAdvance
    BY <1>1, <1>3 DEF RowsAdvance, Linked
  <1>9. n \in SessionType /\ Honest(n) /\ Lock(a, n)
    <2>1. n \in SessionType /\ n.pc = "chunks" /\ n.rec = s.rec /\ n.seen = s.seen
          /\ n.batch = s.batch /\ n.todo \subseteq s.todo /\ n.linked = s.linked
      BY <1>1 DEF SessionType
    <2> HIDE DEF n
    <2> QED BY <1>1, <1>2, <1>3, <2>1 DEF Honest, Lock, LockingPcs
  <1> QED
    BY <1>1, <1>3, <1>4, <1>5, <1>7, <1>8, <1>9, OneMoves DEF JobOK

(***************************************************************************)
(* Every step keeps the invariant.                                         *)
(***************************************************************************)
LEMMA InitIInv == ASSUME ImportAssumption PROVE Init => IInv
  <1> SUFFICES ASSUME Init PROVE IInv
    OBVIOUS
  <1>1. Idle \in SessionType /\ Idle.pc = "idle" /\ Idle.batch = 0 /\ Idle.rec = FALSE
    BY IdleType DEF Idle
  <1>2. DataOK
    BY DEF Init, DataOK, JobType, Statuses, DraftStatuses
  <1>3. broker \in TaskCounts
    BY DEF Init, TaskCounts
  <1>4. \A a \in Agents : session[a] = Idle
    BY DEF Init
  <1>5. SessionsOK
    BY <1>1, <1>4 DEF Init, SessionsOK, LockingPcs, ImportAssumption
  <1>6. DraftsOK
    BY DEF Init, DraftsOK, FindingsAreLinked, HumanGate, Accepted
  <1>7. Snapshots
    BY <1>2, <1>4, IdleHonest DEF Snapshots
  <1>8. PromotingHasLease
    BY DEF Init, PromotingHasLease
  <1> QED
    BY <1>2, <1>3, <1>5, <1>6, <1>7, <1>8, TypeParts DEF IInv

LEMMA ChunksAreDrafts ==
  ASSUME NEW a \in Agents, NextChunk(a)
  PROVE  \E C \in SUBSET session[a].todo :
           \E F \in SUBSET (C \ session[a].linked) : PromoteChunk(a, C, F)
  BY DEF NextChunk, Chunks

LEMMA NextIInv == ASSUME ImportAssumption PROVE IInv /\ [Next]_vars => IInv'
  <1> SUFFICES ASSUME IInv, [Next]_vars PROVE IInv'
    OBVIOUS
  <1>1. Operators \subseteq Agents /\ Workers \subseteq Agents
    BY DEF Agents
  <1>2. ASSUME NEW o \in Operators, Arrive(o) PROVE IInv'
    <2>1. CASE StartGet(o) \/ StartQueue(o) \/ StartProcess(o) \/ StartPromote(o)
      BY <2>1, Arrivals
    <2>2. CASE ReviewOne(o)
      <3>1. PICK d \in Reviewable, v \in Verdicts : StartReview(o, {d}, v)
        BY <2>2 DEF ReviewOne
      <3>2. {d} \in SUBSET Reviewable
        OBVIOUS
      <3> QED BY <3>1, <3>2, ReviewArrives
    <2>3. CASE ReviewBulk(o)
      <3>1. PICK v \in Verdicts :
              StartReview(o, {d \in Reviewable : /\ draft[d] # v
                                                 /\ v = "accepted" => draft[d] = "draft"}, v)
        BY <2>3 DEF ReviewBulk
      <3>2. {d \in Reviewable : /\ draft[d] # v
                                /\ v = "accepted" => draft[d] = "draft"} \in SUBSET Reviewable
        OBVIOUS
      <3> QED BY <3>1, <3>2, ReviewArrives
    <2> QED BY <1>2, <2>1, <2>2, <2>3 DEF Arrive
  <1>3. ASSUME NEW w \in Workers, Deliver(w) PROVE IInv'
    BY <1>3, Deliveries DEF Deliver
  <1>4. ASSUME NEW a \in Agents, Proceed(a) PROVE IInv'
    <2>1. CASE FinishGet(a) \/ SkipRecovered(a)
      BY <2>1, GetEnds
    <2>2. CASE FlushQueue(a) \/ CommitQueue(a)
      BY <2>2, Queueing
    <2>3. CASE SkipProcess(a) \/ ClaimProcess(a) \/ FailProcess(a)
      BY <2>3, Processing
    <2>4. CASE CompleteProcess(a)
      BY <2>4, AnalysisEnds
    <2>5. CASE FinishReview(a)
      BY <2>5, ReviewEnds
    <2>6. CASE ClaimPromote(a) \/ RefusePromote(a) \/ DispatchPromote(a)
      BY <2>6, Claims
    <2>7. CASE NextChunk(a)
      BY <2>7, ChunksAreDrafts, ChunkCommits
    <2>8. CASE FinishPromotion(a)
      BY <2>8, PromotionEnds
    <2> QED BY <1>4, <2>1, <2>2, <2>3, <2>4, <2>5, <2>6, <2>7, <2>8 DEF Proceed
  <1>5. ASSUME NEW a \in Agents, Fail(a) PROVE IInv'
    <2>1. CASE RaiseProcess(a)
      BY <2>1, Processing
    <2>2. CASE RaisePromotion(a)
      BY <2>2, PromotionEnds
    <2>3. CASE StatementTimeout(a) \/ Crash(a)
      BY <2>3, Breakdowns
    <2> QED BY <1>5, <2>1, <2>2, <2>3 DEF Fail
  <1>6. CASE Sweep \/ Age \/ LeaseExpire
    BY <1>6, SweepAndTime
  <1>7. CASE UNCHANGED vars
    <2>1. UNCHANGED <<rows, lock, session>> /\ UNCHANGED <<job, broker>>
      BY <1>7 DEF vars, rows
    <2>2. JobOK' /\ broker' \in TaskCounts
      BY <2>1, Context, JobKept
    <2> QED BY <2>1, <2>2, NoneMoves
  <1> QED
    BY <1>2, <1>3, <1>4, <1>5, <1>6, <1>7 DEF Next

(* Every reachable state satisfies the inductive invariant. *)
THEOREM ImportInvariant == Spec => []IInv
  BY ImportAssumption, InitIInv, NextIInv, PTL DEF Spec

(* Every variable keeps its type, and the job's row lock is held by        *)
(* exactly the session that is between its first UPDATE and its commit.    *)
THEOREM ImportTypeOK == Spec => []TypeOK
  <1>1. IInv => TypeOK
    BY DEF IInv
  <1> QED BY <1>1, ImportInvariant, PTL

(* The human gate: no finding goes live from a draft nobody accepted since *)
(* the analysis that produced it.                                          *)
THEOREM HumanGateHolds == Spec => []HumanGate
  <1>1. IInv => HumanGate
    BY DEF IInv, DraftsOK
  <1> QED BY <1>1, ImportInvariant, PTL

(* A draft and the findings made from it agree in every reachable state.   *)
THEOREM FindingsStayLinked == Spec => []FindingsAreLinked
  <1>1. IInv => FindingsAreLinked
    BY DEF IInv, DraftsOK
  <1> QED BY <1>1, ImportInvariant, PTL

(* A PROMOTING job always has a lease the sweep can find.                  *)
THEOREM LeaseWhilePromoting == Spec => []PromotingHasLease
  <1>1. IInv => PromotingHasLease
    BY DEF IInv
  <1> QED BY <1>1, ImportInvariant, PTL

(***************************************************************************)
(* The steps that touch the drafts, and the contract they keep.            *)
(***************************************************************************)
LEMMA RowSteps ==
  ASSUME [Next]_vars
  PROVE  \/ UNCHANGED rows
         \/ \E a \in Agents : FinishReview(a)
         \/ \E a \in Agents : CompleteProcess(a)
         \/ \E a \in Agents : NextChunk(a)
  <1>1. ASSUME NEW o \in Operators, Arrive(o) PROVE UNCHANGED rows
    <2>1. ASSUME NEW D, NEW v, StartReview(o, D, v) PROVE UNCHANGED rows
      BY <2>1 DEF StartReview
    <2> QED
      BY <1>1, <2>1 DEF Arrive, StartGet, StartQueue, StartProcess, StartPromote,
                        ReviewOne, ReviewBulk
  <1>2. ASSUME NEW w \in Workers, Deliver(w) PROVE UNCHANGED rows
    BY <1>2 DEF Deliver, DeliverProcess, DeliverPromote, RefusePromoteTask
  <1>3. ASSUME NEW a \in Agents, Fail(a) PROVE UNCHANGED rows
    BY <1>3 DEF Fail, RaiseProcess, RaisePromotion, StatementTimeout, Crash
  <1>4. ASSUME NEW a \in Agents, Proceed(a)
        PROVE  UNCHANGED rows \/ FinishReview(a) \/ CompleteProcess(a) \/ NextChunk(a)
    BY <1>4 DEF Proceed, FinishGet, FlushQueue, CommitQueue, SkipRecovered, SkipProcess,
                ClaimProcess, FailProcess, ClaimPromote, RefusePromote, DispatchPromote,
                FinishPromotion
  <1>5. CASE Sweep \/ Age \/ LeaseExpire
    BY <1>5 DEF Sweep, Age, LeaseExpire
  <1>6. CASE UNCHANGED vars
    BY <1>6 DEF vars, rows
  <1> QED
    BY <1>1, <1>2, <1>3, <1>4, <1>5, <1>6 DEF Next

(* Drafts are replaced by a new analysis only while none has gone live,    *)
(* whatever promotion runs at the same time.                               *)
THEOREM ReanalysisIsSafe == Spec => ReanalysisSparesFindings
  <1>1. ASSUME IInv, [Next]_vars, batch' # batch
        PROVE  \A d \in Drafts : findings[d] = 0 /\ findings'[d] = 0
    <2>1. PICK a \in Agents : CompleteProcess(a)
      BY <1>1, RowSteps DEF rows, FinishReview, NextChunk, PromoteChunk
    <2> QED BY <1>1, <2>1, ImportAssumption, AnalysisEnds
  <1>2. IInv /\ [Next]_vars =>
          [batch' # batch => \A d \in Drafts : findings[d] = 0 /\ findings'[d] = 0]_vars
    BY <1>1
  <1> QED BY <1>2, ImportInvariant, PTL DEF Spec, ReanalysisSparesFindings

Proposed == {d \in Drafts : draft[d] # "absent"}
Published == {d \in Drafts : findings[d] > 0}

(* A review either approves what has been proposed or says nothing new.    *)
LEMMA ReviewMaps ==
  ASSUME IInv, NEW a \in Agents, FinishReview(a)
  PROVE  UNCHANGED <<Proposed, approved, Published>> \/ \E S \in SUBSET Drafts : Contract!Approve(S)
  <1> DEFINE s == session[a]
  <1>1. Honest(s) /\ s \in SessionType /\ s.pc = "review"
    BY Context DEF FinishReview, At
  <1>2. UNCHANGED Published
    BY DEF FinishReview, Published
  <1>3. CASE s.batch # batch
    BY <1>2, <1>3 DEF FinishReview, Proposed
  <1>4. CASE s.batch = batch
    <2>1. /\ s.todo \in SUBSET Drafts /\ s.todo \subseteq Proposed /\ s.value \in Verdicts
      BY <1>1, <1>4 DEF Honest, SessionType, Proposed
    <2>2. \A d \in Drafts : draft'[d] = IF d \in s.todo THEN s.value ELSE draft[d]
      BY <1>4 DEF FinishReview
    <2>3. UNCHANGED Proposed
      BY <2>1, <2>2 DEF Proposed, Verdicts
    <2>4. approved' = IF s.value = "accepted" THEN approved \cup s.todo ELSE approved
      BY <1>4 DEF FinishReview
    <2> QED
      BY <1>2, <2>1, <2>3, <2>4 DEF Contract!Approve, Proposed, Published
  <1> QED BY <1>3, <1>4

(* A successful analysis proposes anew, and nothing was published.         *)
LEMMA AnalysisMaps ==
  ASSUME IInv, NEW a \in Agents, CompleteProcess(a)
  PROVE  \E S \in SUBSET Drafts : Contract!Propose(S)
  <1>1. PICK N \in SUBSET Drafts : ReplaceDrafts(N)
    BY DEF CompleteProcess
  <1>2. Published = {} /\ Published' = {}
    BY ImportAssumption, AnalysisEnds DEF Published
  <1>3. Proposed' = N /\ approved' = {}
    BY <1>1 DEF ReplaceDrafts, Proposed
  <1> QED
    BY <1>2, <1>3 DEF Contract!Propose, Proposed, Published

(* A chunk publishes drafts that were approved, and only those.            *)
LEMMA ChunkMaps ==
  ASSUME IInv, NEW a \in Agents, NextChunk(a)
  PROVE  \E S \in SUBSET Drafts : Contract!Publish(S)
  <1>1. PICK C \in SUBSET session[a].todo :
          \E F \in SUBSET (C \ session[a].linked) : PromoteChunk(a, C, F)
    BY ChunksAreDrafts
  <1>2. PICK F \in SUBSET (C \ session[a].linked) : PromoteChunk(a, C, F)
    BY <1>1
  <1> DEFINE made == (C \ F) \ session[a].linked
  <1>3. /\ session[a] \in SessionType /\ Honest(session[a]) /\ DataOK /\ DraftsOK
        /\ session[a].pc = "chunks" /\ session[a].batch = batch
    BY <1>2, Context DEF PromoteChunk, At
  <1>4. C \subseteq approved /\ made \subseteq approved /\ made \in SUBSET Drafts
    BY <1>3 DEF Honest, SessionType
  <1>5. /\ \A d \in Drafts : draft'[d] = IF d \in C \ F THEN "promoted" ELSE draft[d]
        /\ \A d \in Drafts : findings'[d] = IF d \in made THEN findings[d] + 1 ELSE findings[d]
        /\ UNCHANGED approved
    BY <1>2 DEF PromoteChunk
  <1>6. UNCHANGED Proposed
    BY <1>3, <1>4, <1>5 DEF Proposed, DraftsOK
  <1>7. Published' = Published \cup made
    <2> HIDE DEF made
    <2>1. \A d \in Drafts : findings[d] \in Nat
      BY <1>3 DEF DataOK
    <2> QED BY <1>4, <1>5, <2>1 DEF Published
  <1> HIDE DEF made
  <1> QED
    BY <1>4, <1>5, <1>6, <1>7 DEF Contract!Publish, Proposed, Published

(* The import implements AuditImportContract: every step of a request, a   *)
(* worker or the sweep proposes, approves or publishes as the contract     *)
(* allows, or is invisible to it.                                          *)
THEOREM ImplementsContract == Spec => KeepsContract
  <1>1. Init => Contract!Init
    BY DEF Init, Contract!Init
  <1>2. ASSUME IInv, [Next]_vars
        PROVE  [Contract!Next]_(Contract!contractVars)
    <2>1. CASE UNCHANGED rows
      BY <2>1 DEF rows, Contract!contractVars
    <2>2. ASSUME NEW a \in Agents, FinishReview(a)
          PROVE  [Contract!Next]_(Contract!contractVars)
      BY <1>2, <2>2, ReviewMaps DEF Proposed, Published, Contract!Next, Contract!contractVars
    <2>3. ASSUME NEW a \in Agents, CompleteProcess(a)
          PROVE  [Contract!Next]_(Contract!contractVars)
      BY <1>2, <2>3, AnalysisMaps DEF Contract!Next
    <2>4. ASSUME NEW a \in Agents, NextChunk(a)
          PROVE  [Contract!Next]_(Contract!contractVars)
      BY <1>2, <2>4, ChunkMaps DEF Contract!Next
    <2> QED BY <1>2, <2>1, <2>2, <2>3, <2>4, RowSteps
  <1> QED
    BY <1>1, <1>2, ImportInvariant, PTL DEF Spec, KeepsContract, Contract!Spec
=============================================================================
