------------------------ MODULE ExternalAuditImport ------------------------
(***************************************************************************)
(* One external audit import job: an uploaded audit report is queued,      *)
(* analysed by a Celery worker into draft findings, reviewed by operators, *)
(* and its accepted drafts are promoted in chunks to live AuditFindings.   *)
(*                                                                         *)
(* Every request and every task is a database session: it reads the job    *)
(* and the drafts, and writes later by primary key what it decided from    *)
(* that reading.  `session` holds what each one read.  A session holds the *)
(* job's row lock from its first UPDATE to its commit; `lock` names the    *)
(* holder where other work happens in between.                             *)
(***************************************************************************)
EXTENDS Integers, FiniteSets

CONSTANTS
  Drafts,      \* the draft rows an analysis may create
  Operators,   \* users with a request that may be in flight
  Workers,     \* Celery worker processes
  ChunkSize,   \* PROMOTE_CHUNK_SIZE
  MaxRetries,  \* max_retries of both tasks
  MaxBatches,  \* bound: how often the document is analysed successfully
  MaxTasks,    \* bound: tasks outstanding in the broker
  Requests,    \* what operators do
  Faults,      \* what may go wrong
  NoHolder     \* nobody holds the job's row lock

AllRequests == {"get", "queue", "process", "review", "promote"}

(* crash: a worker or a request's process dies.  error: an exception other *)
(* than the ones process_job turns into FAILED.  draft_failure: one draft  *)
(* cannot be materialised.  broker_down: delay() raises.  backlog: tasks   *)
(* wait for a worker longer than the timers of the job.                    *)
AllFaults == {"crash", "error", "draft_failure", "broker_down", "backlog"}

Agents == Operators \cup Workers

ASSUME ImportAssumption ==
  /\ ChunkSize \in Nat \ {0}
  /\ MaxRetries \in Nat
  /\ MaxBatches \in Nat
  /\ MaxTasks \in Nat
  /\ Requests \subseteq AllRequests
  /\ Faults \subseteq AllFaults
  /\ Operators \cap Workers = {}
  /\ NoHolder \notin Agents

Statuses ==
  {"pending", "queued", "processing", "review_required", "promoting", "completed", "failed"}
Analysable == {"queued", "processing"}
DraftStatuses == {"absent", "draft", "accepted", "rejected", "promoted"}
Verdicts == {"accepted", "rejected", "draft"}
Tasks == [kind : {"process", "promote"}, tries : 0..MaxRetries]

VARIABLES
  job,       \* status; aged: updated_at is older than the TTL; lease: promote_lease_expires_at
  batch,     \* the analysis the draft rows come from: a new one has new primary keys
  draft,     \* ExternalAuditDraft.status
  link,      \* whether promoted_finding_id is set
  findings,  \* AuditFinding rows made from the draft
  approved,  \* history: drafts of this batch whose acceptance was committed
  lock,      \* the session that holds the job's row lock over several steps
  broker,    \* tasks waiting, by kind and retry count
  session    \* what each request or task has read and is doing

vars == <<job, batch, draft, link, findings, approved, lock, broker, session>>
rows == <<batch, draft, link, findings, approved>>

Pcs == {"idle", "get", "queue", "queue_sent", "queue_unsent", "review",
        "promote", "dispatch", "process", "processing", "chunks"}

Idle == [pc |-> "idle", tries |-> 0, seen |-> "pending", rec |-> FALSE,
         todo |-> {}, accepted |-> {}, linked |-> {}, value |-> "none", batch |-> 0, failed |-> FALSE]

Linked == {d \in Drafts : link[d]}
Accepted == {d \in Drafts : draft[d] = "accepted"}

(* What get_job's _recover_stale_processing finds, and turns it into.      *)
Stale ==
  \/ job.status \in Analysable /\ job.aged
  \/ job.status = "promoting" /\ job.lease = "expired"
  \/ job.status = "promoting" /\ job.lease = "none" /\ job.aged

Recovered ==
  IF ~Stale THEN job.status
  ELSE IF job.status \in Analysable THEN "failed" ELSE "review_required"

(* get_job at the start of a handler, and the drafts a promoter reads.     *)
Reading(pc, tries) ==
  [Idle EXCEPT !.pc = pc, !.tries = tries, !.seen = Recovered, !.rec = Stale]
ReadingDrafts_NoLinks(tries, todo) ==  \* slip: promoted_finding_id is not looked at
  [Reading("chunks", tries) EXCEPT !.todo = todo, !.accepted = todo, !.batch = batch]

ReadingDrafts(tries, todo) ==
  [Reading("chunks", tries) EXCEPT !.todo = todo, !.accepted = todo,
                                   !.linked = Linked, !.batch = batch]

(* UPDATE of the job's status; every UPDATE refreshes updated_at.          *)
Touched(status) == [job EXCEPT !.status = status, !.aged = FALSE]

(* The flush of _recover_stale_processing, by primary key.                 *)
Flushed(s) ==
  [Touched(s.seen) EXCEPT !.lease = IF s.seen = "review_required" THEN "none" ELSE @]

Free(a) == lock \in {NoHolder, a}

Init ==
  /\ job = [status |-> "pending", aged |-> FALSE, lease |-> "none"]
  /\ batch = 0
  /\ draft = [d \in Drafts |-> "absent"]
  /\ link = [d \in Drafts |-> FALSE]
  /\ findings = [d \in Drafts |-> 0]
  /\ approved = {}
  /\ lock = NoHolder
  /\ broker = [t \in Tasks |-> 0]
  /\ session = [a \in Agents |-> Idle]

At(a, pc) == session[a].pc = pc
Become(a, s) == session' = [session EXCEPT ![a] = s]
Send(t) == broker' = [broker EXCEPT ![t] = @ + 1]

Outstanding ==
  Cardinality({p \in Tasks \X (1..MaxTasks) : p[2] <= broker[p[1]]})
    + Cardinality({a \in Agents : ~At(a, "idle")})

(***************************************************************************)
(* Failures of a session.                                                  *)
(***************************************************************************)
KindOf(pc) == IF pc = "chunks" THEN "promote" ELSE "process"

(* An exception leaves the handler: a request answers with an error, a     *)
(* task calls self.retry(exc=exc), which raises exc itself once max_retries *)
(* is spent: the `except MaxRetriesExceededError` around it is not reached. *)
EndInError(a) ==
  /\ Become(a, Idle)
  /\ IF a \in Workers /\ session[a].tries < MaxRetries
       THEN Send([kind |-> KindOf(session[a].pc), tries |-> session[a].tries + 1])
       ELSE UNCHANGED broker

(* The process dies: the transaction rolls back.  A task whose worker died *)
(* is delivered again (task_acks_late) or lost with it.                    *)
Crash(a) ==
  /\ "crash" \in Faults
  /\ ~At(a, "idle")
  /\ Become(a, Idle)
  /\ lock' = IF lock = a THEN NoHolder ELSE lock
  /\ \/ UNCHANGED broker
     \/ a \in Workers /\ Send([kind |-> KindOf(session[a].pc), tries |-> session[a].tries])
  /\ UNCHANGED <<job, rows>>

(* An UPDATE by primary key waits for the row lock; a conditional one only *)
(* if the committed row satisfies its condition.                           *)
NeedsLock(a) ==
  \/ session[a].pc \in {"get", "queue", "review", "chunks"}
  \/ At(a, "process") /\ (session[a].rec \/ job.status \in Analysable)
  \/ At(a, "promote") /\ (session[a].rec \/ job.status = "review_required")

(* statement_timeout: a statement that waits for the row lock gives up.    *)
StatementTimeout(a) ==
  /\ NeedsLock(a)
  /\ ~Free(a)
  /\ EndInError(a)
  /\ UNCHANGED <<job, rows, lock>>

(***************************************************************************)
(* GET /jobs/{id}, and every handler that goes no further than get_job.    *)
(***************************************************************************)
StartGet(o) ==
  /\ "get" \in Requests /\ At(o, "idle")
  /\ Stale
  /\ Become(o, Reading("get", 0))
  /\ UNCHANGED <<job, rows, lock, broker>>

FinishGet(a) ==
  /\ At(a, "get") /\ Free(a)
  /\ job' = Flushed(session[a])
  /\ Become(a, Idle)
  /\ UNCHANGED <<rows, lock, broker>>

(***************************************************************************)
(* POST /jobs/{id}/queue: queue_job, delay(), mark_queue_dispatch_failed,  *)
(* and the commit after the handler has returned.                          *)
(***************************************************************************)
StartQueue(o) ==
  /\ "queue" \in Requests /\ At(o, "idle")
  /\ Recovered \in {"pending", "failed"}
  /\ Outstanding < MaxTasks
  /\ Become(o, Reading("queue", 0))
  /\ UNCHANGED <<job, rows, lock, broker>>

(* QUEUED is flushed, not committed, when the task is handed over. *)
FlushQueue(o) ==
  /\ At(o, "queue") /\ Free(o)
  /\ lock' = o
  /\ \/ /\ Send([kind |-> "process", tries |-> 0])
        /\ Become(o, [session[o] EXCEPT !.pc = "queue_sent"])
     \/ /\ "broker_down" \in Faults
        /\ Become(o, [session[o] EXCEPT !.pc = "queue_unsent"])
        /\ UNCHANGED broker
  /\ UNCHANGED <<job, rows>>

CommitQueue(o) ==
  /\ session[o].pc \in {"queue_sent", "queue_unsent"}
  /\ job' = Touched(IF At(o, "queue_sent") THEN "queued" ELSE "failed")
  /\ lock' = NoHolder
  /\ Become(o, Idle)
  /\ UNCHANGED <<rows, broker>>

(***************************************************************************)
(* process_job, by a worker or by POST /jobs/{id}/process.                 *)
(***************************************************************************)
StartProcess(o) ==
  /\ "process" \in Requests /\ At(o, "idle")
  /\ job.status \in Analysable
  /\ Become(o, Reading("process", 0))
  /\ UNCHANGED <<job, rows, lock, broker>>

DeliverProcess(w, t) ==
  /\ t.kind = "process" /\ broker[t] > 0 /\ At(w, "idle")
  /\ broker' = [broker EXCEPT ![t] = @ - 1]
  /\ Become(w, Reading("process", t.tries))
  /\ UNCHANGED <<job, rows, lock>>

(* A job get_job has just recovered no longer matches the conditional      *)
(* UPDATE: the recovery is all that is committed.                          *)
SkipRecovered(a) ==
  /\ At(a, "process") /\ session[a].rec /\ Free(a)
  /\ job' = Flushed(session[a])
  /\ Become(a, Idle)
  /\ UNCHANGED <<rows, lock, broker>>

(* The conditional UPDATE looks at the committed row: one that is neither  *)
(* QUEUED nor PROCESSING is skipped without waiting for its lock.          *)
SkipProcess(a) ==
  /\ At(a, "process") /\ ~session[a].rec
  /\ job.status \notin Analysable
  /\ Become(a, Idle)
  /\ UNCHANGED <<job, rows, lock, broker>>

ClaimProcess(a) ==
  /\ At(a, "process") /\ ~session[a].rec /\ Free(a)
  /\ job.status \in Analysable
  /\ lock' = a
  /\ Become(a, [session[a] EXCEPT !.pc = "processing"])
  /\ UNCHANGED <<job, rows, broker>>

FinishProcess(a, status) ==
  /\ At(a, "processing")
  /\ job' = Touched(status)
  /\ lock' = NoHolder
  /\ Become(a, Idle)
  /\ UNCHANGED broker

(* What the assignment of a status commits.  A session that read the job   *)
(* with this status already, before others moved it on to QUEUED, holds an *)
(* object the assignment does not change: the PROCESSING of the            *)
(* conditional UPDATE, which the object missed, is what is committed.      *)
Assigned(a, status) == IF session[a].seen = status THEN "processing" ELSE status

(* Download, OCR or analysis failed, or _clear_existing_drafts found a     *)
(* promoted draft.                                                         *)
FailProcess(a) ==
  /\ FinishProcess(a, Assigned(a, "failed"))
  /\ UNCHANGED rows

(* The analysis found the drafts N, none included. *)
ReplaceDrafts(N) ==
  /\ batch' = batch + 1
  /\ draft' = [d \in Drafts |-> IF d \in N THEN "draft" ELSE "absent"]
  /\ approved' = {}
  /\ UNCHANGED <<link, findings>>

(* Slip: _clear_existing_drafts without its conflict check. *)
CompleteProcess_NoConflict(a) ==
  /\ batch < MaxBatches
  /\ FinishProcess(a, Assigned(a, "review_required"))
  /\ \E N \in SUBSET Drafts : ReplaceDrafts(N)

CompleteProcess(a) ==
  /\ Linked = {}
  /\ batch < MaxBatches
  /\ FinishProcess(a, Assigned(a, "review_required"))
  /\ \E N \in SUBSET Drafts : ReplaceDrafts(N)

(* Slip: the failing task leaves its transaction open. *)
RaiseProcess_NoRollback(a) ==
  /\ "error" \in Faults
  /\ At(a, "processing")
  /\ EndInError(a)
  /\ UNCHANGED <<job, rows, lock>>

RaiseProcess(a) ==
  /\ "error" \in Faults
  /\ At(a, "processing")
  /\ EndInError(a)
  /\ lock' = NoHolder
  /\ UNCHANGED <<job, rows>>

(***************************************************************************)
(* PATCH /drafts/{id} and POST /jobs/{id}/bulk-review.                     *)
(***************************************************************************)
Reviewable_Any == {d \in Drafts : draft[d] # "absent"}  \* slip: PROMOTED drafts too

Reviewable == {d \in Drafts : draft[d] \in Verdicts /\ ~link[d]}

StartReview(o, D, verdict) ==
  /\ "review" \in Requests /\ At(o, "idle")
  /\ Recovered \notin {"promoting", "completed"}
  /\ D # {} /\ \A d \in D : draft[d] # verdict
  /\ Become(o, [Reading("review", 0) EXCEPT
                  !.todo = D, !.value = verdict, !.batch = batch])
  /\ UNCHANGED <<job, rows, lock, broker>>

ReviewOne(o) ==
  \E d \in Reviewable, v \in Verdicts : StartReview(o, {d}, v)

(* Accepting in bulk takes only the drafts nobody has decided. *)
ReviewBulk(o) ==
  \E v \in Verdicts :
    StartReview(o, {d \in Reviewable : /\ draft[d] # v
                                       /\ v = "accepted" => draft[d] = "draft"}, v)

(* The draft rows, and the summary on the job; a row that was replaced in  *)
(* the meantime makes the flush fail.                                      *)
FinishReview(o) ==
  LET s == session[o] IN
  /\ At(o, "review") /\ Free(o)
  /\ IF s.batch = batch
       THEN /\ draft' = [d \in Drafts |-> IF d \in s.todo THEN s.value ELSE draft[d]]
            /\ approved' = IF s.value = "accepted" THEN approved \cup s.todo ELSE approved
            /\ job' = IF s.rec THEN Flushed(s) ELSE Touched(job.status)
       ELSE UNCHANGED <<draft, approved, job>>
  /\ Become(o, Idle)
  /\ UNCHANGED <<batch, link, findings, lock, broker>>

(***************************************************************************)
(* POST /jobs/{id}/promote: enqueue_promote and the dispatch.              *)
(***************************************************************************)
StartPromote(o) ==
  /\ "promote" \in Requests /\ At(o, "idle")
  /\ Accepted # {}
  /\ Stale => Recovered # "failed"
  /\ Outstanding < MaxTasks
  /\ Become(o, Reading("promote", 0))
  /\ UNCHANGED <<job, rows, lock, broker>>

(* The conditional UPDATE to PROMOTING, committed.  The object the request *)
(* holds follows it only if it said REVIEW_REQUIRED; the route dispatches  *)
(* if it says PROMOTING.  The get_job that returns it finds it stale where *)
(* its TTL or lease ran out since it was read: PROMOTING is recovered.     *)
ClaimPromote(o) ==
  LET s == session[o] IN
  /\ At(o, "promote") /\ Free(o)
  /\ s.rec \/ job.status = "review_required"
  /\ job' = [Touched("promoting") EXCEPT !.lease = "live"]
  /\ \/ Become(o, IF s.seen \in {"review_required", "promoting"}
                    THEN [s EXCEPT !.pc = "dispatch"] ELSE Idle)
     \/ /\ s.seen \in Analysable \cup {"promoting"}
        /\ Become(o, [s EXCEPT !.pc = "get",
                       !.seen = IF @ = "promoting" THEN "review_required" ELSE "failed"])
  /\ UNCHANGED <<rows, lock, broker>>

RefusePromote(o) ==
  /\ At(o, "promote") /\ ~session[o].rec
  /\ job.status # "review_required"
  /\ Become(o, Idle)
  /\ UNCHANGED <<job, rows, lock, broker>>

DispatchPromote(o) ==
  /\ At(o, "dispatch")
  /\ \/ /\ Send([kind |-> "promote", tries |-> 0])
        /\ Become(o, Idle)
     \/ /\ "broker_down" \in Faults  \* the synchronous fallback reads the drafts again
        /\ Become(o, [session[o] EXCEPT !.pc = "chunks", !.todo = Accepted, !.accepted = Accepted,
                                        !.linked = Linked, !.batch = batch])
        /\ UNCHANGED broker
  /\ UNCHANGED <<job, rows, lock>>

(***************************************************************************)
(* run_promote_chunks, by a worker or in the request.                      *)
(***************************************************************************)
DeliverPromote_Undecided(w, t) ==  \* slip: everything not rejected is promoted
  /\ t.kind = "promote" /\ broker[t] > 0 /\ At(w, "idle")
  /\ Recovered = "promoting"
  /\ broker' = [broker EXCEPT ![t] = @ - 1]
  /\ Become(w, ReadingDrafts(t.tries, {d \in Drafts : draft[d] \in {"draft", "accepted"}}))
  /\ UNCHANGED <<job, rows, lock>>

DeliverPromote(w, t) ==
  /\ t.kind = "promote" /\ broker[t] > 0 /\ At(w, "idle")
  /\ Recovered = "promoting"
  /\ broker' = [broker EXCEPT ![t] = @ - 1]
  /\ Become(w, ReadingDrafts(t.tries, Accepted))
  /\ UNCHANGED <<job, rows, lock>>

(* COMPLETED returns; any other status raises before the try block: the    *)
(* task is retried and get_job's recovery rolled back.                     *)
RefusePromoteTask(w, t) ==
  /\ t.kind = "promote" /\ broker[t] > 0 /\ At(w, "idle")
  /\ Recovered # "promoting"
  /\ broker' =
       IF job.status = "completed" \/ t.tries = MaxRetries
         THEN [broker EXCEPT ![t] = @ - 1]
         ELSE [broker EXCEPT ![t] = @ - 1, ![[t EXCEPT !.tries = @ + 1]] = @ + 1]
  /\ UNCHANGED <<job, rows, lock, session>>

(* The next ChunkSize drafts; the order of their primary keys is left open. *)
Chunks(todo) ==
  {C \in SUBSET todo :
     Cardinality(C) = IF Cardinality(todo) < ChunkSize THEN Cardinality(todo) ELSE ChunkSize}

PromoteChunk_NoSavepoint(a, C, F) ==  \* slip: a failed draft's finding stays
  LET s == session[a] IN
  /\ At(a, "chunks") /\ Free(a)
  /\ s.batch = batch
  /\ findings' = [d \in Drafts |-> IF d \in C \ s.linked THEN findings[d] + 1 ELSE findings[d]]
  /\ link' = [d \in Drafts |-> link[d] \/ d \in (C \ F) \ s.linked]
  /\ draft' = [d \in Drafts |-> IF d \in C \ F THEN "promoted" ELSE draft[d]]
  /\ job' = [Touched(job.status) EXCEPT !.lease = "live"]
  /\ Become(a, [s EXCEPT !.todo = @ \ C, !.failed = @ \/ F # {}])
  /\ UNCHANGED <<batch, approved, lock, broker>>

(* One chunk and its commit: the drafts of F fail in their savepoint and   *)
(* stay as they are; a draft the session knows to be linked is only        *)
(* relabelled; the others get a finding.                                   *)
PromoteChunk(a, C, F) ==
  LET s == session[a] IN
  /\ At(a, "chunks") /\ Free(a)
  /\ s.batch = batch
  /\ findings' = [d \in Drafts |->
       IF d \in (C \ F) \ s.linked THEN findings[d] + 1 ELSE findings[d]]
  /\ link' = [d \in Drafts |-> link[d] \/ d \in (C \ F) \ s.linked]
  /\ draft' = [d \in Drafts |-> IF d \in C \ F THEN "promoted" ELSE draft[d]]
  /\ job' = [Touched(job.status) EXCEPT !.lease = "live"]
  /\ Become(a, [s EXCEPT !.todo = @ \ C, !.failed = @ \/ F # {}])
  /\ UNCHANGED <<batch, approved, lock, broker>>

NextChunk(a) ==
  \E C \in Chunks(session[a].todo) :
    /\ C # {}
    /\ \E F \in SUBSET (C \ session[a].linked) :
         /\ F # {} => "draft_failure" \in Faults
         /\ PromoteChunk(a, C, F)

FinishPromotion_IgnoresFailures(a) ==  \* slip: COMPLETED whatever failed
  /\ At(a, "chunks") /\ Free(a)
  /\ session[a].todo = {}
  /\ job' = [Touched("completed") EXCEPT !.lease = "none"]
  /\ Become(a, Idle)
  /\ UNCHANGED <<rows, lock, broker>>

(* _finalize_promotion_pipeline and its commit. *)
FinishPromotion(a) ==
  /\ At(a, "chunks") /\ Free(a)
  /\ session[a].todo = {}
  /\ job' = [Touched(IF session[a].failed THEN "review_required" ELSE "completed")
               EXCEPT !.lease = "none"]
  /\ Become(a, Idle)
  /\ UNCHANGED <<rows, lock, broker>>

(* A chunk or the finalisation raised, because a draft row was replaced or *)
(* for any other reason: _recover_job_after_promotion_failure, then raise. *)
RaisePromotion(a) ==
  /\ At(a, "chunks") /\ Free(a)
  /\ "error" \in Faults \/ (session[a].todo # {} /\ session[a].batch # batch)
  /\ job' = Touched("review_required")
  /\ EndInError(a)
  /\ UNCHANGED <<rows, lock>>

(***************************************************************************)
(* recover_stale_import_jobs, every ten minutes, and the passing of time.  *)
(* The sweep's cutoff is longer than get_job's TTL; both count as aged.    *)
(***************************************************************************)
Sweep_IgnoresQueued ==  \* slips: a sweep that recovers one kind of job only
  /\ lock = NoHolder
  /\ job.status = "promoting" /\ job.lease = "expired"
  /\ job' = [Touched("review_required") EXCEPT !.lease = "none"]
  /\ UNCHANGED <<rows, lock, broker, session>>

Sweep_IgnoresPromoting ==
  /\ lock = NoHolder
  /\ job.status \in Analysable /\ job.aged /\ job' = Touched("failed")
  /\ UNCHANGED <<rows, lock, broker, session>>

Sweep ==
  /\ lock = NoHolder
  /\ \/ job.status \in Analysable /\ job.aged /\ job' = Touched("failed")
     \/ /\ job.status = "promoting" /\ job.lease = "expired"
        /\ job' = [Touched("review_required") EXCEPT !.lease = "none"]
  /\ UNCHANGED <<rows, lock, broker, session>>

AtWork(kind, pcs) ==
  \/ \E t \in Tasks : t.kind = kind /\ broker[t] > 0
  \/ \E a \in Agents : session[a].pc \in pcs

Age ==
  /\ job.status \in Analysable \/ (job.status = "promoting" /\ job.lease = "none")
  /\ ~job.aged
  /\ "backlog" \in Faults \/ ~AtWork("process", {"process", "processing"})
  /\ job' = [job EXCEPT !.aged = TRUE]
  /\ UNCHANGED <<rows, lock, broker, session>>

LeaseExpire ==
  /\ job.status = "promoting" /\ job.lease = "live"
  /\ "backlog" \in Faults \/ ~AtWork("promote", {"dispatch", "chunks"})
  /\ job' = [job EXCEPT !.lease = "expired"]
  /\ UNCHANGED <<rows, lock, broker, session>>

Arrive(o) ==
  StartGet(o) \/ StartQueue(o) \/ StartProcess(o) \/ ReviewOne(o) \/ ReviewBulk(o) \/ StartPromote(o)

Deliver(w) ==
  \E t \in Tasks : DeliverProcess(w, t) \/ DeliverPromote(w, t) \/ RefusePromoteTask(w, t)

Proceed(a) ==
  \/ FinishGet(a) \/ FlushQueue(a) \/ CommitQueue(a)
  \/ SkipRecovered(a) \/ SkipProcess(a) \/ ClaimProcess(a) \/ FailProcess(a) \/ CompleteProcess(a)
  \/ FinishReview(a)
  \/ ClaimPromote(a) \/ RefusePromote(a) \/ DispatchPromote(a)
  \/ NextChunk(a) \/ FinishPromotion(a)

Fail(a) == RaiseProcess(a) \/ RaisePromotion(a) \/ StatementTimeout(a) \/ Crash(a)

Next ==
  \/ \E o \in Operators : Arrive(o)
  \/ \E w \in Workers : Deliver(w)
  \/ \E a \in Agents : Proceed(a) \/ Fail(a)
  \/ Sweep \/ Age \/ LeaseExpire

Spec == Init /\ [][Next]_vars

(* Handlers and tasks run on, a worker takes a waiting task, beat runs the *)
(* sweep, and time passes.  The sweep skips nothing for good: the lock is  *)
(* only ever held for a while (SF).  Nobody owes the system a request.     *)
Fairness ==
  /\ \A a \in Agents : WF_vars(Proceed(a))
  /\ \A w \in Workers : WF_vars(Deliver(w))
  /\ SF_vars(Sweep) /\ WF_vars(Age) /\ WF_vars(LeaseExpire)

FairSpec == Spec /\ Fairness

(***************************************************************************)
(* Properties.                                                             *)
(***************************************************************************)
SessionType ==
  [pc : Pcs, tries : 0..MaxRetries, seen : Statuses, rec : BOOLEAN,
   todo : SUBSET Drafts, accepted : SUBSET Drafts, linked : SUBSET Drafts, value : Verdicts \cup {"none"},
   batch : Nat, failed : BOOLEAN]

LockingPcs == {"queue_sent", "queue_unsent", "processing"}

(* Types; and the row lock is held by exactly the session that is between  *)
(* its first UPDATE of the job and its commit, if there is one.            *)
TypeOK ==
  /\ job \in [status : Statuses, aged : BOOLEAN, lease : {"none", "live", "expired"}]
  /\ batch \in Nat
  /\ draft \in [Drafts -> DraftStatuses]
  /\ link \in [Drafts -> BOOLEAN]
  /\ findings \in [Drafts -> Nat]
  /\ approved \in SUBSET Drafts
  /\ lock \in Agents \cup {NoHolder}
  /\ broker \in [Tasks -> Nat]
  /\ session \in [Agents -> SessionType]
  /\ \A a \in Agents : session[a].pc \in LockingPcs <=> lock = a

(* The human gate: whatever races with whatever, no finding goes live that *)
(* an operator has not accepted since the analysis that produced it.       *)
HumanGate == \A d \in Drafts : findings[d] > 0 => d \in approved

(* A draft and the findings made from it agree: a finding exists if and    *)
(* only if the draft points at one, a PROMOTED draft always points at one, *)
(* and a draft that points at one still exists.                            *)
FindingsAreLinked ==
  \A d \in Drafts :
    /\ findings[d] > 0 <=> link[d]
    /\ draft[d] = "promoted" => link[d]
    /\ link[d] => draft[d] # "absent"

(* A promoting job has a lease, without which the sweep never finds it.    *)
PromotingHasLease == job.status = "promoting" => job.lease # "none"

(* A new analysis never replaces drafts that have gone live: the check in  *)
(* _clear_existing_drafts and a concurrent promotion exclude each other.   *)
ReanalysisSparesFindings ==
  [][batch' # batch => \A d \in Drafts : findings[d] = 0 /\ findings'[d] = 0]_vars

(* The import keeps the contract of AuditImportContract: approval gates     *)
(* publication across crashes, retries, stale writes and re-analyses.      *)
Contract ==
  INSTANCE AuditImportContract WITH
    proposed <- {d \in Drafts : draft[d] # "absent"},
    published <- {d \in Drafts : findings[d] > 0}
KeepsContract == Contract!Spec

(* No queued (or orphaned processing) job stays so, whatever task is lost. *)
QueuedEnds == job.status \in Analysable ~> job.status \notin Analysable

(* No job stays PROMOTING, whatever dies.                                  *)
PromotingEnds == job.status = "promoting" ~> job.status # "promoting"

(* An accepted draft becomes at most one finding.                          *)
AtMostOneFinding == \A d \in Drafts : findings[d] <= 1

(* COMPLETED closes the job for good, so the promotion that sets it leaves  *)
(* behind none of the drafts it took on: each has its finding, made in this *)
(* promotion or in an earlier one that did not get so far.                 *)
CompletedPromotesAll ==
  [][\A a \in Agents :
       FinishPromotion(a) /\ job'.status = "completed" =>
         session[a].accepted \subseteq Linked]_vars

(* What the code says of review_draft: "Promoted drafts can no longer be   *)
(* modified".                                                              *)
PromotedIsFinal ==
  [][\A d \in Drafts : draft[d] = "promoted" => draft'[d] = "promoted"]_vars

(* Promotions under way that read the draft before it had a finding, and   *)
(* reviews under way that read it before it was promoted.                  *)
Unaware(d) ==
  {a \in Agents : /\ At(a, "chunks") /\ session[a].batch = batch
                  /\ d \in session[a].todo \ session[a].linked}
Overwriters(d) ==
  {a \in Agents : At(a, "review") /\ session[a].batch = batch /\ d \in session[a].todo}

(* Once a draft has its finding, no promotion that reads it later makes    *)
(* another, whether it is retried, redelivered or new; one that had read   *)
(* the draft before makes at most one, and is then done with it.           *)
DuplicatesAreOld ==
  [][\A d \in Drafts : link[d] =>
       /\ link'[d] /\ Unaware(d)' \subseteq Unaware(d)
       /\ findings'[d] # findings[d] =>
            findings'[d] = findings[d] + 1 /\ Unaware(d)' # Unaware(d)]_vars

(* Likewise for reviews: only one that read a draft before it went live    *)
(* writes over its PROMOTED, and only once.                                *)
OverwritesAreOld ==
  [][\A d \in Drafts : link[d] =>
       /\ Overwriters(d)' \subseteq Overwriters(d)
       /\ draft[d] = "promoted" /\ draft'[d] # "promoted" =>
            Overwriters(d)' # Overwriters(d)]_vars
============================================================================
