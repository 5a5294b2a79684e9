------------------------- MODULE StaleSessionProofs -------------------------
(***************************************************************************)
(* What sessions that overlap may do to a draft that has gone live, for    *)
(* any number of drafts, operators, workers and tasks.  Nothing stops a    *)
(* promotion or a review that read the draft earlier; every one that reads *)
(* it later is harmless, and each of the old ones acts at most once.       *)
(***************************************************************************)
EXTENDS ExternalAuditImportProofs

(***************************************************************************)
(* How a session comes to promote, or to review.                           *)
(***************************************************************************)
StartsReading(a) ==
  /\ session'[a].todo = Accepted /\ session'[a].accepted = Accepted
  /\ session'[a].linked = Linked /\ session'[a].batch = batch
  /\ UNCHANGED rows

StartsReviewing(a) ==
  /\ session'[a].todo \subseteq Reviewable /\ session'[a].batch = batch
  /\ UNCHANGED rows

(* In one step a session stays as it is, begins to read, promotes a chunk, *)
(* or is neither promoting nor reviewing afterwards.                       *)
Moves(a) ==
  \/ session'[a] = session[a]
  \/ session'[a].pc = "chunks" /\ StartsReading(a)
  \/ session'[a].pc = "chunks" /\ NextChunk(a)
  \/ session'[a].pc = "review" /\ StartsReviewing(a)
  \/ session'[a].pc \notin {"chunks", "review"}

LEMMA OthersStay ==
  ASSUME IInv, NEW a \in Agents, NEW s, Become(a, s)
  PROVE  session'[a] = s /\ \A b \in Agents \ {a} : session'[b] = session[b]
  BY Context DEF SessionsOK, Become

LEMMA Stays ==
  ASSUME IInv, NEW a \in Agents, NEW s, Become(a, s),
         s.pc \notin {"chunks", "review"}
  PROVE  \A b \in Agents : Moves(b)
  BY OthersStay DEF Moves

LEMMA ArrivalMoves ==
  ASSUME ImportAssumption, IInv, NEW o \in Operators, Arrive(o)
  PROVE  \A b \in Agents : Moves(b)
  <1>1. o \in Agents /\ job \in JobType /\ batch \in Nat
    BY Context DEF Agents, DataOK
  <1>2. ASSUME NEW pc \in {"get", "queue", "process", "promote"}, Become(o, Reading(pc, 0))
        PROVE  \A b \in Agents : Moves(b)
    <2>1. Reading(pc, 0).pc = pc
      BY DEF Reading, Idle
    <2> QED BY <1>1, <1>2, <2>1, Stays
  <1>3. ASSUME NEW D \in SUBSET Reviewable, NEW v, StartReview(o, D, v)
        PROVE  \A b \in Agents : Moves(b)
    <2> DEFINE s == [Reading("review", 0) EXCEPT !.todo = D, !.value = v, !.batch = batch]
    <2>1. s.pc = "review" /\ s.todo = D /\ s.batch = batch
      BY DEF Reading, Idle
    <2>2. Become(o, s) /\ UNCHANGED rows
      BY <1>3 DEF StartReview
    <2> HIDE DEF s
    <2> QED BY <1>1, <2>1, <2>2, OthersStay DEF Moves, StartsReviewing
  <1>4. CASE StartGet(o) \/ StartQueue(o) \/ StartProcess(o) \/ StartPromote(o)
    BY <1>2, <1>4 DEF StartGet, StartQueue, StartProcess, StartPromote
  <1>5. CASE ReviewOne(o)
    <2>1. PICK d \in Reviewable, v \in Verdicts : StartReview(o, {d}, v)
      BY <1>5 DEF ReviewOne
    <2> QED BY <2>1, <1>3
  <1>6. CASE ReviewBulk(o)
    <2>1. PICK v \in Verdicts :
            StartReview(o, {d \in Reviewable : /\ draft[d] # v
                                               /\ v = "accepted" => draft[d] = "draft"}, v)
      BY <1>6 DEF ReviewBulk
    <2> QED BY <2>1, <1>3
  <1> QED BY <1>4, <1>5, <1>6 DEF Arrive

LEMMA DeliveryMoves ==
  ASSUME ImportAssumption, IInv, NEW w \in Workers, Deliver(w)
  PROVE  \A b \in Agents : Moves(b)
  <1>1. w \in Agents
    BY DEF Agents
  <1>2. PICK t \in Tasks : DeliverProcess(w, t) \/ DeliverPromote(w, t) \/ RefusePromoteTask(w, t)
    BY DEF Deliver
  <1>3. CASE DeliverProcess(w, t)
    <2>1. Become(w, Reading("process", t.tries)) /\ Reading("process", t.tries).pc = "process"
      BY <1>3 DEF DeliverProcess, Reading, Idle
    <2> QED BY <1>1, <2>1, Stays
  <1>4. CASE DeliverPromote(w, t)
    <2>1. /\ ReadingDrafts(t.tries, Accepted).pc = "chunks"
          /\ ReadingDrafts(t.tries, Accepted).todo = Accepted
          /\ ReadingDrafts(t.tries, Accepted).accepted = Accepted
          /\ ReadingDrafts(t.tries, Accepted).linked = Linked
          /\ ReadingDrafts(t.tries, Accepted).batch = batch
      BY DEF ReadingDrafts, Reading, Idle
    <2>2. Become(w, ReadingDrafts(t.tries, Accepted)) /\ UNCHANGED rows
      BY <1>4 DEF DeliverPromote
    <2> QED BY <1>1, <2>1, <2>2, OthersStay DEF Moves, StartsReading
  <1>5. CASE RefusePromoteTask(w, t)
    BY <1>5 DEF RefusePromoteTask, Moves
  <1> QED BY <1>2, <1>3, <1>4, <1>5
LEMMA EndMoves ==
  ASSUME ImportAssumption, IInv, NEW a \in Agents, Proceed(a) \/ Fail(a)
  PROVE  \A b \in Agents : Moves(b)
  <1>0. Idle.pc = "idle"
    BY DEF Idle
  <1>1. ASSUME Become(a, Idle) PROVE \A b \in Agents : Moves(b)
    BY <1>0, <1>1, Stays
  <1>2. ASSUME NEW s, Become(a, s), s.pc \in {"queue_sent", "queue_unsent", "processing", "dispatch", "get"}
        PROVE  \A b \in Agents : Moves(b)
    BY <1>2, Stays
  <1>3. session[a] \in SessionType
    BY Context
  <1>4. CASE FlushQueue(a)
    <2>1. /\ [session[a] EXCEPT !.pc = "queue_sent"].pc = "queue_sent"
          /\ [session[a] EXCEPT !.pc = "queue_unsent"].pc = "queue_unsent"
      BY <1>3 DEF SessionType
    <2> QED BY <1>2, <1>4, <2>1 DEF FlushQueue
  <1>5. CASE ClaimProcess(a)
    <2>1. [session[a] EXCEPT !.pc = "processing"].pc = "processing"
      BY <1>3 DEF SessionType
    <2> QED BY <1>2, <1>5, <2>1 DEF ClaimProcess
  <1>6. CASE ClaimPromote(a)
    <2>1. [session[a] EXCEPT !.pc = "dispatch"].pc = "dispatch"
      BY <1>3 DEF SessionType
    <2>2. ASSUME NEW seen PROVE [session[a] EXCEPT !.pc = "get", !.seen = seen].pc = "get"
      BY <1>3 DEF SessionType
    <2>3. \/ Become(a, Idle) \/ Become(a, [session[a] EXCEPT !.pc = "dispatch"])
          \/ \E seen \in {"failed", "review_required"} :
               Become(a, [session[a] EXCEPT !.pc = "get", !.seen = seen])
      BY <1>6 DEF ClaimPromote
    <2> QED BY <1>1, <1>2, <2>1, <2>2, <2>3
  <1>7. CASE DispatchPromote(a)
    <2>1. ASSUME NEW s, Become(a, s), UNCHANGED rows,
                 s = [session[a] EXCEPT !.pc = "chunks", !.todo = Accepted, !.accepted = Accepted,
                                        !.linked = Linked, !.batch = batch]
          PROVE  \A b \in Agents : Moves(b)
      <3>1. /\ s.pc = "chunks" /\ s.todo = Accepted /\ s.accepted = Accepted
            /\ s.linked = Linked /\ s.batch = batch
        BY <1>3, <2>1 DEF SessionType
      <3> QED BY <2>1, <3>1, OthersStay DEF Moves, StartsReading
    <2> QED BY <1>1, <1>7, <2>1 DEF DispatchPromote
  <1>8. CASE NextChunk(a)
    <2>1. PICK C \in SUBSET session[a].todo :
            \E F \in SUBSET (C \ session[a].linked) : PromoteChunk(a, C, F)
      BY <1>8, ChunksAreDrafts
    <2>2. PICK F \in SUBSET (C \ session[a].linked) : PromoteChunk(a, C, F)
      BY <2>1
    <2> DEFINE n == [session[a] EXCEPT !.todo = @ \ C, !.failed = @ \/ F # {}]
    <2>3. Become(a, n) /\ session[a].pc = "chunks"
      BY <2>2 DEF PromoteChunk, At
    <2>4. n.pc = "chunks"
      BY <1>3, <2>3 DEF SessionType
    <2> HIDE DEF n
    <2> QED BY <1>8, <2>3, <2>4, OthersStay DEF Moves
  <1>9. ASSUME EndInError(a) PROVE \A b \in Agents : Moves(b)
    BY <1>1, <1>9 DEF EndInError
  <1>10. CASE Fail(a)
    BY <1>1, <1>9, <1>10 DEF Fail, RaiseProcess, RaisePromotion, StatementTimeout, Crash
  <1>11. CASE \/ FinishGet(a) \/ CommitQueue(a) \/ SkipRecovered(a) \/ SkipProcess(a)
              \/ FailProcess(a) \/ CompleteProcess(a) \/ FinishReview(a)
              \/ RefusePromote(a) \/ FinishPromotion(a)
    BY <1>1, <1>11 DEF FinishGet, CommitQueue, SkipRecovered, SkipProcess, FailProcess,
       CompleteProcess, FinishProcess, FinishReview, RefusePromote, FinishPromotion
  <1> QED BY <1>4, <1>5, <1>6, <1>7, <1>8, <1>10, <1>11 DEF Proceed
LEMMA EveryoneMoves ==
  ASSUME ImportAssumption, IInv, [Next]_vars
  PROVE  \A b \in Agents : Moves(b)
  <1>1. CASE Sweep \/ Age \/ LeaseExpire \/ UNCHANGED vars
    BY <1>1 DEF Sweep, Age, LeaseExpire, vars, Moves
  <1> QED BY <1>1, ArrivalMoves, DeliveryMoves, EndMoves DEF Next

(* A chunk, told row by row. *)
ChunkOf(a, C, F) ==
  /\ At(a, "chunks") /\ session[a].batch = batch /\ batch' = batch
  /\ \A d \in Drafts : findings'[d] =
       IF d \in (C \ F) \ session[a].linked THEN findings[d] + 1 ELSE findings[d]
  /\ \A d \in Drafts : link'[d] = (link[d] \/ d \in (C \ F) \ session[a].linked)
  /\ \A d \in Drafts : draft'[d] = IF d \in C \ F THEN "promoted" ELSE draft[d]
  /\ session'[a] = [session[a] EXCEPT !.todo = session[a].todo \ C,
                                      !.failed = session[a].failed \/ F # {}]
  /\ \A b \in Agents \ {a} : session'[b] = session[b]

LEMMA ChunkRows ==
  ASSUME IInv, NEW a \in Agents, NextChunk(a)
  PROVE  \E C \in SUBSET session[a].todo : \E F \in SUBSET (C \ session[a].linked) :
           ChunkOf(a, C, F)
  <1>1. PICK C \in SUBSET session[a].todo :
          \E F \in SUBSET (C \ session[a].linked) : PromoteChunk(a, C, F)
    BY ChunksAreDrafts
  <1>2. PICK F \in SUBSET (C \ session[a].linked) : PromoteChunk(a, C, F)
    BY <1>1
  <1> DEFINE n == [session[a] EXCEPT !.todo = @ \ C, !.failed = @ \/ F # {}]
  <1>3. Become(a, n)
    BY <1>2 DEF PromoteChunk
  <1>4. session'[a] = n /\ \A b \in Agents \ {a} : session'[b] = session[b]
    BY <1>3, OthersStay
  <1>5. /\ At(a, "chunks") /\ session[a].batch = batch /\ batch' = batch
        /\ \A d \in Drafts : findings'[d] =
             IF d \in (C \ F) \ session[a].linked THEN findings[d] + 1 ELSE findings[d]
        /\ \A d \in Drafts : link'[d] = (link[d] \/ d \in (C \ F) \ session[a].linked)
        /\ \A d \in Drafts : draft'[d] = IF d \in C \ F THEN "promoted" ELSE draft[d]
    BY <1>2 DEF PromoteChunk
  <1> QED BY <1>4, <1>5 DEF ChunkOf

(* What a promotion that is under way read and knows.                      *)
LEMMA ChunkSession ==
  ASSUME IInv, NEW a \in Agents, At(a, "chunks")
  PROVE  /\ session[a].todo \subseteq Drafts /\ session[a].accepted \subseteq Drafts
         /\ session[a].batch = batch => session[a].linked \subseteq Linked
         /\ session[a] \in SessionType
  BY Context DEF Honest, SessionType, At

(* A draft that points at its finding keeps it, and its batch stays.       *)
LEMMA LinkedStays ==
  ASSUME ImportAssumption, IInv, [Next]_vars, NEW d \in Drafts, link[d]
  PROVE  link'[d] /\ batch' = batch
  <1>1. CASE UNCHANGED rows
    BY <1>1 DEF rows
  <1>2. ASSUME NEW a \in Agents, FinishReview(a) PROVE link'[d] /\ batch' = batch
    BY <1>2 DEF FinishReview
  <1>3. ASSUME NEW a \in Agents, CompleteProcess(a) PROVE FALSE
    BY <1>3 DEF CompleteProcess, Linked
  <1>4. ASSUME NEW a \in Agents, NextChunk(a) PROVE link'[d] /\ batch' = batch
    BY <1>4, ChunkRows, Zenon DEF ChunkOf
  <1> QED BY <1>1, <1>2, <1>3, <1>4, RowSteps

LEMMA UnawareShrinks ==
  ASSUME ImportAssumption, IInv, [Next]_vars, NEW d \in Drafts, link[d]
  PROVE  Unaware(d)' \subseteq Unaware(d)
  <1> SUFFICES ASSUME NEW a \in Agents, session'[a].pc = "chunks", session'[a].batch = batch',
                      d \in session'[a].todo, d \notin session'[a].linked
               PROVE  a \in Unaware(d)
    BY DEF Unaware, At
  <1>1. batch' = batch /\ d \in Linked
    BY LinkedStays DEF Linked
  <1>2. Moves(a)
    BY EveryoneMoves
  <1>3. CASE session'[a] = session[a]
    BY <1>1, <1>3 DEF Unaware, At
  <1>4. CASE StartsReading(a)
    BY <1>1, <1>4 DEF StartsReading
  <1>5. CASE NextChunk(a)
    <2>1. PICK C \in SUBSET session[a].todo :
            \E F \in SUBSET (C \ session[a].linked) : ChunkOf(a, C, F)
      BY <1>5, ChunkRows
    <2>2. session'[a].todo \subseteq session[a].todo /\ session'[a].linked = session[a].linked
      BY <2>1, Context DEF SessionType, ChunkOf
    <2> QED BY <2>1, <2>2 DEF Unaware, ChunkOf
  <1> QED BY <1>2, <1>3, <1>4, <1>5 DEF Moves

LEMMA DuplicateIsOld ==
  ASSUME ImportAssumption, IInv, [Next]_vars, NEW d \in Drafts, link[d],
         findings'[d] # findings[d]
  PROVE  findings'[d] = findings[d] + 1 /\ Unaware(d)' # Unaware(d)
  <1>1. PICK a \in Agents : NextChunk(a)
    BY RowSteps DEF rows, FinishReview, CompleteProcess, ReplaceDrafts
  <1>2. PICK C \in SUBSET session[a].todo :
          \E F \in SUBSET (C \ session[a].linked) : ChunkOf(a, C, F)
    BY <1>1, ChunkRows
  <1>3. findings'[d] = findings[d] + 1 /\ d \in C /\ d \notin session[a].linked
    BY <1>2 DEF ChunkOf
  <1>4. a \in Unaware(d)
    BY <1>2, <1>3 DEF Unaware, ChunkOf
  <1>5. d \notin session'[a].todo
    BY <1>2, <1>3, Context DEF SessionType, ChunkOf
  <1>6. a \notin Unaware(d)'
    BY <1>5 DEF Unaware
  <1> QED BY <1>3, <1>4, <1>6

(* Once a draft has its finding, promotions that read it later make no     *)
(* other one, and each of those that read it before at most one.           *)
THEOREM DuplicatesComeFromBefore == Spec => DuplicatesAreOld
  <1> DEFINE A == \A d \in Drafts : link[d] =>
                    /\ link'[d] /\ Unaware(d)' \subseteq Unaware(d)
                    /\ findings'[d] # findings[d] =>
                         findings'[d] = findings[d] + 1 /\ Unaware(d)' # Unaware(d)
  <1>1. IInv /\ [Next]_vars => A
    BY ImportAssumption, LinkedStays, UnawareShrinks, DuplicateIsOld
  <1>2. IInv /\ [Next]_vars => [A]_vars
    BY <1>1
  <1> QED BY <1>2, ImportInvariant, PTL DEF Spec, DuplicatesAreOld
LEMMA OverwritersShrink ==
  ASSUME ImportAssumption, IInv, [Next]_vars, NEW d \in Drafts, link[d]
  PROVE  Overwriters(d)' \subseteq Overwriters(d)
  <1> SUFFICES ASSUME NEW a \in Agents, session'[a].pc = "review", session'[a].batch = batch',
                      d \in session'[a].todo
               PROVE  a \in Overwriters(d)
    BY DEF Overwriters, At
  <1>1. batch' = batch /\ d \notin Reviewable
    BY LinkedStays DEF Reviewable
  <1>2. Moves(a)
    BY EveryoneMoves
  <1>3. CASE session'[a] = session[a]
    BY <1>1, <1>3 DEF Overwriters, At
  <1>4. CASE StartsReviewing(a)
    BY <1>1, <1>4 DEF StartsReviewing
  <1> QED BY <1>2, <1>3, <1>4 DEF Moves

LEMMA OverwriteIsOld ==
  ASSUME ImportAssumption, IInv, [Next]_vars, NEW d \in Drafts, link[d],
         draft[d] = "promoted", draft'[d] # "promoted"
  PROVE  Overwriters(d)' # Overwriters(d)
  <1>1. ASSUME NEW a \in Agents, NextChunk(a) PROVE FALSE
    <2>1. draft'[d] \in {"promoted", draft[d]}
      BY <1>1, ChunkRows DEF ChunkOf
    <2> QED BY <2>1
  <1>2. ASSUME NEW a \in Agents, CompleteProcess(a) PROVE FALSE
    BY <1>2 DEF CompleteProcess, Linked
  <1>3. PICK o \in Agents : FinishReview(o)
    BY <1>1, <1>2, RowSteps DEF rows
  <1>4. o \in Overwriters(d)
    BY <1>3 DEF FinishReview, Overwriters
  <1>5. session'[o] = Idle
    BY <1>3, Context DEF FinishReview, Become, SessionsOK
  <1>6. o \notin Overwriters(d)'
    BY <1>5 DEF Overwriters, At, Idle
  <1> QED BY <1>4, <1>6

(* Likewise reviews: only one that read the draft before it went live      *)
(* writes over its PROMOTED, and only once.                                *)
THEOREM OverwritesComeFromBefore == Spec => OverwritesAreOld
  <1> DEFINE A == \A d \in Drafts : link[d] =>
                    /\ Overwriters(d)' \subseteq Overwriters(d)
                    /\ draft[d] = "promoted" /\ draft'[d] # "promoted" =>
                         Overwriters(d)' # Overwriters(d)
  <1>1. IInv /\ [Next]_vars => A
    BY ImportAssumption, OverwritersShrink, OverwriteIsOld
  <1>2. IInv /\ [Next]_vars => [A]_vars
    BY <1>1
  <1> QED BY <1>2, ImportInvariant, PTL DEF Spec, OverwritesAreOld

(***************************************************************************)
(* A promotion in which no draft has failed has linked all it is done with.*)
(***************************************************************************)
TakenOn ==
  \A a \in Agents : At(a, "chunks") /\ ~session[a].failed =>
    session[a].accepted \ session[a].todo \subseteq Linked

LEMMA TakenOnStep == ASSUME ImportAssumption, IInv, TakenOn, [Next]_vars PROVE TakenOn'
  <1> SUFFICES ASSUME NEW a \in Agents, session'[a].pc = "chunks", ~session'[a].failed,
                      NEW d \in session'[a].accepted, d \notin session'[a].todo
               PROVE  d \in Linked'
    BY DEF TakenOn, At
  <1>1. ASSUME d \in Linked PROVE d \in Linked'
    BY <1>1, LinkedStays DEF Linked
  <1>2. Moves(a)
    BY EveryoneMoves
  <1>3. CASE session'[a] = session[a]
    BY <1>1, <1>3 DEF TakenOn, At
  <1>4. CASE StartsReading(a)
    BY <1>4 DEF StartsReading
  <1>5. CASE NextChunk(a)
    <2>1. PICK C \in SUBSET session[a].todo :
            \E F \in SUBSET (C \ session[a].linked) : ChunkOf(a, C, F)
      BY <1>5, ChunkRows
    <2>2. PICK F \in SUBSET (C \ session[a].linked) : ChunkOf(a, C, F)
      BY <2>1
    <2>3. /\ session[a].linked \subseteq Linked /\ At(a, "chunks") /\ session[a] \in SessionType
          /\ session[a].accepted \subseteq Drafts
      BY <2>2, ChunkSession DEF ChunkOf
    <2>4. /\ session'[a].accepted = session[a].accepted
          /\ session'[a].todo = session[a].todo \ C
          /\ session'[a].failed = (session[a].failed \/ F # {})
      BY <2>2, <2>3 DEF ChunkOf, SessionType
    <2>5. /\ d \in session[a].accepted /\ ~session[a].failed /\ F = {}
          /\ d \in session[a].todo => d \in C
          /\ d \in Drafts /\ session[a].linked \subseteq Linked /\ At(a, "chunks")
      BY <2>3, <2>4
    <2>6. CASE d \in Linked
      BY <2>6, <1>1
    <2>7. CASE d \notin Linked
      <3>1. d \in (C \ F) \ session[a].linked
        BY <2>5, <2>7 DEF TakenOn
      <3>2. link'[d]
        BY <2>2, <2>5, <3>1, Zenon DEF ChunkOf
      <3> QED BY <2>5, <3>2 DEF Linked
    <2> QED BY <2>6, <2>7
  <1> QED BY <1>2, <1>3, <1>4, <1>5 DEF Moves

(* A promotion that completes the job leaves behind none of the drafts it  *)
(* took on, whatever failed, crashed or ran beside it.                     *)
THEOREM CompletionIsWhole == Spec => CompletedPromotesAll
  <1> DEFINE A == \A a \in Agents :
                    FinishPromotion(a) /\ job'.status = "completed" =>
                      session[a].accepted \subseteq Linked
  <1>1. Init => TakenOn
    BY DEF Init, TakenOn, At, Idle
  <1>2. IInv /\ TakenOn /\ [Next]_vars => TakenOn'
    BY ImportAssumption, TakenOnStep
  <1>3. ASSUME IInv, TakenOn, NEW a \in Agents, FinishPromotion(a), job'.status = "completed"
        PROVE  session[a].accepted \subseteq Linked
    <2>1. job \in JobType
      BY <1>3, Context
    <2>2. /\ At(a, "chunks") /\ session[a].todo = {}
          /\ job' = [Touched(IF session[a].failed THEN "review_required" ELSE "completed")
                       EXCEPT !.lease = "none"]
      BY <1>3 DEF FinishPromotion
    <2>3. ~session[a].failed
      BY <1>3, <2>1, <2>2, LeaseType DEF Statuses
    <2> QED BY <1>3, <2>2, <2>3 DEF TakenOn
  <1>4. IInv /\ TakenOn /\ [Next]_vars => [A]_vars
    BY <1>3
  <1> QED BY <1>1, <1>2, <1>4, ImportInvariant, PTL DEF Spec, CompletedPromotesAll
=============================================================================
