--------------------------- MODULE DocumentIndex ---------------------------
(***************************************************************************)
(* The search index of one library document: its chunk rows in the         *)
(* database and its vectors in an external store, which an index job       *)
(* replaces together although no transaction spans both.                   *)
(*                                                                         *)
(* A chunk's vector has an identifier made of the document and the chunk's *)
(* index, so a later generation of chunks overwrites the vectors of the    *)
(* one before it, and only those beyond its length are stale.              *)
(*                                                                         *)
(* A generation of chunk rows is inserted by one transaction and deleted   *)
(* as a whole, so it is named by the agent that inserted it.               *)
(***************************************************************************)
EXTENDS Integers, Sequences, FiniteSets

CONSTANTS
  Workers,    \* Celery workers that may run index jobs of the document
  Requests,   \* API requests that run a job themselves, the broker being down
  ChunkCount, \* ChunkCount[f]: chunks of the f-th file uploaded for the document
  MaxJobs     \* bound: index tasks outstanding

Agents == Workers \cup Requests
Files == 1..Len(ChunkCount)

ASSUME IndexAssumption ==
  /\ Workers \cap Requests = {}
  /\ ChunkCount \in Seq(Nat \ {0})
  /\ ChunkCount # <<>>
  /\ MaxJobs \in Nat \ {0}

(* The indices a vector of the document may have. *)
Indices == UNION {1..ChunkCount[f] : f \in Files}

VARIABLES
  file,    \* document.file_path: which upload is the document's content
  rows,    \* rows[a]: the generation agent a inserted last; file 0 once deleted
  vectors, \* vectors[i]: the file vector i was computed from, 0 when absent
  indexed, \* document.indexed_at is set
  run,     \* what each agent is doing
  jobs,    \* index tasks waiting in the broker
  gaveUp,  \* history: since the last job was created, one was lost or found no text
  clean    \* history: no two runs overlapped, or one has run alone since

vars == <<file, rows, vectors, indexed, run, jobs, gaveUp, clean>>

Gone == [file |-> 0, vectors |-> 0]
Live == {a \in Agents : rows[a].file # 0}

(* The first `vectors` chunks of a generation carry a vector_id. *)
VectorIds(g) == 1..g.vectors

Idle == [at |-> "idle", file |-> 0, indexed |-> FALSE, target |-> {}, previous |-> {},
         vectors |-> 0, alone |-> FALSE]

At(a, stages) == run[a].at \in stages
Running(a) == ~At(a, {"idle"})
Locking(a) == At(a, {"deleted", "upserted"})
Become(a, r) == run' = [run EXCEPT ![a] = r]
Outstanding == jobs + Cardinality({a \in Agents : Running(a)})

Init ==
  /\ file = 1
  /\ rows = [a \in Agents |-> Gone]
  /\ vectors = [i \in Indices |-> 0]
  /\ indexed = FALSE
  /\ run = [a \in Agents |-> Idle]
  /\ jobs = 1
  /\ gaveUp = FALSE
  /\ clean = TRUE

(* process_job up to the download: it works from the file it finds now. *)
StartRun(a, content) ==
  LET alone == \A b \in Agents : ~Running(b)
  IN /\ ~Running(a)
     /\ run' = [b \in Agents |->
          IF b = a THEN [Idle EXCEPT !.at = "reading", !.file = content,
                                     !.indexed = indexed, !.alone = alone]
          ELSE [run[b] EXCEPT !.alone = FALSE]]
     /\ clean' = (clean /\ alone)

(***************************************************************************)
(* Requests.                                                               *)
(***************************************************************************)
(* A job is created and committed with the document, then sent.  When the  *)
(* broker cannot be reached the request runs the job itself; when the      *)
(* process dies in between nobody does.                                    *)
Dispatch(content) ==
  \/ /\ jobs' = jobs + 1
     /\ gaveUp' = FALSE
     /\ UNCHANGED <<run, clean>>
  \/ /\ \E r \in Requests : StartRun(r, content)
     /\ gaveUp' = FALSE
     /\ UNCHANGED jobs
  \/ /\ gaveUp' = TRUE
     /\ UNCHANGED <<run, jobs, clean>>

(* A slip: the job is sent before the document is committed. *)
Revise_SendsFirst ==
  /\ Outstanding < MaxJobs
  /\ gaveUp' = FALSE
  /\ \/ jobs' = jobs + 1 /\ UNCHANGED file
     \/ file < Len(ChunkCount) /\ file' = file + 1 /\ UNCHANGED jobs
  /\ UNCHANGED <<rows, vectors, indexed, run, clean>>

(* create_document_version with a file *)
Revise ==
  /\ file < Len(ChunkCount)
  /\ Outstanding < MaxJobs
  /\ file' = file + 1
  /\ Dispatch(file')
  /\ UNCHANGED <<rows, vectors, indexed>>

(* reprocess_document, bulk_reprocess_documents *)
Reprocess ==
  /\ Outstanding < MaxJobs
  /\ Dispatch(file)
  /\ UNCHANGED <<file, rows, vectors, indexed>>

(***************************************************************************)
(* process_job, its caller's commit and the cleanup after it.              *)
(***************************************************************************)
(* A slip: a job is run that nobody created. *)
Start_Unbidden(w) ==
  /\ jobs' = jobs - 1
  /\ StartRun(w, file)
  /\ UNCHANGED <<file, rows, vectors, indexed, gaveUp>>

(* The job row is read and written, not claimed: a second delivery waits   *)
(* for the first to end, and then runs too.                                *)
Start(w) ==
  /\ jobs > 0
  /\ jobs' = jobs - 1
  /\ StartRun(w, file)
  /\ UNCHANGED <<file, rows, vectors, indexed, gaveUp>>

(* No text, or OCR failed: the previous generation stays searchable. *)
FindNoText(a) ==
  /\ At(a, {"reading"})
  /\ Become(a, Idle)
  /\ gaveUp' = TRUE
  /\ UNCHANGED <<file, rows, vectors, indexed, jobs, clean>>

(* A slip: the new chunks are added without deleting the old ones. *)
LookUp_KeepsRows(a) ==
  /\ At(a, {"reading"})
  /\ Become(a, [run[a] EXCEPT !.at = "looked"])
  /\ UNCHANGED <<file, rows, vectors, indexed, jobs, gaveUp, clean>>

(* _previous_vector_ids, and what the DELETE that follows can see. *)
LookUp(a) ==
  /\ At(a, {"reading"})
  /\ Become(a, [run[a] EXCEPT !.at = "looked", !.target = Live,
                 !.previous = UNION {1..ChunkCount[rows[b].file] : b \in Live}])
  /\ UNCHANGED <<file, rows, vectors, indexed, jobs, gaveUp, clean>>

(* The DELETE waits for whoever has deleted the same rows and not yet      *)
(* committed; rows inserted meanwhile it does not see.                     *)
Delete(a) ==
  /\ At(a, {"looked"})
  /\ \A b \in Agents : Locking(b) => run[b].target \cap run[a].target = {}
  /\ Become(a, [run[a] EXCEPT !.at = "deleted"])
  /\ UNCHANGED <<file, rows, vectors, indexed, jobs, gaveUp, clean>>

(* Embeddings and upsert_chunks.  Fewer embeddings than chunks may come    *)
(* back; none, an error or a lost answer leave every vector_id NULL.       *)
Upsert(a) ==
  /\ At(a, {"deleted"})
  /\ \E sent \in 0..ChunkCount[run[a].file] :
       /\ vectors' = [i \in Indices |-> IF i <= sent THEN run[a].file ELSE vectors[i]]
       /\ \E told \in {0, sent} :
            Become(a, [run[a] EXCEPT !.at = "upserted", !.vectors = told])
  /\ UNCHANGED <<file, rows, indexed, jobs, gaveUp, clean>>

(* A slip: every vector of the previous generation is stale. *)
Stale_All(r) == IF r.vectors = 0 THEN {} ELSE r.previous

(* What an upsert that succeeded has not overwritten. *)
Stale(r) == IF r.vectors = 0 THEN {} ELSE r.previous \ VectorIds(r)

(* The commit ends the wait of every other DELETE, which then finds the    *)
(* rows deleted here gone.  indexed_at is written when it changes.         *)
Commit(a) ==
  LET r == run[a]
  IN /\ At(a, {"upserted"})
     /\ rows' = [b \in Agents |->
          IF b = a THEN [file |-> r.file, vectors |-> r.vectors]
          ELSE IF b \in r.target THEN Gone ELSE rows[b]]
     /\ indexed' = (r.vectors > 0 \/ (indexed /\ ~r.indexed))
     /\ run' = [b \in Agents |->
          IF b = a THEN [Idle EXCEPT !.at = "committed", !.previous = Stale(r)]
          ELSE [run[b] EXCEPT !.target = @ \ (r.target \cup {a})]]
     /\ clean' = (clean \/ r.alone)
     /\ UNCHANGED <<file, vectors, jobs, gaveUp>>

(* delete_pending_stale_vectors: best effort, so any part of them may stay *)
(* behind; a worker that dies here has its task delivered again.           *)
CleanUp(a) ==
  /\ At(a, {"committed"})
  /\ \E deleted \in SUBSET run[a].previous :
       vectors' = [i \in Indices |-> IF i \in deleted THEN 0 ELSE vectors[i]]
  /\ \/ UNCHANGED jobs
     \/ a \in Workers /\ jobs' = jobs + 1
  /\ Become(a, Idle)
  /\ UNCHANGED <<file, rows, indexed, gaveUp, clean>>

(* Retried by Celery or delivered again after a crash. *)
Retry(a) == a \in Workers /\ jobs' = jobs + 1 /\ UNCHANGED gaveUp

(* Celery has no retries left, or a request has nobody to try again.       *)
GiveUp(a) ==
  /\ gaveUp' = TRUE
  /\ UNCHANGED jobs

(* A slip: a failed run is not retried. *)
Fail_Drops(a) ==
  /\ At(a, {"reading", "looked", "deleted", "upserted"})
  /\ Become(a, Idle)
  /\ UNCHANGED <<file, rows, vectors, indexed, jobs, gaveUp, clean>>

(* Any exception, kill or timeout before the commit rolls the rows back,   *)
(* but not the vectors.                                                    *)
Fail(a) ==
  /\ At(a, {"reading", "looked", "deleted", "upserted"})
  /\ Become(a, Idle)
  /\ Retry(a) \/ GiveUp(a)
  /\ UNCHANGED <<file, rows, vectors, indexed, clean>>

Next ==
  \/ Revise
  \/ Reprocess
  \/ \E w \in Workers : Start(w)
  \/ \E a \in Agents :
       \/ FindNoText(a) \/ LookUp(a) \/ Delete(a) \/ Upsert(a) \/ Commit(a)
       \/ CleanUp(a) \/ Fail(a)

Spec == Init /\ [][Next]_vars

Progress(a) == LookUp(a) \/ Delete(a) \/ Upsert(a) \/ CleanUp(a)

(* A run goes on, a waiting task is taken, and no task fails for ever:     *)
(* max_retries bounds its attempts.                                        *)
Fairness ==
  /\ \A w \in Workers : WF_vars(Start(w))
  /\ \A a \in Agents :
       /\ WF_vars(Progress(a))
       /\ SF_vars(Commit(a) \/ (Fail(a) /\ GiveUp(a)))

FairSpec == Spec /\ Fairness

-----------------------------------------------------------------------------
TypeOK ==
  /\ file \in Files
  /\ rows \in [Agents -> [file : 0..Len(ChunkCount), vectors : Nat]]
  /\ vectors \in [Indices -> 0..Len(ChunkCount)]
  /\ indexed \in BOOLEAN
  /\ run \in [Agents ->
       [at : {"idle", "reading", "looked", "deleted", "upserted", "committed"},
        file : 0..Len(ChunkCount), indexed : BOOLEAN, target : SUBSET Agents,
        previous : SUBSET Indices, vectors : Nat, alone : BOOLEAN]]
  /\ jobs \in Nat
  /\ gaveUp \in BOOLEAN
  /\ clean \in BOOLEAN

(* "Deleting first would leave those restored rows pointing at vectors     *)
(* that no longer exist": a committed row that names a vector has one,     *)
(* through every crash, rollback and retry.  Overlapping runs may break    *)
(* this, and the next run that has the document to itself repairs it; so   *)
(* too for the three invariants below.                                     *)
RowsHaveVectors ==
  clean => \A a \in Live, i \in Indices : i \in VectorIds(rows[a]) => vectors[i] # 0

(* A document's rows are one generation, so no chunk is found twice.       *)
OneGeneration == clean => Cardinality(Live) <= 1

(* "indexed_at must stay honest": it is set exactly while some row has a   *)
(* vector that answers semantic searches.                                  *)
IndexedIsHonest == clean => (indexed <=> \E a \in Live : rows[a].vectors > 0)

(* When no job is outstanding, none was lost and none found the content    *)
(* unreadable, the rows are of the file the document shows, in whatever    *)
(* order uploads, reprocessing and retries ran.                            *)
Quiet == jobs = 0 /\ \A a \in Agents : ~Running(a)
IndexIsCurrent == clean /\ Quiet /\ ~gaveUp => \E a \in Live : rows[a].file = file

(* A file that was uploaded gets indexed, unless its job was given up.     *)
Current == \E a \in Live : rows[a].file = file
CatchesUp == ~Current ~> Current \/ gaveUp \/ ~clean
=============================================================================
