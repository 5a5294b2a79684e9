-------------------------- MODULE DocumentLibrary --------------------------
(***************************************************************************)
(* One document of the governance library: its version rows, its workflow  *)
(* status, and the index jobs that also write that status.                 *)
(*                                                                         *)
(* A request loads the document and the version rows it needs, decides,    *)
(* and writes at its end by primary key; SQLAlchemy writes only columns    *)
(* whose value differs from the one loaded.  Each request is therefore a   *)
(* reading action, which keeps what was loaded, and a writing action.  A   *)
(* request that a check refuses, including a legal hold, the two-person    *)
(* rules and the data checks R07, R10 and R20, leaves no trace: the action *)
(* is not taken.                                                           *)
(***************************************************************************)
EXTENDS Integers, Sequences, FiniteSets

CONSTANTS
  Sessions,    \* API requests on the document that may be in flight at once
  Workers,     \* Celery workers that may run an index job of the document
  MaxVersions, \* bound: version rows
  MaxMajor,    \* bound: major version number
  MaxMinor,    \* bound: minor version number
  MaxJobs      \* bound: index jobs outstanding

Agents == Sessions \cup Workers

ASSUME LibraryAssumption ==
  /\ Sessions \cap Workers = {}
  /\ MaxVersions \in Nat \ {0}
  /\ MaxMajor \in Nat \ {0}
  /\ MaxMinor \in Nat
  /\ MaxJobs \in Nat \ {0}

Statuses == {"draft", "under_review", "approved", "published", "under_revision",
             "processing", "indexed", "failed"}

(* GOVERNANCE_LIFECYCLE_STATUSES, those of them the library reaches. *)
Governance == {"draft", "under_review", "approved", "published"}

RowStatuses == {"draft", "approved", "published", "superseded"}
Issued == {"approved", "published"}
Numbers == [major : Nat, minor : Nat]

VARIABLES
  doc,      \* the documents row: status, version number, whether category_id is set
  version,  \* the document_versions rows, oldest first
  session,  \* what each request or index job in flight has loaded
  jobs,     \* index tasks waiting in the broker
  gaveUp    \* history: a job was given up after the last one was created

vars == <<doc, version, session, jobs, gaveUp>>

Rows == DOMAIN version
RowsIn(statuses) == {v \in Rows : version[v].status \in statuses}
Newest(rows) == CHOOSE v \in rows : \A w \in rows : w <= v

First == [major |-> 1, minor |-> 0]
Before(m, n) == m.major < n.major \/ (m.major = n.major /\ m.minor < n.minor)

(* A slip: a minor revision is not counted *)
NextNumber_MajorOnly(n, major) ==
  IF major THEN [major |-> n.major + 1, minor |-> 0] ELSE n

(* next_version() *)
NextNumber(n, major) ==
  IF major THEN [major |-> n.major + 1, minor |-> 0]
  ELSE [major |-> n.major, minor |-> n.minor + 1]

(* transition_table(): the rows of the authority pack that the handlers    *)
(* ask for.  INDEXED counts as the pack's Draft.                           *)
Canonical(status) == IF status = "indexed" THEN "draft" ELSE status
Transitions == {<<"draft", "under_review">>, <<"under_review", "draft">>,
                <<"under_review", "approved">>, <<"approved", "published">>}
Allowed(to) == <<Canonical(doc.status), to>> \in Transitions

Idle == [op |-> "none", status |-> "draft", number |-> First,
         row |-> 0, prior |-> {}, to |-> First, file |-> FALSE]

(* What a request has loaded of the document when it starts. *)
Loaded(op) == [Idle EXCEPT !.op = op, !.status = doc.status, !.number = doc.number]

At(a, op) == session[a].op = op
Become(a, s) == session' = [session EXCEPT ![a] = s]
Outstanding == jobs + Cardinality({a \in Agents : At(a, "index")})

(* upload_document: a filed document starts as a draft, another one is     *)
(* PROCESSING.  Its index job is sent; or, the broker being down, run by   *)
(* the request; or the process dies before it does either.                 *)
Init ==
  /\ \E filed \in BOOLEAN :
       doc = [status |-> IF filed THEN "draft" ELSE "processing", number |-> First,
              filed |-> filed]
  /\ version = <<[status |-> "draft", number |-> First]>>
  /\ \/ /\ jobs = 1
        /\ session = [a \in Agents |-> Idle]
        /\ gaveUp = FALSE
     \/ /\ jobs = 0
        /\ \E s \in Sessions : session = [[a \in Agents |-> Idle] EXCEPT ![s] = Loaded("index")]
        /\ gaveUp = FALSE
     \/ /\ jobs = 0
        /\ session = [a \in Agents |-> Idle]
        /\ gaveUp = TRUE

(***************************************************************************)
(* Requests: the reading half.                                             *)
(***************************************************************************)
Begin(s, loaded) ==
  /\ At(s, "none")
  /\ Become(s, loaded)
  /\ UNCHANGED <<doc, version, jobs, gaveUp>>

Submit(s) == Allowed("under_review") /\ doc.filed /\ Begin(s, Loaded("submit"))

Reject(s) == Allowed("draft") /\ Begin(s, Loaded("reject"))

(* A decision on row v: the rows it supersedes and the number it takes.    *)
Decision(op, v, superseded) ==
  [Loaded(op) EXCEPT !.row = v, !.prior = RowsIn(superseded) \ {v}, !.to = version[v].number]

(* version_id may name any mutable row, not only the newest. *)
Approve(s) ==
  /\ Allowed("approved")
  /\ \E v \in RowsIn({"draft"}) : Begin(s, Decision("approve", v, Issued))

(* R22 and R11 are about the number; R14 about the row. *)
Issue(s) ==
  /\ Allowed("published")
  /\ \E v \in RowsIn({"approved"}) :
       /\ version[v].number.minor = 0
       /\ version[v].number = doc.number
       /\ Begin(s, Decision("issue", v, Issued))

(* A slip: version_is_immutable() is not asked *)
Publish_AnyVersion(s) == \E v \in Rows : Begin(s, Decision("publish", v, {"published"}))

(* The legacy path asks nothing of the document's status. *)
Publish(s) == \E v \in RowsIn({"draft"}) : Begin(s, Decision("publish", v, {"published"}))

(* revise_library.  An open draft is edited in place unless the document   *)
(* has a published version, else a new draft is opened from its number.    *)
Revise(s) ==
  \E major \in BOOLEAN, file \in BOOLEAN :
    LET drafts == RowsIn({"draft"})
        base   == IF drafts = {} THEN doc.number ELSE version[Newest(drafts)].number
        number == NextNumber(base, major)
    IN /\ drafts = {} \/ RowsIn({"published"}) = {}
       /\ drafts = {} => Len(version) < MaxVersions
       /\ number.major <= MaxMajor /\ number.minor <= MaxMinor
       /\ file => Outstanding < MaxJobs
       /\ Begin(s, [Loaded("revise") EXCEPT !.row = IF drafts = {} THEN 0 ELSE Newest(drafts),
                                            !.to = number, !.file = file])

Reprocess(s) == Outstanding < MaxJobs /\ Begin(s, Loaded("reprocess"))

(***************************************************************************)
(* Requests: the writing half.                                             *)
(***************************************************************************)
WrittenStatus(s, status) == IF status = session[s].status THEN doc.status ELSE status
WrittenNumber(s, number) == IF number = session[s].number THEN doc.number ELSE number

Write(s, status, number) ==
  doc' = [doc EXCEPT !.status = WrittenStatus(s, status), !.number = WrittenNumber(s, number)]

Finish(s) ==
  /\ Become(s, Idle)
  /\ UNCHANGED <<jobs, gaveUp>>

CommitReview(s) ==
  /\ \/ At(s, "submit") /\ Write(s, "under_review", session[s].number)
     \/ At(s, "reject") /\ Write(s, "draft", session[s].number)
  /\ Finish(s)
  /\ UNCHANGED version

Decided == [approve |-> "approved", issue |-> "published", publish |-> "published"]

(* A slip: the prior versions stay as they are *)
CommitDecision_KeepsPrior(s) ==
  LET r == session[s] IN
  /\ r.op \in DOMAIN Decided
  /\ version' = [version EXCEPT ![r.row].status = Decided[r.op]]
  /\ Write(s, Decided[r.op], r.to)
  /\ Finish(s)

CommitDecision(s) ==
  LET r == session[s] IN
  /\ r.op \in DOMAIN Decided
  /\ version' = [v \in Rows |->
       IF v = r.row THEN [version[v] EXCEPT !.status = Decided[r.op]]
       ELSE IF v \in r.prior THEN [version[v] EXCEPT !.status = "superseded"]
       ELSE version[v]]
  /\ Write(s, Decided[r.op], r.to)
  /\ Finish(s)

(* A slip: a job that could not be dispatched is left pending *)
Dispatch_LeavesPending(s) == gaveUp' = FALSE /\ Become(s, Idle) /\ UNCHANGED jobs

(* After the commit the index job is sent; if the broker cannot be reached *)
(* the request runs it itself, holding the status it has just written; or  *)
(* the process dies before it sends anything.                              *)
Dispatch(s) ==
  \/ jobs' = jobs + 1 /\ gaveUp' = FALSE /\ Become(s, Idle)
  \/ gaveUp' = FALSE /\ Become(s, [Idle EXCEPT !.op = "index", !.status = "processing"])
     /\ UNCHANGED jobs
  \/ gaveUp' = TRUE /\ Become(s, Idle) /\ UNCHANGED jobs

Revised(status) ==
  IF status \in {"published", "approved", "indexed"} THEN "under_revision" ELSE status

(* A slip: the newest version is edited where a draft has to be opened *)
CommitRevision_InPlace(s) ==
  LET r == session[s] IN
  /\ At(s, "revise")
  /\ version' = [version EXCEPT ![IF r.row = 0 THEN Len(version) ELSE r.row].number = r.to]
  /\ Write(s, IF r.file THEN "processing"
              ELSE IF r.row = 0 THEN Revised(r.status) ELSE r.status, r.to)
  /\ IF r.file THEN Dispatch(s) ELSE Finish(s)

CommitRevision(s) ==
  LET r == session[s] IN
  /\ At(s, "revise")
  /\ version' = IF r.row = 0 THEN Append(version, [status |-> "draft", number |-> r.to])
                ELSE [version EXCEPT ![r.row].number = r.to]
  /\ Write(s, IF r.file THEN "processing"
              ELSE IF r.row = 0 THEN Revised(r.status) ELSE r.status, r.to)
  /\ IF r.file THEN Dispatch(s) ELSE Finish(s)

CommitReprocess(s) ==
  /\ At(s, "reprocess")
  /\ Write(s, "processing", session[s].number)
  /\ Dispatch(s)
  /\ UNCHANGED version

(***************************************************************************)
(* Index jobs.                                                             *)
(***************************************************************************)
(* bulk_reprocess_documents touches no document: its job does. *)
BulkReprocess ==
  /\ Outstanding < MaxJobs
  /\ jobs' = jobs + 1
  /\ gaveUp' = FALSE
  /\ UNCHANGED <<doc, version, session>>

(* A slip: a job is processed that was never created *)
StartIndex_Unbidden(w) ==
  /\ At(w, "none")
  /\ jobs' = jobs - 1
  /\ Become(w, Loaded("index"))
  /\ UNCHANGED <<doc, version, gaveUp>>

StartIndex(w) ==
  /\ At(w, "none")
  /\ jobs > 0
  /\ jobs' = jobs - 1
  /\ Become(w, Loaded("index"))
  /\ UNCHANGED <<doc, version, gaveUp>>

(* process_job sets PROCESSING on the object it loaded, so what            *)
(* _apply_post_index_status preserves is never the status of the row.  The *)
(* outcome depends on the text found and on the vector store.              *)
IndexedStatus == IF doc.filed THEN {"draft"} ELSE {"indexed", "approved", "failed"}

(* A slip: the status loaded at the start is put back *)
FinishIndex_PutsBack(a) ==
  /\ At(a, "index")
  /\ doc' = [doc EXCEPT !.status = session[a].status]
  /\ Finish(a)
  /\ UNCHANGED version

FinishIndex(a) ==
  /\ At(a, "index")
  /\ \E status \in IndexedStatus : Write(a, status, session[a].number)
  /\ Finish(a)
  /\ UNCHANGED version

(* An exception or a dead worker rolls the job back; Celery tries again or *)
(* gives up.  A request that ran the job itself never tries again, and     *)
(* commits what process_job had set, unless it dies or the database fails. *)
FailIndex(a) ==
  /\ At(a, "index")
  /\ Become(a, Idle)
  /\ \/ a \in Workers /\ jobs' = jobs + 1 /\ UNCHANGED <<doc, gaveUp>>
     \/ gaveUp' = TRUE /\ UNCHANGED <<doc, jobs>>
     \/ a \in Sessions /\ gaveUp' = TRUE /\ Write(a, "processing", session[a].number)
        /\ UNCHANGED jobs
  /\ UNCHANGED version

Commit(s) == CommitReview(s) \/ CommitDecision(s) \/ CommitRevision(s) \/ CommitReprocess(s)

Next ==
  \/ \E s \in Sessions :
       \/ Submit(s) \/ Reject(s) \/ Approve(s) \/ Issue(s) \/ Publish(s)
       \/ Revise(s) \/ Reprocess(s)
       \/ CommitReview(s) \/ CommitDecision(s) \/ CommitRevision(s) \/ CommitReprocess(s)
  \/ BulkReprocess
  \/ \E w \in Workers : StartIndex(w)
  \/ \E a \in Agents : FinishIndex(a) \/ FailIndex(a)

Spec == Init /\ [][Next]_vars

GivingUp(a) == FailIndex(a) /\ gaveUp'

(* A request that has started ends, waiting jobs are run, and a job is not *)
(* tried for ever: max_retries bounds its attempts.                        *)
Fairness ==
  /\ \A s \in Sessions : WF_vars(Commit(s))
  /\ \A w \in Workers : WF_vars(StartIndex(w))
  /\ \A a \in Agents : SF_vars(FinishIndex(a) \/ GivingUp(a))

FairSpec == Spec /\ Fairness

-----------------------------------------------------------------------------
TypeOK ==
  /\ doc \in [status : Statuses, number : Numbers, filed : BOOLEAN]
  /\ version \in Seq([status : RowStatuses, number : Numbers])
  /\ session \in [Agents ->
       [op : {"none", "submit", "reject", "approve", "issue", "publish", "revise",
              "reprocess", "index"},
        status : Statuses, number : Numbers, row : Nat, prior : SUBSET Nat, to : Numbers,
        file : BOOLEAN]]
  /\ jobs \in Nat
  /\ gaveUp \in BOOLEAN

(* A document has one tip: never two published versions (publish_library,  *)
(* issue_document and approve_document supersede what they replace).       *)
OnePublished == Cardinality(RowsIn({"published"})) <= 1

(* No two versions carry the same number, which no constraint of the       *)
(* table ensures: revise_library derives it from the document's.           *)
NumbersUnique == \A v, w \in Rows : version[v].number = version[w].number => v = w

(* What was issued and what is in force only goes forward: no version is   *)
(* issued below another, renumbered once it is issued, or in force again   *)
(* when another has replaced it.                                           *)
Ledger == INSTANCE VersionLedger WITH
  issued <- {version[v].number : v \in RowsIn(Issued \cup {"superseded"})},
  inForce <- {version[v].number : v \in RowsIn({"published"})}
KeepsLedger == Ledger!Spec

(* A document that reads published has a published version with the number *)
(* it shows; a filed one that reads approved an approved version: index    *)
(* jobs that finish late never put back a status without its version.      *)
LiveStatusIsBacked ==
  /\ doc.status = "published" =>
       \E v \in RowsIn({"published"}) : version[v].number = doc.number
  /\ doc.status = "approved" /\ doc.filed =>
       \E v \in RowsIn({"approved"}) : version[v].number = doc.number

(* "Published/superseded versions are immutable": a row that has left      *)
(* draft never changes its number and never becomes a draft again, and     *)
(* superseded is final.                                                    *)
IssuedIsFrozen ==
  [][\A v \in Rows : version[v].status # "draft" =>
       /\ version'[v].number = version[v].number
       /\ version'[v].status # "draft"
       /\ version[v].status = "superseded" => version'[v].status = "superseded"]_vars

(* An index job that succeeds preserves the governance status of a filed   *)
(* document.                                                               *)
IndexingKeepsGovernance ==
  [][\A a \in Agents : FinishIndex(a) /\ doc.filed /\ doc.status \in Governance =>
       doc'.status = doc.status]_vars

(* Requests under way that loaded the rows before v was published and will *)
(* publish another beside it; that will renumber v; that will decide on v. *)
Blind(v) ==
  {s \in Sessions : /\ session[s].op \in DOMAIN Decided
                    /\ v # session[s].row /\ v \notin session[s].prior}
Editors(v) == {s \in Sessions : At(s, "revise") /\ session[s].row = v}
Deciders(v) == {s \in Sessions : session[s].op \in DOMAIN Decided /\ session[s].row = v}

(* However many requests overlap: a second version comes in force beside a *)
(* published one only by a decision that was under way when that one was   *)
(* published, and by each of these at most once.                           *)
TipForksOnlyByOverlap ==
  [][\A v \in RowsIn({"published"}) :
       /\ Blind(v)' \subseteq Blind(v)
       /\ (/\ v \in RowsIn({"published"})'
           /\ \E w \in Rows \ {v} : w \in RowsIn({"published"})' /\ version[w].status # "published")
            => Blind(v)' # Blind(v)]_vars

(* However many requests overlap: a version that has left draft never goes *)
(* back, and is renumbered, or in force again, only by a request that was  *)
(* under way when it left draft, or was superseded, and by each only once. *)
IssuedThawsOnlyByOverlap ==
  [][\A v \in Rows : version[v].status # "draft" =>
       /\ version'[v].status # "draft"
       /\ Editors(v)' \subseteq Editors(v)
       /\ version'[v].number # version[v].number => Editors(v)' # Editors(v)
       /\ version[v].status = "superseded" =>
            /\ Deciders(v)' \subseteq Deciders(v)
            /\ version'[v].status # "superseded" => Deciders(v)' # Deciders(v)]_vars

(* A document that is shown as processing does not stay so, unless a job   *)
(* was given up.                                                           *)
ProcessingEnds == doc.status = "processing" ~> doc.status # "processing" \/ gaveUp
=============================================================================
