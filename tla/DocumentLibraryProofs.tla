----------------------- MODULE DocumentLibraryProofs -----------------------
(***************************************************************************)
(* What the version rows of a library document promise, for any number of  *)
(* requests, workers, versions and index jobs.                             *)
(*                                                                         *)
(* Whatever overlaps, two versions are in force, or one that was issued    *)
(* changes, only by a request that had loaded the rows before.  The rest   *)
(* holds as long as the requests that write those rows (decisions and      *)
(* revisions) do not overlap one another; submissions, rejections,         *)
(* reprocessing and index jobs may start, end and fail at any moment       *)
(* between the two halves of such a request.                               *)
(***************************************************************************)
EXTENDS DocumentLibrary, FiniteSetTheorems, SequenceTheorems, NaturalsInduction,
        WellFoundedInduction, TLAPS

(* What the theorems about the document's own row assume of a behaviour:   *)
(* never more than one request in flight that will write version rows.     *)
Writing(s) == session[s].op \in DOMAIN Decided \cup {"revise"}
OneWriter == \A s, t \in Sessions : Writing(s) /\ Writing(t) => s = t

Row == [status : RowStatuses, number : Numbers]
Snapshot == [op : {"none", "submit", "reject", "approve", "issue", "publish", "revise",
                   "reprocess", "index"},
             status : Statuses, number : Numbers, row : Nat, prior : SUBSET Nat,
             to : Numbers, file : BOOLEAN]

Last == Len(version)

(* Numbers grow from row to row, a draft can only be the newest row, and   *)
(* the document shows the newest row's number.                             *)
RowsOK ==
  /\ Last > 0
  /\ \A v, w \in Rows : v < w => Before(version[v].number, version[w].number)
  /\ \A v \in Rows : version[v].status = "draft" => v = Last
  /\ \A v, w \in RowsIn({"published"}) : v = w
  /\ doc.number = version[Last].number

(* What a review, a reprocessing or an index job may have written over the *)
(* status while a decision or a revision was in flight.                    *)
Drifted == doc.status \in {"draft", "under_review", "processing", "indexed", "failed"}
           \/ (doc.status = "approved" /\ ~doc.filed)

(* What a decision or a revision has loaded is still true of the rows, and *)
(* of the document's status unless somebody else has written it.           *)
Fits(r) ==
  /\ r.op \in DOMAIN Decided \cup {"revise"} =>
       r.number = doc.number /\ (doc.status = r.status \/ Drifted)
  /\ r.op \in DOMAIN Decided =>
       /\ r.row = Last
       /\ version[Last].status = IF r.op = "issue" THEN "approved" ELSE "draft"
       /\ r.to = version[Last].number
       /\ RowsIn({"published"}) \subseteq r.prior
       /\ r.prior \subseteq RowsIn(Issued) \ {Last}
  /\ r.op = "revise" =>
       /\ r.to \in Numbers /\ Before(doc.number, r.to)
       /\ r.row = 0 => RowsIn({"draft"}) = {}
       /\ r.row # 0 => /\ r.row = Last /\ version[Last].status = "draft"
                       /\ RowsIn({"published"}) = {}

IInv ==
  /\ TypeOK
  /\ RowsOK
  /\ LiveStatusIsBacked
  /\ \A s \in Sessions : Fits(session[s])

-----------------------------------------------------------------------------
(* Version numbers are ordered, and next_version() goes up. *)
LEMMA NumberOrder ==
  /\ \A m, n, k \in Numbers : Before(m, n) /\ Before(n, k) => Before(m, k)
  /\ \A n \in Numbers : ~Before(n, n)
  /\ \A n \in Numbers, major \in BOOLEAN :
       NextNumber(n, major) \in Numbers /\ Before(n, NextNumber(n, major))
BY DEF Numbers, Before, NextNumber

LEMMA FirstType == First \in Numbers
BY DEF First, Numbers

LEMMA IdleType == Idle \in Snapshot
BY FirstType DEF Idle, Snapshot, Statuses

(* The rows are a finite sequence of rows. *)
LEMMA RowsType ==
  ASSUME TypeOK
  PROVE  /\ version \in Seq(Row) /\ Last \in Nat /\ Rows = 1..Last
         /\ \A v \in Rows : version[v] \in Row
         /\ \A set : RowsIn(set) \subseteq Rows
<1>1. version \in Seq(Row)
  BY DEF TypeOK, Row
<1>2. Last \in Nat /\ Rows = 1..Last
  BY <1>1, LenProperties DEF Last, Rows
<1>3. \A v \in Rows : version[v] \in Row
  BY <1>1, <1>2, ElementOfSeq DEF Last
<1> QED
  BY <1>1, <1>2, <1>3 DEF RowsIn

LEMMA DocType ==
  ASSUME TypeOK
  PROVE  doc.status \in Statuses /\ doc.number \in Numbers /\ doc.filed \in BOOLEAN
BY DEF TypeOK

(* What Become does to the sessions. *)
LEMMA BecomeOne ==
  ASSUME TypeOK, NEW a \in Agents, NEW r \in Snapshot, Become(a, r)
  PROVE  /\ session' \in [Agents -> Snapshot]
         /\ session'[a] = r
         /\ \A b \in Agents \ {a} : session'[b] = session[b]
BY DEF TypeOK, Become, Snapshot

(* A request that holds nothing, or runs an index job, fits anything. *)
LEMMA IdleFits ==
  ASSUME NEW r \in Snapshot, r.op \in {"none", "index"}
  PROVE  Fits(r) /\ Fits(r)'
BY DEF Fits, Decided

(* The newest version number belongs to the newest row alone. *)
LEMMA NumberNamesRow ==
  ASSUME TypeOK, RowsOK, NEW v \in Rows, version[v].number = doc.number
  PROVE  v = Last
<1>1. version[v].number \in Numbers /\ v \in 1..Last /\ Last \in Rows
  BY RowsType DEF Row, RowsOK
<1>2. v < Last => Before(version[v].number, version[Last].number)
  BY <1>1 DEF RowsOK
<1> QED
  BY <1>1, <1>2, NumberOrder, RowsType DEF RowsOK

LEMMA InitIInv == Init => IInv
<1> SUFFICES ASSUME Init PROVE IInv
  OBVIOUS
<1>1. version = <<[status |-> "draft", number |-> First]>> /\ doc.number = First
      /\ doc.status \in {"draft", "processing"}
  BY DEF Init
<1>2. doc \in [status : Statuses, number : Numbers, filed : BOOLEAN]
  BY FirstType DEF Init, Statuses
<1>3. version \in Seq(Row) /\ Last = 1 /\ Rows = {1}
      /\ version[1] = [status |-> "draft", number |-> First]
  <2>1. [status |-> "draft", number |-> First] \in Row
    BY FirstType DEF Row, RowStatuses
  <2> QED
    BY <1>1, <2>1 DEF Last, Rows
<1>4. Loaded("index") \in Snapshot /\ Loaded("index").op = "index" /\ Idle.op = "none"
  BY <1>2, IdleType DEF Loaded, Idle, Snapshot
<1>5. /\ session \in [Agents -> Snapshot]
      /\ \A a \in Agents : session[a].op \in {"none", "index"}
  BY <1>4, IdleType DEF Init, Agents
<1>6. TypeOK
  <2>1. jobs \in Nat
    BY SMT DEF Init
  <2>2. gaveUp \in BOOLEAN
    BY Zenon DEF Init
  <2> QED
    BY <1>2, <1>3, <1>5, <2>1, <2>2 DEF TypeOK, Row, Snapshot
<1>7. RowsOK
  BY <1>1, <1>3, NumberOrder, FirstType DEF RowsOK, RowsIn
<1>8. \A s \in Sessions : Fits(session[s])
  BY <1>5, IdleFits DEF Agents
<1> QED
  BY <1>1, <1>6, <1>7, <1>8 DEF IInv, LiveStatusIsBacked

-----------------------------------------------------------------------------
(* Requests: the reading half. *)

(* A request may start with any snapshot that fits. *)
LEMMA BeginKeeps ==
  ASSUME IInv, NEW s \in Sessions, NEW r \in Snapshot, Fits(r), Begin(s, r)
  PROVE  IInv'
<1>1. s \in Agents /\ Become(s, r) /\ UNCHANGED <<doc, version, jobs, gaveUp>>
  BY DEF Begin, Agents
<1>2. /\ session' \in [Agents -> Snapshot] /\ session'[s] = r
      /\ \A b \in Agents \ {s} : session'[b] = session[b]
  BY <1>1, BecomeOne DEF IInv
<1>3. TypeOK'
  BY <1>1, <1>2 DEF IInv, TypeOK, Snapshot
<1>4. RowsOK' /\ LiveStatusIsBacked'
  BY <1>1 DEF IInv, RowsOK, LiveStatusIsBacked, Last, Rows, RowsIn
<1>5. \A q : Fits(q) => Fits(q)'
  BY <1>1 DEF Fits, Last, Rows, RowsIn, Drifted
<1>6. \A t \in Sessions : Fits(session'[t])
  BY <1>2 DEF IInv, Agents
<1>7. \A t \in Sessions : Fits(session[t])'
  BY <1>1, <1>6 DEF Fits, Last, Rows, RowsIn, Drifted
<1> QED
  BY <1>3, <1>4, <1>7 DEF IInv

(* What Loaded puts into a snapshot. *)
LEMMA LoadedType ==
  ASSUME TypeOK, NEW op \in {"submit", "reject", "approve", "issue", "publish", "revise",
                             "reprocess", "index"}
  PROVE  /\ Loaded(op) \in Snapshot /\ Loaded(op).op = op
         /\ Loaded(op).status = doc.status /\ Loaded(op).number = doc.number
BY DocType, IdleType DEF Loaded, Snapshot, Idle

(* A decision on the newest row fits, whichever rows it supersedes. *)
LEMMA DecisionFits ==
  ASSUME TypeOK, RowsOK, NEW op \in {"approve", "issue", "publish"},
         NEW set, {"published"} \subseteq set, set \subseteq Issued,
         Last \in RowsIn(IF op = "issue" THEN {"approved"} ELSE {"draft"})
  PROVE  Decision(op, Last, set) \in Snapshot /\ Fits(Decision(op, Last, set))
<1> DEFINE r == Decision(op, Last, set)
<1>1. Last \in Rows /\ Last \in Nat /\ version[Last] \in Row
      /\ version[Last].status = IF op = "issue" THEN "approved" ELSE "draft"
  BY RowsType DEF RowsIn
<1>2. RowsIn(set) \ {Last} \in SUBSET Nat
  BY RowsType
<1>3. /\ r \in Snapshot /\ r.op = op /\ r.number = doc.number /\ r.status = doc.status
      /\ r.row = Last /\ r.to = version[Last].number /\ r.prior = RowsIn(set) \ {Last}
  BY <1>1, <1>2, LoadedType DEF Decision, Snapshot, Row
<1>4. RowsIn({"published"}) \subseteq r.prior /\ r.prior \subseteq RowsIn(Issued) \ {Last}
  BY <1>1, <1>3 DEF RowsIn
<1> HIDE DEF r
<1>5. Fits(r)
  BY <1>1, <1>3, <1>4 DEF Fits
<1> QED
  BY <1>3, <1>5 DEF r

LEMMA DraftIsLast ==
  ASSUME RowsOK, NEW v \in RowsIn({"draft"})
  PROVE  v = Last
BY DEF RowsOK, RowsIn

LEMMA ReadingKeeps ==
  ASSUME IInv, NEW s \in Sessions,
         Submit(s) \/ Reject(s) \/ Approve(s) \/ Issue(s) \/ Publish(s) \/ Revise(s)
           \/ Reprocess(s)
  PROVE  IInv'
<1> USE DEF IInv
<1>1. ASSUME NEW op \in {"submit", "reject", "reprocess"}, Begin(s, Loaded(op)) PROVE IInv'
  <2>1. Loaded(op) \in Snapshot /\ Fits(Loaded(op))
    BY LoadedType DEF Fits, Decided
  <2> QED
    BY <1>1, <2>1, BeginKeeps
<1>2. ASSUME Approve(s) PROVE IInv'
  <2>1. PICK v \in RowsIn({"draft"}) : Begin(s, Decision("approve", v, Issued))
    BY <1>2 DEF Approve
  <2>2. v = Last
    BY DraftIsLast
  <2> QED
    BY <2>1, <2>2, DecisionFits, BeginKeeps DEF Issued
<1>3. ASSUME Issue(s) PROVE IInv'
  <2>1. PICK v \in RowsIn({"approved"}) :
          version[v].number = doc.number /\ Begin(s, Decision("issue", v, Issued))
    BY <1>3 DEF Issue
  <2>2. v = Last
    BY <2>1, NumberNamesRow DEF RowsIn
  <2> QED
    BY <2>1, <2>2, DecisionFits, BeginKeeps DEF Issued
<1>4. ASSUME Publish(s) PROVE IInv'
  <2>1. PICK v \in RowsIn({"draft"}) : Begin(s, Decision("publish", v, {"published"}))
    BY <1>4 DEF Publish
  <2>2. v = Last
    BY DraftIsLast
  <2> QED
    BY <2>1, <2>2, DecisionFits, BeginKeeps DEF Issued
<1>5. ASSUME Revise(s) PROVE IInv'
  <2> DEFINE drafts == RowsIn({"draft"})
             base == IF drafts = {} THEN doc.number ELSE version[Newest(drafts)].number
  <2>1. PICK major \in BOOLEAN, file \in BOOLEAN :
          /\ drafts = {} \/ RowsIn({"published"}) = {}
          /\ Begin(s, [Loaded("revise") EXCEPT
                !.row = IF drafts = {} THEN 0 ELSE Newest(drafts),
                !.to = NextNumber(base, major), !.file = file])
    BY <1>5 DEF Revise
  <2>2. drafts # {} => drafts = {Last} /\ version[Last].status = "draft"
    BY DraftIsLast DEF RowsIn
  <2>3. drafts # {} => Newest(drafts) = Last
    BY <2>2, RowsType DEF Newest
  <2>4. base = doc.number
    BY <2>3 DEF RowsOK
  <2> DEFINE r == [Loaded("revise") EXCEPT !.row = IF drafts = {} THEN 0 ELSE Newest(drafts),
                     !.to = NextNumber(base, major), !.file = file]
  <2>5. NextNumber(base, major) \in Numbers /\ Before(doc.number, NextNumber(base, major))
    BY <2>4, NumberOrder, DocType
  <2>6. /\ r \in Snapshot /\ r.op = "revise" /\ r.number = doc.number /\ r.status = doc.status
        /\ r.to = NextNumber(base, major)
        /\ r.row = IF drafts = {} THEN 0 ELSE Newest(drafts)
    BY <2>3, <2>5, LoadedType, RowsType DEF Snapshot
  <2>7. Begin(s, r)
    BY <2>1
  <2>8. drafts = {} \/ RowsIn({"published"}) = {}
    BY <2>1
  <2> HIDE DEF r
  <2>9. Fits(r)
    BY <2>2, <2>3, <2>5, <2>6, <2>8 DEF Fits, Decided, RowsOK
  <2> QED
    BY <2>6, <2>7, <2>9, BeginKeeps
<1> QED
  BY <1>1, <1>2, <1>3, <1>4, <1>5 DEF Submit, Reject, Reprocess

-----------------------------------------------------------------------------
(* Requests: the writing half. *)

(* A step that leaves the rows and the number alone, and the status too    *)
(* unless it writes one that claims no version, disturbs nobody.           *)
LEMMA StatusOnly ==
  ASSUME IInv, UNCHANGED version,
         doc' \in [status : Statuses, number : Numbers, filed : BOOLEAN],
         doc'.number = doc.number, doc'.filed = doc.filed,
         doc'.status = doc.status \/ Drifted',
         session' \in [Agents -> Snapshot], jobs' \in Nat, gaveUp' \in BOOLEAN,
         \A a \in Agents : session'[a] = session[a] \/ session'[a].op \in {"none", "index"}
  PROVE  IInv'
<1>1. TypeOK'
  BY DEF IInv, TypeOK, Snapshot
<1>2. RowsOK'
  BY DEF IInv, RowsOK, Last, Rows, RowsIn
<1>3. LiveStatusIsBacked'
  BY DEF IInv, LiveStatusIsBacked, RowsIn, Rows, Drifted
<1>4. ASSUME NEW s \in Sessions PROVE Fits(session[s])'
  <2>1. CASE session'[s] = session[s]
    <3>1. Fits(session[s])
      BY DEF IInv
    <3>2. Drifted /\ doc'.status = doc.status => Drifted'
      BY DEF Drifted
    <3>3. Last' = Last /\ Rows' = Rows /\ \A set : {v \in Rows : version[v].status \in set}'
                                            = {v \in Rows : version[v].status \in set}
      BY DEF Last, Rows
    <3> QED
      BY <2>1, <3>1, <3>2, <3>3 DEF Fits, RowsIn, Rows
  <2>2. CASE session'[s].op \in {"none", "index"}
    BY <2>2 DEF Fits, Decided
  <2> QED
    BY <2>1, <2>2 DEF Agents
<1> QED
  BY <1>1, <1>2, <1>3, <1>4 DEF IInv

(* What a review, a reprocessing or an index job writes. *)
LEMMA StatusWrites ==
  ASSUME TypeOK, NEW a \in Agents,
         NEW status \in IndexedStatus \cup {"processing", "draft", "under_review"},
         Write(a, status, session[a].number)
  PROVE  /\ doc' \in [status : Statuses, number : Numbers, filed : BOOLEAN]
         /\ doc'.number = doc.number /\ doc'.filed = doc.filed
         /\ doc'.status = doc.status \/ Drifted'
<1>1. doc \in [status : Statuses, number : Numbers, filed : BOOLEAN] /\ status \in Statuses
      /\ (status = "approved" => ~doc.filed)
      /\ status \in {"draft", "indexed", "approved", "failed", "processing", "under_review"}
  BY DEF TypeOK, IndexedStatus, Statuses
<1>2. WrittenNumber(a, session[a].number) = doc.number
  BY DEF WrittenNumber
<1>3. doc' = [doc EXCEPT !.status = WrittenStatus(a, status), !.number = doc.number]
  BY <1>2 DEF Write
<1>4. WrittenStatus(a, status) \in {doc.status, status}
  BY DEF WrittenStatus
<1> QED
  BY <1>1, <1>3, <1>4 DEF Drifted

(* A writer that ends, or goes on as an index job, leaves no other writer  *)
(* behind, so every request fits.                                          *)
LEMMA SessionsFit ==
  ASSUME OneWriter, TypeOK, NEW s \in Sessions, Writing(s), NEW r \in Snapshot,
         r.op \in {"none", "index"}, Become(s, r)
  PROVE  /\ session' \in [Agents -> Snapshot]
         /\ \A t \in Sessions : Fits(session[t])'
<1>1. session' \in [Agents -> Snapshot] /\ session'[s] = r
      /\ \A b \in Agents \ {s} : session'[b] = session[b]
  BY BecomeOne DEF Agents
<1>2. ASSUME NEW t \in Sessions PROVE session'[t].op \notin DOMAIN Decided \cup {"revise"}
  BY <1>1 DEF OneWriter, Writing, Decided, Agents
<1> QED
  BY <1>1, <1>2 DEF Fits

(* What a writer writes: its status or the one another has written, and    *)
(* its number.                                                             *)
LEMMA WriteEffect ==
  ASSUME TypeOK, NEW s \in Sessions, Fits(session[s]), Writing(s),
         NEW status \in Statuses, NEW number \in Numbers, Write(s, status, number)
  PROVE  /\ doc' \in [status : Statuses, number : Numbers, filed : BOOLEAN]
         /\ doc'.number = number /\ doc'.filed = doc.filed
         /\ doc'.status = status \/ (doc'.status = doc.status /\ Drifted)
<1>1. session[s].number = doc.number /\ (doc.status = session[s].status \/ Drifted)
  BY DEF Fits, Writing
<1>2. doc.status \in Statuses /\ doc.number \in Numbers /\ doc.filed \in BOOLEAN
      /\ doc \in [status : Statuses, number : Numbers, filed : BOOLEAN]
  BY DocType DEF TypeOK
<1>3. WrittenNumber(s, number) = number
  BY <1>1 DEF WrittenNumber
<1>4. WrittenStatus(s, status) = status \/ (WrittenStatus(s, status) = doc.status /\ Drifted)
  BY <1>1 DEF WrittenStatus
<1>5. WrittenStatus(s, status) \in Statuses
  BY <1>2 DEF WrittenStatus
<1> QED
  BY <1>2, <1>3, <1>4, <1>5 DEF Write

(* A status that nobody decided claims no version. *)
LEMMA DriftClaimsNothing ==
  ASSUME Drifted
  PROVE  doc.status # "published" /\ ~(doc.status = "approved" /\ doc.filed)
BY DEF Drifted

(* What a decision does to the rows: it is about the newest one, and all   *)
(* published ones before it are superseded.                                *)
LEMMA DecisionEffect ==
  ASSUME IInv, NEW s \in Sessions, CommitDecision(s)
  PROVE  /\ version' \in Seq(Row) /\ Len(version') = Last /\ Rows' = Rows
         /\ version'[Last].status = Decided[session[s].op]
         /\ \A v \in Rows : version'[v].number = version[v].number
         /\ \A v \in Rows \ {Last} : \/ version'[v].status = "superseded"
                                     \/ /\ version'[v].status = version[v].status
                                        /\ version[v].status # "published"
<1> DEFINE r == session[s]
<1>1. /\ r.op \in {"approve", "issue", "publish"}
      /\ Decided[r.op] \in RowStatuses
  BY DEF CommitDecision, Decided, RowStatuses
<1>2. r.row = Last /\ RowsIn({"published"}) \subseteq r.prior
  BY DEF IInv, Fits, CommitDecision
<1>3. version \in Seq(Row) /\ Last \in Nat /\ Rows = 1..Last
      /\ \A v \in Rows : version[v] \in Row
  BY RowsType DEF IInv
<1>4. version' = [v \in Rows |->
        IF v = Last THEN [version[v] EXCEPT !.status = Decided[r.op]]
        ELSE IF v \in r.prior THEN [version[v] EXCEPT !.status = "superseded"]
        ELSE version[v]]
  BY <1>2 DEF CommitDecision
<1>5. version' \in [1..Last -> Row]
  BY <1>1, <1>3, <1>4 DEF Row, RowStatuses
<1>6. version' \in Seq(Row) /\ Len(version') = Last /\ Rows' = Rows
  BY <1>3, <1>5 DEF Rows
<1>7. Last \in Rows
  BY <1>3 DEF IInv, RowsOK
<1> QED
  BY <1>2, <1>3, <1>4, <1>6, <1>7 DEF Row, RowsIn

LEMMA DecisionKeeps ==
  ASSUME OneWriter, IInv, NEW s \in Sessions, CommitDecision(s)
  PROVE  IInv'
<1> DEFINE r == session[s]
<1>1. /\ Become(s, Idle) /\ UNCHANGED <<jobs, gaveUp>>
      /\ r.op \in {"approve", "issue", "publish"}
      /\ Decided[r.op] \in {"approved", "published"}
      /\ Write(s, Decided[r.op], r.to) /\ Writing(s)
  BY DEF CommitDecision, Finish, Decided, Writing
<1>2. TypeOK /\ RowsOK /\ Fits(r)
  BY DEF IInv
<1>3. r.to = version[Last].number /\ Last \in Rows /\ r.to \in Numbers
  BY <1>1, <1>2, RowsType DEF Fits, Decided, RowsOK, Row
<1>4. /\ doc' \in [status : Statuses, number : Numbers, filed : BOOLEAN]
      /\ doc'.number = r.to /\ doc'.filed = doc.filed
      /\ doc'.status = Decided[r.op] \/ (doc'.status = doc.status /\ Drifted)
  BY <1>1, <1>2, <1>3, WriteEffect DEF Statuses
<1>5. session' \in [Agents -> Snapshot] /\ \A t \in Sessions : Fits(session[t])'
  BY <1>1, <1>2, IdleType, SessionsFit DEF Idle
<1>6. /\ version' \in Seq(Row) /\ Len(version') = Last /\ Rows' = Rows
      /\ version'[Last].status = Decided[r.op]
      /\ \A v \in Rows : version'[v].number = version[v].number
      /\ \A v \in Rows \ {Last} : \/ version'[v].status = "superseded"
                                  \/ /\ version'[v].status = version[v].status
                                     /\ version[v].status # "published"
  BY DecisionEffect
<1>7. TypeOK'
  BY <1>1, <1>2, <1>4, <1>5, <1>6 DEF TypeOK, Snapshot, Row
<1>8. Last' = Last
  BY <1>6 DEF Last
<1>9. RowsOK'
  <2>1. \A v \in Rows : version'[v].status # "draft"
    <3>1. \A v \in Rows \ {Last} : version[v].status # "draft"
      BY <1>2 DEF RowsOK
    <3> QED
      BY <1>1, <1>6, <3>1
  <2>2. \A v \in Rows : version'[v].status = "published" => v = Last
    BY <1>6
  <2> QED
    BY <1>2, <1>3, <1>4, <1>6, <1>8, <2>1, <2>2 DEF RowsOK, RowsIn
<1>10. LiveStatusIsBacked'
  <2>1. Last \in Rows' /\ version'[Last].status = Decided[r.op]
        /\ version'[Last].number = doc'.number
    BY <1>3, <1>4, <1>6
  <2>2. doc'.status = "published" \/ (doc'.status = "approved" /\ doc'.filed)
          => doc'.status = Decided[r.op]
    BY <1>1, <1>4, DriftClaimsNothing
  <2> QED
    BY <2>1, <2>2 DEF LiveStatusIsBacked, RowsIn
<1> QED
  BY <1>5, <1>7, <1>9, <1>10 DEF IInv

(* What a request leaves in its session after it has dispatched a job. *)
LEMMA DispatchEnds ==
  ASSUME TypeOK, NEW s \in Sessions, Dispatch(s) \/ Finish(s)
  PROVE  /\ session' \in [Agents -> Snapshot] /\ jobs' \in Nat /\ gaveUp' \in BOOLEAN
         /\ \E r \in Snapshot : r.op \in {"none", "index"} /\ Become(s, r)
         /\ session'[s].op \in {"none", "index"}
         /\ \A b \in Agents \ {s} : session'[b] = session[b]
<1>1. PICK r \in Snapshot : r.op \in {"none", "index"} /\ Become(s, r)
  <2>1. [Idle EXCEPT !.op = "index", !.status = "processing"] \in Snapshot
    BY IdleType DEF Snapshot, Statuses
  <2> QED
    BY <2>1, IdleType DEF Dispatch, Finish, Idle
<1>2. /\ session' \in [Agents -> Snapshot] /\ session'[s].op \in {"none", "index"}
      /\ \A b \in Agents \ {s} : session'[b] = session[b]
  BY <1>1, BecomeOne DEF Agents
<1>3. jobs' \in Nat
  BY SMT DEF Dispatch, Finish, TypeOK
<1>4. gaveUp' \in BOOLEAN
  BY Zenon DEF Dispatch, Finish, TypeOK
<1> QED
  BY <1>1, <1>2, <1>3, <1>4

LEMMA ReviewKeeps ==
  ASSUME IInv, NEW s \in Sessions, CommitReview(s)
  PROVE  IInv'
<1>1. s \in Agents /\ Become(s, Idle) /\ UNCHANGED <<version, jobs, gaveUp>>
  BY DEF CommitReview, Finish, Agents
<1>2. PICK status \in {"under_review", "draft"} : Write(s, status, session[s].number)
  BY DEF CommitReview
<1>3. session' \in [Agents -> Snapshot] /\ session'[s].op = "none"
      /\ \A b \in Agents \ {s} : session'[b] = session[b]
  BY <1>1, IdleType, BecomeOne DEF Idle, IInv
<1> QED
  BY <1>1, <1>2, <1>3, StatusWrites, StatusOnly DEF IInv, TypeOK

LEMMA ReprocessKeeps ==
  ASSUME IInv, NEW s \in Sessions, CommitReprocess(s)
  PROVE  IInv'
<1>1. s \in Agents /\ UNCHANGED version /\ Write(s, "processing", session[s].number)
  BY DEF CommitReprocess, Agents
<1>2. /\ session' \in [Agents -> Snapshot] /\ jobs' \in Nat /\ gaveUp' \in BOOLEAN
      /\ session'[s].op \in {"none", "index"}
      /\ \A b \in Agents \ {s} : session'[b] = session[b]
  BY DispatchEnds DEF CommitReprocess, IInv
<1> QED
  BY <1>1, <1>2, StatusWrites, StatusOnly DEF IInv

(* What a revision does to the rows: the newest one is renumbered while it *)
(* is a draft and nothing is published, or a draft is added.               *)
LEMMA RevisionEffect ==
  ASSUME IInv, NEW s \in Sessions, CommitRevision(s)
  PROVE  LET r == session[s] IN
         /\ version' \in Seq(Row)
         /\ IF r.row = 0
            THEN /\ Len(version') = Last + 1
                 /\ version'[Last + 1] = [status |-> "draft", number |-> r.to]
                 /\ \A v \in Rows : version'[v] = version[v]
            ELSE /\ Len(version') = Last
                 /\ version'[Last] = [status |-> "draft", number |-> r.to]
                 /\ \A v \in Rows \ {Last} : version'[v] = version[v]
<1> DEFINE r == session[s]
<1>1. r.op = "revise" /\ Fits(r)
  BY DEF IInv, CommitRevision, At
<1>2. /\ version \in Seq(Row) /\ Last \in Nat \ {0} /\ Rows = 1..Last
      /\ version[Last] \in Row /\ r.to \in Numbers
  BY <1>1, RowsType DEF IInv, RowsOK, Fits
<1>3. [status |-> "draft", number |-> r.to] \in Row
  BY <1>2 DEF Row, RowStatuses
<1>4. CASE r.row = 0
  <2>1. version' = Append(version, [status |-> "draft", number |-> r.to])
    BY <1>4 DEF CommitRevision
  <2> QED
    BY <1>2, <1>3, <1>4, <2>1 DEF Last
<1>5. CASE r.row # 0
  <2>1. r.row = Last /\ version[Last].status = "draft"
    BY <1>1, <1>5 DEF Fits
  <2>2. version' = [version EXCEPT ![Last] = [version[Last] EXCEPT !.number = r.to]]
    BY <1>5, <2>1 DEF CommitRevision
  <2>3. [version[Last] EXCEPT !.number = r.to] = [status |-> "draft", number |-> r.to]
    BY <1>2, <2>1 DEF Row
  <2> QED
    BY <1>2, <1>3, <1>5, <2>2, <2>3, ExceptSeq DEF Last
<1> QED
  BY <1>4, <1>5

LEMMA RevisionKeeps ==
  ASSUME OneWriter, IInv, NEW s \in Sessions, CommitRevision(s)
  PROVE  IInv'
<1> DEFINE r == session[s]
           status == IF r.file THEN "processing"
                     ELSE IF r.row = 0 THEN Revised(r.status) ELSE r.status
<1>1. TypeOK /\ RowsOK /\ LiveStatusIsBacked /\ Fits(r) /\ r.op = "revise" /\ r \in Snapshot
      /\ Writing(s)
  BY DEF IInv, CommitRevision, At, TypeOK, Snapshot, Agents, Writing
<1>2. /\ Write(s, status, r.to) /\ (Dispatch(s) \/ Finish(s))
      /\ status \in Statuses /\ r.to \in Numbers /\ Before(doc.number, r.to)
  <2>1. Write(s, status, r.to) /\ (Dispatch(s) \/ Finish(s))
    BY DEF CommitRevision
  <2>2. status \in Statuses
    BY <1>1 DEF Revised, Statuses, Snapshot
  <2>3. r.to \in Numbers /\ Before(doc.number, r.to)
    BY <1>1 DEF Fits
  <2> QED
    BY <2>1, <2>2, <2>3
<1>3. /\ doc' \in [status : Statuses, number : Numbers, filed : BOOLEAN]
      /\ doc'.number = r.to /\ doc'.filed = doc.filed
      /\ doc'.status = status \/ (doc'.status = doc.status /\ Drifted)
  <2> HIDE DEF status
  <2> QED
    BY <1>1, <1>2, WriteEffect
<1>4. /\ session' \in [Agents -> Snapshot] /\ jobs' \in Nat /\ gaveUp' \in BOOLEAN
      /\ \A t \in Sessions : Fits(session[t])'
  BY <1>1, <1>2, DispatchEnds, SessionsFit
<1>5. /\ version' \in Seq(Row)
      /\ IF r.row = 0
         THEN /\ Len(version') = Last + 1
              /\ version'[Last + 1] = [status |-> "draft", number |-> r.to]
              /\ \A v \in Rows : version'[v] = version[v]
         ELSE /\ Len(version') = Last
              /\ version'[Last] = [status |-> "draft", number |-> r.to]
              /\ \A v \in Rows \ {Last} : version'[v] = version[v]
  BY RevisionEffect
<1>6. TypeOK'
  BY <1>3, <1>4, <1>5 DEF TypeOK, Snapshot, Row
<1>7. /\ Last \in Nat \ {0} /\ Rows = 1..Last /\ Last' \in Nat /\ Rows' = 1..Last'
      /\ \A v \in Rows : version[v] \in Row /\ version[v].number \in Numbers
  BY <1>1, <1>6, RowsType DEF RowsOK, Row, Last, Rows
<1>8. \A v \in Rows : Before(version[v].number, r.to)
  <2>1. \A v \in Rows \ {Last} : Before(version[v].number, doc.number)
    BY <1>1, <1>7 DEF RowsOK
  <2> QED
    BY <1>1, <1>2, <1>7, <2>1, NumberOrder DEF RowsOK
<1>9. \A v \in Rows : version[v].status = "draft" => v = Last /\ r.row = Last
  BY <1>1, <1>7 DEF RowsOK, Fits, RowsIn
<1>10. CASE r.row = 0
  <2>1. Last' = Last + 1 /\ Rows' = Rows \cup {Last + 1}
        /\ version'[Last + 1] = [status |-> "draft", number |-> r.to]
        /\ \A v \in Rows : version'[v] = version[v] /\ version[v].status # "draft"
    BY <1>5, <1>7, <1>9, <1>10 DEF Last
  <2>2. RowsOK'
    <3>1. \A v, w \in Rows' : v < w => Before(version'[v].number, version'[w].number)
      BY <1>1, <1>7, <1>8, <2>1 DEF RowsOK
    <3>2. \A v \in Rows' : version'[v].status = "draft" => v = Last'
      BY <2>1
    <3>3. \A v, w \in RowsIn({"published"})' : v = w
      BY <1>1, <2>1 DEF RowsOK, RowsIn
    <3> QED
      BY <1>3, <1>7, <2>1, <3>1, <3>2, <3>3 DEF RowsOK
  <2>3. doc'.status # "published" /\ ~(doc'.status = "approved" /\ doc'.filed)
    BY <1>3, <1>10, DriftClaimsNothing DEF Revised
  <2> QED
    BY <1>4, <1>6, <2>2, <2>3 DEF IInv, LiveStatusIsBacked
<1>11. CASE r.row # 0
  <2>1. /\ Last' = Last /\ Rows' = Rows /\ version[Last].status = "draft"
        /\ version'[Last] = [status |-> "draft", number |-> r.to]
        /\ \A v \in Rows \ {Last} : version'[v] = version[v]
        /\ RowsIn({"published"}) = {}
    BY <1>1, <1>5, <1>7, <1>11 DEF Fits, Last
  <2>2. RowsOK'
    <3>1. \A v, w \in Rows' : v < w => Before(version'[v].number, version'[w].number)
      BY <1>1, <1>7, <1>8, <2>1 DEF RowsOK
    <3>2. \A v \in Rows' : version'[v].status = "draft" => v = Last'
      BY <1>9, <2>1
    <3>3. \A v, w \in RowsIn({"published"})' : v = w
      BY <2>1 DEF RowsIn
    <3> QED
      BY <1>3, <1>7, <2>1, <3>1, <3>2, <3>3 DEF RowsOK
  <2>3. doc.status # "published" /\ ~(doc.status = "approved" /\ doc.filed)
    <3>1. \A v \in RowsIn({"approved"}) : version[v].number # doc.number
      BY <1>1, <2>1, NumberNamesRow DEF RowsIn
    <3> QED
      BY <1>1, <2>1, <3>1 DEF LiveStatusIsBacked
  <2>4. doc'.status \in {doc.status, "processing"}
    <3>1. doc'.status = WrittenStatus(s, status)
      BY <1>1, <1>2 DEF Write, TypeOK
    <3> QED
      BY <1>11, <3>1 DEF WrittenStatus
  <2> QED
    BY <1>3, <1>4, <1>6, <2>2, <2>3, <2>4 DEF IInv, LiveStatusIsBacked
<1> QED
  BY <1>10, <1>11

-----------------------------------------------------------------------------
(* Index jobs. *)

LEMMA IndexKeeps ==
  ASSUME IInv,
         \/ BulkReprocess
         \/ \E w \in Workers : StartIndex(w)
         \/ \E a \in Agents : FinishIndex(a) \/ FailIndex(a)
         \/ UNCHANGED vars
  PROVE  IInv'
<1>1. TypeOK /\ session \in [Agents -> Snapshot]
      /\ doc \in [status : Statuses, number : Numbers, filed : BOOLEAN]
  BY DEF IInv, TypeOK, Snapshot
<1>2. CASE BulkReprocess
  <2>1. jobs' \in Nat /\ UNCHANGED <<doc, version, session>>
    BY <1>1, <1>2, SMT DEF BulkReprocess, TypeOK
  <2>2. gaveUp' \in BOOLEAN
    BY <1>2, Zenon DEF BulkReprocess
  <2> QED
    BY <1>1, <2>1, <2>2, StatusOnly
<1>3. ASSUME NEW w \in Workers, StartIndex(w) PROVE IInv'
  <2>1. w \in Agents /\ Become(w, Loaded("index")) /\ jobs' \in Nat
        /\ UNCHANGED <<doc, version, gaveUp>>
    BY <1>1, <1>3 DEF StartIndex, Agents, TypeOK
  <2>2. session' \in [Agents -> Snapshot] /\ session'[w].op = "index"
        /\ \A b \in Agents \ {w} : session'[b] = session[b]
    BY <1>1, <2>1, LoadedType, BecomeOne
  <2> QED
    BY <1>1, <2>1, <2>2, StatusOnly DEF TypeOK
<1>4. ASSUME NEW a \in Agents, FinishIndex(a) PROVE IInv'
  <2>1. PICK status \in IndexedStatus : Write(a, status, session[a].number)
    BY <1>4 DEF FinishIndex
  <2>2. Become(a, Idle) /\ UNCHANGED <<version, jobs, gaveUp>>
    BY <1>4 DEF FinishIndex, Finish
  <2>3. session' \in [Agents -> Snapshot] /\ session'[a].op = "none"
        /\ \A b \in Agents \ {a} : session'[b] = session[b]
    BY <1>1, <2>2, IdleType, BecomeOne DEF Idle
  <2> QED
    BY <1>1, <2>1, <2>2, <2>3, StatusWrites, StatusOnly DEF TypeOK
<1>5. ASSUME NEW a \in Agents, FailIndex(a) PROVE IInv'
  <2>1. Become(a, Idle) /\ UNCHANGED version
    BY <1>5 DEF FailIndex
  <2>2. session' \in [Agents -> Snapshot] /\ session'[a].op = "none"
        /\ \A b \in Agents \ {a} : session'[b] = session[b]
    BY <1>1, <2>1, IdleType, BecomeOne DEF Idle
  <2>3. jobs' \in Nat
    BY <1>1, <1>5, SMT DEF FailIndex, TypeOK
  <2>4. gaveUp' \in BOOLEAN
    BY <1>1, <1>5, Zenon DEF FailIndex, TypeOK
  <2>5. doc' = doc \/ Write(a, "processing", session[a].number)
    BY <1>5 DEF FailIndex
  <2> QED
    BY <1>1, <2>1, <2>2, <2>3, <2>4, <2>5, StatusWrites, StatusOnly
<1>6. CASE UNCHANGED vars
  BY <1>1, <1>6, StatusOnly DEF vars, TypeOK
<1> QED
  BY <1>2, <1>3, <1>4, <1>5, <1>6

LEMMA NextIInv == IInv /\ OneWriter /\ [Next]_vars => IInv'
<1> SUFFICES ASSUME IInv, OneWriter, [Next]_vars PROVE IInv'
  OBVIOUS
<1>1. ASSUME NEW s \in Sessions,
             Submit(s) \/ Reject(s) \/ Approve(s) \/ Issue(s) \/ Publish(s) \/ Revise(s)
               \/ Reprocess(s)
      PROVE  IInv'
  BY <1>1, ReadingKeeps
<1>2. ASSUME NEW s \in Sessions,
             CommitReview(s) \/ CommitDecision(s) \/ CommitRevision(s) \/ CommitReprocess(s)
      PROVE  IInv'
  BY <1>2, ReviewKeeps, DecisionKeeps, RevisionKeeps, ReprocessKeeps
<1>3. ASSUME \/ BulkReprocess
             \/ \E w \in Workers : StartIndex(w)
             \/ \E a \in Agents : FinishIndex(a) \/ FailIndex(a)
             \/ UNCHANGED vars
      PROVE  IInv'
  BY <1>3, IndexKeeps
<1> QED
  BY <1>1, <1>2, <1>3 DEF Next

-----------------------------------------------------------------------------
(* The types need no assumption about who overlaps whom. *)

(* Of some rows there is a newest: the one with the fewest rows after it. *)
LEMMA NewestIsOne ==
  ASSUME TypeOK, NEW rows \in SUBSET Rows, rows # {}
  PROVE  Newest(rows) \in rows
<1>1. Last \in Nat /\ Rows = 1..Last
  BY RowsType
<1> DEFINE T == {Last - v : v \in rows}
           Less == OpToRel(<, Nat)
<1>2. T \subseteq Nat /\ T # {}
  BY <1>1
<1>3. PICK n \in T : \A m \in T : ~(<<m, n>> \in Less)
  <2>1. IsWellFoundedOn(Less, Nat)
    BY NatLessThanWellFounded
  <2> HIDE DEF T, Less
  <2> QED
    BY <1>2, <2>1, WFMin
<1>4. \A m \in T : n <= m
  <2>1. ASSUME NEW m \in Nat, m < n PROVE <<m, n>> \in Less
    <3>1. <<m, n>> \in Nat \X Nat /\ <<m, n>>[1] < <<m, n>>[2]
      BY <1>2, <2>1
    <3> QED
      BY <3>1, Zenon DEF OpToRel
  <2> HIDE DEF T, Less
  <2>2. \A m \in T : m \in Nat /\ n \in Nat /\ ~(m < n)
    BY <1>2, <1>3, <2>1
  <2> QED
    BY <2>2
<1>5. PICK v \in rows : n = Last - v
  BY <1>3
<1>6. \A w \in rows : w <= v
  <2> TAKE w \in rows
  <2>1. Last - v <= Last - w
    BY <1>4, <1>5
  <2> QED
    BY <1>1, <2>1
<1> QED
  BY <1>6 DEF Newest

LEMMA InitTypeOK == Init => TypeOK
BY InitIInv DEF IInv

LEMMA BeginType ==
  ASSUME TypeOK, NEW s \in Sessions, NEW r \in Snapshot, Begin(s, r)
  PROVE  TypeOK'
<1>1. session' \in [Agents -> Snapshot]
  BY BecomeOne DEF Begin, Agents
<1> QED
  BY <1>1 DEF Begin, TypeOK, Snapshot

(* What a decision loads, about whichever row. *)
LEMMA DecisionType ==
  ASSUME TypeOK, NEW op \in {"approve", "issue", "publish"}, NEW v \in Rows, NEW set
  PROVE  Decision(op, v, set) \in Snapshot
<1>1. version[v].number \in Numbers /\ v \in Nat
  BY RowsType DEF Row
<1>2. RowsIn(set) \ {v} \in SUBSET Nat
  BY RowsType
<1> QED
  BY <1>1, <1>2, LoadedType DEF Decision, Snapshot

LEMMA ReadingType ==
  ASSUME TypeOK, NEW s \in Sessions,
         Submit(s) \/ Reject(s) \/ Approve(s) \/ Issue(s) \/ Publish(s) \/ Revise(s)
           \/ Reprocess(s)
  PROVE  TypeOK'
<1>1. ASSUME NEW op \in {"submit", "reject", "reprocess"}, Begin(s, Loaded(op)) PROVE TypeOK'
  BY <1>1, LoadedType, BeginType
<1>2. ASSUME NEW op \in {"approve", "issue", "publish"}, NEW v \in Rows, NEW set,
             Begin(s, Decision(op, v, set))
      PROVE  TypeOK'
  BY <1>2, DecisionType, BeginType
<1>3. ASSUME Approve(s) \/ Issue(s) \/ Publish(s) PROVE TypeOK'
  BY <1>2, <1>3 DEF Approve, Issue, Publish, RowsIn
<1>4. ASSUME Revise(s) PROVE TypeOK'
  <2> DEFINE drafts == RowsIn({"draft"})
             base == IF drafts = {} THEN doc.number ELSE version[Newest(drafts)].number
             row == IF drafts = {} THEN 0 ELSE Newest(drafts)
  <2>1. PICK major \in BOOLEAN, file \in BOOLEAN :
          Begin(s, [Loaded("revise") EXCEPT !.row = row, !.to = NextNumber(base, major),
                                            !.file = file])
    BY <1>4 DEF Revise
  <2>2. drafts # {} => Newest(drafts) \in Rows
    BY NewestIsOne DEF RowsIn
  <2>3. row \in Nat /\ base \in Numbers
    BY <2>2, RowsType, DocType DEF Row
  <2>4. NextNumber(base, major) \in Numbers
    <3> HIDE DEF base
    <3> QED
      BY <2>3, NumberOrder
  <2> HIDE DEF row, base
  <2>5. [Loaded("revise") EXCEPT !.row = row, !.to = NextNumber(base, major),
                                 !.file = file] \in Snapshot
    BY <2>3, <2>4, LoadedType DEF Snapshot
  <2> QED
    BY <2>1, <2>5, BeginType
<1> QED
  BY <1>1, <1>3, <1>4 DEF Submit, Reject, Reprocess

(* What anybody writes to the documents row. *)
LEMMA WriteType ==
  ASSUME TypeOK, NEW a, NEW status \in Statuses, NEW number \in Numbers,
         Write(a, status, number)
  PROVE  doc' \in [status : Statuses, number : Numbers, filed : BOOLEAN]
BY DEF Write, WrittenStatus, WrittenNumber, TypeOK

(* A request that ends, or goes on as an index job, keeps the types if it  *)
(* writes statuses and numbers, and rows.                                  *)
LEMMA CommitType ==
  ASSUME TypeOK, NEW s \in Sessions,
         CommitReview(s) \/ CommitDecision(s) \/ CommitRevision(s) \/ CommitReprocess(s)
  PROVE  TypeOK'
<1> DEFINE r == session[s]
<1>1. r \in Snapshot
  BY DEF TypeOK, Snapshot, Agents
<1>2. session' \in [Agents -> Snapshot] /\ jobs' \in Nat /\ gaveUp' \in BOOLEAN
  BY DispatchEnds DEF CommitReview, CommitDecision, CommitRevision, CommitReprocess
<1>3. version \in Seq(Row) /\ Last \in Nat /\ Rows = 1..Last /\ \A v \in Rows : version[v] \in Row
  BY RowsType
<1>4. ASSUME NEW status \in Statuses, NEW number \in Numbers, Write(s, status, number),
             version' \in Seq(Row)
      PROVE  TypeOK'
  <2>1. doc' \in [status : Statuses, number : Numbers, filed : BOOLEAN]
    BY <1>4, WriteType
  <2> QED
    BY <1>2, <1>4, <2>1 DEF TypeOK, Snapshot, Row
<1> HIDE DEF r
<1>5. ASSUME CommitReview(s) \/ CommitReprocess(s) PROVE TypeOK'
  <2>1. version' \in Seq(Row) /\ r.number \in Numbers
    BY <1>1, <1>3, <1>5 DEF CommitReview, CommitReprocess, Snapshot
  <2>2. \E status \in {"under_review", "draft", "processing"} : Write(s, status, r.number)
    BY <1>5 DEF CommitReview, CommitReprocess, r
  <2> QED
    BY <1>4, <2>1, <2>2 DEF Statuses
<1>6. ASSUME CommitDecision(s) PROVE TypeOK'
  <2>1. Decided[r.op] \in {"approved", "published"} /\ Write(s, Decided[r.op], r.to)
    BY <1>6 DEF CommitDecision, Decided, r
  <2>2. version' = [v \in Rows |->
          IF v = r.row THEN [version[v] EXCEPT !.status = Decided[r.op]]
          ELSE IF v \in r.prior THEN [version[v] EXCEPT !.status = "superseded"]
          ELSE version[v]]
    BY <1>6 DEF CommitDecision, r
  <2>3. version' \in [1..Last -> Row]
    BY <1>3, <2>1, <2>2 DEF Row, RowStatuses
  <2>4. version' \in Seq(Row) /\ r.to \in Numbers
    BY <1>1, <1>3, <2>3 DEF Snapshot
  <2> QED
    BY <1>4, <2>1, <2>4 DEF Statuses
<1>7. ASSUME CommitRevision(s) PROVE TypeOK'
  <2>1. PICK status : /\ status = IF r.file THEN "processing"
                                  ELSE IF r.row = 0 THEN Revised(r.status) ELSE r.status
                      /\ Write(s, status, r.to)
    BY <1>7 DEF CommitRevision, r
  <2>2. status \in Statuses /\ r.to \in Numbers /\ r.row \in Nat
    BY <1>1, <2>1 DEF Revised, Statuses, Snapshot
  <2>3. version' = IF r.row = 0 THEN Append(version, [status |-> "draft", number |-> r.to])
                   ELSE [version EXCEPT ![r.row].number = r.to]
    BY <1>7 DEF CommitRevision, r
  <2>4. [status |-> "draft", number |-> r.to] \in Row
    BY <2>2 DEF Row, RowStatuses
  <2>5. CASE r.row \in Rows
    <3>1. [version[r.row] EXCEPT !.number = r.to] \in Row
      BY <1>3, <2>2, <2>5 DEF Row
    <3>2. version' = [version EXCEPT ![r.row] = [version[r.row] EXCEPT !.number = r.to]]
      BY <1>3, <2>3, <2>5
    <3> QED
      BY <1>3, <1>4, <2>1, <2>2, <2>5, <3>1, <3>2, ExceptSeq DEF Last
  <2>6. CASE r.row \notin Rows
    <3>1. r.row # 0 => version' \in [1..Last -> Row]
      <4>1. version \in [1..Last -> Row]
        BY <1>3, LenProperties DEF Last
      <4> QED
        BY <1>3, <2>3, <2>6, <4>1
    <3>2. version' \in Seq(Row)
      BY <1>3, <2>3, <2>4, <3>1
    <3> QED
      BY <1>4, <2>1, <2>2, <3>2
  <2> QED
    BY <2>5, <2>6
<1> QED
  BY <1>5, <1>6, <1>7

LEMMA IndexType ==
  ASSUME TypeOK,
         \/ BulkReprocess
         \/ \E w \in Workers : StartIndex(w)
         \/ \E a \in Agents : FinishIndex(a) \/ FailIndex(a)
         \/ UNCHANGED vars
  PROVE  TypeOK'
<1>1. doc' \in [status : Statuses, number : Numbers, filed : BOOLEAN]
  <2>1. UNCHANGED doc
        \/ \E a \in Agents : \E status \in IndexedStatus \cup {"processing"} :
             Write(a, status, session[a].number)
    BY DEF BulkReprocess, StartIndex, FinishIndex, FailIndex, vars
  <2>2. \A a \in Agents : session[a].number \in Numbers
    BY DEF TypeOK
  <2>3. IndexedStatus \cup {"processing"} \subseteq Statuses
    BY DEF IndexedStatus, Statuses
  <2> QED
    BY <2>1, <2>2, <2>3, WriteType DEF TypeOK
<1>2. session' \in [Agents -> Snapshot]
  <2>1. session \in [Agents -> Snapshot]
    BY DEF TypeOK, Snapshot
  <2>2. UNCHANGED session \/ \E a \in Agents : Become(a, Idle) \/ Become(a, Loaded("index"))
    BY DEF BulkReprocess, StartIndex, FinishIndex, FailIndex, Finish, vars, Agents
  <2> QED
    BY <2>1, <2>2, IdleType, LoadedType, BecomeOne
<1>3. jobs' \in Nat
  BY SMT DEF BulkReprocess, StartIndex, FinishIndex, FailIndex, Finish, vars, TypeOK
<1>4. gaveUp' \in BOOLEAN
  BY Zenon DEF BulkReprocess, StartIndex, FinishIndex, FailIndex, Finish, vars, TypeOK
<1>5. UNCHANGED version
  BY DEF BulkReprocess, StartIndex, FinishIndex, FailIndex, vars
<1> QED
  BY <1>1, <1>2, <1>3, <1>4, <1>5 DEF TypeOK, Snapshot

-----------------------------------------------------------------------------
(* What the steps enter into the ledger of versions. *)

(* The ledger's two variables. *)
IssuedNumbers == {version[v].number : v \in RowsIn(Issued \cup {"superseded"})}
NumbersInForce == {version[v].number : v \in RowsIn({"published"})}

(* Approving or releasing a number is a step of the ledger. *)
LEMMA EntersOne ==
  ASSUME NEW n \in IssuedNumbers', Ledger!Approve(n) \/ Ledger!Release(n)
  PROVE  Ledger!Next
BY DEF Ledger!Next, IssuedNumbers

(* A decision enters the newest number: as approved, if it was a draft, or *)
(* as the one in force.                                                    *)
LEMMA DecisionEnters ==
  ASSUME IInv, NEW s \in Sessions, CommitDecision(s)
  PROVE  Ledger!Next
<1> DEFINE r == session[s]
<1>0. PICK n : n = version[Last].number
  OBVIOUS
<1>1. TypeOK /\ RowsOK /\ Fits(r) /\ Last \in Rows
      /\ r.op \in DOMAIN Decided
  BY RowsType DEF IInv, CommitDecision, RowsOK
<1>2. /\ r.op = "approve" => Decided[r.op] = "approved"
      /\ r.op # "approve" => Decided[r.op] = "published"
  BY <1>1 DEF Decided
<1>3. /\ Rows' = Rows /\ version'[Last].status = Decided[r.op]
      /\ \A v \in Rows : version'[v].number = version[v].number
      /\ \A v \in Rows \ {Last} : \/ version'[v].status = "superseded"
                                  \/ /\ version'[v].status = version[v].status
                                     /\ version[v].status # "published"
  BY DecisionEffect
<1>4. \A v \in Rows \ {Last} : /\ version[v].status \in Issued \cup {"superseded"}
                               /\ version'[v].status \in Issued \cup {"superseded"}
                               /\ version'[v].status # "published"
  <2>1. \A v \in Rows \ {Last} : version[v] \in Row /\ version[v].status # "draft"
    BY <1>1, RowsType DEF RowsOK
  <2> QED
    BY <1>3, <2>1 DEF Row, RowStatuses, Issued
<1>5. IssuedNumbers' = IssuedNumbers \cup {n} /\ n \in IssuedNumbers'
  <2>1. RowsIn(Issued \cup {"superseded"})' = RowsIn(Issued \cup {"superseded"}) \cup {Last}
    BY <1>1, <1>2, <1>3, <1>4 DEF RowsIn, Issued
  <2>2. \A v \in RowsIn(Issued \cup {"superseded"}) \cup {Last} : v \in Rows
    BY <1>1 DEF RowsIn
  <2>3. IssuedNumbers' = {version[v].number : v \in RowsIn(Issued \cup {"superseded"}) \cup {Last}}
    BY <1>3, <2>1, <2>2 DEF IssuedNumbers
  <2> QED
    BY <1>0, <2>3 DEF IssuedNumbers
<1>6. \A m \in IssuedNumbers \ {n} : Ledger!Precedes(m, n)
  <2> SUFFICES ASSUME NEW v \in Rows, version[v].number # n
               PROVE  Ledger!Precedes(version[v].number, n)
    BY DEF IssuedNumbers, RowsIn
  <2>1. v < Last
    BY <1>0, <1>1, RowsType
  <2>2. Before(version[v].number, n)
    BY <1>0, <1>1, <2>1 DEF RowsOK
  <2> QED
    BY <2>2 DEF Before, Ledger!Precedes
<1>7. CASE r.op = "approve"
  <2>1. version[Last].status = "draft"
    BY <1>1, <1>7 DEF Fits
  <2>2. n \notin IssuedNumbers
    <3> SUFFICES ASSUME NEW v \in RowsIn(Issued \cup {"superseded"}), version[v].number = n
                 PROVE  FALSE
      BY DEF IssuedNumbers
    <3>1. v = Last
      BY <1>0, <1>1, NumberNamesRow DEF RowsIn, RowsOK
    <3> QED
      BY <2>1, <3>1 DEF RowsIn, Issued
  <2>3. NumbersInForce' = {}
    BY <1>2, <1>3, <1>4, <1>7 DEF NumbersInForce, RowsIn
  <2>4. Ledger!Approve(n)
    BY <1>5, <1>6, <2>2, <2>3
    DEF Ledger!Approve, Ledger!IsNewest, IssuedNumbers, NumbersInForce
  <2> QED
    BY <1>5, <2>4, EntersOne
<1>8. CASE r.op # "approve"
  <2>1. RowsIn({"published"})' = {Last}
    BY <1>1, <1>2, <1>3, <1>4, <1>8 DEF RowsIn
  <2>2. NumbersInForce' = {n}
    BY <1>0, <1>1, <1>3, <2>1 DEF NumbersInForce
  <2>3. Ledger!Release(n)
    BY <1>5, <1>6, <2>2
    DEF Ledger!Release, Ledger!IsNewest, IssuedNumbers, NumbersInForce
  <2> QED
    BY <1>5, <2>3, EntersOne
<1> QED
  BY <1>7, <1>8

(* A revision touches drafts only: the ledger stands still. *)
LEMMA RevisionEntersNothing ==
  ASSUME IInv, NEW s \in Sessions, CommitRevision(s)
  PROVE  UNCHANGED <<IssuedNumbers, NumbersInForce>>
<1> DEFINE r == session[s]
<1>1. /\ TypeOK /\ RowsOK /\ Last \in Nat /\ Rows = 1..Last
      /\ r.row # 0 => version[Last].status = "draft"
  BY RowsType DEF IInv, CommitRevision, At, Fits
<1>2. /\ version' \in Seq(Row)
      /\ IF r.row = 0
         THEN /\ Len(version') = Last + 1
              /\ version'[Last + 1] = [status |-> "draft", number |-> r.to]
              /\ \A v \in Rows : version'[v] = version[v]
         ELSE /\ Len(version') = Last
              /\ version'[Last] = [status |-> "draft", number |-> r.to]
              /\ \A v \in Rows \ {Last} : version'[v] = version[v]
  BY RevisionEffect
<1>3. Rows' = IF r.row = 0 THEN Rows \cup {Last + 1} ELSE Rows
  <2>1. Rows' = 1..Len(version') /\ Len(version') \in Nat
    BY <1>2, LenProperties DEF Rows
  <2>2. 1..(Last + 1) = (1..Last) \cup {Last + 1}
    BY <1>1
  <2> QED
    BY <1>1, <1>2, <2>1, <2>2
<1>4. ASSUME NEW set, "draft" \notin set
      PROVE  /\ RowsIn(set)' = RowsIn(set)
             /\ \A v \in RowsIn(set) : version'[v].number = version[v].number
  <2>1. CASE r.row = 0
    BY <1>1, <1>2, <1>3, <1>4, <2>1 DEF RowsIn
  <2>2. CASE r.row # 0
    BY <1>1, <1>2, <1>3, <1>4, <2>2 DEF RowsIn
  <2> QED
    BY <2>1, <2>2
<1>5. /\ RowsIn(Issued \cup {"superseded"})' = RowsIn(Issued \cup {"superseded"})
      /\ \A v \in RowsIn(Issued \cup {"superseded"}) : version'[v].number = version[v].number
  BY <1>4 DEF Issued
<1>6. /\ RowsIn({"published"})' = RowsIn({"published"})
      /\ \A v \in RowsIn({"published"}) : version'[v].number = version[v].number
  BY <1>4
<1> QED
  BY <1>5, <1>6 DEF IssuedNumbers, NumbersInForce

LEMMA NextEnters == IInv /\ [Next]_vars => [Ledger!Next]_(Ledger!ledgerVars)
<1> SUFFICES ASSUME IInv, [Next]_vars PROVE [Ledger!Next]_(Ledger!ledgerVars)
  OBVIOUS
<1>1. ASSUME UNCHANGED <<IssuedNumbers, NumbersInForce>>
      PROVE  UNCHANGED Ledger!ledgerVars
  BY <1>1 DEF IssuedNumbers, NumbersInForce, Ledger!ledgerVars
<1>2. ASSUME UNCHANGED version PROVE UNCHANGED <<IssuedNumbers, NumbersInForce>>
  BY <1>2 DEF IssuedNumbers, NumbersInForce, RowsIn, Rows
<1>3. UNCHANGED version \/ \E s \in Sessions : CommitDecision(s) \/ CommitRevision(s)
  BY DEF Next, vars, Submit, Reject, Approve, Issue, Publish, Revise, Reprocess, Begin,
     CommitReview, CommitReprocess, BulkReprocess, StartIndex, FinishIndex, FailIndex
<1> QED
  BY <1>1, <1>2, <1>3, DecisionEnters, RevisionEntersNothing

-----------------------------------------------------------------------------
(* What the steps do when any number of requests overlap. *)

(* A request that starts decides on a draft or an approved version, knows  *)
(* every published one, and edits nothing but a draft.                     *)
BeginsWell(r) ==
  /\ r.op \in DOMAIN Decided =>
       r.row \in RowsIn({"draft", "approved"}) /\ RowsIn({"published"}) \subseteq r.prior \cup {r.row}
  /\ r.op = "revise" => r.row = 0 \/ r.row \in RowsIn({"draft"})

LEMMA ReadingBegins ==
  ASSUME TypeOK, NEW s \in Sessions,
         Submit(s) \/ Reject(s) \/ Approve(s) \/ Issue(s) \/ Publish(s) \/ Revise(s)
           \/ Reprocess(s)
  PROVE  \E r \in Snapshot : BeginsWell(r) /\ Begin(s, r)
<1>1. ASSUME NEW op \in {"submit", "reject", "reprocess"}, Begin(s, Loaded(op))
      PROVE  \E r \in Snapshot : BeginsWell(r) /\ Begin(s, r)
  <2>1. BeginsWell(Loaded(op)) /\ Loaded(op) \in Snapshot
    BY LoadedType DEF BeginsWell, Decided
  <2> QED
    BY <1>1, <2>1
<1>2. ASSUME NEW op \in {"approve", "issue", "publish"}, NEW set, "published" \in set,
             NEW v \in RowsIn({"draft", "approved"}), Begin(s, Decision(op, v, set))
      PROVE  \E r \in Snapshot : BeginsWell(r) /\ Begin(s, r)
  <2> DEFINE r == Decision(op, v, set)
  <2>1. r \in Snapshot
    BY DecisionType DEF RowsIn
  <2>2. r.op = op /\ r.row = v /\ r.prior = RowsIn(set) \ {v}
    BY LoadedType DEF Decision, Snapshot
  <2>3. RowsIn({"published"}) \subseteq RowsIn(set)
    BY <1>2 DEF RowsIn
  <2> HIDE DEF r
  <2>4. BeginsWell(r)
    BY <2>2, <2>3 DEF BeginsWell
  <2> QED
    BY <1>2, <2>1, <2>4 DEF r
<1>3. ASSUME Approve(s) \/ Issue(s) \/ Publish(s)
      PROVE  \E r \in Snapshot : BeginsWell(r) /\ Begin(s, r)
  <2>1. "published" \in Issued
        /\ \A v : v \in RowsIn({"draft"}) \/ v \in RowsIn({"approved"}) => v \in RowsIn({"draft", "approved"})
    BY DEF Issued, RowsIn
  <2> QED
    BY <1>2, <1>3, <2>1 DEF Approve, Issue, Publish
<1>4. ASSUME Revise(s) PROVE \E r \in Snapshot : BeginsWell(r) /\ Begin(s, r)
  <2> DEFINE drafts == RowsIn({"draft"})
             base == IF drafts = {} THEN doc.number ELSE version[Newest(drafts)].number
             row == IF drafts = {} THEN 0 ELSE Newest(drafts)
  <2>1. PICK major \in BOOLEAN, file \in BOOLEAN :
          Begin(s, [Loaded("revise") EXCEPT !.row = row, !.to = NextNumber(base, major),
                                            !.file = file])
    BY <1>4 DEF Revise
  <2>2. drafts # {} => Newest(drafts) \in drafts /\ Newest(drafts) \in Rows
    BY NewestIsOne DEF RowsIn
  <2>3. row \in Nat /\ base \in Numbers /\ (row = 0 \/ row \in drafts)
    BY <2>2, RowsType, DocType DEF Row
  <2>4. NextNumber(base, major) \in Numbers
    <3> HIDE DEF base
    <3> QED
      BY <2>3, NumberOrder
  <2> HIDE DEF row, base
  <2> DEFINE r == [Loaded("revise") EXCEPT !.row = row, !.to = NextNumber(base, major),
                                           !.file = file]
  <2>5. r \in Snapshot /\ r.op = "revise" /\ r.row = row
    BY <2>3, <2>4, LoadedType DEF Snapshot
  <2> HIDE DEF r
  <2>6. BeginsWell(r)
    BY <2>3, <2>5 DEF BeginsWell, Decided
  <2> QED
    BY <2>1, <2>5, <2>6 DEF r
<1> QED
  BY <1>1, <1>3, <1>4 DEF Submit, Reject, Reprocess

(* Every step ends what one agent had loaded, or starts a request, or      *)
(* stutters; and only decisions and revisions write rows.                  *)
LEMMA StepsOfOne ==
  ASSUME TypeOK, [Next]_vars
  PROVE  \/ UNCHANGED <<version, session>>
         \/ /\ UNCHANGED version
            /\ \E s \in Sessions, r \in Snapshot : BeginsWell(r) /\ Become(s, r)
         \/ \E a \in Agents, r \in Snapshot :
              /\ r.op \in {"none", "index"} /\ Become(a, r)
              /\ \/ UNCHANGED version
                 \/ a \in Sessions /\ (CommitDecision(a) \/ CommitRevision(a))
<1>1. ASSUME NEW s \in Sessions,
             Submit(s) \/ Reject(s) \/ Approve(s) \/ Issue(s) \/ Publish(s) \/ Revise(s)
               \/ Reprocess(s)
      PROVE  UNCHANGED version /\ \E r \in Snapshot : BeginsWell(r) /\ Become(s, r)
  <2>1. \E r \in Snapshot : BeginsWell(r) /\ Begin(s, r)
    BY <1>1, ReadingBegins
  <2> QED
    BY <2>1 DEF Begin
<1>2. Idle \in Snapshot /\ Idle.op = "none"
  BY IdleType DEF Idle
<1>3. /\ [Idle EXCEPT !.op = "index", !.status = "processing"] \in Snapshot
      /\ [Idle EXCEPT !.op = "index", !.status = "processing"].op = "index"
  BY IdleType DEF Snapshot, Idle, Statuses
<1>4. ASSUME NEW s \in Sessions, Dispatch(s) \/ Finish(s)
      PROVE  \E r \in Snapshot : r.op \in {"none", "index"} /\ Become(s, r)
  BY <1>2, <1>3, <1>4 DEF Dispatch, Finish
<1>5. ASSUME NEW s \in Sessions,
             CommitReview(s) \/ CommitDecision(s) \/ CommitRevision(s) \/ CommitReprocess(s)
      PROVE  /\ \E r \in Snapshot : r.op \in {"none", "index"} /\ Become(s, r)
             /\ UNCHANGED version \/ CommitDecision(s) \/ CommitRevision(s)
  BY <1>4, <1>5 DEF CommitReview, CommitDecision, CommitRevision, CommitReprocess
<1>6. ASSUME NEW a \in Agents, FinishIndex(a) \/ FailIndex(a)
      PROVE  Become(a, Idle) /\ UNCHANGED version
  BY <1>6 DEF FinishIndex, FailIndex, Finish
<1>7. ASSUME NEW w \in Workers, StartIndex(w)
      PROVE  UNCHANGED version /\ w \in Agents /\ Become(w, Loaded("index"))
             /\ Loaded("index") \in Snapshot /\ Loaded("index").op = "index"
  BY <1>7, LoadedType DEF StartIndex, Agents
<1>8. ASSUME BulkReprocess \/ UNCHANGED vars PROVE UNCHANGED <<version, session>>
  BY <1>8 DEF BulkReprocess, vars
<1>9. \A s \in Sessions : s \in Agents
  BY DEF Agents
<1> QED
  BY <1>1, <1>2, <1>5, <1>6, <1>7, <1>8, <1>9 DEF Next

(* Who ends is no longer blind to a version, nor edits it, nor decides on  *)
(* it; and nobody else begins to by that.                                  *)
LEMMA EndingLeaves ==
  ASSUME TypeOK, NEW a \in Agents, NEW r \in Snapshot, r.op \in {"none", "index"},
         Become(a, r), NEW v
  PROVE  /\ Blind(v)' = Blind(v) \ {a}
         /\ Editors(v)' = Editors(v) \ {a}
         /\ Deciders(v)' = Deciders(v) \ {a}
<1>1. /\ session'[a].op \notin DOMAIN Decided \cup {"revise"}
      /\ \A b \in Agents \ {a} : session'[b] = session[b]
  BY BecomeOne DEF Decided
<1>2. Sessions \subseteq Agents
  BY DEF Agents
<1> QED
  BY <1>1, <1>2 DEF Blind, Editors, Deciders, At

(* Who starts is blind to no published version, edits nothing that has     *)
(* left draft, and decides on nothing that is superseded.                  *)
LEMMA StartingEnters ==
  ASSUME TypeOK, NEW s \in Sessions, NEW r \in Snapshot, BeginsWell(r), Become(s, r),
         NEW v \in Rows
  PROVE  /\ version[v].status = "published" => Blind(v)' \subseteq Blind(v)
         /\ version[v].status # "draft" => Editors(v)' \subseteq Editors(v)
         /\ version[v].status = "superseded" => Deciders(v)' \subseteq Deciders(v)
<1>1. /\ session'[s] = r /\ Sessions \subseteq Agents
      /\ \A b \in Agents \ {s} : session'[b] = session[b]
  BY BecomeOne DEF Agents
<1>2. v # 0
  BY RowsType
<1>3. ASSUME version[v].status = "published", NEW b \in Blind(v)' PROVE b \in Blind(v)
  BY <1>1, <1>3 DEF Blind, BeginsWell, RowsIn
<1>4. ASSUME version[v].status # "draft", NEW b \in Editors(v)' PROVE b \in Editors(v)
  BY <1>1, <1>2, <1>4 DEF Editors, At, BeginsWell, RowsIn
<1>5. ASSUME version[v].status = "superseded", NEW b \in Deciders(v)' PROVE b \in Deciders(v)
  BY <1>1, <1>5 DEF Deciders, BeginsWell, RowsIn
<1> QED
  BY <1>3, <1>4, <1>5

(* What a decision does to the rows, whichever they are by now.            *)
LEMMA DecisionWrites ==
  ASSUME TypeOK, NEW s \in Sessions, CommitDecision(s), NEW v \in Rows
  PROVE  /\ session[s].op \in DOMAIN Decided /\ v \in Rows'
         /\ version'[v].number = version[v].number
         /\ v = session[s].row => version'[v].status \in {"approved", "published"}
         /\ v # session[s].row /\ v \in session[s].prior => version'[v].status = "superseded"
         /\ v # session[s].row /\ v \notin session[s].prior => version'[v] = version[v]
<1> DEFINE r == session[s]
<1>1. r.op \in DOMAIN Decided /\ Decided[r.op] \in {"approved", "published"}
      /\ version' = [u \in Rows |->
           IF u = r.row THEN [version[u] EXCEPT !.status = Decided[r.op]]
           ELSE IF u \in r.prior THEN [version[u] EXCEPT !.status = "superseded"]
           ELSE version[u]]
  BY DEF CommitDecision, Decided
<1>2. version[v] \in Row
  BY RowsType
<1> HIDE DEF r
<1>3. DOMAIN version' = Rows
  BY <1>1
<1> QED
  BY <1>1, <1>2, <1>3 DEF Row, Rows, r

(* What a revision does to the rows there are. *)
LEMMA RevisionWrites ==
  ASSUME TypeOK, NEW s \in Sessions, CommitRevision(s), NEW v \in Rows
  PROVE  /\ At(s, "revise") /\ v \in Rows'
         /\ version'[v].status = version[v].status
         /\ v # session[s].row => version'[v] = version[v]
<1> DEFINE r == session[s]
<1>1. /\ At(s, "revise")
      /\ version' = IF r.row = 0 THEN Append(version, [status |-> "draft", number |-> r.to])
                    ELSE [version EXCEPT ![r.row].number = r.to]
  BY DEF CommitRevision
<1>2. /\ version \in Seq(Row) /\ Last \in Nat /\ Rows = 1..Last /\ version[v] \in Row
      /\ r \in Snapshot /\ version \in [1..Last -> Row]
  BY RowsType, LenProperties DEF TypeOK, Snapshot, Agents, Last
<1> HIDE DEF r
<1>3. [status |-> "draft", number |-> r.to] \in Row
  BY <1>2 DEF Row, RowStatuses, Snapshot
<1>4. CASE r.row = 0
  <2>1. version' \in Seq(Row) /\ Len(version') = Last + 1 /\ version'[v] = version[v]
    BY <1>1, <1>2, <1>3, <1>4 DEF Last
  <2>2. Rows' = 1..(Last + 1)
    BY <2>1, LenProperties DEF Rows
  <2> QED
    BY <1>1, <1>2, <2>1, <2>2 DEF r
<1>5. CASE r.row # 0
  <2>1. version' = [version EXCEPT ![r.row].number = r.to]
    BY <1>1, <1>5
  <2>2. Rows' = Rows /\ (v # r.row => version'[v] = version[v])
        /\ version'[v].status = version[v].status
    BY <1>2, <2>1 DEF Row, Rows
  <2> QED
    BY <1>1, <2>2 DEF r
<1> QED
  BY <1>4, <1>5

-----------------------------------------------------------------------------
(* The theorems.                                                           *)

(* Every variable of the library keeps its type, whoever overlaps.         *)
THEOREM LibraryTypeOK == Spec => []TypeOK
<1>1. TypeOK /\ [Next]_vars => TypeOK'
  BY ReadingType, CommitType, IndexType DEF Next
<1> QED
  BY <1>1, InitTypeOK, PTL DEF Spec

(* However many requests overlap, a second version comes in force beside a *)
(* published one only by a decision that was under way when that one was   *)
(* published, and by each of these at most once.                           *)
THEOREM ForksComeFromOverlap == Spec => TipForksOnlyByOverlap
<1> DEFINE Forks(v) == /\ v \in RowsIn({"published"})'
                       /\ \E w \in Rows \ {v} : w \in RowsIn({"published"})' /\ version[w].status # "published"
           Tip == \A v \in RowsIn({"published"}) :
                    /\ Blind(v)' \subseteq Blind(v)
                    /\ Forks(v) => Blind(v)' # Blind(v)
<1>1. ASSUME TypeOK, [Next]_vars PROVE Tip
  <2> SUFFICES ASSUME NEW v \in Rows, version[v].status = "published"
               PROVE  Blind(v)' \subseteq Blind(v) /\ (Forks(v) => Blind(v)' # Blind(v))
    BY DEF RowsIn
  <2>1. CASE UNCHANGED <<version, session>>
    BY <2>1 DEF Blind, RowsIn
  <2>2. CASE /\ UNCHANGED version
             /\ \E s \in Sessions, r \in Snapshot : BeginsWell(r) /\ Become(s, r)
    BY <1>1, <2>2, StartingEnters DEF RowsIn
  <2>3. ASSUME NEW a \in Agents, NEW r \in Snapshot, r.op \in {"none", "index"}, Become(a, r),
               \/ UNCHANGED version
               \/ a \in Sessions /\ CommitRevision(a)
        PROVE  Blind(v)' \subseteq Blind(v) /\ ~Forks(v)
    <3>1. Blind(v)' \subseteq Blind(v)
      BY <1>1, <2>3, EndingLeaves
    <3>2. ~Forks(v)
      BY <1>1, <2>3, RevisionWrites DEF RowsIn
    <3> QED
      BY <3>1, <3>2
  <2>4. ASSUME NEW a \in Sessions, NEW r \in Snapshot, r.op \in {"none", "index"}, Become(a, r),
               CommitDecision(a)
        PROVE  Blind(v)' \subseteq Blind(v) /\ (Forks(v) => Blind(v)' # Blind(v))
    <3>1. Blind(v)' = Blind(v) \ {a}
      BY <1>1, <2>4, EndingLeaves DEF Agents
    <3>2. ASSUME v \in RowsIn({"published"})', NEW w \in Rows \ {v},
                 w \in RowsIn({"published"})', version[w].status # "published"
          PROVE  a \in Blind(v)
      <4>1. version'[v].status = "published" /\ version'[w].status = "published"
        BY <3>2 DEF RowsIn
      <4>2. w = session[a].row
        BY <1>1, <2>4, <3>2, <4>1, DecisionWrites
      <4>3. v \notin session[a].prior /\ session[a].op \in DOMAIN Decided
        BY <1>1, <2>4, <4>1, <4>2, DecisionWrites
      <4> QED
        BY <4>2, <4>3 DEF Blind
    <3> QED
      BY <3>1, <3>2
  <2> QED
    BY <1>1, <2>1, <2>2, <2>3, <2>4, StepsOfOne
<1>2. TypeOK /\ [Next]_vars => [Tip]_vars
  BY <1>1
<1> QED
  BY <1>2, LibraryTypeOK, PTL DEF Spec, TipForksOnlyByOverlap

(* However many requests overlap, a version that has left draft never goes *)
(* back, is renumbered only by an edit that was under way when it left     *)
(* draft, and is in force again only by a decision that was under way when *)
(* it was superseded; and each of these does so at most once.              *)
THEOREM ThawsComeFromOverlap == Spec => IssuedThawsOnlyByOverlap
<1> DEFINE Thaw(v) == /\ version'[v].status # "draft"
                      /\ Editors(v)' \subseteq Editors(v)
                      /\ version'[v].number # version[v].number => Editors(v)' # Editors(v)
                      /\ version[v].status = "superseded" =>
                           /\ Deciders(v)' \subseteq Deciders(v)
                           /\ version'[v].status # "superseded" => Deciders(v)' # Deciders(v)
           Thaws == \A v \in Rows : version[v].status # "draft" => Thaw(v)
<1>1. ASSUME TypeOK, [Next]_vars PROVE Thaws
  <2> SUFFICES ASSUME NEW v \in Rows, version[v].status # "draft" PROVE Thaw(v)
    OBVIOUS
  <2>1. CASE UNCHANGED <<version, session>>
    BY <2>1 DEF Editors, Deciders, At
  <2>2. CASE /\ UNCHANGED version
             /\ \E s \in Sessions, r \in Snapshot : BeginsWell(r) /\ Become(s, r)
    BY <1>1, <2>2, StartingEnters
  <2>3. ASSUME NEW a \in Agents, NEW r \in Snapshot, r.op \in {"none", "index"}, Become(a, r),
               UNCHANGED version
        PROVE  Thaw(v)
    BY <1>1, <2>3, EndingLeaves
  <2>4. ASSUME NEW a \in Sessions, NEW r \in Snapshot, r.op \in {"none", "index"}, Become(a, r),
               CommitDecision(a)
        PROVE  Thaw(v)
    <3>1. Editors(v)' \subseteq Editors(v) /\ Deciders(v)' = Deciders(v) \ {a}
      BY <1>1, <2>4, EndingLeaves DEF Agents
    <3>2. /\ version'[v].number = version[v].number /\ version'[v].status # "draft"
          /\ version[v].status = "superseded" /\ version'[v].status # "superseded" =>
               a \in Deciders(v)
      BY <1>1, <2>4, DecisionWrites DEF Deciders
    <3> QED
      BY <3>1, <3>2
  <2>5. ASSUME NEW a \in Sessions, NEW r \in Snapshot, r.op \in {"none", "index"}, Become(a, r),
               CommitRevision(a)
        PROVE  Thaw(v)
    <3>1. Deciders(v)' \subseteq Deciders(v) /\ Editors(v)' = Editors(v) \ {a}
      BY <1>1, <2>5, EndingLeaves DEF Agents
    <3>2. /\ version'[v].status = version[v].status
          /\ version'[v].number # version[v].number => a \in Editors(v)
      BY <1>1, <2>5, RevisionWrites DEF Editors
    <3> QED
      BY <3>1, <3>2
  <2> QED
    BY <1>1, <2>1, <2>2, <2>3, <2>4, <2>5, StepsOfOne
<1>2. TypeOK /\ [Next]_vars => [Thaws]_vars
  BY <1>1
<1> QED
  BY <1>2, LibraryTypeOK, PTL DEF Spec, IssuedThawsOnlyByOverlap

(* The inductive invariant holds as long as no two writers overlap.        *)
THEOREM LibraryInvariant == Spec /\ []OneWriter => []IInv
BY InitIInv, NextIInv, PTL DEF Spec

(* No two versions of a document carry the same number.                    *)
THEOREM VersionNumbersUnique == Spec /\ []OneWriter => []NumbersUnique
<1>1. ASSUME IInv PROVE NumbersUnique
  <2> SUFFICES ASSUME NEW v \in Rows, NEW w \in Rows, v < w
               PROVE  version[v].number # version[w].number
    BY <1>1, RowsType DEF NumbersUnique, IInv
  <2> QED
    BY <1>1, RowsType, NumberOrder DEF IInv, RowsOK, Row
<1>2. IInv => NumbersUnique
  BY <1>1
<1> QED
  BY <1>2, LibraryInvariant, PTL

(* A document that reads published, or is filed and reads approved, has a  *)
(* version to show for it, whatever index jobs finish late.                *)
THEOREM LiveStatusHasItsVersion == Spec /\ []OneWriter => []LiveStatusIsBacked
<1>1. IInv => LiveStatusIsBacked
  BY DEF IInv
<1> QED
  BY <1>1, LibraryInvariant, PTL

(* The library keeps the ledger it promises: what is approved or published *)
(* is the newest version there is, keeps its number, and never comes back  *)
(* into force once another has replaced it.                                *)
THEOREM LedgerKept == Spec /\ []OneWriter => KeepsLedger
<1>1. Init => Ledger!Init
  <2> SUFFICES ASSUME Init PROVE Ledger!Init
    OBVIOUS
  <2>1. Rows = {1} /\ version[1].status = "draft"
    BY DEF Init, Rows
  <2> QED
    BY <2>1 DEF Ledger!Init, RowsIn, Issued
<1> QED
  BY <1>1, NextEnters, LibraryInvariant, PTL DEF Spec, KeepsLedger, Ledger!Spec
=============================================================================
