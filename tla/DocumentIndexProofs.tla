------------------------ MODULE DocumentIndexProofs ------------------------
(***************************************************************************)
(* The search index's invariants, for any number of workers and requests   *)
(* and any sequence of uploads.  They speak of documents whose last run    *)
(* was alone (clean), and so does the induction: what a run has read is    *)
(* still true when it commits because nobody else has run meanwhile.       *)
(***************************************************************************)
EXTENDS DocumentIndex, FiniteSetTheorems, SequenceTheorems, TLAPS

Stages == {"reading", "looked", "deleted", "upserted"}
Working(a) == At(a, Stages)

(* Nobody has run beside a, or will have by the time a commits. *)
Sole(a) == clean \/ run[a].alone

Run == [at : Stages \cup {"idle", "committed"}, file : 0..Len(ChunkCount),
        indexed : BOOLEAN, target : SUBSET Agents, previous : SUBSET Indices,
        vectors : Nat, alone : BOOLEAN]

(* Runs: a sole run is the only one, and works from a file. *)
RunsOK ==
  /\ \A a, b \in Agents : Running(a) /\ Sole(a) /\ Running(b) => b = a
  /\ \A a \in Agents : run[a].alone => Working(a)
  /\ \A a \in Agents : Working(a) => run[a].file \in Files

(* What a sole run has read and done is still so.                          *)
StillTrue(a) ==
  /\ run[a].indexed <=> indexed
  /\ ~At(a, {"reading"}) => run[a].target = Live
  /\ At(a, {"upserted"}) => \A i \in Indices : i <= run[a].vectors => vectors[i] # 0
  /\ jobs = 0 /\ ~gaveUp => run[a].file = file

(* What a clean index promises, in the middle of a run too. *)
CleanOK ==
  /\ \A a, b \in Live : a = b
  /\ \A a \in Live, i \in Indices : i \in VectorIds(rows[a]) => vectors[i] # 0
  /\ indexed <=> \E a \in Live : rows[a].vectors > 0
  /\ \A a \in Agents : At(a, {"committed"}) =>
       /\ a \in Live
       /\ run[a].previous \cap VectorIds(rows[a]) = {}
  /\ jobs = 0 /\ ~gaveUp /\ (\A a \in Agents : ~Working(a)) => Current

IInv ==
  /\ TypeOK
  /\ RunsOK
  /\ \A a \in Agents : Working(a) /\ Sole(a) => StillTrue(a)
  /\ clean => CleanOK

-----------------------------------------------------------------------------
(* The chunk counts, and the indices they make. *)
LEMMA ChunkFacts ==
  /\ Len(ChunkCount) \in Nat \ {0} /\ Files = 1..Len(ChunkCount)
  /\ \A f \in Files : ChunkCount[f] \in Nat \ {0} /\ 1..ChunkCount[f] \subseteq Indices
<1>1. ChunkCount \in Seq(Nat \ {0}) /\ ChunkCount # <<>>
  BY IndexAssumption
<1>2. Len(ChunkCount) \in Nat \ {0} /\ Files = 1..Len(ChunkCount)
  BY <1>1, EmptySeq, LenProperties DEF Files
<1>3. \A f \in Files : ChunkCount[f] \in Nat \ {0}
  BY <1>1, <1>2, ElementOfSeq
<1>4. \A f \in Files : 1..ChunkCount[f] \subseteq Indices
  BY DEF Indices
<1> QED
  BY <1>2, <1>3, <1>4

LEMMA TypeParts ==
  ASSUME TypeOK
  PROVE  /\ file \in Files /\ rows \in [Agents -> [file : 0..Len(ChunkCount), vectors : Nat]]
         /\ vectors \in [Indices -> 0..Len(ChunkCount)]
         /\ run \in [Agents -> Run] /\ jobs \in Nat
         /\ Live \subseteq Agents /\ \A b \in Live : rows[b].file \in Files
BY ChunkFacts DEF TypeOK, Run, Stages, Live

LEMMA IdleType ==
  /\ Idle \in Run /\ Idle.at = "idle" /\ Idle.alone = FALSE
  /\ Idle.previous = {} /\ Idle.target = {}
BY ChunkFacts DEF Idle, Run, Stages

LEMMA BecomeOne ==
  ASSUME TypeOK, NEW a \in Agents, NEW r \in Run, Become(a, r)
  PROVE  /\ run' \in [Agents -> Run] /\ run'[a] = r
         /\ \A b \in Agents \ {a} : run'[b] = run[b]
BY TypeParts DEF Become

LEMMA InitIInv == Init => IInv
<1> SUFFICES ASSUME Init PROVE IInv
  OBVIOUS
<1>1. /\ rows \in [Agents -> [file : 0..Len(ChunkCount), vectors : Nat]]
      /\ vectors \in [Indices -> 0..Len(ChunkCount)] /\ file \in Files
      /\ run \in [Agents -> Run] /\ jobs = 1
      /\ \A a \in Agents : rows[a].file = 0 /\ run[a].at = "idle" /\ ~run[a].alone
  BY ChunkFacts, IdleType DEF Init, Gone
<1>2. indexed = FALSE /\ gaveUp = FALSE /\ clean = TRUE
  BY DEF Init
<1>3. TypeOK
  BY <1>1, <1>2 DEF TypeOK, Run, Stages
<1>4. Live = {} /\ \A a \in Agents : ~Running(a) /\ ~Working(a) /\ ~At(a, {"committed"})
  BY <1>1 DEF Live, Running, Working, At, Stages
<1> QED
  BY <1>1, <1>2, <1>3, <1>4 DEF IInv, RunsOK, CleanOK

-----------------------------------------------------------------------------
(* A job that is created but not started, or given up at once. *)
LEMMA QueueKeeps ==
  ASSUME IInv, UNCHANGED <<rows, vectors, indexed, run, clean>>,
         file' \in Files, jobs' \in Nat, gaveUp' \in BOOLEAN, jobs' # 0 \/ gaveUp'
  PROVE  IInv'
<1>1. TypeOK'
  BY DEF IInv, TypeOK
<1>2. RunsOK'
  BY DEF IInv, RunsOK, Running, Sole, Working, At
<1>3. \A a \in Agents : (Working(a) /\ Sole(a))' => StillTrue(a)'
  BY DEF IInv, StillTrue, Sole, Working, At, Live
<1>4. clean' => CleanOK'
  BY DEF IInv, CleanOK, Live, VectorIds, At
<1> QED
  BY <1>1, <1>2, <1>3, <1>4 DEF IInv

(* A run that starts works from the document's file, and is sole if and    *)
(* only if nobody else is running.                                         *)
LEMMA StartKeeps ==
  ASSUME IInv, NEW a \in Agents, StartRun(a, file'),
         UNCHANGED <<rows, vectors, indexed>>,
         file' \in Files, jobs' \in Nat, gaveUp' \in BOOLEAN
  PROVE  IInv'
<1> DEFINE quiet == \A b \in Agents : ~Running(b)
           r == [Idle EXCEPT !.at = "reading", !.file = file', !.indexed = indexed,
                             !.alone = quiet]
<1>1. TypeOK /\ RunsOK /\ run \in [Agents -> Run]
  BY TypeParts DEF IInv
<1>2. /\ run' = [b \in Agents |-> IF b = a THEN r ELSE [run[b] EXCEPT !.alone = FALSE]]
      /\ clean' = (clean /\ quiet)
  BY DEF StartRun
<1>3. r \in Run /\ r.at = "reading" /\ r.file = file' /\ r.indexed = indexed /\ r.alone = quiet
  <2>1. indexed \in BOOLEAN /\ quiet \in BOOLEAN
    BY <1>1 DEF TypeOK
  <2>2. file' \in 0..Len(ChunkCount)
    BY ChunkFacts
  <2> QED
    BY <2>1, <2>2, IdleType DEF Run, Stages
<1> HIDE DEF r, quiet
<1>4. /\ run' \in [Agents -> Run] /\ run'[a] = r
      /\ \A b \in Agents \ {a} : run'[b] = [run[b] EXCEPT !.alone = FALSE]
  BY <1>1, <1>2, <1>3 DEF Run
<1>5. \A b \in Agents \ {a} : /\ run'[b].at = run[b].at /\ run'[b].file = run[b].file
                              /\ ~run'[b].alone
  BY <1>1, <1>4 DEF Run
<1>6. clean' \in BOOLEAN
  BY <1>2
<1>7. TypeOK'
  BY <1>1, <1>4, <1>6 DEF TypeOK, Run, Stages
<1>8. \A b \in Agents : Sole(b)' => quiet
  BY <1>2, <1>3, <1>4, <1>5 DEF Sole
<1>9. quiet => \A b \in Agents \ {a} : run[b].at = "idle"
  BY DEF quiet, Running, At
<1>10. RunsOK'
  <2>1. \A b, c \in Agents : (Running(b) /\ Sole(b))' /\ Running(c)' => c = b
    BY <1>5, <1>8, <1>9 DEF Running, At
  <2>2. \A b \in Agents : run'[b].alone => Working(b)'
    BY <1>3, <1>4, <1>5 DEF Working, At, Stages
  <2>3. \A b \in Agents : Working(b)' => run'[b].file \in Files
    BY <1>1, <1>3, <1>4, <1>5 DEF RunsOK, Working, At
  <2> QED
    BY <2>1, <2>2, <2>3 DEF RunsOK
<1>11. \A b \in Agents : (Working(b) /\ Sole(b))' => StillTrue(b)'
  <2> SUFFICES ASSUME NEW b \in Agents, (Working(b) /\ Sole(b))' PROVE StillTrue(b)'
    OBVIOUS
  <2>1. b = a
    BY <1>5, <1>8, <1>9 DEF Working, At, Stages
  <2> QED
    BY <1>3, <1>4, <2>1 DEF StillTrue, At
<1>12. clean' => CleanOK'
  <2> SUFFICES ASSUME clean' PROVE CleanOK'
    OBVIOUS
  <2>1. clean /\ quiet /\ CleanOK
    BY <1>2 DEF IInv
  <2>2. Working(a)' /\ \A b \in Agents : ~At(b, {"committed"})'
    BY <1>3, <1>4, <1>5, <1>9, <2>1 DEF Working, At, Stages
  <2> QED
    BY <2>1, <2>2 DEF CleanOK, Live, VectorIds
<1> QED
  BY <1>7, <1>10, <1>11, <1>12 DEF IInv

(* A run that ends without committing, and leaves a task or is given up.   *)
LEMMA EndKeeps ==
  ASSUME IInv, NEW a \in Agents, Working(a), Become(a, Idle),
         UNCHANGED <<file, rows, vectors, indexed, clean>>,
         jobs' \in Nat, gaveUp' \in BOOLEAN, jobs' # 0 \/ gaveUp'
  PROVE  IInv'
<1>1. TypeOK /\ RunsOK /\ run \in [Agents -> Run]
  BY TypeParts DEF IInv
<1>2. /\ run' \in [Agents -> Run] /\ run'[a] = Idle
      /\ \A b \in Agents \ {a} : run'[b] = run[b]
  BY <1>1, BecomeOne, IdleType
<1>3. TypeOK'
  BY <1>1, <1>2 DEF TypeOK, Run, Stages
<1>4. ~Running(a)' /\ ~Working(a)' /\ ~At(a, {"committed"})' /\ ~run'[a].alone
  BY <1>2, IdleType DEF Running, Working, At, Stages
<1>5. RunsOK'
  BY <1>1, <1>2, <1>4 DEF RunsOK, Running, Working, Sole, At
<1>6. \A b \in Agents : (Working(b) /\ Sole(b))' => StillTrue(b)'
  <2> SUFFICES ASSUME NEW b \in Agents, (Working(b) /\ Sole(b))' PROVE StillTrue(b)'
    OBVIOUS
  <2>1. b # a /\ run'[b] = run[b]
    BY <1>2, <1>4
  <2>2. StillTrue(b)
    BY <2>1 DEF IInv, Working, Sole, At
  <2> QED
    BY <2>1, <2>2 DEF StillTrue, At, Live
<1>7. clean' => CleanOK'
  BY <1>2, <1>4 DEF IInv, CleanOK, Live, VectorIds, At
<1> QED
  BY <1>3, <1>5, <1>6, <1>7 DEF IInv

(* A run that goes on to its next stage before the commit. *)
LEMMA StageKeeps ==
  ASSUME IInv, NEW a \in Agents, NEW r \in Run, Working(a), r.at \in Stages,
         r.file = run[a].file, r.indexed = run[a].indexed, r.alone = run[a].alone,
         Become(a, r), UNCHANGED <<file, rows, indexed, jobs, gaveUp, clean>>,
         vectors' \in [Indices -> 0..Len(ChunkCount)],
         \A i \in Indices : vectors[i] # 0 => vectors'[i] # 0,
         Sole(a) => (r.at # "reading" => r.target = Live)
                    /\ (r.at = "upserted" =>
                          \A i \in Indices : i <= r.vectors => vectors'[i] # 0)
  PROVE  IInv'
<1>1. TypeOK /\ RunsOK /\ run \in [Agents -> Run]
  BY TypeParts DEF IInv
<1>2. /\ run' \in [Agents -> Run] /\ run'[a] = r
      /\ \A b \in Agents \ {a} : run'[b] = run[b]
  BY <1>1, BecomeOne
<1>3. TypeOK'
  BY <1>1, <1>2 DEF TypeOK, Run, Stages
<1>4. \A b \in Agents : /\ Running(b)' <=> Running(b)
                        /\ Working(b)' <=> Working(b)
                        /\ Sole(b)' <=> Sole(b)
                        /\ At(b, {"committed"})' => At(b, {"committed"}) /\ b # a
                        /\ run'[b].file = run[b].file
                        /\ run'[b].alone = run[b].alone
  BY <1>2 DEF Running, Working, Sole, At, Stages
<1>5. RunsOK'
  BY <1>1, <1>4 DEF RunsOK
<1>6. \A b \in Agents : (Working(b) /\ Sole(b))' => StillTrue(b)'
  <2> SUFFICES ASSUME NEW b \in Agents, (Working(b) /\ Sole(b))' PROVE StillTrue(b)'
    OBVIOUS
  <2>1. Working(b) /\ Sole(b) /\ StillTrue(b)
    BY <1>4 DEF IInv
  <2>2. b = a
    <3>1. Running(a) /\ Running(b)
      BY <2>1 DEF Working, Running, At, Stages
    <3> QED
      BY <1>1, <2>1, <3>1 DEF RunsOK
  <2>3. Sole(a) /\ StillTrue(a)
    BY <2>1, <2>2
  <2> QED
    BY <1>2, <2>2, <2>3 DEF StillTrue, At, Live
<1>7. clean' => CleanOK'
  <2> SUFFICES ASSUME clean' PROVE CleanOK'
    OBVIOUS
  <2>1. CleanOK
    BY DEF IInv
  <2>2. \A b \in Agents : At(b, {"committed"})' => At(b, {"committed"}) /\ run'[b] = run[b]
    BY <1>2, <1>4
  <2>3. Working(a)'
    BY <1>4
  <2> QED
    BY <2>1, <2>2, <2>3 DEF CleanOK, Live, VectorIds
<1> QED
  BY <1>3, <1>5, <1>6, <1>7 DEF IInv

LEMMA LookUpKeeps == ASSUME IInv, NEW a \in Agents, LookUp(a) PROVE IInv'
<1> DEFINE ids == UNION {1..ChunkCount[rows[b].file] : b \in Live}
           r == [run[a] EXCEPT !.at = "looked", !.target = Live, !.previous = ids]
<1>1. Live \subseteq Agents /\ ids \subseteq Indices /\ run[a] \in Run
      /\ vectors \in [Indices -> 0..Len(ChunkCount)]
  BY TypeParts, ChunkFacts DEF IInv
<1> HIDE DEF ids
<1>2. /\ r \in Run /\ r.at = "looked" /\ r.target = Live /\ r.file = run[a].file
      /\ r.indexed = run[a].indexed /\ r.alone = run[a].alone
  BY <1>1 DEF Run, Stages
<1>3. Become(a, r) /\ Working(a)
      /\ UNCHANGED <<file, rows, vectors, indexed, jobs, gaveUp, clean>>
  BY DEF LookUp, Working, At, Stages, ids
<1> QED
  BY <1>1, <1>2, <1>3, StageKeeps DEF Stages

LEMMA DeleteKeeps == ASSUME IInv, NEW a \in Agents, Delete(a) PROVE IInv'
<1> DEFINE r == [run[a] EXCEPT !.at = "deleted"]
<1>1. run[a] \in Run /\ vectors \in [Indices -> 0..Len(ChunkCount)]
  BY TypeParts DEF IInv
<1>2. /\ r \in Run /\ r.at = "deleted" /\ r.target = run[a].target /\ r.file = run[a].file
      /\ r.indexed = run[a].indexed /\ r.alone = run[a].alone
  BY <1>1 DEF Run, Stages
<1>3. Become(a, r) /\ Working(a) /\ ~At(a, {"reading"})
      /\ UNCHANGED <<file, rows, vectors, indexed, jobs, gaveUp, clean>>
  BY DEF Delete, Working, At, Stages
<1>4. Sole(a) => run[a].target = Live
  BY <1>3 DEF IInv, StillTrue
<1> QED
  BY <1>1, <1>2, <1>3, <1>4, StageKeeps DEF Stages

LEMMA UpsertKeeps == ASSUME IInv, NEW a \in Agents, Upsert(a) PROVE IInv'
<1>1. run[a] \in Run /\ vectors \in [Indices -> 0..Len(ChunkCount)]
  BY TypeParts DEF IInv
<1>2. At(a, {"deleted"}) /\ Working(a) /\ ~At(a, {"reading"})
  BY DEF Upsert, Working, At, Stages
<1>3. run[a].file \in Files /\ run[a].file \in 1..Len(ChunkCount)
      /\ ChunkCount[run[a].file] \in Nat
  BY <1>2, ChunkFacts DEF IInv, RunsOK
<1>4. PICK sent \in 0..ChunkCount[run[a].file] :
        /\ vectors' = [i \in Indices |-> IF i <= sent THEN run[a].file ELSE vectors[i]]
        /\ \E told \in {0, sent} :
             Become(a, [run[a] EXCEPT !.at = "upserted", !.vectors = told])
  BY Zenon DEF Upsert
<1>5. PICK told \in {0, sent} : Become(a, [run[a] EXCEPT !.at = "upserted", !.vectors = told])
  BY <1>4
<1> DEFINE r == [run[a] EXCEPT !.at = "upserted", !.vectors = told]
<1>6. sent \in Nat /\ told \in Nat
  BY <1>3
<1>7. /\ r \in Run /\ r.at = "upserted" /\ r.vectors = told /\ r.target = run[a].target
      /\ r.file = run[a].file /\ r.indexed = run[a].indexed /\ r.alone = run[a].alone
  BY <1>1, <1>6 DEF Run, Stages
<1>8. Become(a, r) /\ UNCHANGED <<file, rows, indexed, jobs, gaveUp, clean>>
  BY <1>5 DEF Upsert
<1>9. Sole(a) => run[a].target = Live
  BY <1>2 DEF IInv, StillTrue
<1>10. /\ vectors' \in [Indices -> 0..Len(ChunkCount)]
       /\ \A i \in Indices : vectors[i] # 0 => vectors'[i] # 0
       /\ \A i \in Indices : i <= sent => vectors'[i] # 0
  BY <1>1, <1>3, <1>4
<1>11. \A i \in Indices : i <= told => vectors'[i] # 0
  <2>1. \A i \in Indices : i \in Nat /\ i # 0
    BY ChunkFacts DEF Indices
  <2> QED
    BY <1>6, <1>10, <2>1
<1> HIDE DEF r
<1> QED
  BY <1>1, <1>2, <1>7, <1>8, <1>9, <1>10, <1>11, StageKeeps DEF Stages

(* The commit of a run that was alone makes the index clean: its rows are  *)
(* the only ones, and what it has read is still so.                        *)
LEMMA CommitKeeps == ASSUME IInv, NEW a \in Agents, Commit(a) PROVE IInv'
<1> DEFINE r == run[a]
           s == [Idle EXCEPT !.at = "committed", !.previous = Stale(r)]
<1>1. TypeOK /\ RunsOK /\ run \in [Agents -> Run] /\ r \in Run
      /\ rows \in [Agents -> [file : 0..Len(ChunkCount), vectors : Nat]]
  BY TypeParts DEF IInv
<1>2. r.at = "upserted" /\ Working(a) /\ Running(a) /\ r.file \in Files
      /\ r.file \in 1..Len(ChunkCount)
  <2>1. r.at = "upserted" /\ Working(a) /\ Running(a)
    BY DEF Commit, Working, Running, At, Stages
  <2> QED
    BY <1>1, <2>1, ChunkFacts DEF RunsOK
<1>3. s \in Run /\ s.at = "committed" /\ ~s.alone /\ s.previous = Stale(r)
  <2>1. Stale(r) \subseteq Indices
    BY <1>1 DEF Stale, Run
  <2> QED
    BY <2>1, IdleType DEF Run
<1>4. UNCHANGED <<file, vectors, jobs, gaveUp>> /\ clean' = (clean \/ r.alone)
      /\ indexed' = (r.vectors > 0 \/ (indexed /\ ~r.indexed))
  BY DEF Commit
<1>5. rows' = [b \in Agents |-> IF b = a THEN [file |-> r.file, vectors |-> r.vectors]
                                ELSE IF b \in r.target THEN Gone ELSE rows[b]]
  BY DEF Commit
<1>6. run' = [b \in Agents |-> IF b = a THEN s
                ELSE [run[b] EXCEPT !.target = run[b].target \ (r.target \cup {a})]]
  BY DEF Commit
<1> HIDE DEF s
<1>7. /\ run' \in [Agents -> Run] /\ run'[a] = s
      /\ \A b \in Agents \ {a} : run'[b].at = run[b].at /\ run'[b].file = run[b].file
                                 /\ run'[b].alone = run[b].alone
  BY <1>1, <1>3, <1>6 DEF Run
<1>8. rows' \in [Agents -> [file : 0..Len(ChunkCount), vectors : Nat]]
  BY <1>1, <1>2, <1>5 DEF Run, Gone
<1>9. indexed' \in BOOLEAN /\ clean' \in BOOLEAN
  BY <1>4, Zenon
<1>10. TypeOK'
  BY <1>1, <1>4, <1>7, <1>8, <1>9 DEF TypeOK, Run, Stages
<1>11. \A b \in Agents : Running(b)' /\ Sole(b)' => Sole(a)
  <2> SUFFICES ASSUME NEW b \in Agents, Running(b)', Sole(b)', ~Sole(a) PROVE FALSE
    OBVIOUS
  <2>1. b # a /\ run[b].alone
    BY <1>3, <1>4, <1>7 DEF Sole
  <2>2. Running(b) /\ Sole(b)
    BY <1>1, <2>1 DEF RunsOK, Sole, Working, Running, At, Stages
  <2> QED
    BY <1>1, <1>2, <2>1, <2>2 DEF RunsOK
<1>12. Sole(a) => \A b \in Agents \ {a} : run'[b].at = "idle"
  BY <1>1, <1>2, <1>7 DEF RunsOK, Running, At, Run
<1>13. RunsOK'
  <2>1. \A b, c \in Agents : (Running(b) /\ Sole(b))' /\ Running(c)' => c = b
    BY <1>11, <1>12 DEF Running, At
  <2>2. \A b \in Agents : run'[b].alone => Working(b)'
    BY <1>1, <1>3, <1>7 DEF RunsOK, Working, At
  <2>3. \A b \in Agents : Working(b)' => run'[b].file \in Files
    BY <1>1, <1>3, <1>7 DEF RunsOK, Working, At, Stages
  <2> QED
    BY <2>1, <2>2, <2>3 DEF RunsOK
<1>14. \A b \in Agents : (Working(b) /\ Sole(b))' => StillTrue(b)'
  <2> SUFFICES ASSUME NEW b \in Agents, (Working(b) /\ Sole(b))' PROVE FALSE
    OBVIOUS
  <2>1. b # a
    BY <1>3, <1>7 DEF Working, At, Stages
  <2> QED
    BY <1>11, <1>12, <2>1 DEF Working, Running, At, Stages
<1>15. clean' => CleanOK'
  <2> SUFFICES ASSUME clean' PROVE CleanOK'
    OBVIOUS
  <2>1. Sole(a) /\ StillTrue(a)
    BY <1>2, <1>4 DEF Sole, IInv
  <2>2. Live' = {a} /\ rows'[a] = [file |-> r.file, vectors |-> r.vectors]
    <3>1. r.target = Live
      BY <1>2, <2>1 DEF StillTrue, At
    <3> QED
      BY <1>2, <1>5, <3>1 DEF Live, Gone
  <2>3. \A i \in Indices : i <= r.vectors => vectors[i] # 0
    BY <1>2, <2>1 DEF StillTrue, At
  <2>4. indexed' <=> r.vectors > 0
    BY <1>4, <2>1 DEF StillTrue
  <2>5. \A b \in Agents : At(b, {"committed"})' => b = a
    BY <1>12, <2>1 DEF At
  <2>6. run'[a].previous \cap VectorIds(rows'[a]) = {}
    BY <1>3, <1>7, <2>2 DEF Stale, VectorIds
  <2>7. jobs = 0 /\ ~gaveUp => r.file = file
    BY <2>1 DEF StillTrue
  <2>8. \A i \in VectorIds(rows'[a]) : i <= r.vectors
    BY <2>2 DEF VectorIds
  <2> QED
    BY <1>4, <2>2, <2>3, <2>4, <2>5, <2>6, <2>7, <2>8 DEF CleanOK, Current
<1> QED
  BY <1>10, <1>13, <1>14, <1>15 DEF IInv

(* The cleanup deletes vectors that no row names. *)
LEMMA CleanUpKeeps == ASSUME IInv, NEW a \in Agents, CleanUp(a) PROVE IInv'
<1>1. TypeOK /\ RunsOK /\ run \in [Agents -> Run]
      /\ vectors \in [Indices -> 0..Len(ChunkCount)]
  BY TypeParts DEF IInv
<1>2. run[a].at = "committed" /\ Running(a) /\ ~Working(a) /\ Become(a, Idle)
      /\ UNCHANGED <<file, rows, indexed, gaveUp, clean>>
  BY DEF CleanUp, Running, Working, At, Stages
<1>3. PICK deleted \in SUBSET run[a].previous :
        vectors' = [i \in Indices |-> IF i \in deleted THEN 0 ELSE vectors[i]]
  BY Zenon DEF CleanUp
<1>4. jobs' \in Nat /\ (jobs' = 0 => jobs = 0)
  BY <1>1 DEF CleanUp, TypeOK
<1>5. /\ run' \in [Agents -> Run] /\ run'[a] = Idle
      /\ \A b \in Agents \ {a} : run'[b] = run[b]
  BY <1>1, <1>2, BecomeOne, IdleType
<1>6. vectors' \in [Indices -> 0..Len(ChunkCount)]
  BY <1>1, <1>3, ChunkFacts
<1>7. TypeOK'
  BY <1>1, <1>2, <1>4, <1>5, <1>6 DEF TypeOK, Run, Stages
<1>8. ~Running(a)' /\ ~Working(a)' /\ ~At(a, {"committed"})' /\ ~run'[a].alone
  BY <1>5, IdleType DEF Running, Working, At, Stages
<1>9. RunsOK'
  BY <1>1, <1>2, <1>5, <1>8 DEF RunsOK, Running, Working, Sole, At
<1>10. \A b \in Agents : ~(Working(b) /\ Sole(b))'
  <2> SUFFICES ASSUME NEW b \in Agents, (Working(b) /\ Sole(b))' PROVE FALSE
    OBVIOUS
  <2>1. b # a /\ Working(b) /\ Sole(b)
    BY <1>2, <1>5, <1>8 DEF Working, Sole, At
  <2>2. Running(b)
    BY <2>1 DEF Working, Running, At, Stages
  <2> QED
    BY <1>1, <1>2, <2>1, <2>2 DEF RunsOK
<1>11. clean' => CleanOK'
  <2> SUFFICES ASSUME clean' PROVE CleanOK'
    OBVIOUS
  <2>1. clean /\ CleanOK
    BY <1>2 DEF IInv
  <2>2. a \in Live /\ (\A b \in Live : b = a) /\ run[a].previous \cap VectorIds(rows[a]) = {}
    BY <1>2, <2>1 DEF CleanOK, At
  <2>3. \A i \in Indices : i \in VectorIds(rows[a]) => vectors'[i] # 0
    BY <1>3, <2>1, <2>2 DEF CleanOK
  <2>4. \A b \in Agents : ~At(b, {"committed"})'
    <3>1. \A b \in Agents \ {a} : ~Running(b)
      BY <1>1, <1>2, <2>1 DEF RunsOK, Sole
    <3> QED
      BY <1>5, <1>8, <3>1 DEF Running, At
  <2>5. (\A b \in Agents : ~Working(b)') => \A b \in Agents : ~Working(b)
    BY <1>2, <1>5 DEF Working, At
  <2>6. Live' = Live /\ \A b : VectorIds(rows'[b]) = VectorIds(rows[b])
    BY <1>2 DEF Live
  <2> QED
    BY <1>2, <1>4, <2>1, <2>2, <2>3, <2>4, <2>5, <2>6 DEF CleanOK, Current
<1> QED
  BY <1>7, <1>9, <1>10, <1>11 DEF IInv

(* What Dispatch does, seen from the document's new content. *)
LEMMA DispatchKeeps ==
  ASSUME IInv, Dispatch(file'), file' \in Files,
         UNCHANGED <<rows, vectors, indexed>>
  PROVE  IInv'
<1>1. TypeOK /\ jobs \in Nat
  BY TypeParts DEF IInv
<1>2. CASE jobs' = jobs + 1 /\ gaveUp' = FALSE /\ UNCHANGED <<run, clean>>
  <2>1. jobs' \in Nat /\ jobs' # 0
    BY <1>1, <1>2, SMT
  <2>2. gaveUp' \in BOOLEAN
    BY <1>2, Zenon
  <2> QED
    BY <1>2, <2>1, <2>2, QueueKeeps
<1>3. CASE gaveUp' = FALSE /\ UNCHANGED jobs /\ \E a \in Requests : StartRun(a, file')
  <2>1. PICK a \in Requests : StartRun(a, file')
    BY <1>3
  <2>2. a \in Agents /\ gaveUp' \in BOOLEAN /\ jobs' \in Nat
    BY <1>1, <1>3 DEF Agents
  <2> QED
    BY <2>1, <2>2, StartKeeps
<1>4. CASE gaveUp' = TRUE /\ UNCHANGED <<run, jobs, clean>>
  BY <1>1, <1>4, QueueKeeps
<1> QED
  BY <1>2, <1>3, <1>4 DEF Dispatch

LEMMA NextIInv == IInv /\ [Next]_vars => IInv'
<1> SUFFICES ASSUME IInv, [Next]_vars PROVE IInv'
  OBVIOUS
<1>1. TypeOK /\ file \in Files /\ jobs \in Nat /\ gaveUp \in BOOLEAN
  BY TypeParts DEF IInv, TypeOK
<1>2. CASE Revise
  <2>1. file' \in Files
    BY <1>1, <1>2, ChunkFacts DEF Revise
  <2> QED
    BY <1>2, <2>1, DispatchKeeps DEF Revise
<1>3. CASE Reprocess
  <2>1. Dispatch(file') /\ file' \in Files
    <3>1. file' = file /\ Dispatch(file)
      BY <1>3 DEF Reprocess
    <3> QED
      BY <1>1, <3>1
  <2> QED
    BY <1>3, <2>1, DispatchKeeps DEF Reprocess
<1>4. ASSUME NEW w \in Workers, Start(w) PROVE IInv'
  <2>1. w \in Agents /\ file' \in Files /\ jobs' \in Nat /\ gaveUp' \in BOOLEAN
        /\ UNCHANGED <<rows, vectors, indexed>>
    BY <1>1, <1>4 DEF Start, Agents
  <2>2. StartRun(w, file')
    <3>1. file' = file /\ StartRun(w, file)
      BY <1>4 DEF Start
    <3> QED
      BY <3>1
  <2> QED
    BY <2>1, <2>2, StartKeeps
<1>5. ASSUME NEW a \in Agents, FindNoText(a) PROVE IInv'
  BY <1>1, <1>5, EndKeeps DEF FindNoText, Working, At, Stages
<1>6. ASSUME NEW a \in Agents, Fail(a) PROVE IInv'
  <2>1. Working(a) /\ Become(a, Idle) /\ UNCHANGED <<file, rows, vectors, indexed, clean>>
    BY <1>6 DEF Fail, Working, At, Stages
  <2>2. CASE Retry(a)
    BY <1>1, <2>1, <2>2, EndKeeps DEF Retry
  <2>3. CASE GiveUp(a)
    BY <1>1, <2>1, <2>3, EndKeeps DEF GiveUp
  <2> QED
    BY <1>6, <2>2, <2>3 DEF Fail
<1>7. ASSUME NEW a \in Agents,
             LookUp(a) \/ Delete(a) \/ Upsert(a) \/ Commit(a) \/ CleanUp(a)
      PROVE  IInv'
  BY <1>7, LookUpKeeps, DeleteKeeps, UpsertKeeps, CommitKeeps, CleanUpKeeps
<1>8. CASE UNCHANGED vars
  <2>1. TypeOK' /\ RunsOK'
    BY <1>8 DEF vars, IInv, TypeOK, RunsOK, Running, Working, Sole, At
  <2>2. \A a \in Agents : (Working(a) /\ Sole(a))' => StillTrue(a)'
    BY <1>8 DEF vars, IInv, StillTrue, Working, Sole, At, Live
  <2>3. clean' => CleanOK'
    BY <1>8 DEF vars, IInv, CleanOK, Live, VectorIds, Working, At, Current
  <2> QED
    BY <2>1, <2>2, <2>3 DEF IInv
<1> QED
  BY <1>2, <1>3, <1>4, <1>5, <1>6, <1>7, <1>8 DEF Next

-----------------------------------------------------------------------------
(* The inductive invariant holds in every reachable state.                 *)
THEOREM IndexInvariant == Spec => []IInv
BY InitIInv, NextIInv, PTL DEF Spec

(* Every variable of the index keeps its type.                             *)
THEOREM IndexTypeOK == Spec => []TypeOK
<1>1. IInv => TypeOK
  BY DEF IInv
<1> QED
  BY <1>1, IndexInvariant, PTL

(* A committed row that names a vector has one, through crashes,           *)
(* rollbacks, retries and half-answered upserts.                           *)
THEOREM RowsKeepTheirVectors == Spec => []RowsHaveVectors
<1>1. IInv => RowsHaveVectors
  BY DEF IInv, CleanOK, RowsHaveVectors
<1> QED
  BY <1>1, IndexInvariant, PTL

(* A document's chunk rows are one generation.                             *)
THEOREM RowsAreOneGeneration == Spec => []OneGeneration
<1>1. ASSUME IInv, clean PROVE Cardinality(Live) <= 1
  <2>1. \A a, b \in Live : a = b
    BY <1>1 DEF IInv, CleanOK
  <2>2. CASE Live = {}
    BY <2>2, FS_EmptySet
  <2>3. CASE Live # {}
    <3>1. PICK a : Live = {a}
      BY <2>1, <2>3
    <3>2. Cardinality({a}) = 1
      BY FS_Singleton
    <3> QED
      BY <3>1, <3>2
  <2> QED
    BY <2>2, <2>3
<1>2. IInv => OneGeneration
  BY <1>1 DEF OneGeneration
<1> QED
  BY <1>2, IndexInvariant, PTL

(* indexed_at is set exactly while some row has a vector.                  *)
THEOREM IndexedAtIsHonest == Spec => []IndexedIsHonest
<1>1. IInv => IndexedIsHonest
  BY DEF IInv, CleanOK, IndexedIsHonest
<1> QED
  BY <1>1, IndexInvariant, PTL

(* When nothing is outstanding and nothing was lost, the rows are of the   *)
(* file the document shows.                                                *)
THEOREM QuietIndexIsCurrent == Spec => []IndexIsCurrent
<1>1. ASSUME IInv, clean, Quiet, ~gaveUp PROVE \E a \in Live : rows[a].file = file
  <2>1. jobs = 0 /\ \A a \in Agents : ~Working(a)
    BY <1>1 DEF Quiet, Running, Working, At, Stages
  <2> QED
    BY <1>1, <2>1 DEF IInv, CleanOK, Current
<1>2. IInv => IndexIsCurrent
  BY <1>1 DEF IndexIsCurrent
<1> QED
  BY <1>2, IndexInvariant, PTL
=============================================================================
