------------------------ MODULE RecordCreationProofs ------------------------
(***************************************************************************)
(* Proofs about idempotent creation, for any set of attempts, keyless      *)
(* creates and other writers, any fault and any register left behind.      *)
(*                                                                         *)
(* The promise of a key rests on what an answer that is still on its way   *)
(* is worth: an attempt about to answer with a record, and a response that *)
(* is cached, name the record that holds the committed claim (OnceOK); and *)
(* while one attempt is in its transaction nobody holds the claim.  The    *)
(* number and the audit entry of the transaction that holds the minting    *)
(* lock are above what is committed by others like it (NumbersOK, TrailOK).*)
(***************************************************************************)
EXTENDS RecordCreation, FiniteSetTheorems, WellFoundedInduction, TLAPS

USE CreationAssumption

RedisEntry == [st : {"none", "processing", "done"}, payload : {"first", "other"},
               result : Results]

Req == [pc : {"idle", "poll", "setnx", "poll_again", "handler", "respond", "done"}
               \cup InTransaction,
        result : Results, cached : BOOLEAN, claimed : BOOLEAN,
        number : Nat, seq : Nat, prev : Requests \cup {NoOne}]

Minted == {"append", "commit"}

(* What the lock holder has minted is above everything in the register. *)
NumbersOK ==
  /\ IsFiniteSet(register)
  /\ \A r \in Creators : req[r].pc \in Minted =>
       req[r].number > 0 /\ \A n \in register : n < req[r].number

(* What an answer that names a record may be, for the requester's payload  *)
(* and, on a durable endpoint, for the claim.                              *)
Worth(payload, result) ==
  result \in Requests =>
    /\ Payload(result) = payload
    /\ Durable => result = claim

ReplaysOK ==
  /\ redis.st = "done" => Worth(redis.payload, redis.result)
  /\ \A r \in Keyed : req[r].pc \in {"respond", "done"} => Worth(Payload(r), req[r].result)

Inside(r) == req[r].pc \in InTransaction

OnceOK ==
  Durable =>
    /\ records \cap Keyed = IF claim = NoOne THEN {} ELSE {claim}
    /\ \A r \in Keyed : Inside(r) =>
         claim = NoOne /\ \A s \in Keyed \ {r} : ~Inside(s)

Extends(q) ==
  IF trail = {} THEN q.seq = 1 /\ q.prev = NoOne
  ELSE \E e \in Last : q.seq = e.seq + 1 /\ q.prev = e.by

(* An entry begins the chain or carries the hash of one just before it.    *)
Follows(q) ==
  IF q.seq = 1 THEN q.prev = NoOne
  ELSE \E f \in trail : f.by = q.prev /\ f.seq = q.seq - 1

(* The chain has no gap, and where it forks one of the two entries was     *)
(* written by a request that does not mint: never by two creates.          *)
ForksAreWriters ==
  /\ \A e \in trail : Follows(e)
  /\ \A e, f \in trail : e.seq = f.seq /\ e # f => e.by \in Writers \/ f.by \in Writers

(* The create that has read its predecessor is above the entries of the    *)
(* other creates: they were committed before it could take the lock.       *)
TrailOK ==
  /\ ForksAreWriters
  /\ \A r \in Requests : ~At(r, "commit") => req[r].prev = NoOne
  /\ \A r \in Requests : At(r, "commit") => req[r].seq > 0 /\ Follows(req[r])
  /\ \A r \in Creators : At(r, "commit") =>
       \A e \in trail : e.by \in Creators => e.seq < req[r].seq

(* Only a keyed request passes through the middleware's stations, and only *)
(* a create mints.                                                         *)
Place(r, pc) ==
  /\ r \notin Keyed => pc \in {"idle", "done"} \cup InTransaction
  /\ r \in Writers => pc # "mint"

PlacesOK == \A r \in Requests : Place(r, req[r].pc)

IInv == TypeOK /\ PlacesOK /\ NumbersOK /\ ReplaysOK /\ OnceOK /\ TrailOK

-----------------------------------------------------------------------------
(* A finite set of integers that is not empty has a greatest element: of   *)
(* the sets of those above each element, a smallest one is empty.          *)
LEMMA MaxOfFinite ==
  ASSUME NEW S \in SUBSET Nat, IsFiniteSet(S), S # {}
  PROVE  Max(S) \in S /\ \A n \in S : n <= Max(S)
<1> DEFINE Above(x) == {y \in S : y > x}
           T == {Above(x) : x \in S}
<1>1. T \subseteq FiniteSubsetsOf(S) /\ T # {}
  <2>1. ASSUME NEW x \in S PROVE Above(x) \in FiniteSubsetsOf(S)
    <3>1. Above(x) \subseteq S
      OBVIOUS
    <3>2. IsFiniteSet(Above(x))
      BY <3>1, FS_Subset
    <3> QED BY <3>1, <3>2 DEF FiniteSubsetsOf
  <2>2. PICK x \in S : TRUE
    OBVIOUS
  <2>3. Above(x) \in T
    OBVIOUS
  <2> HIDE DEF Above
  <2> QED BY <2>1, <2>3
<1>2. IsWellFoundedOn(StrictSubsetOrdering(S), FiniteSubsetsOf(S))
  BY FS_StrictSubsetOrderingWellFounded
<1> HIDE DEF T
<1>3. PICK A \in T : \A B \in T : ~ (<<B, A>> \in StrictSubsetOrdering(S))
  BY <1>1, <1>2, WFMin
<1>4. PICK x \in S : A = Above(x)
  BY <1>3 DEF T
<1>5. Above(x) = {}
  <2> SUFFICES ASSUME NEW y \in Above(x) PROVE FALSE
    OBVIOUS
  <2>1. y \in S /\ Above(y) \in T
    BY DEF T
  <2>2. Above(y) \subseteq Above(x)
    <3> SUFFICES ASSUME NEW z \in Above(y) PROVE z \in Above(x)
      OBVIOUS
    <3> x \in Nat /\ y \in Nat /\ z \in Nat /\ z \in S /\ z > y /\ y > x
      OBVIOUS
    <3> QED OBVIOUS
  <2>3. y \notin Above(y)
    BY <2>1
  <2>4. Above(x) \in SUBSET S /\ Above(y) \in SUBSET S
    OBVIOUS
  <2> HIDE DEF Above
  <2>5. <<Above(y), Above(x)>> \in StrictSubsetOrdering(S)
    BY <2>2, <2>3, <2>4 DEF StrictSubsetOrdering
  <2> QED BY <1>3, <1>4, <2>1, <2>5
<1>6. \A n \in S : x >= n
  BY <1>5
<1>7. Max(S) \in S /\ \A n \in S : Max(S) >= n
  BY <1>6 DEF Max
<1> QED BY <1>7

(* ReferenceNumberService: the next number is above every number there is. *)
LEMMA NextNumberIsAbove ==
  ASSUME register \in SUBSET (Nat \ {0}), IsFiniteSet(register)
  PROVE  NextNumber \in Nat /\ NextNumber > 0 /\ \A n \in register : n < NextNumber
<1> DEFINE S == register \cup {Cardinality(register)}
<1>1. Cardinality(register) \in Nat
  BY FS_CardinalityType
<1>2. IsFiniteSet(S) /\ S \in SUBSET Nat /\ S # {}
  BY <1>1, FS_AddElement
<1>3. S = {Cardinality(register)} \cup register
  OBVIOUS
<1> HIDE DEF S
<1>4. NextNumber = 1 + Max(S)
  BY <1>3 DEF NextNumber
<1>5. Max(S) \in S /\ \A n \in S : n <= Max(S)
  BY <1>2, MaxOfFinite
<1>6. Max(S) \in Nat
  BY <1>2, <1>5
<1>7. \A n \in register : n \in Nat /\ n <= Max(S)
  BY <1>3, <1>5
<1> QED BY <1>4, <1>6, <1>7

-----------------------------------------------------------------------------
(* A step that commits nothing and reads no predecessor.                   *)
LEMMA TrailIsKept ==
  ASSUME TrailOK, UNCHANGED trail,
         \A s \in Requests : ~At(s, "commit")' => req'[s].prev = NoOne,
         \A s \in Requests : At(s, "commit")' => At(s, "commit") /\ req'[s] = req[s]
  PROVE  TrailOK'
<1>1. Creators \subseteq Requests
  BY DEF Creators, Requests
<1>2. ForksAreWriters'
  BY DEF TrailOK, ForksAreWriters, Follows
<1>3. ASSUME NEW s \in Requests, At(s, "commit")'
      PROVE  req'[s].seq > 0 /\ Follows(req[s])'
  BY <1>3 DEF TrailOK, Follows
<1>4. ASSUME NEW s \in Creators, At(s, "commit")'
      PROVE  \A e \in trail : e.by \in Creators => e.seq < req'[s].seq
  BY <1>1, <1>4 DEF TrailOK
<1> QED BY <1>2, <1>3, <1>4 DEF TrailOK

(* A request leaves nothing of its transaction behind when it answers.     *)
LEMMA AnswerState ==
  ASSUME NEW r \in Requests, NEW result \in Results, Answer(r, result)
  PROVE  \E x \in Req : /\ Become(r, x)
                        /\ x.pc = "done" /\ x.result = result /\ x.prev = NoOne
<1> DEFINE x == [Idle EXCEPT !.pc = "done", !.result = result]
<1>1. x \in Req /\ x.pc = "done" /\ x.result = result /\ x.prev = NoOne
  BY DEF Idle, Req, InTransaction
<1>2. Become(r, x)
  BY DEF Answer
<1> QED BY <1>1, <1>2

LEMMA ReturnState ==
  ASSUME TypeOK, NEW r \in Requests, NEW result \in Results, Return(r, result)
  PROVE  \E x \in Req : /\ Become(r, x)
                        /\ x.pc = IF r \in Keyed THEN "respond" ELSE "done"
                        /\ x.result = result /\ x.prev = NoOne
<1> DEFINE x == [Idle EXCEPT !.pc = "respond", !.result = result,
                             !.cached = req[r].cached, !.claimed = req[r].claimed]
<1>1. CASE r \in Keyed
  <2>1. req[r].cached \in BOOLEAN /\ req[r].claimed \in BOOLEAN
    BY DEF TypeOK
  <2>2. x \in Req /\ x.pc = "respond" /\ x.result = result /\ x.prev = NoOne
    BY <2>1 DEF Idle, Req, InTransaction
  <2>3. Become(r, x)
    BY <1>1 DEF Return
  <2> QED BY <1>1, <2>2, <2>3
<1>2. CASE r \notin Keyed
  BY <1>2, AnswerState DEF Return
<1> QED BY <1>1, <1>2

(* Who has not minted holds no lock to give back. *)
LEMMA NothingToRelease ==
  ASSUME TypeOK, NEW r \in Requests, r \in Creators => req[r].pc \notin Minted
  PROVE  Released(r) = holder
BY DEF TypeOK, Released, Requests, Minted

(* A step of one request outside its commit: the tables stay as they are,  *)
(* and the request ends up somewhere without a lock, or in a transaction   *)
(* nobody else of its key is in.                                           *)
LEMMA QuietStep ==
  ASSUME IInv, NEW r \in Requests, NEW x \in Req, Become(r, x), UNCHANGED tables,
         holder' = Released(r),
         redis' \in RedisEntry,
         redis'.st = "done" => Worth(redis'.payload, redis'.result),
         r \in Keyed /\ x.pc \in {"respond", "done"} => Worth(Payload(r), x.result),
         Place(r, x.pc), x.prev = NoOne, x.pc # "commit",
         r \in Creators => x.pc \notin Minted,
         Durable /\ r \in Keyed /\ x.pc \in InTransaction =>
           claim = NoOne /\ \A s \in Keyed \ {r} : ~Inside(s)
  PROVE  IInv'
<1>1. /\ req' \in [Requests -> Req]
      /\ \A s \in Requests : req'[s] = IF s = r THEN x ELSE req[s]
      /\ UNCHANGED <<claim, records, register, trail>>
  BY DEF Become, IInv, TypeOK, Req, tables
<1>2. TypeOK'
  <2>1. holder' \in Creators \cup {NoOne}
    BY DEF IInv, TypeOK, Released
  <2>2. ASSUME NEW s \in Creators PROVE req'[s].pc \in Minted <=> holder' = s
    BY <1>1 DEF IInv, TypeOK, Released, Requests, Creators, Minted
  <2> QED BY <1>1, <2>1, <2>2 DEF IInv, TypeOK, Req, RedisEntry, Minted
<1>3. NumbersOK'
  <2> SUFFICES ASSUME NEW s \in Creators, req'[s].pc \in Minted
               PROVE  req'[s].number > 0 /\ \A n \in register : n < req'[s].number
    BY <1>1 DEF IInv, NumbersOK
  <2>1. s # r /\ s \in Requests
    BY <1>1 DEF Requests, Creators
  <2> QED BY <1>1, <2>1 DEF IInv, NumbersOK
<1>4. ReplaysOK'
  <2>1. \A p, e : Worth(p, e) => Worth(p, e)'
    BY <1>1 DEF Worth, Payload
  <2>2. ASSUME NEW s \in Keyed, req'[s].pc \in {"respond", "done"}
        PROVE  Worth(Payload(s), req'[s].result)
    BY <1>1, <2>2 DEF IInv, ReplaysOK, Requests, Creators
  <2> QED BY <1>1, <2>2 DEF ReplaysOK, Worth
<1>5. OnceOK'
  <2> SUFFICES ASSUME Durable, NEW s \in Keyed, req'[s].pc \in InTransaction
               PROVE  claim = NoOne /\ \A u \in Keyed \ {s} : req'[u].pc \notin InTransaction
    BY <1>1 DEF IInv, OnceOK, Inside
  <2> Keyed \subseteq Requests
    BY DEF Requests, Creators
  <2> QED BY <1>1 DEF IInv, OnceOK, Inside
<1>6. TrailOK'
  <2>1. \A s \in Requests : ~At(s, "commit")' => req'[s].prev = NoOne
    BY <1>1 DEF IInv, TrailOK, At
  <2>2. \A s \in Requests : At(s, "commit")' => At(s, "commit") /\ req'[s] = req[s]
    BY <1>1 DEF At
  <2> QED BY <1>1, <2>1, <2>2, TrailIsKept DEF IInv
<1>7. PlacesOK'
  BY <1>1 DEF IInv, PlacesOK, Place
<1> QED BY <1>2, <1>3, <1>4, <1>5, <1>6, <1>7 DEF IInv

-----------------------------------------------------------------------------
(* The middleware: an entry that is there answers, or is waited for. *)
LEMMA SeeEntryIsQuiet ==
  ASSUME IInv, NEW r \in Keyed, NEW wait \in {"poll", "poll_again"}, SeeEntry(r, wait),
         req[r].pc \in {"idle", "poll", "setnx", "poll_again"},
         UNCHANGED <<redis, tables, holder>>
  PROVE  IInv'
<1>1. r \in Requests /\ req[r] \in Req /\ redis \in RedisEntry
  BY DEF Requests, Creators, IInv, TypeOK, Req, RedisEntry
<1>2. /\ req[r].pc \notin Minted /\ req[r].prev = NoOne
      /\ holder' = Released(r) /\ redis' \in RedisEntry
  BY <1>1, NothingToRelease DEF IInv, TrailOK, At, Minted
<1>3. redis'.st = "done" => Worth(redis'.payload, redis'.result)
  BY DEF IInv, ReplaysOK
<1>4. UNCHANGED tables
  OBVIOUS
<1>5. CASE Mismatch(r) /\ Answer(r, "conflict")
  <2>1. "conflict" \in Results /\ Worth(Payload(r), "conflict")
    BY DEF Results, Refusals, Worth
  <2>2. PICK x \in Req : Become(r, x) /\ x.pc = "done" /\ x.result = "conflict" /\ x.prev = NoOne
    BY <1>1, <1>5, <2>1, AnswerState
  <2> QED BY <1>1, <1>2, <1>3, <1>4, <2>1, <2>2, QuietStep DEF Minted, InTransaction, Place, Creators
<1>6. CASE ~Mismatch(r) /\ redis.st = "done" /\ Answer(r, redis.result)
  <2>1. redis.result \in Results /\ Worth(Payload(r), redis.result)
    BY <1>1, <1>6 DEF RedisEntry, Mismatch, IInv, ReplaysOK
  <2>2. PICK x \in Req :
          Become(r, x) /\ x.pc = "done" /\ x.result = redis.result /\ x.prev = NoOne
    BY <1>1, <1>6, <2>1, AnswerState
  <2> QED BY <1>1, <1>2, <1>3, <1>4, <2>1, <2>2, QuietStep DEF Minted, InTransaction, Place, Creators
<1>7. CASE ~Mismatch(r) /\ Become(r, [req[r] EXCEPT !.pc = wait, !.cached = TRUE])
  <2> DEFINE x == [req[r] EXCEPT !.pc = wait, !.cached = TRUE]
  <2>1. x \in Req /\ x.pc = wait /\ x.prev = NoOne
    BY <1>1, <1>2 DEF Req
  <2> HIDE DEF x
  <2>2. Become(r, x)
    BY <1>7 DEF x
  <2> QED BY <1>1, <1>2, <1>3, <1>4, <2>1, <2>2, QuietStep DEF Minted, InTransaction, Place, Creators
<1> QED BY <1>5, <1>6, <1>7 DEF SeeEntry

(* The middleware: going on, with or without caching, on one's own.        *)
LEMMA GoingOnIsQuiet ==
  ASSUME IInv, NEW r \in Keyed, NEW pc \in {"setnx", "handler"},
         NEW cached \in BOOLEAN, NEW claimed \in BOOLEAN,
         req[r].pc \in {"idle", "poll", "setnx", "poll_again"},
         Become(r, [req[r] EXCEPT !.pc = pc, !.cached = cached, !.claimed = claimed]),
         redis' \in {redis, Placeholder(r), NoEntry},
         UNCHANGED <<tables, holder>>
  PROVE  IInv'
<1> DEFINE x == [req[r] EXCEPT !.pc = pc, !.cached = cached, !.claimed = claimed]
<1>1. r \in Requests /\ req[r] \in Req /\ redis \in RedisEntry
  BY DEF Requests, Creators, IInv, TypeOK, Req, RedisEntry
<1>2. /\ req[r].pc \notin Minted /\ req[r].prev = NoOne
      /\ holder' = Released(r)
  BY <1>1, NothingToRelease DEF IInv, TrailOK, At, Minted
<1>3. redis' \in RedisEntry
  BY <1>1 DEF RedisEntry, Placeholder, NoEntry, Results, Refusals, Payload
<1>4. redis'.st = "done" => Worth(redis'.payload, redis'.result)
  BY DEF IInv, ReplaysOK, Placeholder, NoEntry
<1>5. x \in Req /\ x.pc = pc /\ x.prev = NoOne
  BY <1>1, <1>2 DEF Req, InTransaction
<1>6. Become(r, x) /\ UNCHANGED tables
  OBVIOUS
<1> HIDE DEF x
<1> QED BY <1>1, <1>2, <1>3, <1>4, <1>5, <1>6, QuietStep DEF Minted, InTransaction, Place, Creators

(* An answer that the handler returns, with what it may be worth. *)
LEMMA ReturnIsQuiet ==
  ASSUME IInv, NEW r \in Requests, NEW result \in Results, Return(r, result),
         r \in Keyed => Worth(Payload(r), result),
         holder' = Released(r), UNCHANGED <<redis, tables>>
  PROVE  IInv'
<1>1. PICK x \in Req : /\ Become(r, x)
                       /\ x.pc = IF r \in Keyed THEN "respond" ELSE "done"
                       /\ x.result = result /\ x.prev = NoOne
  BY ReturnState DEF IInv
<1>2. redis' \in RedisEntry /\ (redis'.st = "done" => Worth(redis'.payload, redis'.result))
  BY DEF IInv, TypeOK, RedisEntry, ReplaysOK
<1>3. UNCHANGED tables
  OBVIOUS
<1> QED BY <1>1, <1>2, <1>3, QuietStep DEF Minted, InTransaction, Place, Creators

-----------------------------------------------------------------------------
(* One lemma for each part of a request's way. *)
LEMMA MiddlewareKeepsInv ==
  ASSUME IInv, NEW r \in Requests,
         LookUp(r) \/ Poll(r) \/ GiveUp(r) \/ SetNX(r) \/ RedisError(r)
  PROVE  IInv'
<1>1. req[r] \in Req
  BY DEF IInv, TypeOK, Req
<1>2. r \in Keyed
  BY DEF LookUp, Poll, GiveUp, SetNX, RedisError, At, IInv, PlacesOK, Place, InTransaction
<1>3. \A pc : [req[r] EXCEPT !.pc = pc] =
               [req[r] EXCEPT !.pc = pc, !.cached = req[r].cached, !.claimed = req[r].claimed]
  BY <1>1 DEF Req
<1>4. req[r].cached \in BOOLEAN /\ req[r].claimed \in BOOLEAN
  BY <1>1 DEF Req
<1>5. CASE LookUp(r)
  <2>1. CASE SeeEntry(r, "poll")
    BY <1>2, <1>5, <2>1, SeeEntryIsQuiet DEF LookUp, At
  <2>2. CASE Become(r, [req[r] EXCEPT !.pc = "setnx", !.cached = TRUE])
    <3>1. [req[r] EXCEPT !.pc = "setnx", !.cached = TRUE] =
          [req[r] EXCEPT !.pc = "setnx", !.cached = TRUE, !.claimed = req[r].claimed]
      BY <1>1 DEF Req
    <3> QED BY <1>2, <1>4, <1>5, <2>2, <3>1, GoingOnIsQuiet DEF LookUp, At
  <2> QED BY <1>5, <2>1, <2>2 DEF LookUp
<1>6. CASE Poll(r)
  BY <1>2, <1>6, SeeEntryIsQuiet DEF Poll
<1>7. CASE GiveUp(r)
  BY <1>2, <1>3, <1>4, <1>7, GoingOnIsQuiet DEF GiveUp, Goto, AfterPoll
<1>8. CASE SetNX(r)
  <2>1. CASE SeeEntry(r, "poll_again") /\ UNCHANGED redis
    BY <1>2, <1>8, <2>1, SeeEntryIsQuiet DEF SetNX, At
  <2>2. CASE /\ redis' = Placeholder(r)
             /\ Become(r, [req[r] EXCEPT !.pc = "handler", !.claimed = TRUE])
    <3>1. [req[r] EXCEPT !.pc = "handler", !.claimed = TRUE] =
          [req[r] EXCEPT !.pc = "handler", !.cached = req[r].cached, !.claimed = TRUE]
      BY <1>1 DEF Req
    <3> QED BY <1>2, <1>4, <1>8, <2>2, <3>1, GoingOnIsQuiet DEF SetNX, At
  <2>3. CASE redis' = NoEntry /\ Goto(r, "handler")
    BY <1>2, <1>3, <1>4, <1>8, <2>3, GoingOnIsQuiet DEF SetNX, Goto, At
  <2> QED BY <1>8, <2>1, <2>2, <2>3 DEF SetNX
<1>9. CASE RedisError(r)
  <2>1. ASSUME At(r, "idle"), UNCHANGED redis, NEW c \in BOOLEAN,
               Become(r, [req[r] EXCEPT !.pc = "handler", !.cached = c])
        PROVE  IInv'
    <3>1. [req[r] EXCEPT !.pc = "handler", !.cached = c] =
          [req[r] EXCEPT !.pc = "handler", !.cached = c, !.claimed = req[r].claimed]
      BY <1>1 DEF Req
    <3> QED BY <1>2, <1>4, <1>9, <2>1, <3>1, GoingOnIsQuiet DEF RedisError, At
  <2>2. CASE req[r].pc \in {"poll", "poll_again"} /\ UNCHANGED redis /\ Goto(r, AfterPoll(r))
    BY <1>2, <1>3, <1>4, <1>9, <2>2, GoingOnIsQuiet DEF RedisError, Goto, AfterPoll
  <2>3. CASE /\ At(r, "setnx") /\ Goto(r, "handler")
             /\ redis' \in {redis, IF redis.st = "none" THEN Placeholder(r) ELSE redis}
    BY <1>2, <1>3, <1>4, <1>9, <2>3, GoingOnIsQuiet DEF RedisError, Goto, At
  <2> QED BY <1>9, <2>1, <2>2, <2>3 DEF RedisError
<1> QED BY <1>5, <1>6, <1>7, <1>8, <1>9

LEMMA EnteringKeepsInv ==
  ASSUME IInv, NEW r \in Requests, ClaimKey(r) \/ Start(r)
  PROVE  IInv'
<1>1. req[r] \in Req
  BY DEF IInv, TypeOK, Req
<1>2. /\ req[r].pc \notin Minted /\ req[r].prev = NoOne
      /\ holder' = Released(r)
  <2>1. req[r].pc \notin Minted /\ ~At(r, "commit")
    BY DEF ClaimKey, Start, At, Minted
  <2> QED BY <2>1, NothingToRelease DEF IInv, TrailOK, ClaimKey, Start
<1>3. /\ redis' \in RedisEntry
      /\ redis'.st = "done" => Worth(redis'.payload, redis'.result)
      /\ UNCHANGED tables
  BY DEF ClaimKey, Start, IInv, TypeOK, RedisEntry, ReplaysOK
<1>4. ASSUME NEW pc \in {"mint", "append"}, Goto(r, pc), Place(r, pc),
             r \in Creators => pc = "mint",
             Durable /\ r \in Keyed => claim = NoOne /\ \A s \in Keyed \ {r} : ~Inside(s)
      PROVE  IInv'
  <2> DEFINE x == [req[r] EXCEPT !.pc = pc]
  <2>1. x \in Req /\ x.pc = pc /\ x.prev = NoOne
    BY <1>1, <1>2 DEF Req, InTransaction
  <2> HIDE DEF x
  <2>2. Become(r, x)
    BY <1>4 DEF x, Goto
  <2> QED BY <1>2, <1>3, <1>4, <2>1, <2>2, QuietStep DEF Minted
<1>5. CASE ClaimKey(r)
  <2>1. r \in Keyed
    BY <1>5 DEF ClaimKey, At, IInv, PlacesOK, Place, InTransaction
  <2>2. CASE claim = NoOne /\ Goto(r, "mint")
    BY <1>4, <1>5, <2>1, <2>2 DEF ClaimKey, KeyIsFree, Inside, Place, InTransaction, Creators
  <2>3. CASE Return(r, "conflict")
    BY <1>2, <1>5, <2>3, ReturnIsQuiet DEF ClaimKey, Worth, Results, Refusals
  <2>4. CASE claim # NoOne /\ Payload(claim) = Payload(r) /\ Return(r, claim)
    <3>1. claim \in Results
      BY <2>4 DEF IInv, TypeOK, Results, Requests
    <3> QED BY <1>2, <1>5, <2>4, <3>1, ReturnIsQuiet DEF ClaimKey, Worth
  <2> QED BY <1>5, <2>2, <2>3, <2>4 DEF ClaimKey
<1>6. CASE Start(r)
  BY <1>4, <1>6 DEF Start, Place, InTransaction, Creators, Requests
<1> QED BY <1>5, <1>6

LEMMA RollbackKeepsInv ==
  ASSUME IInv, NEW r \in Requests, Reject(r) \/ Fail(r)
  PROVE  IInv'
<1>1. CASE Reject(r)
  BY <1>1, ReturnIsQuiet DEF Reject, Worth, Results, Refusals
<1>2. CASE Fail(r)
  <2>1. PICK x \in Req : Become(r, x) /\ x.pc = "done" /\ x.result = "error" /\ x.prev = NoOne
    BY <1>2, AnswerState DEF Fail, Results, Refusals
  <2>2. /\ redis' \in RedisEntry
        /\ redis'.st = "done" => Worth(redis'.payload, redis'.result)
        /\ UNCHANGED tables /\ holder' = Released(r)
    BY <1>2 DEF Fail, IInv, TypeOK, RedisEntry, ReplaysOK
  <2>3. Worth(Payload(r), "error")
    BY DEF Worth, Refusals
  <2> QED BY <2>1, <2>2, <2>3, QuietStep DEF Minted, InTransaction, Place
<1> QED BY <1>1, <1>2

LEMMA RespondKeepsInv ==
  ASSUME IInv, NEW r \in Requests, Respond(r)
  PROVE  IInv'
<1>1. r \in Keyed /\ req[r] \in Req /\ req[r].pc = "respond" /\ redis \in RedisEntry
  BY DEF Respond, At, IInv, PlacesOK, Place, InTransaction, TypeOK, Req, RedisEntry
<1>2. req[r].result \in Results /\ Worth(Payload(r), req[r].result)
  BY <1>1 DEF Req, IInv, ReplaysOK
<1>3. redis' \in {redis, NoEntry, Response(r, req[r].result)}
  BY DEF Respond
<1>4. /\ redis' \in RedisEntry
      /\ redis'.st = "done" => Worth(redis'.payload, redis'.result)
  BY <1>1, <1>2, <1>3
  DEF RedisEntry, NoEntry, Response, Payload, Results, Refusals, IInv, ReplaysOK
<1>5. holder' = Released(r) /\ UNCHANGED tables
  BY <1>1, NothingToRelease DEF Respond, IInv, Minted
<1>6. PICK x \in Req :
        Become(r, x) /\ x.pc = "done" /\ x.result = req[r].result /\ x.prev = NoOne
  BY <1>2, AnswerState DEF Respond
<1> QED BY <1>1, <1>2, <1>4, <1>5, <1>6, QuietStep DEF Minted, InTransaction, Place, Creators

LEMMA MintKeepsInv ==
  ASSUME IInv, NEW r \in Requests, Mint(r)
  PROVE  IInv'
<1> DEFINE x == [req[r] EXCEPT !.pc = "append", !.number = NextNumber]
<1>1. r \in Creators /\ req[r].pc = "mint" /\ req[r] \in Req /\ req[r].prev = NoOne
  BY DEF Mint, At, IInv, PlacesOK, Place, Creators, Requests, TypeOK, Req, TrailOK
<1>2. NextNumber \in Nat /\ NextNumber > 0 /\ \A n \in register : n < NextNumber
  BY NextNumberIsAbove DEF IInv, TypeOK, NumbersOK
<1>3. x \in Req /\ x.pc = "append" /\ x.number = NextNumber /\ x.prev = NoOne
  BY <1>1, <1>2 DEF Req, InTransaction
<1> HIDE DEF x
<1>4. /\ req' \in [Requests -> Req]
      /\ \A s \in Requests : req'[s] = IF s = r THEN x ELSE req[s]
      /\ holder = NoOne /\ holder' = r
      /\ UNCHANGED <<redis, claim, records, register, trail>>
  BY <1>3 DEF Mint, Become, IInv, TypeOK, Req, tables, x
<1>5. TypeOK'
  <2>1. ASSUME NEW s \in Creators PROVE req'[s].pc \in Minted <=> holder' = s
    BY <1>1, <1>3, <1>4 DEF IInv, TypeOK, Requests, Creators, Minted
  <2> QED BY <1>1, <1>4, <2>1 DEF IInv, TypeOK, Req, Minted
<1>6. NumbersOK'
  <2>1. \A s \in Creators : req'[s].pc \in Minted => s = r
    BY <1>4, <1>5 DEF TypeOK, Minted
  <2> QED BY <1>1, <1>2, <1>3, <1>4, <2>1 DEF IInv, NumbersOK
<1>7. ReplaysOK'
  <2>1. \A p, e : Worth(p, e) => Worth(p, e)'
    BY <1>4 DEF Worth, Payload
  <2>2. \A s \in Keyed : req'[s].pc \in {"respond", "done"} => req'[s] = req[s]
    BY <1>3, <1>4 DEF Requests, Creators
  <2> QED BY <1>4, <2>1, <2>2 DEF IInv, ReplaysOK, Worth
<1>8. OnceOK'
  <2>1. \A s \in Keyed : Inside(s)' <=> Inside(s)
    BY <1>1, <1>3, <1>4 DEF Inside, InTransaction, Requests, Creators
  <2> QED BY <1>4, <2>1 DEF IInv, OnceOK
<1>9. TrailOK'
  <2>1. \A s \in Requests : ~At(s, "commit")' => req'[s].prev = NoOne
    BY <1>3, <1>4 DEF IInv, TrailOK, At
  <2>2. \A s \in Requests : At(s, "commit")' => At(s, "commit") /\ req'[s] = req[s]
    BY <1>3, <1>4 DEF At
  <2> QED BY <1>4, <2>1, <2>2, TrailIsKept DEF IInv
<1>10. PlacesOK'
  BY <1>1, <1>3, <1>4 DEF IInv, PlacesOK, Place, InTransaction, Creators
<1> QED BY <1>5, <1>6, <1>7, <1>8, <1>9, <1>10 DEF IInv

LEMMA ReadAtTheEnd ==
  ASSUME TypeOK, NEW q, Extends(q)
  PROVE  Follows(q) /\ \A e \in trail : e.seq < q.seq
<1>1. CASE trail = {}
  BY <1>1 DEF Extends, Follows
<1>2. CASE trail # {}
  <2>1. PICK e \in trail : q.seq = e.seq + 1 /\ q.prev = e.by /\ \A f \in trail : f.seq <= e.seq
    BY <1>2 DEF Extends, Last
  <2>2. \A f \in trail : f.seq \in Nat /\ f.seq > 0
    BY DEF TypeOK
  <2>3. q.seq # 1 /\ e.seq = q.seq - 1 /\ \A f \in trail : f.seq < q.seq
    BY <2>1, <2>2
  <2> QED BY <2>1, <2>3 DEF Follows
<1> QED BY <1>1, <1>2

(* The next audit entry is read off the last one, whoever it is that reads.*)
LEMMA AppendKeepsInv ==
  ASSUME IInv, NEW r \in Requests, Append(r)
  PROVE  IInv'
<1>1. req[r].pc = "append" /\ req[r] \in Req /\ req[r].prev = NoOne
  BY DEF Append, At, IInv, TypeOK, Req, TrailOK
<1>2. PICK x \in Req : /\ Become(r, x) /\ x.pc = "commit" /\ x.number = req[r].number
                       /\ x.seq > 0 /\ Extends(x)
  <2>1. CASE trail = {} /\ Become(r, [req[r] EXCEPT !.pc = "commit", !.seq = 1])
    <3> DEFINE x == [req[r] EXCEPT !.pc = "commit", !.seq = 1]
    <3>1. x \in Req /\ x.pc = "commit" /\ x.number = req[r].number /\ x.seq = 1 /\ x.prev = NoOne
      BY <1>1 DEF Req, InTransaction
    <3> HIDE DEF x
    <3>2. Become(r, x)
      BY <2>1 DEF x
    <3> QED BY <2>1, <3>1, <3>2 DEF Extends
  <2>2. ASSUME NEW e \in Last,
               Become(r, [req[r] EXCEPT !.pc = "commit", !.seq = e.seq + 1, !.prev = e.by])
        PROVE  \E x \in Req : /\ Become(r, x) /\ x.pc = "commit" /\ x.number = req[r].number
                              /\ x.seq > 0 /\ Extends(x)
    <3> DEFINE next == e.seq + 1
               x == [req[r] EXCEPT !.pc = "commit", !.seq = next, !.prev = e.by]
    <3>1. next \in Nat /\ next > 0 /\ e.by \in Requests /\ trail # {}
      BY DEF Last, IInv, TypeOK
    <3> HIDE DEF next
    <3>2. /\ x \in Req /\ x.pc = "commit" /\ x.number = req[r].number
          /\ x.seq = next /\ x.prev = e.by
      BY <1>1, <3>1 DEF Req, InTransaction
    <3> HIDE DEF x
    <3>3. Become(r, x)
      BY <2>2 DEF x, next
    <3> QED BY <3>1, <3>2, <3>3 DEF Extends, next
  <2> QED BY <2>1, <2>2 DEF Append
<1>3. /\ req' \in [Requests -> Req]
      /\ \A s \in Requests : req'[s] = IF s = r THEN x ELSE req[s]
      /\ UNCHANGED <<redis, holder, claim, records, register, trail>>
  BY <1>2 DEF Append, Become, IInv, TypeOK, Req, tables
<1>4. \A s \in Creators : s \in Requests /\ (req'[s].pc \in Minted <=> req[s].pc \in Minted)
  BY <1>1, <1>2, <1>3 DEF Creators, Requests, Minted
<1>5. TypeOK'
  BY <1>3, <1>4 DEF IInv, TypeOK, Req, Minted
<1>6. NumbersOK'
  BY <1>2, <1>3, <1>4 DEF IInv, NumbersOK
<1>7. ReplaysOK'
  <2>1. \A p, e : Worth(p, e) => Worth(p, e)'
    BY <1>3 DEF Worth, Payload
  <2>2. \A s \in Keyed : req'[s].pc \in {"respond", "done"} => req'[s] = req[s]
    BY <1>2, <1>3 DEF Requests, Creators
  <2> QED BY <1>3, <2>1, <2>2 DEF IInv, ReplaysOK, Worth
<1>8. OnceOK'
  <2>1. \A s \in Keyed : Inside(s)' <=> Inside(s)
    BY <1>1, <1>2, <1>3 DEF Inside, InTransaction, Requests, Creators
  <2> QED BY <1>3, <2>1 DEF IInv, OnceOK
<1>9. TrailOK'
  <2>1. ForksAreWriters'
    BY <1>3 DEF IInv, TrailOK, ForksAreWriters, Follows
  <2>2. \A s \in Requests : ~At(s, "commit")' => req'[s].prev = NoOne
    BY <1>2, <1>3 DEF IInv, TrailOK, At
  <2>3. Follows(x) /\ \A e \in trail : e.seq < x.seq
    BY <1>2, ReadAtTheEnd DEF IInv
  <2>4. ASSUME NEW s \in Requests, At(s, "commit")'
        PROVE  /\ req'[s].seq > 0 /\ Follows(req[s])'
               /\ s \in Creators => \A e \in trail' : e.by \in Creators => e.seq < req'[s].seq
    <3>1. CASE s = r
      BY <1>2, <1>3, <2>3, <3>1 DEF Follows
    <3>2. CASE s # r
      BY <1>3, <2>4, <3>2 DEF IInv, TrailOK, At, Follows
    <3> QED BY <3>1, <3>2
  <2> QED BY <2>1, <2>2, <2>4 DEF TrailOK, Creators, Requests
<1>10. PlacesOK'
  BY <1>2, <1>3 DEF IInv, PlacesOK, Place, InTransaction
<1> QED BY <1>5, <1>6, <1>7, <1>8, <1>9, <1>10 DEF IInv

(* An entry is committed: it follows the one that was read, and another in *)
(* its place is not from a create, or it is not itself.                    *)
LEMMA ChainGrows ==
  ASSUME TypeOK, TrailOK, NEW r \in Requests, At(r, "commit"),
         trail' = trail \cup {[seq |-> req[r].seq, prev |-> req[r].prev, by |-> r]}
  PROVE  ForksAreWriters'
<1> DEFINE n == [seq |-> req[r].seq, prev |-> req[r].prev, by |-> r]
<1>1. n.seq = req[r].seq /\ n.prev = req[r].prev /\ n.by = r
  OBVIOUS
<1>2. trail' = trail \cup {n}
  OBVIOUS
<1> HIDE DEF n
<1>3. ASSUME NEW e \in trail' PROVE Follows(e)'
  <2>1. IF e.seq = 1 THEN e.prev = NoOne ELSE \E f \in trail : f.by = e.prev /\ f.seq = e.seq - 1
    BY <1>1, <1>2 DEF TrailOK, ForksAreWriters, Follows
  <2> QED BY <1>2, <2>1 DEF Follows
<1>4. ASSUME NEW e \in trail, e.seq = n.seq PROVE e.by \in Writers \/ n.by \in Writers
  <2>1. e.by \in Requests /\ e.seq \in Nat
    BY DEF TypeOK
  <2> QED BY <1>1, <1>4, <2>1 DEF TrailOK, Requests, Creators
<1>5. ASSUME NEW e \in trail', NEW f \in trail', e.seq = f.seq, e # f
      PROVE  e.by \in Writers \/ f.by \in Writers
  BY <1>2, <1>4, <1>5 DEF TrailOK, ForksAreWriters
<1> QED BY <1>3, <1>5 DEF ForksAreWriters

(* What is minted, numbered and chained is committed with the claim. *)
LEMMA CommitKeepsInv ==
  ASSUME IInv, NEW r \in Requests, Commit(r)
  PROVE  IInv'
<1>1. req[r].pc = "commit" /\ req[r] \in Req /\ req[r].seq > 0
  BY DEF Commit, At, IInv, TypeOK, Req, TrailOK
<1>2. PICK x \in Req : /\ Become(r, x)
                       /\ x.pc = IF r \in Keyed THEN "respond" ELSE "done"
                       /\ x.result = r /\ x.prev = NoOne
  BY ReturnState DEF Commit, IInv, Results
<1>3. /\ req' \in [Requests -> Req]
      /\ \A s \in Requests : req'[s] = IF s = r THEN x ELSE req[s]
      /\ UNCHANGED redis
  BY <1>2 DEF Commit, Become, IInv, TypeOK, Req
<1>4. /\ r \in Creators <=> holder = r
      /\ holder' = IF r \in Creators THEN NoOne ELSE holder
  BY <1>1 DEF Commit, Released, IInv, TypeOK
<1>5. ASSUME NEW s \in Creators PROVE req'[s].pc \in Minted <=> holder' = s
  BY <1>1, <1>2, <1>3, <1>4 DEF IInv, TypeOK, Minted, Requests, Creators
<1>6. TypeOK'
  <2>1. claim' \in Keyed \cup {NoOne} /\ records' \in SUBSET Creators
    BY DEF Commit, IInv, TypeOK
  <2>2. register' \in SUBSET (Nat \ {0})
    <3>1. r \in Creators => req[r].number \in Nat \ {0}
      BY <1>1 DEF IInv, NumbersOK, Req, Minted
    <3>2. register \in SUBSET (Nat \ {0})
      BY DEF IInv, TypeOK
    <3>3. register' = register \/ (r \in Creators /\ register' = register \cup {req[r].number})
      BY DEF Commit
    <3> QED BY <3>1, <3>2, <3>3
  <2>3. trail' \in SUBSET [seq : Nat \ {0}, prev : Requests \cup {NoOne}, by : Requests]
    BY <1>1 DEF Commit, IInv, TypeOK, Req
  <2>4. holder' \in Creators \cup {NoOne}
    BY <1>4 DEF IInv, TypeOK
  <2> QED BY <1>3, <1>5, <2>1, <2>2, <2>3, <2>4 DEF IInv, TypeOK, Req, Minted
<1>7. NumbersOK'
  <2>1. IsFiniteSet(register')
    BY FS_AddElement DEF Commit, IInv, NumbersOK
  <2>2. ASSUME NEW s \in Creators, req'[s].pc \in Minted
        PROVE  /\ s # r /\ req'[s] = req[s] /\ r \notin Creators /\ UNCHANGED register
    BY <1>2, <1>3, <1>4, <1>5, <2>2 DEF IInv, TypeOK, Commit, Requests, Creators, Minted
  <2> QED BY <2>1, <2>2 DEF IInv, NumbersOK
<1>8. ReplaysOK'
  <2> DEFINE Stays(p, e) == e \in Requests => Payload(e) = p /\ (Durable => e = claim')
  <2>1. ASSUME NEW p, NEW e, Worth(p, e) PROVE Stays(p, e)
    BY <1>1, <2>1 DEF Worth, Commit, IInv, OnceOK, Inside, InTransaction
  <2>2. r \in Keyed => Stays(Payload(r), r)
    BY DEF Commit
  <2> HIDE DEF Stays
  <2>3. \A s \in Keyed : s # r => req'[s] = req[s]
    BY <1>3 DEF Requests, Creators
  <2>4. redis'.st = "done" => Stays(redis'.payload, redis'.result)
    BY <1>3, <2>1 DEF IInv, ReplaysOK
  <2>5. ASSUME NEW s \in Keyed, req'[s].pc \in {"respond", "done"}
        PROVE  Stays(Payload(s), req'[s].result)
    BY <1>2, <1>3, <2>1, <2>2, <2>3, <2>5 DEF IInv, ReplaysOK
  <2> QED BY <2>4, <2>5 DEF ReplaysOK, Worth, Payload, Stays
<1>9. OnceOK'
  <2>1. ASSUME NEW s \in Keyed, Inside(s)' PROVE s # r /\ Inside(s)
    BY <1>2, <1>3, <2>1 DEF Inside, InTransaction, Requests, Creators
  <2>2. CASE Durable /\ r \in Keyed
    <3>1. claim = NoOne /\ records \cap Keyed = {} /\ \A s \in Keyed \ {r} : ~Inside(s)
      BY <1>1, <2>2 DEF IInv, OnceOK, Inside, InTransaction
    <3>2. claim' = r /\ records' = records \cup {r} /\ r # NoOne
      BY <2>2 DEF Commit, Creators, Requests
    <3> QED BY <2>1, <2>2, <3>1, <3>2 DEF OnceOK
  <2>3. CASE Durable /\ r \notin Keyed
    <3>1. claim' = claim /\ records' \cap Keyed = records \cap Keyed
      BY <2>3 DEF Commit
    <3> QED BY <2>1, <2>3, <3>1 DEF IInv, OnceOK
  <2> QED BY <2>2, <2>3 DEF OnceOK
<1>10. TrailOK'
  <2>1. \A s \in Requests : ~At(s, "commit")' => req'[s].prev = NoOne
    BY <1>2, <1>3 DEF IInv, TrailOK, At
  <2> DEFINE n == [seq |-> req[r].seq, prev |-> req[r].prev, by |-> r]
  <2>2. trail' = trail \cup {n} /\ n.by = r
    BY DEF Commit
  <2> HIDE DEF n
  <2>3. ForksAreWriters'
    BY ChainGrows DEF Commit, IInv
  <2>4. ASSUME NEW s \in Requests, At(s, "commit")'
        PROVE  s # r /\ At(s, "commit") /\ req'[s] = req[s]
    BY <1>2, <1>3, <2>4 DEF At
  <2>5. ASSUME NEW s \in Requests, At(s, "commit")'
        PROVE  req'[s].seq > 0 /\ Follows(req[s])'
    <3>1. req[s].seq > 0 /\ Follows(req[s])
      BY <2>4, <2>5 DEF IInv, TrailOK
    <3> QED BY <2>2, <2>4, <2>5, <3>1 DEF Follows
  <2>6. ASSUME NEW s \in Creators, At(s, "commit")'
        PROVE  \A e \in trail' : e.by \in Creators => e.seq < req'[s].seq
    <3>1. s \in Requests /\ s # r /\ At(s, "commit") /\ req'[s] = req[s]
      BY <2>4, <2>6 DEF Requests, Creators
    <3>2. r \notin Creators  \* the lock belongs to s
      BY <1>1, <3>1 DEF IInv, TypeOK, At
    <3> QED BY <2>2, <3>1, <3>2 DEF IInv, TrailOK
  <2> QED BY <2>1, <2>3, <2>5, <2>6 DEF TrailOK
<1>11. PlacesOK'
  BY <1>2, <1>3 DEF IInv, PlacesOK, Place, InTransaction, Creators
<1> QED BY <1>6, <1>7, <1>8, <1>9, <1>10, <1>11 DEF IInv

LEMMA ExpireKeepsInv == IInv /\ Expire => IInv'
<1> SUFFICES ASSUME IInv, Expire PROVE IInv'
  OBVIOUS
<1>1. redis' = NoEntry /\ UNCHANGED <<claim, records, register, trail, holder, req>>
  BY DEF Expire, tables
<1>2. redis' \in RedisEntry /\ redis'.st = "none"
  BY <1>1 DEF RedisEntry, NoEntry, Results, Refusals
<1>3. TypeOK'
  BY <1>1, <1>2 DEF IInv, TypeOK, RedisEntry
<1>4. NumbersOK' /\ PlacesOK' /\ OnceOK'
  BY <1>1 DEF IInv, NumbersOK, PlacesOK, OnceOK, Inside
<1>5. ReplaysOK'
  BY <1>1, <1>2 DEF IInv, ReplaysOK, Worth, Payload
<1>6. TrailOK'
  BY <1>1, TrailIsKept DEF IInv, TrailOK, At
<1> QED BY <1>3, <1>4, <1>5, <1>6 DEF IInv

LEMMA InitIsFine == Init => IInv
<1> SUFFICES ASSUME Init PROVE IInv
  OBVIOUS
<1>1. \A r \in Requests : req[r] = Idle
  BY DEF Init
<1>2. TypeOK
  BY DEF Init, TypeOK, Idle, NoEntry, Results, Refusals, InTransaction, Requests, Creators
<1>3. NumbersOK /\ PlacesOK /\ ReplaysOK /\ OnceOK
  BY <1>1 DEF Init, NumbersOK, PlacesOK, Place, ReplaysOK, OnceOK, Inside, InTransaction,
              Idle, NoEntry, Minted, Requests, Creators
<1>4. TrailOK
  BY <1>1 DEF Init, TrailOK, ForksAreWriters, At, Idle, Requests, Creators
<1> QED BY <1>2, <1>3, <1>4 DEF IInv

LEMMA StepsKeepInv == IInv /\ [Next]_vars => IInv'
<1> SUFFICES ASSUME IInv, [Next]_vars PROVE IInv'
  OBVIOUS
<1>1. ASSUME NEW r \in Requests,
             LookUp(r) \/ Start(r) \/ Proceed(r) \/ RedisError(r) \/ Reject(r) \/ Fail(r)
      PROVE  IInv'
  BY <1>1, MiddlewareKeepsInv, EnteringKeepsInv, RollbackKeepsInv, RespondKeepsInv,
     MintKeepsInv, AppendKeepsInv, CommitKeepsInv DEF Proceed
<1>2. CASE Expire
  BY <1>2, ExpireKeepsInv
<1>3. CASE UNCHANGED vars
  BY <1>3 DEF vars, IInv, TypeOK, NumbersOK, PlacesOK, Place, ReplaysOK, Worth, Payload,
              OnceOK, Inside, TrailOK, ForksAreWriters, Follows, At
<1> QED BY <1>1, <1>2, <1>3 DEF Next

-----------------------------------------------------------------------------
(* The invariant, of any number of attempts, creates and writers. *)
THEOREM CreationInvariant == Spec => []IInv
BY InitIsFine, StepsKeepInv, PTL DEF Spec

(* Types, and the lock belongs to the create between minting and commit:   *)
(* _serialize_minting serialises, and every way out gives the lock back.   *)
THEOREM CreationTypeOK == Spec => []TypeOK
<1>1. IInv => TypeOK
  BY DEF IInv
<1> QED BY <1>1, CreationInvariant, PTL

(* max(MAX, COUNT) + 1 under the lock never mints a number that is in the  *)
(* register, whatever holes it has, or on its way there.                   *)
THEOREM MintedNumbersAreFree == Spec => []MintedIsFree
<1>1. IInv => MintedIsFree
  <2> SUFFICES ASSUME IInv, NEW r \in Creators, req[r].pc \in Minted
               PROVE  /\ req[r].number \notin register
                      /\ \A s \in Creators \ {r} :
                           req[s].pc \in Minted => req[s].number # req[r].number
    BY DEF MintedIsFree, Minted
  <2>1. holder = r /\ \A s \in Creators : req[s].pc \in Minted => holder = s
    BY DEF IInv, TypeOK, Minted
  <2>2. req[r].number \in Nat /\ \A n \in register : n \in Nat /\ n < req[r].number
    BY DEF IInv, TypeOK, NumbersOK, Requests, Creators
  <2> QED BY <2>1, <2>2
<1> QED BY <1>1, CreationInvariant, PTL

(* Neither the middleware's cache nor the durable claim answers a key with *)
(* a record made for another payload.                                      *)
THEOREM NoForeignReplays == Spec => []NoForeignReplay
<1>1. IInv => NoForeignReplay
  BY DEF IInv, ReplaysOK, Worth, NoForeignReplay, At
<1> QED BY <1>1, CreationInvariant, PTL

(* AuditLogService.log reads the last entry unlocked, whoever else writes  *)
(* the trail.  The minting lock still keeps the creates of the register    *)
(* from forking it between them: each is chained to an entry that is       *)
(* there, and wherever two claim one place, one is another writer's.       *)
THEOREM CreatesNeverFork == Spec => []ForksAreWriters
<1>1. IInv => ForksAreWriters
  BY DEF IInv, TrailOK
<1> QED BY <1>1, CreationInvariant, PTL

-----------------------------------------------------------------------------
(* A step is a step of one request that has not ended, and the claim and   *)
(* the records only change by its commit.                                  *)
LEMMA OneRequestSteps ==
  ASSUME [Next]_vars
  PROVE  \/ UNCHANGED <<claim, records, req>>
         \/ \E r \in Requests :
              /\ req[r].pc # "done"
              /\ \E x : Become(r, x)
              /\ UNCHANGED <<claim, records>> \/ Commit(r)
<1>1. ASSUME NEW r \in Requests, LookUp(r) \/ Start(r) \/ Proceed(r) \/ RedisError(r)
                                 \/ Reject(r) \/ Fail(r)
      PROVE  /\ req[r].pc # "done"
             /\ \E x : Become(r, x)
             /\ UNCHANGED <<claim, records>> \/ Commit(r)
  <2>1. req[r].pc # "done"
    BY <1>1 DEF LookUp, Start, Proceed, RedisError, Reject, Fail, Poll, GiveUp, SetNX,
                ClaimKey, Mint, Append, Commit, Respond, At, InTransaction
  <2>2. \E x : Become(r, x)
    <3>1. ASSUME NEW wait, SeeEntry(r, wait) PROVE \E x : Become(r, x)
      BY <3>1 DEF SeeEntry, Answer
    <3>2. ASSUME NEW e, Return(r, e) PROVE \E x : Become(r, x)
      BY <3>2 DEF Return, Answer
    <3> QED
      BY <1>1, <3>1, <3>2
      DEF LookUp, Start, Proceed, RedisError, Reject, Fail, Poll, GiveUp, SetNX,
          ClaimKey, Mint, Append, Commit, Respond, Goto, Answer
  <2>3. UNCHANGED <<claim, records>> \/ Commit(r)
    BY <1>1 DEF LookUp, Start, Proceed, RedisError, Reject, Fail, Poll, GiveUp, SetNX,
                ClaimKey, Mint, Append, Respond, tables
  <2> QED BY <2>1, <2>2, <2>3
<1>2. CASE Expire \/ UNCHANGED vars
  BY <1>2 DEF Expire, tables, vars
<1> QED BY <1>1, <1>2 DEF Next

Made == records \cap Keyed
ToldTo(r) == IF At(r, "done") /\ req[r].result \in Requests THEN req[r].result ELSE NoOne
Told == [r \in Keyed |-> ToldTo(r)]

(* An endpoint that claims the key in the database keeps what the key      *)
(* promises, for any number of attempts, whatever Redis does: the steps of *)
(* the middleware, the handler and the database make one record, or tell   *)
(* of it, or are invisible to CreateOnce.                                  *)
THEOREM PromiseKept ==
  ASSUME Durable
  PROVE  Spec => KeepsPromise
<1>1. Init => Once!Init
  <2> SUFFICES ASSUME Init PROVE Made = {} /\ Told = [r \in Keyed |-> NoOne]
    BY DEF Once!Init, Made, Told, ToldTo
  <2> QED BY DEF Init, Made, Told, ToldTo, At, Idle, Requests, Creators
<1>2. ASSUME IInv, IInv', [Next]_vars
      PROVE  [Once!Next]_(Once!onceVars)
  <2> SUFFICES \/ UNCHANGED <<Made, Told>>
               \/ \E r \in Keyed : \/ Made = {} /\ Made' = {r} /\ UNCHANGED Told
                                   \/ /\ \E e \in Made : Told' = [Told EXCEPT ![r] = e]
                                      /\ UNCHANGED Made
    BY DEF Once!Next, Once!onceVars, Once!Create, Once!Tell, Made, Told, ToldTo
  <2>1. CASE UNCHANGED <<claim, records, req>>
    BY <2>1 DEF Made, Told, ToldTo, At
  <2>2. ASSUME NEW r \in Requests, req[r].pc # "done", \E x : Become(r, x),
               UNCHANGED <<claim, records>> \/ Commit(r)
        PROVE  \/ UNCHANGED <<Made, Told>>
               \/ \E s \in Keyed : \/ Made = {} /\ Made' = {s} /\ UNCHANGED Told
                                   \/ /\ \E e \in Made : Told' = [Told EXCEPT ![s] = e]
                                      /\ UNCHANGED Made
    <3>1. \A s \in Keyed \ {r} : ToldTo(s)' = ToldTo(s)
      BY <1>2, <2>2 DEF Become, ToldTo, At, IInv, TypeOK
    <3>2. ToldTo(r) = NoOne
      BY <2>2 DEF ToldTo, At
    <3>3. CASE r \in Keyed /\ Commit(r)
      <4>1. Made = {} /\ Made' = {r}
        BY <1>2, <3>3 DEF Made, IInv, OnceOK, Inside, InTransaction, Commit, At,
                          Creators
      <4>2. ToldTo(r)' = NoOne
        <5>1. PICK x \in Req : Become(r, x) /\ x.pc = "respond"
          BY <1>2, <3>3, ReturnState DEF Commit, IInv, Results
        <5>2. req'[r].pc = "respond"
          BY <1>2, <5>1 DEF Become, IInv, TypeOK
        <5> QED BY <5>2 DEF ToldTo, At
      <4> QED BY <3>1, <3>2, <3>3, <4>1, <4>2 DEF Told
    <3>4. CASE ~ (r \in Keyed /\ Commit(r))
      <4>1. UNCHANGED Made
        BY <2>2, <3>4 DEF Made, Commit
      <4>2. CASE r \notin Keyed \/ ToldTo(r)' = NoOne
        BY <3>1, <3>2, <4>1, <4>2 DEF Told
      <4>3. CASE r \in Keyed /\ ToldTo(r)' # NoOne
        <5>1. ToldTo(r)' \in Made'  \* who is told is told of the one the claim names
          <6>1. /\ ToldTo(r)' = req'[r].result
                /\ req'[r].result \in Requests /\ req'[r].pc = "done"
            BY <4>3 DEF ToldTo, At
          <6>2. req'[r].result = claim' /\ claim' # NoOne
            BY <1>2, <4>3, <6>1 DEF IInv, ReplaysOK, Worth
          <6> QED BY <1>2, <6>1, <6>2 DEF Made, IInv, OnceOK
        <5>2. Told' = [Told EXCEPT ![r] = ToldTo(r)']
          BY <3>1, <4>3 DEF Told
        <5> QED BY <4>1, <4>3, <5>1, <5>2
      <4> QED BY <4>2, <4>3
    <3> QED BY <3>3, <3>4
  <2> QED BY <1>2, <2>1, <2>2, OneRequestSteps
<1> QED
  BY <1>1, <1>2, CreationInvariant, PTL DEF Spec, KeepsPromise, Once!Spec

-----------------------------------------------------------------------------
(* Who waits for whom: a poll for an attempt whose placeholder is in Redis *)
(* and which is in the handler or on its way back, the handler for the     *)
(* transaction that has inserted the key, that one for the minting lock,   *)
(* and its holder for nobody.                                              *)
Working == {"handler", "respond"} \cup InTransaction

WaitsOK ==
  /\ trail # {} => Last # {}
  /\ \A r \in Requests : req[r].claimed => req[r].pc \in Working

(* What a step of r does to its own state. *)
Keeps(r, x) == x.claimed => x.pc \in Working

LEMMA StepsKeepClaims ==
  ASSUME IInv, WaitsOK, NEW r \in Requests,
         LookUp(r) \/ Start(r) \/ Proceed(r) \/ RedisError(r) \/ Reject(r) \/ Fail(r)
  PROVE  \E x : Become(r, x) /\ Keeps(r, x)
<1>1. req[r] \in Req /\ Keeps(r, req[r])
  BY DEF IInv, TypeOK, Req, WaitsOK, Keeps
<1>2. ASSUME NEW e, Answer(r, e) PROVE \E x : Become(r, x) /\ Keeps(r, x)
  <2> DEFINE x == [Idle EXCEPT !.pc = "done", !.result = e]
  <2>1. x.claimed = FALSE
    BY DEF Idle
  <2> QED BY <1>2, <2>1 DEF Answer, Keeps
<1>3. ASSUME NEW e, Return(r, e), req[r].pc \in Working PROVE \E x : Become(r, x) /\ Keeps(r, x)
  <2> DEFINE x == [Idle EXCEPT !.pc = "respond", !.result = e,
                               !.cached = req[r].cached, !.claimed = req[r].claimed]
  <2>1. x.pc = "respond"
    BY DEF Idle
  <2> QED BY <1>2, <1>3, <2>1 DEF Return, Keeps, Working
<1>4. ASSUME NEW wait \in {"poll", "poll_again"}, SeeEntry(r, wait), req[r].pc \notin Working
      PROVE  \E x : Become(r, x) /\ Keeps(r, x)
  <2> DEFINE x == [req[r] EXCEPT !.pc = wait, !.cached = TRUE]
  <2>1. x.claimed = FALSE
    BY <1>1, <1>4 DEF Req, Keeps
  <2>2. CASE Become(r, x)
    BY <2>1, <2>2 DEF Keeps
  <2> QED BY <1>2, <1>4, <2>2 DEF SeeEntry
<1>5. ASSUME NEW pc, Goto(r, pc), req[r].pc \in Working => pc \in Working
      PROVE  \E x : Become(r, x) /\ Keeps(r, x)
  <2> DEFINE x == [req[r] EXCEPT !.pc = pc]
  <2>1. x.claimed = req[r].claimed /\ x.pc = pc
    BY <1>1 DEF Req
  <2> QED BY <1>1, <1>5, <2>1 DEF Goto, Keeps
<1>6. CASE LookUp(r)
  <2> DEFINE x == [req[r] EXCEPT !.pc = "setnx", !.cached = TRUE]
  <2>1. x.claimed = req[r].claimed /\ req[r].pc \notin Working
    BY <1>1, <1>6 DEF Req, LookUp, At, Working, InTransaction
  <2>2. CASE Become(r, x)
    BY <1>1, <2>1, <2>2 DEF Keeps
  <2> QED BY <1>4, <1>6, <2>1, <2>2 DEF LookUp
<1>7. CASE Poll(r) \/ SetNX(r)
  <2> DEFINE x == [req[r] EXCEPT !.pc = "handler", !.claimed = TRUE]
  <2>1. x.pc = "handler" /\ req[r].pc \notin Working
    BY <1>1, <1>7 DEF Req, Poll, SetNX, At, Working, InTransaction
  <2>2. CASE Become(r, x)
    BY <2>1, <2>2 DEF Keeps, Working
  <2>3. CASE Goto(r, "handler")
    BY <1>5, <2>1, <2>3 DEF Working
  <2> QED BY <1>4, <1>7, <2>1, <2>2, <2>3 DEF Poll, SetNX, At
<1>8. CASE Start(r) \/ GiveUp(r)
  BY <1>5, <1>8 DEF Start, GiveUp, At, Working, InTransaction
<1>9. CASE ClaimKey(r)
  BY <1>3, <1>5, <1>9 DEF ClaimKey, At, Working, InTransaction
<1>10. CASE Mint(r)
  <2> DEFINE x == [req[r] EXCEPT !.pc = "append", !.number = NextNumber]
  <2>1. x.pc = "append"
    BY <1>1 DEF Req
  <2> QED BY <1>10, <2>1 DEF Mint, Keeps, Working, InTransaction
<1>11. CASE Append(r)
  <2>1. ASSUME NEW n, NEW p
        PROVE  /\ Keeps(r, [req[r] EXCEPT !.pc = "commit", !.seq = n])
               /\ Keeps(r, [req[r] EXCEPT !.pc = "commit", !.seq = n, !.prev = p])
    BY <1>1 DEF Req, Keeps, Working, InTransaction
  <2> QED BY <1>11, <2>1 DEF Append
<1>12. CASE Commit(r) \/ Reject(r)
  BY <1>3, <1>12 DEF Commit, Reject, At, Working, InTransaction
<1>13. CASE Fail(r) \/ Respond(r)
  BY <1>2, <1>13 DEF Fail, Respond
<1>14. CASE RedisError(r)
  <2>1. ASSUME NEW c PROVE Keeps(r, [req[r] EXCEPT !.pc = "handler", !.cached = c])
    BY <1>1 DEF Req, Keeps, Working
  <2> QED BY <1>5, <1>14, <2>1 DEF RedisError, At, Working, InTransaction
<1> QED BY <1>6, <1>7, <1>8, <1>9, <1>10, <1>11, <1>12, <1>13, <1>14 DEF Proceed

LEMMA StepsKeepWaits == IInv /\ WaitsOK /\ [Next]_vars => WaitsOK'
<1> SUFFICES ASSUME IInv, WaitsOK, [Next]_vars PROVE WaitsOK'
  OBVIOUS
<1>1. \/ \E r \in Requests : \E x : Become(r, x) /\ Keeps(r, x)
      \/ UNCHANGED req
  BY StepsKeepClaims DEF Next, Expire, vars
<1>2. (\A r \in Requests : req[r].claimed => req[r].pc \in Working)'
  <2>1. CASE UNCHANGED req
    BY <2>1 DEF WaitsOK
  <2>2. ASSUME NEW r \in Requests, NEW x, Become(r, x), Keeps(r, x)
        PROVE  \A s \in Requests : req'[s].claimed => req'[s].pc \in Working
    <3>1. \A s \in Requests : req'[s] = IF s = r THEN x ELSE req[s]
      BY <2>2 DEF Become, IInv, TypeOK
    <3> QED BY <2>2, <3>1 DEF WaitsOK, Keeps
  <2> QED BY <1>1, <2>1, <2>2
<1>3. (trail # {} => Last # {})'
  <2>1. ASSUME NEW r \in Requests, Commit(r) PROVE Last' # {}
    <3> DEFINE n == [seq |-> req[r].seq, prev |-> req[r].prev, by |-> r]
    <3>1. trail' = trail \cup {n}
      BY <2>1 DEF Commit
    <3>2. n.seq \in Nat /\ \A e \in trail : e.seq \in Nat
      BY DEF IInv, TypeOK
    <3> HIDE DEF n
    <3>3. CASE \E e \in Last : n.seq <= e.seq
      BY <3>1, <3>2, <3>3 DEF Last
    <3>4. CASE \A e \in Last : ~ (n.seq <= e.seq)  \* then it is above the others too
      <4>1. \A f \in trail : f.seq <= n.seq
        BY <3>2, <3>4 DEF Last, WaitsOK
      <4> QED BY <3>1, <3>2, <4>1 DEF Last
    <3> QED BY <3>3, <3>4
  <2>2. (\E r \in Requests : Commit(r)) \/ UNCHANGED trail
    BY DEF Next, LookUp, Start, Proceed, RedisError, Reject, Fail, Poll, GiveUp, SetNX,
           ClaimKey, Mint, Append, Respond, Expire, tables, vars
  <2> QED BY <2>1, <2>2 DEF WaitsOK, Last
<1> QED BY <1>2, <1>3 DEF WaitsOK

(* The key's index, the minting lock and the polls of any number of        *)
(* requests are waited for in one order, and whoever holds one of them is  *)
(* in a transaction that can go on or has itself only those after it to    *)
(* wait for.                                                               *)
THEOREM SomebodyCanGoOn == Spec => []NoStandstill
<1>1. Init => WaitsOK
  BY DEF Init, WaitsOK, Idle
<1>2. IInv /\ WaitsOK => NoStandstill
  <2> SUFFICES ASSUME IInv, WaitsOK, NEW r \in Requests, req[r].pc \notin {"idle", "done"},
                      \A s \in Requests : ~CanGoOn(s)
               PROVE  FALSE
    BY DEF NoStandstill
  <2>1. \A s \in Requests : req[s].pc \notin Minted \cup {"setnx", "respond"}
    BY DEF CanGoOn, At, Minted, WaitsOK
  <2>2. holder = NoOne
    BY <2>1 DEF IInv, TypeOK, Minted, Creators, Requests
  <2>3. \A s \in Requests : req[s].pc # "mint"
    BY <2>2 DEF CanGoOn, At
  <2>4. \A s \in Requests : req[s].pc # "handler"
    BY <2>1, <2>3 DEF CanGoOn, At, KeyIsFree, InTransaction, Minted, Creators, Requests
  <2>5. \A s \in Requests : ~req[s].claimed
    BY <2>1, <2>3, <2>4 DEF WaitsOK, Working, InTransaction, Minted
  <2>6. \A s \in Requests : req[s].pc \notin {"poll", "poll_again"}
    BY <2>5 DEF CanGoOn, PollEnds, Creators, Requests
  <2> QED BY <2>1, <2>3, <2>4, <2>6 DEF IInv, TypeOK, InTransaction, Minted
<1> QED BY <1>1, <1>2, CreationInvariant, StepsKeepWaits, PTL DEF Spec

(* The stations of a request, in the order in which it passes them. *)
Stations == <<"idle", "poll", "setnx", "poll_again", "handler", "mint", "append", "commit",
              "respond", "done">>

Before(p, q) ==
  \E i, j \in 1..10 : i < j /\ Stations[i] = p /\ Stations[j] = q

(* No step takes a request back to a station it has left: whatever fails,  *)
(* an attempt never polls or mints again, and ends after nine steps.       *)
MoveOn == \A r \in Requests : req'[r] = req[r] \/ Before(req[r].pc, req'[r].pc)
MovesOn == [][MoveOn]_vars

LEMMA StepsMoveOn ==
  ASSUME IInv, NEW r \in Requests,
         LookUp(r) \/ Start(r) \/ Proceed(r) \/ RedisError(r) \/ Reject(r) \/ Fail(r)
  PROVE  \E x : Become(r, x) /\ Before(req[r].pc, x.pc)
<1>0. \A i, j \in 1..10 : i < j => Before(Stations[i], Stations[j])
  BY DEF Before
<1>1. /\ Before("idle", "poll") /\ Before("idle", "setnx") /\ Before("idle", "handler")
      /\ Before("poll", "setnx") /\ Before("setnx", "poll_again") /\ Before("setnx", "handler")
      /\ Before("poll_again", "handler") /\ Before("handler", "mint")
      /\ Before("idle", "mint") /\ Before("idle", "append") /\ Before("mint", "append")
      /\ Before("append", "commit")
  BY <1>0 DEF Stations
<1>2. \A p \in {"handler", "append", "commit"} : Before(p, "respond")
  BY <1>0 DEF Stations
<1>3. \A p \in {"idle", "poll", "setnx", "poll_again", "handler", "respond"} \cup InTransaction :
        Before(p, "done")
  BY <1>0 DEF Stations, InTransaction
<1> HIDE DEF Stations
<1>4. req[r] \in Req
  BY DEF IInv, TypeOK, Req
<1>5. ASSUME NEW e, Answer(r, e), req[r].pc # "done"
      PROVE  \E x : Become(r, x) /\ Before(req[r].pc, x.pc)
  <2> DEFINE x == [Idle EXCEPT !.pc = "done", !.result = e]
  <2>1. x.pc = "done"
    BY DEF Idle
  <2>2. Before(req[r].pc, "done")
    BY <1>3, <1>4, <1>5 DEF Req
  <2> QED BY <1>5, <2>1, <2>2 DEF Answer
<1>6. ASSUME NEW e, Return(r, e), req[r].pc \in {"handler", "append", "commit"}
      PROVE  \E x : Become(r, x) /\ Before(req[r].pc, x.pc)
  <2> DEFINE x == [Idle EXCEPT !.pc = "respond", !.result = e,
                               !.cached = req[r].cached, !.claimed = req[r].claimed]
  <2>1. x.pc = "respond"
    BY DEF Idle
  <2> QED BY <1>2, <1>5, <1>6, <2>1 DEF Return
<1>7. ASSUME NEW wait, SeeEntry(r, wait), req[r].pc # "done",
             redis.st = "processing" /\ ~Mismatch(r) => Before(req[r].pc, wait)
      PROVE  \E x : Become(r, x) /\ Before(req[r].pc, x.pc)
  <2> DEFINE x == [req[r] EXCEPT !.pc = wait, !.cached = TRUE]
  <2>1. x.pc = wait
    BY <1>4 DEF Req
  <2> QED BY <1>5, <1>7, <2>1 DEF SeeEntry
<1>8. ASSUME NEW pc, Goto(r, pc), Before(req[r].pc, pc)
      PROVE  \E x : Become(r, x) /\ Before(req[r].pc, x.pc)
  <2> DEFINE x == [req[r] EXCEPT !.pc = pc]
  <2>1. x.pc = pc
    BY <1>4 DEF Req
  <2> QED BY <1>8, <2>1 DEF Goto
<1>9. CASE LookUp(r)
  <2> DEFINE x == [req[r] EXCEPT !.pc = "setnx", !.cached = TRUE]
  <2>1. x.pc = "setnx" /\ req[r].pc = "idle"
    BY <1>4, <1>9 DEF Req, LookUp, At
  <2>2. CASE Become(r, x)
    BY <1>1, <2>1, <2>2
  <2> QED BY <1>1, <1>7, <1>9, <2>1, <2>2 DEF LookUp
<1>10. CASE Poll(r)
  BY <1>7, <1>10 DEF Poll, Mismatch
<1>11. CASE SetNX(r)
  <2> DEFINE x == [req[r] EXCEPT !.pc = "handler", !.claimed = TRUE]
  <2>1. x.pc = "handler" /\ req[r].pc = "setnx"
    BY <1>4, <1>11 DEF Req, SetNX, At
  <2>2. CASE Become(r, x)
    BY <1>1, <2>1, <2>2
  <2>3. CASE Goto(r, "handler")
    BY <1>1, <1>8, <2>1, <2>3
  <2> QED BY <1>1, <1>7, <1>11, <2>1, <2>2, <2>3 DEF SetNX
<1>12. CASE Start(r) \/ GiveUp(r)
  BY <1>1, <1>8, <1>12 DEF Start, GiveUp, AfterPoll, At
<1>13. CASE ClaimKey(r)
  BY <1>1, <1>6, <1>8, <1>13 DEF ClaimKey, At
<1>14. CASE Mint(r)
  <2> DEFINE x == [req[r] EXCEPT !.pc = "append", !.number = NextNumber]
  <2>1. x.pc = "append"
    BY <1>4 DEF Req
  <2> QED BY <1>1, <1>14, <2>1 DEF Mint, At
<1>15. CASE Append(r)
  <2>1. Before(req[r].pc, "commit")
    BY <1>1, <1>15 DEF Append, At
  <2>2. CASE Become(r, [req[r] EXCEPT !.pc = "commit", !.seq = 1])
    <3>1. [req[r] EXCEPT !.pc = "commit", !.seq = 1].pc = "commit"
      BY <1>4 DEF Req
    <3> QED BY <2>1, <2>2, <3>1
  <2>3. ASSUME NEW e,
               Become(r, [req[r] EXCEPT !.pc = "commit", !.seq = e.seq + 1, !.prev = e.by])
        PROVE  \E x : Become(r, x) /\ Before(req[r].pc, x.pc)
    <3> DEFINE x == [req[r] EXCEPT !.pc = "commit", !.seq = e.seq + 1, !.prev = e.by]
    <3>1. x.pc = "commit"
      BY <1>4 DEF Req
    <3> QED BY <2>1, <2>3, <3>1
  <2> QED BY <1>15, <2>2, <2>3 DEF Append
<1>16. CASE Commit(r) \/ Reject(r)
  BY <1>6, <1>16 DEF Commit, Reject, At
<1>17. CASE Fail(r) \/ Respond(r)
  BY <1>5, <1>17 DEF Fail, Respond, At, InTransaction
<1>18. CASE RedisError(r)
  <2>1. ASSUME NEW c PROVE [req[r] EXCEPT !.pc = "handler", !.cached = c].pc = "handler"
    BY <1>4 DEF Req
  <2> QED BY <1>1, <1>8, <1>18, <2>1 DEF RedisError, AfterPoll, At
<1> QED BY <1>9, <1>10, <1>11, <1>12, <1>13, <1>14, <1>15, <1>16, <1>17, <1>18 DEF Proceed

(* With SomebodyCanGoOn the two facts RequestsEnd rests on: while anybody  *)
(* is on the way somebody can go on, and nobody goes on for ever.          *)
THEOREM NobodyGoesBack == Spec => MovesOn
<1>1. ASSUME IInv, [Next]_vars PROVE MoveOn
  <2>1. CASE UNCHANGED req
    BY <2>1 DEF MoveOn
  <2>2. ASSUME NEW r \in Requests, NEW x, Become(r, x), Before(req[r].pc, x.pc)
        PROVE  MoveOn
    <3>1. \A s \in Requests : req'[s] = IF s = r THEN x ELSE req[s]
      BY <2>2, <1>1 DEF Become, IInv, TypeOK
    <3> QED BY <2>2, <3>1 DEF MoveOn
  <2> QED BY <1>1, <2>1, <2>2, StepsMoveOn DEF Next, Expire, vars
<1> QED BY <1>1, CreationInvariant, PTL DEF Spec, MovesOn
=============================================================================
