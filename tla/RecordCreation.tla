--------------------------- MODULE RecordCreation ---------------------------
(***************************************************************************)
(* Creating a record with an Idempotency-Key: the Redis middleware, the    *)
(* durable claim in the database, the minting of the reference number      *)
(* under its advisory lock and the entry in the tenant's hash-chained      *)
(* audit trail, all in one request and (Redis apart) one transaction.      *)
(*                                                                         *)
(* One tenant, one key and one register (near misses of this year); other  *)
(* requests write records without a key, or only write the audit trail.    *)
(* A record and its audit entry are named by the request that made them.   *)
(***************************************************************************)
EXTENDS Integers, FiniteSets, FiniteSetsExt

CONSTANTS
  Keyed,     \* creates sent with the Idempotency-Key: an attempt and its retries
  Misusers,  \* those among them that carry another payload than the first
  Keyless,   \* creates in the same register without a key
  Writers,   \* other requests that append to the tenant's audit trail
  Durable,   \* whether the endpoint claims the key in the database
  OldRegisters,  \* the numbers earlier records may have left in the register
  Faults,    \* what may go wrong
  NoOne      \* no request

Requests == Keyed \cup Keyless \cup Writers
Creators == Keyed \cup Keyless

(* redis: unreachable or failing.  slow: waiting for another attempt takes *)
(* longer than the poll.  expire: the entry's TTL.  reject: a handled      *)
(* error such as an unknown contract.  error: an exception nobody handles, *)
(* or the end of the process.                                              *)
AllFaults == {"redis", "slow", "expire", "reject", "error"}

Refusals == {"none", "conflict", "rejected", "error"}

ASSUME CreationAssumption ==
  /\ Misusers \subseteq Keyed
  /\ Keyed \cap Keyless = {} /\ Creators \cap Writers = {}
  /\ Durable \in BOOLEAN
  /\ \A S \in OldRegisters : S \subseteq Nat \ {0} /\ IsFiniteSet(S)
  /\ Faults \subseteq AllFaults
  /\ NoOne \notin Requests
  /\ Requests \cap Refusals = {}

VARIABLES
  redis,     \* the middleware's entry for the key
  claim,     \* who completed the committed api_idempotency_keys row
  records,   \* committed records of the register made since
  register,  \* the reference numbers of all its committed records
  trail,     \* committed AuditLogEntry rows
  holder,    \* who holds the register's advisory lock
  req        \* what each request is doing

vars == <<redis, claim, records, register, trail, holder, req>>
tables == <<claim, records, register, trail>>

Payload(r) == IF r \in Misusers THEN "other" ELSE "first"

NoEntry == [st |-> "none", payload |-> "first", result |-> "none"]
Placeholder(r) == [st |-> "processing", payload |-> Payload(r), result |-> "none"]
Response(r, result) == [st |-> "done", payload |-> Payload(r), result |-> result]

Idle == [pc |-> "idle", result |-> "none", cached |-> FALSE, claimed |-> FALSE,
         number |-> 0, seq |-> 0, prev |-> NoOne]

(* The numbers of earlier records may have holes, where rows were deleted. *)
Init ==
  /\ redis = NoEntry
  /\ claim = NoOne
  /\ records = {}
  /\ register \in OldRegisters
  /\ trail = {}
  /\ holder = NoOne
  /\ req = [r \in Requests |-> Idle]

At(r, pc) == req[r].pc = pc
Become(r, s) == req' = [req EXCEPT ![r] = s]
Goto(r, pc) == Become(r, [req[r] EXCEPT !.pc = pc])
Answer(r, result) == Become(r, [Idle EXCEPT !.pc = "done", !.result = result])

(* The handler's response, on its way back through the middleware.         *)
Return(r, result) ==
  IF r \in Keyed
    THEN Become(r, [Idle EXCEPT !.pc = "respond", !.result = result,
                                !.cached = req[r].cached, !.claimed = req[r].claimed])
    ELSE Answer(r, result)

(***************************************************************************)
(* IdempotencyMiddleware, up to call_next.                                 *)
(***************************************************************************)
Holds(r, st) == redis.st = st /\ redis.payload = Payload(r)

Mismatch(r) == redis.st # "none" /\ redis.payload # Payload(r)

(* What an entry that is there already means for the attempt. *)
SeeEntry(r, wait) ==
  \/ Mismatch(r) /\ Answer(r, "conflict")
  \/ ~Mismatch(r) /\ redis.st = "done" /\ Answer(r, redis.result)
  \/ ~Mismatch(r) /\ redis.st = "processing"
     /\ Become(r, [req[r] EXCEPT !.pc = wait, !.cached = TRUE])

LookUp(r) ==
  /\ At(r, "idle") /\ r \in Keyed
  /\ \/ SeeEntry(r, "poll")
     \/ redis.st = "none" /\ Become(r, [req[r] EXCEPT !.pc = "setnx", !.cached = TRUE])
  /\ UNCHANGED <<redis, tables, holder>>

AfterPoll(r) == IF At(r, "poll") THEN "setnx" ELSE "handler"

Poll(r) ==
  /\ req[r].pc \in {"poll", "poll_again"}
  /\ redis.st = "done" \/ Mismatch(r)
  /\ SeeEntry(r, req[r].pc)
  /\ UNCHANGED <<redis, tables, holder>>

(* The poll ends after five seconds, whether or not anybody is at work. *)
PollEnds(r) ==
  "slow" \in Faults \/ ~\E s \in Keyed \ {r} : req[s].claimed /\ ~At(s, "done")

GiveUp(r) ==
  /\ req[r].pc \in {"poll", "poll_again"}
  /\ PollEnds(r)
  /\ Goto(r, AfterPoll(r))
  /\ UNCHANGED <<redis, tables, holder>>

(* SET NX, and what follows when the key was taken: the entry is read once *)
(* more, and may have expired by then.                                     *)
SetNX(r) ==
  /\ At(r, "setnx")
  /\ \/ /\ redis.st = "none"
        /\ redis' = Placeholder(r)
        /\ Become(r, [req[r] EXCEPT !.pc = "handler", !.claimed = TRUE])
     \/ SeeEntry(r, "poll_again") /\ UNCHANGED redis
     \/ /\ "expire" \in Faults /\ redis.st # "none"
        /\ redis' = NoEntry
        /\ Goto(r, "handler")
  /\ UNCHANGED <<tables, holder>>

(* No client, so no caching either; or an error, and the request goes on.  *)
(* A failing SET NX may have set the key.                                  *)
RedisError(r) ==
  /\ "redis" \in Faults
  /\ \/ At(r, "idle") /\ r \in Keyed /\ UNCHANGED redis
        /\ \E c \in BOOLEAN : Become(r, [req[r] EXCEPT !.pc = "handler", !.cached = c])
     \/ req[r].pc \in {"poll", "poll_again"} /\ UNCHANGED redis /\ Goto(r, AfterPoll(r))
     \/ At(r, "setnx") /\ Goto(r, "handler")
        /\ redis' \in {redis, IF redis.st = "none" THEN Placeholder(r) ELSE redis}
  /\ UNCHANGED <<tables, holder>>

(***************************************************************************)
(* The handler: begin_idempotent_create, ReferenceNumberService.generate,  *)
(* the insert, record_audit_event, complete_idempotent_create, commit.     *)
(***************************************************************************)
InTransaction == {"mint", "append", "commit"}

ClaimKey_NoUniqueIndex(r) ==  \* slip: only committed claims are seen
  /\ At(r, "handler")
  /\ \/ claim = NoOne /\ Goto(r, "mint")
     \/ claim # NoOne /\ Payload(claim) # Payload(r)
        /\ Return(r, "conflict")
     \/ claim # NoOne /\ Payload(claim) = Payload(r)
        /\ Return(r, claim)
  /\ UNCHANGED <<redis, tables, holder>>

ClaimKey_NoPayloadCheck(r) ==  \* slip: whatever completed the key is replayed
  /\ At(r, "handler")
  /\ \A s \in Keyed \ {r} : req[s].pc \notin InTransaction
  /\ \/ claim = NoOne /\ Goto(r, "mint")
     \/ claim # NoOne /\ Return(r, claim)
  /\ UNCHANGED <<redis, tables, holder>>

KeyIsFree_WaitsForWaiters(r) ==  \* slip: those that have not inserted yet are waited for too
  Durable => \A s \in Keyed \ {r} : req[s].pc \notin InTransaction \cup {"handler"}

(* The claim and the record are committed together: another transaction    *)
(* sees both or neither, and an insert of the same key waits for the one   *)
(* that is not committed yet.  An endpoint that leaves the key to the      *)
(* middleware has no claim to wait for and never finds one.                *)
KeyIsFree(r) == Durable => \A s \in Keyed \ {r} : req[s].pc \notin InTransaction

ClaimKey(r) ==
  /\ At(r, "handler") /\ KeyIsFree(r)
  /\ \/ claim = NoOne /\ Goto(r, "mint")
     \/ claim # NoOne /\ Payload(claim) # Payload(r)
        /\ Return(r, "conflict")
     \/ claim # NoOne /\ Payload(claim) = Payload(r)
        /\ Return(r, claim)
  /\ UNCHANGED <<redis, tables, holder>>

(* Requests without a key. *)
Start(r) ==
  /\ At(r, "idle") /\ r \notin Keyed
  /\ Goto(r, IF r \in Keyless THEN "mint" ELSE "append")
  /\ UNCHANGED <<redis, tables, holder>>

NextNumber_CountOnly == Cardinality(register) + 1  \* slip: MAX is not consulted

(* _next_sequence: max(MAX, COUNT) + 1.  (MAX compares the formatted       *)
(* numbers, which is numeric order up to 9999.)                            *)
NextNumber == 1 + Max({Cardinality(register)} \cup register)

Mint_NoLock(r) ==  \* slip: minting is not serialised
  /\ At(r, "mint")
  /\ Become(r, [req[r] EXCEPT !.pc = "append", !.number = NextNumber])
  /\ UNCHANGED <<redis, tables, holder>>

(* The advisory lock is held to the end of the transaction.  The number is *)
(* inserted as it was minted: MintedIsFree says that the unique index on   *)
(* it never has to refuse one.  Where the lock cannot be taken the code    *)
(* goes on unlocked, but PostgreSQL has then aborted the transaction and   *)
(* the next statement raises: the request ends by Fail.                    *)
Mint(r) ==
  /\ At(r, "mint") /\ holder = NoOne
  /\ holder' = r
  /\ Become(r, [req[r] EXCEPT !.pc = "append", !.number = NextNumber])
  /\ UNCHANGED <<redis, tables>>

Last == {e \in trail : \A f \in trail : f.seq <= e.seq}

(* AuditLogService.log: the last entry is read, the next one is flushed.   *)
Append(r) ==
  /\ At(r, "append")
  /\ \/ /\ trail = {}
        /\ Become(r, [req[r] EXCEPT !.pc = "commit", !.seq = 1])
     \/ \E e \in Last :
          Become(r, [req[r] EXCEPT !.pc = "commit", !.seq = e.seq + 1, !.prev = e.by])
  /\ UNCHANGED <<redis, tables, holder>>

Released(r) == IF holder = r THEN NoOne ELSE holder

Commit_KeepsLock(r) ==  \* slip: a session lock instead of a transaction lock
  /\ At(r, "commit")
  /\ claim' = IF r \in Keyed /\ Durable THEN r ELSE claim
  /\ records' = IF r \in Creators THEN records \cup {r} ELSE records
  /\ register' = IF r \in Creators THEN register \cup {req[r].number} ELSE register
  /\ trail' = trail \cup {[seq |-> req[r].seq, prev |-> req[r].prev, by |-> r]}
  /\ Return(r, r)
  /\ UNCHANGED <<redis, holder>>

Commit(r) ==
  /\ At(r, "commit")
  /\ claim' = IF r \in Keyed /\ Durable THEN r ELSE claim
  /\ records' = IF r \in Creators THEN records \cup {r} ELSE records
  /\ register' = IF r \in Creators THEN register \cup {req[r].number} ELSE register
  /\ trail' = trail \cup {[seq |-> req[r].seq, prev |-> req[r].prev, by |-> r]}
  /\ holder' = Released(r)
  /\ Return(r, r)
  /\ UNCHANGED redis

(* A handled error: the transaction is rolled back, and the middleware     *)
(* caches the response like any other.                                     *)
Reject(r) ==
  /\ "reject" \in Faults
  /\ req[r].pc \in {"handler", "append"}
  /\ holder' = Released(r)
  /\ Return(r, "rejected")
  /\ UNCHANGED <<redis, tables>>

(* An exception passes through call_next: nothing is cached, and a         *)
(* placeholder stays.  Before the commit everything is rolled back.        *)
Fail(r) ==
  /\ "error" \in Faults
  /\ req[r].pc \in {"handler", "respond"} \cup InTransaction
  /\ holder' = Released(r)
  /\ Answer(r, "error")
  /\ UNCHANGED <<redis, tables>>

(***************************************************************************)
(* IdempotencyMiddleware, after call_next.                                 *)
(***************************************************************************)
Respond(r) ==
  /\ At(r, "respond")
  /\ \/ req[r].cached /\ redis' = Response(r, req[r].result)
     \/ ~req[r].cached /\ UNCHANGED redis
     \/ "redis" \in Faults /\ req[r].cached  \* the claim, if any, is released, or stays
        /\ redis' \in {redis, IF req[r].claimed THEN NoEntry ELSE redis}
  /\ Answer(r, req[r].result)
  /\ UNCHANGED <<tables, holder>>

Expire ==
  /\ "expire" \in Faults
  /\ redis.st # "none"
  /\ redis' = NoEntry
  /\ UNCHANGED <<tables, holder, req>>

Proceed(r) ==
  \/ Poll(r) \/ GiveUp(r) \/ SetNX(r)
  \/ ClaimKey(r) \/ Mint(r) \/ Append(r) \/ Commit(r) \/ Respond(r)

Next ==
  \/ \E r \in Requests :
       LookUp(r) \/ Start(r) \/ Proceed(r) \/ RedisError(r) \/ Reject(r) \/ Fail(r)
  \/ Expire

Spec == Init /\ [][Next]_vars

(* The process works on as long as some request can go on; nobody has to   *)
(* send one, and each request takes finitely many steps.                   *)
FairSpec == Spec /\ WF_vars(\E r \in Requests : Proceed(r))

(***************************************************************************)
(* Properties.                                                             *)
(***************************************************************************)
Results == Requests \cup Refusals

(* Types; and the advisory lock is held by the creator that has minted a   *)
(* number and not committed yet, if there is one.                          *)
TypeOK ==
  /\ redis \in [st : {"none", "processing", "done"}, payload : {"first", "other"},
                result : Results]
  /\ claim \in Keyed \cup {NoOne}
  /\ records \in SUBSET Creators
  /\ register \in SUBSET (Nat \ {0})
  /\ trail \in SUBSET [seq : Nat \ {0}, prev : Requests \cup {NoOne}, by : Requests]
  /\ holder \in Creators \cup {NoOne}
  /\ req \in [Requests ->
       [pc : {"idle", "poll", "setnx", "poll_again", "handler", "respond", "done"}
               \cup InTransaction,
        result : Results, cached : BOOLEAN, claimed : BOOLEAN,
        number : Nat, seq : Nat,
        prev : Requests \cup {NoOne}]]
  /\ \A r \in Creators : req[r].pc \in {"append", "commit"} <=> holder = r

(* The attempts of one key are one create, whatever Redis does and however *)
(* the attempts interleave, fail and are repeated.                         *)
Once ==
  INSTANCE CreateOnce WITH
    Attempts <- Keyed,
    made <- records \cap Keyed,
    told <- [r \in Keyed |-> IF At(r, "done") /\ req[r].result \in Requests
                               THEN req[r].result ELSE NoOne]
KeepsPromise == Once!Spec

(* A key used for something else is never answered with a record that was  *)
(* not asked for.                                                          *)
NoForeignReplay ==
  \A r \in Keyed : At(r, "done") /\ req[r].result \in Requests =>
    Payload(req[r].result) = Payload(r)

(* A minted number is nobody else's, in the table or in flight.            *)
MintedIsFree ==
  \A r \in Creators : req[r].pc \in {"append", "commit"} =>
    /\ req[r].number \notin register
    /\ \A s \in Creators \ {r} :
         req[s].pc \in {"append", "commit"} => req[s].number # req[r].number

(* verify_chain walks the entries by sequence and finds in each the hash   *)
(* of the one before it: nobody has tampered, so it may not say otherwise. *)
TrailVerifies ==
  \A e \in trail :
    LET Below == {f \in trail : f.seq < e.seq} IN
    /\ \A f \in trail : f.seq = e.seq => f = e
    /\ IF Below = {} THEN e.prev = NoOne
       ELSE \E f \in Below : e.prev = f.by /\ \A g \in Below : g.seq <= f.seq

(* Where the request is, nobody holds what it has to wait for.             *)
CanGoOn(r) ==
  \/ /\ req[r].pc \in {"poll", "poll_again"}
     /\ redis.st = "done" \/ Mismatch(r) \/ PollEnds(r)
  \/ At(r, "handler") /\ KeyIsFree(r)
  \/ At(r, "mint") /\ holder = NoOne
  \/ At(r, "append") /\ (trail = {} \/ Last # {})
  \/ req[r].pc \in {"setnx", "commit", "respond"}

(* Requests wait for a response in Redis, for the claim's unique index and *)
(* for the minting lock, holding the one while they wait for the next; yet *)
(* never does everybody wait for somebody else.                            *)
NoStandstill ==
  (\E r \in Requests : req[r].pc \notin {"idle", "done"}) => \E r \in Requests : CanGoOn(r)

(* Every request that has arrived ends: no claim, lock or placeholder      *)
(* keeps the others waiting for good.                                      *)
RequestsEnd == <>[](\A r \in Requests : req[r].pc \in {"idle", "done"})
=============================================================================
