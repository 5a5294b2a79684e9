--------------------------- MODULE CircuitBreaker ---------------------------
(***************************************************************************)
(* One CircuitBreaker instance of infrastructure/resilience, shared by     *)
(* every coroutine of a process that calls the same upstream (OCR, AI      *)
(* review, blob storage).  Everything `call` does before awaiting the      *)
(* upstream runs under an asyncio lock, and so does each completion        *)
(* handler, so each is one action here; between the two, any number of     *)
(* other calls may enter or finish.                                        *)
(***************************************************************************)
EXTENDS Integers, FiniteSets

CONSTANTS
  Calls,             \* coroutines that may be inside `call` at the same time
  FailureThreshold,  \* failure_threshold
  RecoveryTimeout,   \* recovery_timeout, in ticks of the monotonic clock
  HalfOpenMaxCalls,  \* half_open_max_calls
  CallOutcomes,      \* how a call admitted while CLOSED may end
  ProbeOutcomes,     \* how a call admitted while HALF_OPEN may end
  ManualReset        \* whether somebody calls reset()

(* A timeout is asyncio.wait_for cancelling the coroutine: CancelledError  *)
(* is not an Exception, so neither completion handler runs.                *)
Outcomes == {"success", "failure", "timeout"}

ASSUME BreakerAssumption ==
  /\ IsFiniteSet(Calls)
  /\ FailureThreshold \in Nat \ {0}
  /\ RecoveryTimeout \in Nat \ {0}
  /\ HalfOpenMaxCalls \in Nat \ {0}
  /\ CallOutcomes \subseteq Outcomes
  /\ ProbeOutcomes \subseteq Outcomes
  /\ ManualReset \in BOOLEAN

VARIABLES
  state,         \* _state: "closed" or "open"; half_open is never stored
  failureCount,  \* _failure_count
  sinceFailure,  \* now - _last_failure_time, saturated at RecoveryTimeout
  halfOpenCalls, \* _half_open_calls
  pc             \* per coroutine: idle, in a call, or a probe of this open spell

vars == <<state, failureCount, sinceFailure, halfOpenCalls, pc>>

Probes == {c \in Calls : pc[c] = "probe"}

(* The `state` property: OPEN reads as HALF_OPEN once the timeout passed.  *)
Effective ==
  IF state = "open" /\ sinceFailure >= RecoveryTimeout THEN "half_open" ELSE state

Init ==
  /\ state = "closed"
  /\ failureCount = 0
  /\ sinceFailure = RecoveryTimeout
  /\ halfOpenCalls = 0
  /\ pc = [c \in Calls |-> "idle"]

(* call() up to the await, CLOSED. *)
Enter(c) ==
  /\ pc[c] = "idle"
  /\ Effective = "closed"
  /\ pc' = [pc EXCEPT ![c] = "call"]
  /\ UNCHANGED <<state, failureCount, sinceFailure, halfOpenCalls>>

(* A slip: the budget test lets one probe too many through. *)
EnterProbe_OffByOne(c) ==
  /\ pc[c] = "idle"
  /\ Effective = "half_open"
  /\ halfOpenCalls <= HalfOpenMaxCalls
  /\ halfOpenCalls' = halfOpenCalls + 1
  /\ pc' = [pc EXCEPT ![c] = "probe"]
  /\ UNCHANGED <<state, failureCount, sinceFailure>>

(* call() up to the await, HALF_OPEN with probe budget left.  The calls    *)
(* that are refused (OPEN, or no budget) change nothing.                   *)
EnterProbe(c) ==
  /\ pc[c] = "idle"
  /\ Effective = "half_open"
  /\ halfOpenCalls < HalfOpenMaxCalls
  /\ halfOpenCalls' = halfOpenCalls + 1
  /\ pc' = [pc EXCEPT ![c] = "probe"]
  /\ UNCHANGED <<state, failureCount, sinceFailure>>

MayEnd(c, outcome) ==
  \/ pc[c] = "call"  /\ outcome \in CallOutcomes
  \/ pc[c] = "probe" /\ outcome \in ProbeOutcomes

(* Closing ends the open spell: a probe still in flight is now any call.   *)
EndSpell == [c \in Calls |-> IF pc[c] = "probe" THEN "call" ELSE pc[c]]

(* Slips: closing forgets the failure counter, or the probe budget. *)
Succeed_KeepsFailures(c) ==
  /\ MayEnd(c, "success")
  /\ state' = "closed"
  /\ halfOpenCalls' = 0
  /\ pc' = [EndSpell EXCEPT ![c] = "idle"]
  /\ UNCHANGED <<failureCount, sinceFailure>>

Succeed_KeepsBudget(c) ==
  /\ MayEnd(c, "success")
  /\ state' = "closed"
  /\ failureCount' = 0
  /\ pc' = [EndSpell EXCEPT ![c] = "idle"]
  /\ UNCHANGED <<sinceFailure, halfOpenCalls>>

(* Slip: a success clears the counters but not the state. *)
Succeed_StaysOpen(c) ==
  /\ MayEnd(c, "success")
  /\ failureCount' = 0
  /\ halfOpenCalls' = 0
  /\ pc' = [EndSpell EXCEPT ![c] = "idle"]
  /\ UNCHANGED <<state, sinceFailure>>

(* _on_success: whatever the state was, the breaker closes. *)
Succeed(c) ==
  /\ MayEnd(c, "success")
  /\ state' = "closed"
  /\ failureCount' = 0
  /\ halfOpenCalls' = 0
  /\ pc' = [EndSpell EXCEPT ![c] = "idle"]
  /\ UNCHANGED sinceFailure

(* _on_failure: the probe budget is not given back. *)
Fail(c) ==
  /\ MayEnd(c, "failure")
  /\ failureCount' = failureCount + 1
  /\ sinceFailure' = 0
  /\ state' = IF failureCount' >= FailureThreshold THEN "open" ELSE state
  /\ pc' = [pc EXCEPT ![c] = "idle"]
  /\ UNCHANGED halfOpenCalls

(* wait_for gives up on the call: no handler runs. *)
TimeOut(c) ==
  /\ MayEnd(c, "timeout")
  /\ pc' = [pc EXCEPT ![c] = "idle"]
  /\ UNCHANGED <<state, failureCount, sinceFailure, halfOpenCalls>>

(* reset() *)
Reset ==
  /\ ManualReset
  /\ state' = "closed"
  /\ failureCount' = 0
  /\ halfOpenCalls' = 0
  /\ pc' = EndSpell
  /\ UNCHANGED sinceFailure

(* The monotonic clock.  Past RecoveryTimeout nothing can tell it apart.   *)
Tick ==
  /\ sinceFailure < RecoveryTimeout
  /\ sinceFailure' = sinceFailure + 1
  /\ UNCHANGED <<state, failureCount, halfOpenCalls, pc>>

End(c) == Succeed(c) \/ Fail(c) \/ TimeOut(c)

Next ==
  \/ \E c \in Calls : Enter(c) \/ EnterProbe(c) \/ Succeed(c) \/ Fail(c) \/ TimeOut(c)
  \/ Reset
  \/ Tick

Spec == Init /\ [][Next]_vars

(* Time passes, a call in flight ends, and the upstream keeps being called *)
(* by somebody: that is what its users do, retrying jobs and requests.     *)
Fairness ==
  /\ WF_vars(Tick)
  /\ WF_vars(\E c \in Calls : Enter(c))
  /\ WF_vars(\E c \in Calls : EnterProbe(c))
  /\ \A c \in Calls : WF_vars(End(c))

FairSpec == Spec /\ Fairness

-----------------------------------------------------------------------------
TypeOK ==
  /\ state \in {"closed", "open"}
  /\ failureCount \in Nat
  /\ sinceFailure \in 0..RecoveryTimeout
  /\ halfOpenCalls \in 0..HalfOpenMaxCalls
  /\ pc \in [Calls -> {"idle", "call", "probe"}]

(* The stored state and the consecutive-failure counter never disagree,    *)
(* however late calls interleave: the breaker is open exactly while the    *)
(* counter is at or over the threshold (call, _on_success, _on_failure     *)
(* and reset each write only one half of this or both).                    *)
OpenIffThreshold == state = "open" <=> failureCount >= FailureThreshold

(* A struggling upstream gets at most half_open_max_calls probes in any    *)
(* one open spell, even while calls of earlier spells are still in flight. *)
ProbesWithinBudget == Cardinality(Probes) <= HalfOpenMaxCalls

(* The probe budget spent belongs to the current open spell: a breaker     *)
(* that closes never carries spent budget into its next opening.           *)
NoBudgetCarriedOver == halfOpenCalls > 0 => state = "open"

(* A probe that fails leaves the breaker rejecting calls for a full        *)
(* recovery_timeout again.                                                 *)
FailedProbeReopens ==
  [][\A c \in Probes : Fail(c) => state' = "open" /\ sinceFailure' < RecoveryTimeout]_vars

(* When HALF_OPEN, one probe is let through: with no probe in flight, the  *)
(* next caller is admitted.                                                *)
HalfOpenAdmitsProbe ==
  Effective = "half_open" /\ Probes = {} => halfOpenCalls < HalfOpenMaxCalls

(* An open breaker closes again, whatever late calls of the closed spell   *)
(* do meanwhile; the only alternative is that the whole probe budget was   *)
(* lost to probes that failed or were cancelled, see HalfOpenAdmitsProbe.  *)
Recovers ==
  state = "open" ~> \/ state = "closed"
                    \/ halfOpenCalls = HalfOpenMaxCalls /\ Probes = {}
=============================================================================
