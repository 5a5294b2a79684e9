------------------------ MODULE CircuitBreakerProofs ------------------------
(***************************************************************************)
(* The circuit breaker's invariants, for every number of callers and every *)
(* setting of the thresholds.                                              *)
(***************************************************************************)
EXTENDS CircuitBreaker, FiniteSetTheorems, TLAPS

(* What makes the invariants inductive: probes exist only in an open spell *)
(* and each of them has taken one unit of the budget that is spent.        *)
IInv ==
  /\ TypeOK
  /\ OpenIffThreshold
  /\ NoBudgetCarriedOver
  /\ Probes # {} => state = "open"
  /\ Cardinality(Probes) <= halfOpenCalls

(* Any set of probes is finite, before and after a step. *)
LEMMA ProbesFinite ==
  /\ IsFiniteSet(Probes) /\ Cardinality(Probes) \in Nat
  /\ IsFiniteSet(Probes') /\ Cardinality(Probes') \in Nat
<1>1. IsFiniteSet(Calls)
  BY BreakerAssumption
<1>2. Probes \in SUBSET Calls /\ Probes' \in SUBSET Calls
  BY DEF Probes
<1>3. IsFiniteSet(Probes) /\ IsFiniteSet(Probes')
  BY <1>1, <1>2, FS_Subset
<1> QED
  BY <1>3, FS_CardinalityType

(* A call that ends takes at most its own probe out of the set. *)
LEMMA EndedProbe ==
  ASSUME NEW c \in Calls, pc \in [Calls -> {"idle", "call", "probe"}],
         pc' = [pc EXCEPT ![c] = "idle"]
  PROVE  /\ Probes' \subseteq Probes
         /\ Cardinality(Probes') <= Cardinality(Probes)
<1>1. Probes' \subseteq Probes
  BY DEF Probes
<1> QED
  BY <1>1, ProbesFinite, FS_Subset

(* Closing leaves no probe. *)
LEMMA SpellEnds ==
  ASSUME pc \in [Calls -> {"idle", "call", "probe"}],
         \/ pc' = EndSpell
         \/ \E c \in Calls : pc' = [EndSpell EXCEPT ![c] = "idle"]
  PROVE  /\ Probes' = {} /\ Cardinality(Probes') = 0
         /\ pc' \in [Calls -> {"idle", "call", "probe"}]
<1>1. pc' \in [Calls -> {"idle", "call", "probe"}] /\ \A d \in Calls : pc'[d] # "probe"
  BY DEF EndSpell
<1>2. Probes' = {}
  BY <1>1 DEF Probes
<1> QED
  BY <1>1, <1>2, FS_EmptySet

LEMMA InitIInv == Init => IInv
<1> SUFFICES ASSUME Init PROVE IInv
  OBVIOUS
<1>1. Probes = {} /\ Cardinality(Probes) = 0
  BY FS_EmptySet DEF Init, Probes
<1> QED
  BY <1>1, BreakerAssumption DEF Init, IInv, TypeOK, OpenIffThreshold, NoBudgetCarriedOver

LEMMA NextIInv == IInv /\ [Next]_vars => IInv'
<1> SUFFICES ASSUME IInv, [Next]_vars PROVE IInv'
  OBVIOUS
<1> USE BreakerAssumption, ProbesFinite
<1>1. ASSUME NEW c \in Calls, Enter(c) PROVE IInv'
  <2>1. state = "closed"
    BY <1>1 DEF Enter, Effective, IInv, TypeOK
  <2>2. Probes' = Probes
    BY <1>1 DEF Enter, Probes, IInv, TypeOK
  <2> QED
    BY <1>1, <2>1, <2>2 DEF Enter, IInv, TypeOK, OpenIffThreshold, NoBudgetCarriedOver
<1>2. ASSUME NEW c \in Calls, EnterProbe(c) PROVE IInv'
  <2>1. state = "open"
    BY <1>2 DEF EnterProbe, Effective, IInv, TypeOK
  <2>2. Probes' = Probes \cup {c} /\ c \notin Probes
    BY <1>2 DEF EnterProbe, Probes, IInv, TypeOK
  <2>3. Cardinality(Probes') = Cardinality(Probes) + 1
    BY <2>2, FS_AddElement
  <2> QED
    BY <1>2, <2>1, <2>3 DEF EnterProbe, IInv, TypeOK, OpenIffThreshold, NoBudgetCarriedOver
<1>3. ASSUME NEW c \in Calls, Succeed(c) PROVE IInv'
  <2>1. /\ Probes' = {} /\ Cardinality(Probes') = 0
        /\ pc' \in [Calls -> {"idle", "call", "probe"}]
    BY <1>3, SpellEnds DEF Succeed, IInv, TypeOK
  <2> QED
    BY <1>3, <2>1 DEF Succeed, IInv, TypeOK, OpenIffThreshold, NoBudgetCarriedOver
<1>4. ASSUME NEW c \in Calls, Fail(c) PROVE IInv'
  <2>1. Probes' \subseteq Probes /\ Cardinality(Probes') <= Cardinality(Probes)
    BY <1>4, EndedProbe DEF Fail, IInv, TypeOK
  <2>2. TypeOK'
    BY <1>4 DEF Fail, IInv, TypeOK
  <2>3. OpenIffThreshold' /\ (state = "open" => state' = "open")
    BY <1>4 DEF Fail, IInv, TypeOK, OpenIffThreshold
  <2> QED
    BY <1>4, <2>1, <2>2, <2>3 DEF Fail, IInv, TypeOK, NoBudgetCarriedOver
<1>5. ASSUME NEW c \in Calls, TimeOut(c) PROVE IInv'
  <2>1. Probes' \subseteq Probes /\ Cardinality(Probes') <= Cardinality(Probes)
    BY <1>5, EndedProbe DEF TimeOut, IInv, TypeOK
  <2> QED
    BY <1>5, <2>1 DEF TimeOut, IInv, TypeOK, OpenIffThreshold, NoBudgetCarriedOver
<1>6. ASSUME Reset PROVE IInv'
  <2>1. /\ Probes' = {} /\ Cardinality(Probes') = 0
        /\ pc' \in [Calls -> {"idle", "call", "probe"}]
    BY <1>6, SpellEnds DEF Reset, IInv, TypeOK
  <2> QED
    BY <1>6, <2>1 DEF Reset, IInv, TypeOK, OpenIffThreshold, NoBudgetCarriedOver
<1>7. ASSUME Tick PROVE IInv'
  BY <1>7 DEF Tick, IInv, TypeOK, Probes, OpenIffThreshold, NoBudgetCarriedOver
<1>8. ASSUME UNCHANGED vars PROVE IInv'
  BY <1>8 DEF vars, IInv, TypeOK, Probes, OpenIffThreshold, NoBudgetCarriedOver
<1> QED
  BY <1>1, <1>2, <1>3, <1>4, <1>5, <1>6, <1>7, <1>8 DEF Next

(* Every reachable state satisfies the inductive invariant. *)
THEOREM BreakerInvariant == Spec => []IInv
BY InitIInv, NextIInv, PTL DEF Spec

(* Every variable of the breaker keeps its type; in particular the probe   *)
(* counter never exceeds half_open_max_calls.                              *)
THEOREM BreakerTypeOK == Spec => []TypeOK
<1>1. IInv => TypeOK
  BY DEF IInv
<1> QED
  BY <1>1, BreakerInvariant, PTL

(* The breaker is open exactly while the failure counter is at or over the *)
(* threshold, whatever calls are in flight.                                *)
THEOREM StateMatchesCounter == Spec => []OpenIffThreshold
<1>1. IInv => OpenIffThreshold
  BY DEF IInv
<1> QED
  BY <1>1, BreakerInvariant, PTL

(* At most half_open_max_calls probes reach the upstream per open spell.   *)
THEOREM ProbeBudget == Spec => [](ProbesWithinBudget /\ NoBudgetCarriedOver)
<1>1. IInv => ProbesWithinBudget /\ NoBudgetCarriedOver
  BY ProbesFinite, BreakerAssumption DEF IInv, TypeOK, ProbesWithinBudget
<1> QED
  BY <1>1, BreakerInvariant, PTL

(* Spent probe budget belongs to the open spell it was spent in.           *)
THEOREM NoLeakedBudget == Spec => []NoBudgetCarriedOver
BY ProbeBudget, PTL

(* A failed probe always leaves the breaker open for a full timeout.       *)
THEOREM ProbeFailureReopens == Spec => FailedProbeReopens
<1>1. IInv /\ [Next]_vars =>
        [\A c \in Probes : Fail(c) => state' = "open" /\ sinceFailure' < RecoveryTimeout]_vars
  BY BreakerAssumption
  DEF IInv, TypeOK, OpenIffThreshold, Probes, Fail
<1> QED
  BY <1>1, BreakerInvariant, PTL DEF Spec, FailedProbeReopens
=============================================================================
