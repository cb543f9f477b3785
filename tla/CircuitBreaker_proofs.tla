------------------------ MODULE CircuitBreaker_proofs ------------------------
(***************************************************************************)
(* Proofs about CircuitBreaker, for every set of deployments and every      *)
(* threshold and cooldown.                                                  *)
(***************************************************************************)
EXTENDS CircuitBreaker, Circuit_proofs

\* The three safety invariants of CircuitBreaker, circuit by circuit.
IInv == TypeOK /\ \A d \in Deployments : Sound(circuits[d], probes[d])

\* The initial circuits are fresh.
LEMMA InitIInv == Init => IInv
BY CircuitAssumption
   DEF Init, IInv, TypeOK, Sound, FreshCircuit, Circuits, CircuitState,
       Closed, Open, HalfOpen, NotOpened

\* Every step of the breaker preserves the inductive invariant.
LEMMA NextIInv == IInv /\ [Next]_vars => IInv'
<1> SUFFICES ASSUME IInv, [Next]_vars PROVE IInv'
    OBVIOUS
<1> USE DEF IInv, TypeOK
<1>0. 0 \in 0..SuccessThreshold
    BY CircuitAssumption
<1>1. ASSUME NEW d \in Deployments, RecordSuccess(d) PROVE IInv'
    BY <1>0, <1>1, SuccessKeepsSound, CircuitAssumption DEF RecordSuccess, Observe
<1>2. ASSUME NEW d \in Deployments, RecordFailure(d) PROVE IInv'
    BY <1>0, <1>2, FailureKeepsSound, CircuitAssumption DEF RecordFailure, Observe
<1>3. ASSUME NEW D \in SUBSET Deployments, Query(D) PROVE IInv'
    BY <1>3, QueryKeepsSound DEF Query
<1>4. ASSUME NEW D \in SUBSET Deployments, Reset(D) PROVE IInv'
    BY <1>4, FreshIsSound DEF Reset
<1>5. ASSUME NEW d \in Deployments, NEW s \in CircuitState, ForceState(d, s)
      PROVE  IInv'
    BY <1>0, <1>5, OverrideKeepsSound DEF ForceState, Observe
<1>6. CASE Tick
    BY <1>6, TimeKeepsSound DEF Tick
<1>7. CASE UNCHANGED vars
    BY <1>7 DEF vars
<1> QED
    BY <1>1, <1>2, <1>3, <1>4, <1>5, <1>6, <1>7 DEF Next

\* Every reachable state is type-correct and satisfies the three safety
\* invariants: circuits below their threshold, recoverable, with recent probes.
THEOREM BreakerSafety ==
    Spec => [](TypeOK /\ ClosedBelowThreshold /\ OpenHasOpeningTime /\ ProbesAreRecent)
<1>1. IInv => TypeOK /\ ClosedBelowThreshold /\ OpenHasOpeningTime /\ ProbesAreRecent
    BY DEF IInv, Sound, ClosedBelowThreshold, OpenHasOpeningTime, ProbesAreRecent
<1> QED
    BY <1>1, InitIInv, NextIInv, PTL DEF Spec

\* Its parts one by one.  The breaker's state is well-typed, and record_success
\* never counts more probes than it needs.
THEOREM BreakerTypeCorrect == Spec => []TypeOK
<1> QED
    BY BreakerSafety, PTL

\* An open circuit knows when it was opened, so the cooldown can end.
THEOREM OpenCircuitsRecover == Spec => []OpenHasOpeningTime
<1> QED
    BY BreakerSafety, PTL

\* The successes a half-open circuit counts were recorded since it was open.
THEOREM ProbesStayRecent == Spec => []ProbesAreRecent
<1> QED
    BY BreakerSafety, PTL

\* A half-open circuit is closed by nothing but SuccessThreshold successes
\* recorded since it was open, or by an operator.
THEOREM ProbesCloseCircuit == Spec => ClosesOnlyOnProbes
<1> DEFINE Earned(d) ==
        /\ circuits[d].state = HalfOpen
        /\ circuits'[d].state = Closed
        => \/ probes'[d] = SuccessThreshold
           \/ ForceState(d, Closed)
           \/ Reset({d})
           \/ Reset(Deployments)
<1>1. ASSUME IInv, [Next]_vars, NEW d \in Deployments PROVE Earned(d)
  <2> SUFFICES ASSUME circuits[d].state = HalfOpen,
                      circuits'[d].state = Closed
               PROVE  \/ probes'[d] = SuccessThreshold
                      \/ ForceState(d, Closed)
                      \/ Reset({d})
                      \/ Reset(Deployments)
      OBVIOUS
  <2> USE <1>1 DEF IInv, TypeOK
  <2>1. ASSUME NEW e \in Deployments, RecordSuccess(e)
        PROVE  probes'[d] = SuccessThreshold
      BY <2>1, SuccessKeepsSound, CircuitAssumption
         DEF RecordSuccess, Observe, Closed, Open, HalfOpen
  <2>2. ASSUME NEW e \in Deployments, RecordFailure(e) PROVE FALSE
      BY <2>2, FailureKeepsSound DEF RecordFailure, Closed, Open, HalfOpen
  <2>3. ASSUME NEW D \in SUBSET Deployments, Query(D) PROVE FALSE
      BY <2>3, QueryKeepsSound DEF Query, Closed, HalfOpen
  <2>4. ASSUME NEW e \in Deployments, Reset({e}) PROVE Reset({d})
      BY <2>4 DEF Reset, Closed, HalfOpen
  <2>5. ASSUME NEW e \in Deployments, NEW s \in CircuitState, ForceState(e, s)
        PROVE  ForceState(d, Closed)
      BY <2>5, OverrideKeepsSound DEF ForceState, Closed, HalfOpen
  <2>6. CASE Tick
      BY <2>6, TimeKeepsSound DEF Tick, Closed, HalfOpen
  <2>7. CASE UNCHANGED vars
      BY <2>7 DEF vars, Closed, HalfOpen
  <2> QED
      BY <2>1, <2>2, <2>3, <2>4, <2>5, <2>6, <2>7 DEF Next
<1>2. IInv /\ [Next]_vars
        => [\A d \in Deployments : Earned(d)]_vars
    BY <1>1
<1> QED
    BY <1>2, InitIInv, NextIInv, PTL DEF Spec, ClosesOnlyOnProbes
=============================================================================
