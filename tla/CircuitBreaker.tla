--------------------------- MODULE CircuitBreaker ---------------------------
(***************************************************************************)
(* The process-wide CircuitBreaker: one circuit per deployment, queried by  *)
(* the router and the status page, told of outcomes by the gateway, and     *)
(* overridden by operators.  Outcomes arrive in any order: a call that was  *)
(* routed while the circuit was closed may report when it is open, so       *)
(* RecordSuccess and RecordFailure are enabled in every state.              *)
(***************************************************************************)
EXTENDS Circuit

CONSTANT Deployments

VARIABLES
    circuits,   \* _circuits: deployment -> its circuit
    probes,     \* history: successes recorded since the circuit was last OPEN
    operated    \* history: deployments last changed by an operator's override

vars == <<circuits, probes, operated>>

TypeOK ==
    /\ circuits \in [Deployments -> Circuits]
    /\ probes \in [Deployments -> 0..SuccessThreshold]
    /\ operated \in SUBSET Deployments

Init ==
    /\ circuits = [d \in Deployments |-> FreshCircuit]
    /\ probes = [d \in Deployments |-> 0]
    /\ operated = {}

\* The history of successes is cleared whenever the step leaves the circuit
\* OPEN, and is not counted past the threshold.
Observe(d, succeeded) ==
    probes' = [probes EXCEPT ![d] =
        CASE circuits'[d].state = Open             -> 0
          [] succeeded /\ @ < SuccessThreshold     -> @ + 1
          [] OTHER                                 -> @]

RecordSuccess(d) ==
    /\ circuits' = [circuits EXCEPT ![d] = AfterSuccess(@)]
    /\ Observe(d, TRUE)
    /\ operated' = operated \ {d}

RecordFailure(d) ==
    /\ circuits' = [circuits EXCEPT ![d] = AfterFailure(@)]
    /\ Observe(d, FALSE)
    /\ operated' = operated \ {d}

\* is_open / get_state / snapshot of one deployment, or of all of them under
\* one lock (snapshot_all).
Query(D) ==
    /\ circuits' = [d \in Deployments |->
                       IF d \in D THEN AfterQuery(circuits[d]) ELSE circuits[d]]
    /\ UNCHANGED <<probes, operated>>

ForceState(d, s) ==
    /\ circuits' = [circuits EXCEPT ![d] = Forced(@, s)]
    /\ Observe(d, FALSE)
    /\ operated' = operated \cup {d}

\* reset() drops the circuit of one deployment, or all circuits.
Reset(D) ==
    /\ circuits' = [d \in Deployments |->
                       IF d \in D THEN FreshCircuit ELSE circuits[d]]
    /\ UNCHANGED <<probes, operated>>

Tick ==
    /\ circuits' = [d \in Deployments |-> Aged(circuits[d])]
    /\ UNCHANGED <<probes, operated>>

Next ==
    \/ \E d \in Deployments :
          \/ RecordSuccess(d)
          \/ RecordFailure(d)
          \/ Query({d})
          \/ Reset({d})
          \/ \E s \in CircuitState : ForceState(d, s)
    \/ Query(Deployments)
    \/ Reset(Deployments)
    \/ Tick

Spec == Init /\ [][Next]_vars

\* Time passes, and some request keeps asking the router for each deployment.
Fairness ==
    /\ WF_vars(Tick)
    /\ \A d \in Deployments : WF_vars(Query({d}))

FairSpec == Spec /\ Fairness

-----------------------------------------------------------------------------
\* A circuit that lets traffic through normally has seen fewer than
\* FailureThreshold failures in a row (record_failure opens it at the
\* threshold, and every way back to CLOSED clears the counter first).
ClosedBelowThreshold ==
    \A d \in Deployments :
        circuits[d].state = Closed
            => circuits[d].consecutive_failures < FailureThreshold

\* The branch of is_open for opened_at = None answers True for ever; an OPEN
\* circuit therefore always has its opening time.
OpenHasOpeningTime ==
    \A d \in Deployments :
        circuits[d].state = Open => circuits[d].openedFor # NotOpened

\* A half-open circuit has not yet earned its way back, and what it counts as
\* probe successes were all recorded since it was last open: successes of an
\* earlier half-open period are never carried over.
ProbesAreRecent ==
    \A d \in Deployments :
        circuits[d].state = HalfOpen =>
            /\ circuits[d].consecutive_successes < SuccessThreshold
            /\ circuits[d].consecutive_successes <= probes[d]

\* record_success never closes a half-open circuit before SuccessThreshold
\* successes have been recorded since it was open; only an operator does.
ClosesOnlyOnProbes ==
    [][\A d \in Deployments :
          /\ circuits[d].state = HalfOpen
          /\ circuits'[d].state = Closed
          => \/ probes'[d] = SuccessThreshold
             \/ ForceState(d, Closed)
             \/ Reset({d})
             \/ Reset(Deployments)]_vars

\* A circuit never stays open for ever, however many failures are recorded
\* while it is open (calls in flight, last-resort calls): record_failure does
\* not restart the cooldown of an OPEN circuit.  Only an operator who keeps
\* forcing it open can.
OpenIsTemporary ==
    \A d \in Deployments :
        \/ []<>(circuits[d].state # Open)
        \/ []<><<ForceState(d, Open)>>_vars
=============================================================================
