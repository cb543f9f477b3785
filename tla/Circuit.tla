------------------------------ MODULE Circuit ------------------------------
(***************************************************************************)
(* One circuit of the LLM circuit breaker (app/llm/circuit_breaker.py): the *)
(* record _DeploymentCircuit and what each method of CircuitBreaker does to *)
(* the circuit of one deployment.  Every method holds the breaker's RLock   *)
(* for its whole body, so each is one atomic change of the record.          *)
(*                                                                          *)
(* Data abstracted: opened_at is kept as the whole number of clock ticks    *)
(* since the circuit opened, cut off at Cooldown because the code only ever *)
(* asks whether cooldown_seconds have passed; last_failure_at,              *)
(* last_failure_code and total_opened are read by nobody but the status     *)
(* page.  A deployment without a circuit behaves as one with FreshCircuit   *)
(* (setdefault), so absence is not kept apart.                              *)
(***************************************************************************)
EXTENDS Integers

CONSTANTS
    FailureThreshold,  \* consecutive failures that open a closed circuit
    SuccessThreshold,  \* consecutive probe successes that close it again
    Cooldown,          \* ticks a circuit stays OPEN before probes are let in
    MaxFailures        \* where the model stops counting consecutive failures

\* CircuitBreaker.__init__ clamps both thresholds to at least one and the
\* cooldown to a positive time.
ASSUME CircuitAssumption ==
    /\ FailureThreshold \in Nat \ {0}
    /\ SuccessThreshold \in Nat \ {0}
    /\ Cooldown \in Nat \ {0}
    /\ MaxFailures \in Nat
    /\ MaxFailures >= FailureThreshold

Closed   == "closed"
Open     == "open"
HalfOpen == "half_open"
CircuitState == {Closed, Open, HalfOpen}

NotOpened == -1        \* opened_at is None

Circuits == [state                 : CircuitState,
             consecutive_failures  : 0..MaxFailures,
             consecutive_successes : 0..SuccessThreshold,
             openedFor             : (0..Cooldown) \cup {NotOpened}]

FreshCircuit == [state                 |-> Closed,
                 consecutive_failures  |-> 0,
                 consecutive_successes |-> 0,
                 openedFor             |-> NotOpened]

\* The failure counter of an OPEN circuit keeps climbing and is cleared
\* before the circuit can be CLOSED again: nothing tells large values apart.
Bump(n) == IF n < MaxFailures THEN n + 1 ELSE n

CooldownElapsed(c) == c.openedFor = Cooldown

\* A circuit that opens (or re-opens) now, with f failures in a row behind it.
Opened(f) == [state                 |-> Open,
              consecutive_failures  |-> f,
              consecutive_successes |-> 0,
              openedFor             |-> 0]

\* Variant: successes of an earlier half-open period are kept.
AfterQuery_KeepsProbes(c) ==
    IF c.state = Open /\ CooldownElapsed(c)
    THEN [c EXCEPT !.state = HalfOpen]
    ELSE c

\* is_open, get_state and snapshot all move an OPEN circuit whose cooldown
\* has elapsed to HALF_OPEN before they answer.
AfterQuery(c) ==
    IF c.state = Open /\ CooldownElapsed(c)
    THEN [c EXCEPT !.state = HalfOpen, !.consecutive_successes = 0]
    ELSE c

\* What is_open answers, given the circuit as the query leaves it.
BlocksRouting(c) == c.state = Open

\* record_success.  A circuit that closes is as good as new: the failures are
\* cleared first, in every state.
AfterSuccess(c) ==
    CASE c.state = Closed ->
            [c EXCEPT !.consecutive_failures = 0]
      [] c.state = HalfOpen /\ c.consecutive_successes + 1 < SuccessThreshold ->
            [c EXCEPT !.consecutive_failures = 0, !.consecutive_successes = @ + 1]
      [] OTHER ->
            FreshCircuit

\* Variants: the threshold is off by one; a failure recorded while the circuit
\* is open restarts the cooldown.
AfterFailure_OffByOne(c) ==
    LET f == Bump(c.consecutive_failures)
    IN  IF \/ c.state = HalfOpen
           \/ c.state = Closed /\ f > FailureThreshold
        THEN Opened(f)
        ELSE [c EXCEPT !.consecutive_failures = f]

AfterFailure_RestartsCooldown(c) ==
    LET f == Bump(c.consecutive_failures)
    IN  IF c.state # Closed \/ f >= FailureThreshold
        THEN Opened(f)
        ELSE [c EXCEPT !.consecutive_failures = f]

\* record_failure.
AfterFailure(c) ==
    LET f == Bump(c.consecutive_failures)
    IN  IF \/ c.state = HalfOpen
           \/ c.state = Closed /\ f >= FailureThreshold
        THEN Opened(f)
        ELSE [c EXCEPT !.consecutive_failures = f]

\* force_state: an override to OPEN leaves the counters as they are.
Forced(c, s) ==
    IF s = Open
    THEN [c EXCEPT !.state = Open, !.openedFor = 0]
    ELSE [FreshCircuit EXCEPT !.state = s]

\* A tick of the wall clock the cooldown is measured with.
Aged(c) ==
    IF c.openedFor \in 0..(Cooldown - 1)
    THEN [c EXCEPT !.openedFor = @ + 1]
    ELSE c
=============================================================================
