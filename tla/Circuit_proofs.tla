--------------------------- MODULE Circuit_proofs ---------------------------
(***************************************************************************)
(* What the operators of Circuit do to one circuit, for every threshold and *)
(* cooldown: the lemmas the proofs about the breaker and about the gateway  *)
(* rest on.                                                                 *)
(***************************************************************************)
EXTENDS Circuit, TLAPS

\* What a single circuit must satisfy: the three safety invariants of
\* CircuitBreaker, read for one record and its history p.
Sound(c, p) ==
    /\ c.state = Closed => c.consecutive_failures < FailureThreshold
    /\ c.state = Open => c.openedFor # NotOpened
    /\ c.state = HalfOpen =>
          /\ c.consecutive_successes < SuccessThreshold
          /\ c.consecutive_successes <= p

\* What reset leaves behind, and record_success when it closes a circuit.
LEMMA FreshIsSound ==
    ASSUME NEW p \in 0..SuccessThreshold
    PROVE  FreshCircuit \in Circuits /\ Sound(FreshCircuit, p)
BY CircuitAssumption
   DEF Sound, FreshCircuit, Circuits, CircuitState, Closed, Open, HalfOpen, NotOpened

\* record_success keeps a circuit well-formed and sound, counting the success
\* in the history unless it is already full.
LEMMA SuccessKeepsSound ==
    ASSUME NEW c \in Circuits, NEW p \in 0..SuccessThreshold, Sound(c, p)
    PROVE  /\ AfterSuccess(c) \in Circuits
           /\ AfterSuccess(c).state # Open
           /\ Sound(AfterSuccess(c), IF p < SuccessThreshold THEN p + 1 ELSE p)
           /\ c.state = HalfOpen /\ AfterSuccess(c).state = Closed
                 => p + 1 >= SuccessThreshold
<1> USE CircuitAssumption
    DEF AfterSuccess, Sound, Circuits, CircuitState, Closed, Open, HalfOpen
<1>1. CASE c.state = Closed
    BY <1>1
<1>2. CASE c.state = HalfOpen /\ c.consecutive_successes + 1 < SuccessThreshold
  <2> DEFINE n == c.consecutive_successes + 1
  <2>1. n \in 0..SuccessThreshold /\ n < SuccessThreshold /\ 0 \in 0..MaxFailures
      BY <1>2
  <2> HIDE DEF n
  <2>2. AfterSuccess(c) = [c EXCEPT !.consecutive_failures = 0,
                                    !.consecutive_successes = n]
      BY <1>2 DEF n
  <2>3. AfterSuccess(c) \in Circuits
      BY ONLY <2>1, <2>2, c \in Circuits DEF Circuits
  <2>4. /\ AfterSuccess(c).state = HalfOpen
        /\ AfterSuccess(c).consecutive_successes = n
      BY ONLY <1>2, <2>2, c \in Circuits DEF Circuits
  <2>5. n <= p + 1 /\ n <= SuccessThreshold
      BY <1>2 DEF n
  <2> QED
      BY ONLY <2>1, <2>3, <2>4, <2>5, CircuitAssumption, p \in 0..SuccessThreshold
         DEF Sound, Closed, Open, HalfOpen
<1>3. CASE /\ c.state # Closed
           /\ ~(c.state = HalfOpen /\ c.consecutive_successes + 1 < SuccessThreshold)
  <2>1. AfterSuccess(c) = FreshCircuit
      BY <1>3
  <2> QED
      BY <1>3, <2>1, FreshIsSound DEF FreshCircuit
<1> QED
    BY <1>1, <1>2, <1>3

\* record_failure keeps a circuit well-formed and sound.
LEMMA FailureKeepsSound ==
    ASSUME NEW c \in Circuits, NEW p \in 0..SuccessThreshold, Sound(c, p)
    PROVE  /\ AfterFailure(c) \in Circuits
           /\ Sound(AfterFailure(c), IF AfterFailure(c).state = Open THEN 0 ELSE p)
           /\ c.state = HalfOpen => AfterFailure(c).state = Open
BY CircuitAssumption
   DEF Sound, AfterFailure, Opened, Bump, Circuits, CircuitState,
       Closed, Open, HalfOpen, NotOpened

\* The lazy transition of the queries.
LEMMA QueryKeepsSound ==
    ASSUME NEW c \in Circuits, NEW p \in 0..SuccessThreshold, Sound(c, p)
    PROVE  /\ AfterQuery(c) \in Circuits
           /\ Sound(AfterQuery(c), p)
           /\ c.state = HalfOpen => AfterQuery(c) = c
<1> USE CircuitAssumption
    DEF AfterQuery, Sound, Circuits, CircuitState, Closed, Open, HalfOpen
<1>1. CASE c.state = Open /\ CooldownElapsed(c)
  <2>1. 0 \in 0..SuccessThreshold /\ HalfOpen \in CircuitState
      OBVIOUS
  <2>2. AfterQuery(c) = [c EXCEPT !.state = HalfOpen, !.consecutive_successes = 0]
      BY <1>1
  <2>3. AfterQuery(c) \in Circuits
      BY ONLY <2>1, <2>2, c \in Circuits DEF Circuits
  <2> QED
      BY <1>1, <2>1, <2>2, <2>3
<1>2. CASE ~(c.state = Open /\ CooldownElapsed(c))
    BY <1>2
<1> QED
    BY <1>1, <1>2

\* The passage of time.
LEMMA TimeKeepsSound ==
    ASSUME NEW c \in Circuits, NEW p \in 0..SuccessThreshold, Sound(c, p)
    PROVE  /\ Aged(c) \in Circuits
           /\ Sound(Aged(c), p)
           /\ Aged(c).state = c.state
BY CircuitAssumption DEF Aged, Sound, Circuits, NotOpened

\* The operator's overrides.
LEMMA OverrideKeepsSound ==
    ASSUME NEW c \in Circuits, NEW p \in 0..SuccessThreshold, NEW s \in CircuitState
    PROVE  /\ Forced(c, s) \in Circuits
           /\ Forced(c, s).state = s
           /\ Sound(Forced(c, s), IF s = Open THEN 0 ELSE p)
<1> USE CircuitAssumption
    DEF Forced, Sound, Circuits, CircuitState, Closed, Open, HalfOpen, NotOpened
<1>1. CASE s = Open
  <2>1. 0 \in 0..Cooldown /\ Open \in CircuitState
      OBVIOUS
  <2>2. Forced(c, s) = [c EXCEPT !.state = Open, !.openedFor = 0]
      BY <1>1
  <2>3. Forced(c, s) \in Circuits
      BY ONLY <2>1, <2>2, c \in Circuits DEF Circuits
  <2> QED
      BY <1>1, <2>2, <2>3
<1>2. CASE s # Open
    BY <1>2 DEF FreshCircuit
<1> QED
    BY <1>1, <1>2
=============================================================================
