---------------------- MODULE AgentConcurrency_proofs ----------------------
(***************************************************************************)
(* The limiter of agent executions keeps its promise, for every number of   *)
(* requests, every choice of scopes and every limit.                        *)
(*                                                                          *)
(* The counters are exact (Accounted) and never above their limit; so the   *)
(* check of the counters is the check of the executions that run, which is  *)
(* what Admission asks for.                                                 *)
(***************************************************************************)
EXTENDS AgentConcurrency, FiniteSetTheorems, TLAPS

WithinLimits == \A s \in Scopes : Limit[s] > 0 => active[s] <= Limit[s]

IInv == TypeOK /\ Accounted /\ WithinLimits

\* How the number of executions under a scope changes with who runs.
LEMMA RunningIsFinite ==
    ASSUME NEW s
    PROVE  IsFiniteSet(Running(s)) /\ Cardinality(Running(s)) \in Nat
<1>1. Running(s) \in SUBSET Requests
  BY DEF Running, inside
<1>2. QED
  BY <1>1, ConcurrencyAssumption, FS_Subset, FS_CardinalityType

\* A request that enters adds one under each of its scopes.
LEMMA Entering ==
    ASSUME NEW r \in Requests, NEW s \in Scopes,
           phase \in [Requests -> Phases], phase[r] # "inside",
           phase' = [phase EXCEPT ![r] = "inside"]
    PROVE  Cardinality(Running(s)') =
               IF s \in Candidates[r] THEN Cardinality(Running(s)) + 1
                                      ELSE Cardinality(Running(s))
<1>1. inside' = inside \cup {r} /\ r \notin inside
  BY DEF inside
<1>2. CASE s \in Candidates[r]
  <2>1. Running(s)' = Running(s) \cup {r} /\ r \notin Running(s)
    BY <1>1, <1>2 DEF Running
  <2>2. Cardinality(Running(s)') = Cardinality(Running(s)) + 1
    BY ONLY <2>1, RunningIsFinite, FS_AddElement
  <2>3. QED
    BY <1>2, <2>2
<1>3. CASE s \notin Candidates[r]
  BY <1>1, <1>3 DEF Running
<1>4. QED
  BY <1>2, <1>3

\* A request that leaves takes one away from each, and was counted there.
LEMMA Leaving ==
    ASSUME NEW r \in Requests, NEW s \in Scopes, NEW p \in Phases,
           phase \in [Requests -> Phases], phase[r] = "inside", p # "inside",
           phase' = [phase EXCEPT ![r] = p]
    PROVE  /\ Cardinality(Running(s)') =
                  IF s \in Candidates[r] THEN Cardinality(Running(s)) - 1
                                         ELSE Cardinality(Running(s))
           /\ s \in Candidates[r] => Cardinality(Running(s)) > 0
<1>1. inside' = inside \ {r} /\ r \in inside
  BY DEF inside
<1>2. CASE s \in Candidates[r]
  <2>1. Running(s)' = Running(s) \ {r} /\ r \in Running(s)
    BY <1>1, <1>2 DEF Running
  <2>2. Cardinality(Running(s)) # 0
    BY ONLY <2>1, RunningIsFinite, FS_EmptySet
  <2>3. Cardinality(Running(s)') = Cardinality(Running(s)) - 1
    BY ONLY <2>1, RunningIsFinite, FS_RemoveElement
  <2>4. Cardinality(Running(s)) > 0
    BY ONLY <2>2, RunningIsFinite
  <2>5. QED
    BY <1>2, <2>3, <2>4
<1>3. CASE s \notin Candidates[r]
  BY <1>1, <1>3 DEF Running
<1>4. QED
  BY <1>2, <1>3

\* Any other step leaves those that run alone.
LEMMA Bystanders ==
    ASSUME NEW r \in Requests, NEW s, NEW p \in Phases,
           phase \in [Requests -> Phases], phase[r] # "inside", p # "inside",
           phase' = [phase EXCEPT ![r] = p]
    PROVE  inside' = inside /\ Running(s)' = Running(s)
BY DEF inside, Running

-----------------------------------------------------------------------------
LEMMA InitIInv == Init => IInv
<1> SUFFICES ASSUME Init PROVE IInv
  OBVIOUS
<1>1. \A s : Running(s) = {}
  BY DEF Init, Running, inside
<1>2. \A s : Cardinality(Running(s)) = 0
  BY ONLY <1>1, FS_EmptySet
<1>3. TypeOK
  BY ConcurrencyAssumption DEF Init, TypeOK, Phases
<1>4. Accounted
  BY <1>2 DEF Init, Accounted
<1>5. WithinLimits
  BY ConcurrencyAssumption DEF Init, WithinLimits
<1>6. QED
  BY <1>3, <1>4, <1>5 DEF IInv

LEMMA StepIInv == IInv /\ [Next]_vars => IInv'
<1> SUFFICES ASSUME IInv, [Next]_vars PROVE IInv'
  OBVIOUS
<1> USE ConcurrencyAssumption DEF IInv, TypeOK
<1>1. ASSUME NEW r \in Requests, Arrive(r) PROVE IInv'
  <2>1. TypeOK'
    BY <1>1 DEF Arrive, GotoPhase, Phases
  <2>2. \A s : Running(s)' = Running(s)
    BY <1>1, Bystanders DEF Arrive, GotoPhase, Phases
  <2>3. QED
    BY <1>1, <2>1, <2>2 DEF Arrive, Accounted, WithinLimits
<1>2. ASSUME NEW r \in Requests, Acquire(r) PROVE IInv'
  <2>1. TypeOK'
    BY <1>2 DEF Acquire, GotoPhase, Phases
  <2>2. ASSUME NEW s \in Scopes, Limit[s] > 0
        PROVE  active'[s] = Cardinality(Running(s)') /\ active'[s] <= Limit[s]
    <3>1. active[s] = Cardinality(Running(s)) /\ active[s] <= Limit[s]
      BY <2>2 DEF Accounted, WithinLimits
    <3>2. Cardinality(Running(s)') = IF s \in Candidates[r] THEN active[s] + 1 ELSE active[s]
      BY <1>2, <3>1, Entering DEF Acquire, GotoPhase
    <3>3. active'[s] = IF s \in Candidates[r] THEN active[s] + 1 ELSE active[s]
      BY <1>2, <2>2 DEF Acquire, Slots
    <3>4. s \in Candidates[r] => ~(active[s] >= Limit[s])
      BY <1>2, <2>2 DEF Acquire, Blocked, Slots
    <3>5. active[s] \in Nat /\ Limit[s] \in Nat
      OBVIOUS
    <3>6. QED
      BY <3>1, <3>2, <3>3, <3>4, <3>5
  <2>3. QED
    BY <2>1, <2>2 DEF Accounted, WithinLimits
<1>3. ASSUME NEW r \in Requests, Sleep(r) PROVE IInv'
  <2>1. TypeOK'
    BY <1>3 DEF Sleep
  <2>2. \A s : Running(s)' = Running(s)
    BY <1>3 DEF Sleep, Running, inside
  <2>3. QED
    BY <1>3, <2>1, <2>2 DEF Sleep, Accounted, WithinLimits
<1>4. ASSUME NEW r \in Requests, Refuse(r) \/ Abandon(r) PROVE IInv'
  <2>1. TypeOK'
    BY <1>4 DEF Refuse, Abandon, GotoPhase, Phases
  <2>2. \A s : Running(s)' = Running(s)
    BY <1>4, Bystanders DEF Refuse, Abandon, GotoPhase, Phases
  <2>3. QED
    BY <1>4, <2>1, <2>2 DEF Refuse, Abandon, Accounted, WithinLimits
<1>5. ASSUME NEW r \in Requests, Leave(r) PROVE IInv'
  <2>1. TypeOK'
    BY <1>5 DEF Leave, GotoPhase, Phases, Lowered
  <2>2. ASSUME NEW s \in Scopes, Limit[s] > 0
        PROVE  active'[s] = Cardinality(Running(s)') /\ active'[s] <= Limit[s]
    <3>1. active[s] = Cardinality(Running(s)) /\ active[s] <= Limit[s]
      BY <2>2 DEF Accounted, WithinLimits
    <3>2. /\ Cardinality(Running(s)') = IF s \in Candidates[r] THEN active[s] - 1 ELSE active[s]
          /\ s \in Candidates[r] => active[s] > 0
      BY <1>5, <3>1, Leaving DEF Leave, GotoPhase, Phases
    <3>3. active'[s] = IF s \in Candidates[r] THEN Lowered(active[s]) ELSE active[s]
      BY <1>5, <2>2 DEF Leave, Slots
    <3>4. active[s] \in Nat /\ Limit[s] \in Nat
      OBVIOUS
    <3>5. QED
      BY <3>1, <3>2, <3>3, <3>4 DEF Lowered
  <2>3. QED
    BY <2>1, <2>2 DEF Accounted, WithinLimits
<1>6. ASSUME UNCHANGED vars PROVE IInv'
  BY <1>6 DEF vars, Accounted, WithinLimits, Running, inside
<1>7. QED
  BY <1>1, <1>2, <1>3, <1>4, <1>5, <1>6 DEF Next, Look

LEMMA AlwaysIInv == Spec => []IInv
BY InitIInv, StepIInv, PTL DEF Spec

\* Requests stay in their phases, and no counter of acquire and release goes
\* below zero.
THEOREM LimiterTypeCorrect == Spec => []TypeOK
<1>1. IInv => TypeOK
  BY DEF IInv
<1>2. QED
  BY AlwaysIInv, <1>1, PTL

\* The counters are exact at all times: no interleaving of waits, refusals,
\* requests that go away and executions that end loses a slot or gives one
\* back twice.
THEOREM SlotsAccounted == Spec => []Accounted
<1>1. IInv => Accounted
  BY DEF IInv
<1>2. QED
  BY AlwaysIInv, <1>1, PTL

\* What the counters say of a limited scope is what Admission says of it.
LEMMA FullIsBlocked ==
    ASSUME IInv, NEW r \in Requests, NEW s \in Slots(r)
    PROVE  Promise!Full(inside, s) <=> active[s] >= Limit[s]
<1>1. Promise!Users(inside, s) = Running(s)
  BY DEF Promise!Users, Promise!Claims, Running, Slots, inside
<1>2. active[s] = Cardinality(Running(s))
  BY ConcurrencyAssumption DEF IInv, Accounted, Slots
<1>3. Promise!Full(inside, s) <=> Cardinality(Promise!Users(inside, s)) >= Limit[s]
  BY DEF Promise!Full, Promise!Cardinality, Cardinality
<1>4. QED
  BY <1>1, <1>2, <1>3

\* The limiter implements Admission: it lets a request in only if each of its
\* limits has room for it among the executions that really run.
THEOREM LimiterKeepsPromise == Spec => KeepsPromise
<1>1. Init => Promise!Init
  BY DEF Init, Promise!Init, inside
<1>2. IInv /\ [Next]_vars => [Promise!Next]_inside
  <2> SUFFICES ASSUME IInv, [Next]_vars PROVE [Promise!Next]_inside
    OBVIOUS
  <2> USE DEF IInv, TypeOK
  <2>1. ASSUME NEW r \in Requests, Acquire(r) PROVE Promise!Admit(r)
    <3>1. inside' = inside \cup {r} /\ r \notin inside
      BY <2>1 DEF Acquire, GotoPhase, inside
    <3>2. \A s \in Slots(r) : ~Promise!Full(inside, s)
      BY <2>1, FullIsBlocked DEF Acquire, Blocked
    <3>3. QED
      BY <3>1, <3>2 DEF Promise!Admit, Promise!Claims, Slots
  <2>2. ASSUME NEW r \in Requests, Leave(r) PROVE Promise!Leave(r)
    BY <2>2 DEF Leave, GotoPhase, Promise!Leave, inside
  <2>3. ASSUME NEW r \in Requests, Arrive(r) \/ Refuse(r) \/ Abandon(r) PROVE inside' = inside
    BY <2>3, Bystanders DEF Arrive, Refuse, Abandon, GotoPhase, Phases
  <2>4. ASSUME NEW r \in Requests, Sleep(r) PROVE inside' = inside
    BY <2>4 DEF Sleep, inside
  <2>5. ASSUME UNCHANGED vars PROVE inside' = inside
    BY <2>5 DEF vars, inside
  <2>6. QED
    BY <2>1, <2>2, <2>3, <2>4, <2>5 DEF Next, Look, Promise!Next
<1>3. QED
  BY <1>1, <1>2, AlwaysIInv, PTL DEF Spec, KeepsPromise, Promise!Spec

\* A 429 is deserved: one of the request's limits is used up, exactly, by
\* executions that run at this moment.
THEOREM RefusalsDeserved == Spec => RefusedOnlyWhenFull
<1> DEFINE Deserved ==
      \A r \in Requests :
          phase[r] = "waiting" /\ phase'[r] = "refused"
              => \E s \in Candidates[r] :
                    Limit[s] > 0 /\ Cardinality(Running(s)) = Limit[s]
<1>1. IInv /\ [Next]_vars => [Deserved]_vars
  <2> SUFFICES ASSUME IInv, Next, NEW r \in Requests,
                      phase[r] = "waiting", phase'[r] = "refused"
               PROVE  \E s \in Candidates[r] :
                         Limit[s] > 0 /\ Cardinality(Running(s)) = Limit[s]
    BY DEF vars
  <2> USE ConcurrencyAssumption DEF IInv, TypeOK
  <2>1. Refuse(r)
    BY DEF Next, Look, Arrive, Acquire, Sleep, Refuse, Abandon, Leave, GotoPhase
  <2>2. PICK s \in Slots(r) : active[s] >= Limit[s]
    BY <2>1 DEF Refuse, Blocked
  <2>3. s \in Candidates[r] /\ s \in Scopes /\ Limit[s] > 0
    BY <2>2 DEF Slots
  <2>4. active[s] = Cardinality(Running(s)) /\ active[s] <= Limit[s]
    BY <2>3 DEF Accounted, WithinLimits
  <2>5. active[s] \in Nat /\ Limit[s] \in Nat
    BY <2>3
  <2>6. QED
    BY <2>2, <2>3, <2>4, <2>5
<1>2. QED
  BY <1>1, AlwaysIInv, PTL DEF Spec, RefusedOnlyWhenFull
=============================================================================
