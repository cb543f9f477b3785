-------------------------- MODULE LLMGateway_proofs --------------------------
(***************************************************************************)
(* Proofs about LLMGateway, for every number of workers, every set of       *)
(* deployments and whatever faults and cancellations are allowed.           *)
(***************************************************************************)
EXTENDS LLMGateway, Circuit_proofs, FiniteSetTheorems, WellFoundedInduction

Routed == {"attempt", "settle", "record", "failed"}

\* A set of routes has a first one: the priorities are natural numbers.
LEMMA FirstInSet ==
    ASSUME NEW S \in SUBSET Deployments, S # {}
    PROVE  First(S) \in S
<1> DEFINE R == {p \in Nat \X Nat : p[1] < p[2]}
           T == {Priority[d] : d \in S}
<1>1. IsWellFoundedOn(R, Nat)
  <2>1. OpToRel(<, Nat) = R
      BY DEF OpToRel
  <2> QED
      BY <2>1, NatLessThanWellFounded
<1>2. T \in SUBSET Nat /\ T # {}
    BY GatewayAssumption
<1>3. PICK x \in T : \A y \in T : <<y, x>> \notin R
  <2> HIDE DEF R, T
  <2> QED
      BY ONLY <1>1, <1>2, WFMin
<1>4. ASSUME NEW y \in T PROVE x <= y
  <2>1. x \in Nat /\ y \in Nat
      BY <1>2
  <2>2. y < x => <<y, x>> \in R
      BY ONLY <2>1
  <2> QED
      BY ONLY <1>3, <2>1, <2>2, y \in T
<1>5. \E d \in S : \A e \in S : Priority[d] <= Priority[e]
    BY <1>4
<1> QED
    BY ONLY <1>5 DEF First

-----------------------------------------------------------------------------
(* Type correctness. *)

CircuitsOK == \A d \in Deployments : Sound(circuits[d], SuccessThreshold)
RoutesLeft == \A w \in Workers : pc[w] \in Routed => todo[w] # {}

TypeInv == TypeOK /\ CircuitsOK /\ RoutesLeft

\* While a call is routed its current route is one of the known deployments.
LEMMA CurrentIsDeployment ==
    ASSUME TypeInv, NEW w \in Workers, pc[w] \in Routed
    PROVE  Current(w) \in Deployments /\ Current(w) \in todo[w]
BY FirstInSet DEF TypeInv, TypeOK, RoutesLeft, Current

\* Recording an outcome for a known deployment leaves every circuit sound.
LEMMA OutcomeKeepsCircuits ==
    ASSUME circuits \in [Deployments -> Circuits], CircuitsOK,
           NEW d \in Deployments, RecordSuccess(d) \/ RecordFailure(d)
    PROVE  circuits' \in [Deployments -> Circuits] /\ CircuitsOK'
<1> DEFINE n == SuccessThreshold
<1>0. n \in 0..SuccessThreshold /\ Sound(circuits[d], n)
    BY CircuitAssumption DEF CircuitsOK
<1>1. CASE RecordSuccess(d)
    BY <1>0, <1>1, SuccessKeepsSound DEF RecordSuccess, CircuitsOK
<1>2. CASE RecordFailure(d)
  <2>1. /\ AfterFailure(circuits[d]) \in Circuits
        /\ Sound(AfterFailure(circuits[d]),
                 IF AfterFailure(circuits[d]).state = Open THEN 0 ELSE n)
      BY <1>0, FailureKeepsSound
  <2>2. Sound(AfterFailure(circuits[d]), n)
      BY <2>1 DEF Sound, Open, HalfOpen
  <2> QED
      BY <1>2, <2>1, <2>2 DEF RecordFailure, CircuitsOK
<1> QED
    BY <1>1, <1>2

\* So do the router's queries and the passage of time.
LEMMA QueryKeepsCircuits ==
    ASSUME circuits \in [Deployments -> Circuits], CircuitsOK, NEW cand
    PROVE  circuits' = Queried(cand)
              => circuits' \in [Deployments -> Circuits] /\ CircuitsOK'
BY QueryKeepsSound, CircuitAssumption DEF Queried, CircuitsOK

LEMMA TickKeepsCircuits ==
    ASSUME circuits \in [Deployments -> Circuits], CircuitsOK, Tick
    PROVE  circuits' \in [Deployments -> Circuits] /\ CircuitsOK'
BY TimeKeepsSound, CircuitAssumption DEF Tick, CircuitsOK

\* The ledger and the local reservation stay well-typed.
LEMMA LedgerTyped ==
    ASSUME TypeOK, NEW w \in Workers,
           NEW e \in {"reserve", "settle", "release"}
    PROVE  /\ LedgerEvent(w, e)
                => ledger' \in [Workers -> [reserve : Nat, settle : Nat, release : Nat]]
           /\ Release(w)
                => /\ ledger' \in [Workers -> [reserve : Nat, settle : Nat, release : Nat]]
                   /\ resv' \in [Workers -> {"none", "open", "closed"}]
<1>1. ASSUME NEW f \in {"reserve", "settle", "release"}, LedgerEvent(w, f)
      PROVE  ledger' \in [Workers -> [reserve : Nat, settle : Nat, release : Nat]]
    BY <1>1 DEF TypeOK, LedgerEvent
<1>2. ASSUME Release(w)
      PROVE  /\ ledger' \in [Workers -> [reserve : Nat, settle : Nat, release : Nat]]
             /\ resv' \in [Workers -> {"none", "open", "closed"}]
    BY <1>1, <1>2 DEF TypeOK, Release
<1> QED
    BY <1>1, <1>2

\* What a call costs is a number of units no greater than MaxCost.
LEMMA CostBounded ==
    ASSUME TypeOK, NEW w \in Workers
    PROVE  cost[w] \in Nat /\ cost[w] <= MaxCost
<1>1. cost[w] \in Costs \/ cost[w] = 0
    BY DEF TypeOK
<1>2. CASE cost[w] \in Costs
    BY <1>2, GatewayAssumption
<1>3. CASE cost[w] = 0
    BY <1>3, GatewayAssumption
<1> QED
    BY <1>1, <1>2, <1>3

\* A cancelled call leaves nothing but its own entries changed, and of what is spent
\* at most what it was about to record.
LEMMA CancelEffects ==
    ASSUME TypeOK, NEW w \in Workers, Cancel(w)
    PROVE  /\ ledger' \in [Workers -> [reserve : Nat, settle : Nat, release : Nat]]
           /\ resv' \in [Workers -> {"none", "open", "closed"}]
           /\ interrupted' \in [Workers -> BOOLEAN]
           /\ spent' \in Nat /\ alerts' \in Nat
           /\ pc[w] \in Awaits /\ pc' = [pc EXCEPT ![w] = "raised"]
           /\ UNCHANGED <<circuits, local, started>>
           /\ UNCHANGED spent \/ (pc[w] = "record" /\ spent' = spent + cost[w])
           /\ \A v \in Workers \ {w} :
                 resv'[v] = resv[v] /\ ledger'[v] = ledger[v] /\ interrupted'[v] = interrupted[v]
<1>1. ASSUME NEW es, Written(w, es)
      PROVE  /\ ledger' \in [Workers -> [reserve : Nat, settle : Nat, release : Nat]]
             /\ \A v \in Workers \ {w} : ledger'[v] = ledger[v]
  <2> DEFINE after == [e \in DOMAIN NoEvents |-> ledger[w][e] + (IF e \in es THEN 1 ELSE 0)]
  <2>1. ledger[w] \in [reserve : Nat, settle : Nat, release : Nat]
      BY DEF TypeOK
  <2>2. after \in [reserve : Nat, settle : Nat, release : Nat]
      BY <2>1 DEF NoEvents
  <2>3. ledger' = [ledger EXCEPT ![w] = after]
      BY <1>1 DEF Written
  <2> HIDE DEF after
  <2> QED
      BY <2>2, <2>3 DEF TypeOK
<1>2. \E es : Written(w, es)
    BY DEF Cancel
<1>3. /\ resv' \in [Workers -> {"none", "open", "closed"}]
      /\ interrupted' \in [Workers -> BOOLEAN]
      /\ \A v \in Workers \ {w} : resv'[v] = resv[v] /\ interrupted'[v] = interrupted[v]
    BY DEF Cancel, TypeOK
<1>4. alerts' \in Nat
    BY DEF Cancel, TypeOK
<1>5. /\ UNCHANGED spent \/ (pc[w] = "record" /\ spent' = spent + cost[w])
      /\ spent' \in Nat
  <2>1. UNCHANGED spent \/ (pc[w] = "record" /\ spent' = spent + cost[w])
      BY DEF Cancel
  <2>2. spent \in Nat /\ cost[w] \in Nat
      BY CostBounded DEF TypeOK
  <2> QED
      BY ONLY <2>1, <2>2
<1>6. /\ pc[w] \in Awaits /\ pc' = [pc EXCEPT ![w] = "raised"]
      /\ UNCHANGED <<circuits, local, started>>
    BY DEF Cancel, Goto
<1> QED
    BY <1>1, <1>2, <1>3, <1>4, <1>5, <1>6

LEMMA InitTypeInv == Init => TypeInv
<1> SUFFICES ASSUME Init PROVE TypeInv
    OBVIOUS
<1>1. SuccessThreshold \in 0..SuccessThreshold
    BY CircuitAssumption
<1>2. FreshCircuit \in Circuits /\ Sound(FreshCircuit, SuccessThreshold)
    BY <1>1, FreshIsSound
<1>3. NoEvents \in [reserve : Nat, settle : Nat, release : Nat]
    BY DEF NoEvents
<1> QED
    BY <1>2, <1>3, GatewayAssumption
       DEF Init, TypeInv, TypeOK, CircuitsOK, RoutesLeft, Ended, Awaits, Routed

LEMMA NextTypeInv == TypeInv /\ [Next]_vars => TypeInv'
<1> SUFFICES ASSUME TypeInv, [Next]_vars PROVE TypeInv'
    OBVIOUS
<1> USE DEF TypeInv, TypeOK, Ended, Awaits, Tests, Routed, RoutesLeft, Goto,
            vars, local, held, books
<1>1. ASSUME NEW w \in Workers, NEW k \in Kinds, Start(w, k) PROVE TypeInv'
  <2>1. NoEvents \in [reserve : Nat, settle : Nat, release : Nat]
      BY DEF NoEvents
  <2> QED
      BY <1>1, <2>1, GatewayAssumption DEF Start, CircuitsOK
<1>2. ASSUME NEW w \in Workers, Refuse(w) PROVE TypeInv'
    BY <1>2 DEF Refuse, CircuitsOK
<1>3. ASSUME NEW w \in Workers, Reserve(w) PROVE TypeInv'
    BY <1>3 DEF Reserve, CircuitsOK
<1>0. ASSUME NEW w \in Workers, RecordReservation(w) PROVE TypeInv'
    BY <1>0, LedgerTyped DEF RecordReservation, CircuitsOK
<1>4. ASSUME NEW w \in Workers, Plan(w) PROVE TypeInv'
  <2>0. UNCHANGED <<kind, shown, cost, ok, held, books>>
      BY <1>4 DEF Plan
  <2>1. ASSUME NEW cand \in CandidateSets,
               Cardinality(cand) = 1,
               todo' = [todo EXCEPT ![w] = cand],
               Goto(w, "attempt"),
               UNCHANGED circuits
        PROVE  TypeInv'
    <3>1. cand # {}
        BY ONLY <2>1, FS_EmptySet
    <3>2. cand \subseteq Deployments
        BY GatewayAssumption
    <3>3. TypeOK'
        BY <2>0, <2>1, <3>2
    <3>4. CircuitsOK'
        BY <2>1 DEF CircuitsOK
    <3>5. RoutesLeft'
        BY <2>1, <3>1
    <3> QED
        BY <3>3, <3>4, <3>5
  <2>2. ASSUME NEW cand \in CandidateSets,
               circuits' = Queried(cand),
               todo' = [todo EXCEPT ![w] = Routes(cand, circuits')],
               Goto(w, IF todo'[w] = {} THEN "unroutable" ELSE "attempt")
        PROVE  TypeInv'
    <3>1. circuits' \in [Deployments -> Circuits] /\ CircuitsOK'
        BY <2>2, QueryKeepsCircuits
    <3>2. Routes(cand, circuits') \in SUBSET Deployments
        BY GatewayAssumption DEF Routes
    <3> QED
        BY <2>0, <2>2, <3>1, <3>2
  <2> QED
      BY <1>4, <2>1, <2>2 DEF Plan
<1>5. ASSUME NEW w \in Workers, Unroutable(w) PROVE TypeInv'
    BY <1>5, LedgerTyped DEF Unroutable, CircuitsOK
<1>6. ASSUME NEW w \in Workers, Delta(w) PROVE TypeInv'
    BY <1>6, CurrentIsDeployment DEF Delta, CircuitsOK
<1>7. ASSUME NEW w \in Workers, AdapterReturns(w) PROVE TypeInv'
    BY <1>7, CurrentIsDeployment, OutcomeKeepsCircuits DEF AdapterReturns
<1>8. ASSUME NEW w \in Workers, AdapterRaises(w) PROVE TypeInv'
    BY <1>8, CurrentIsDeployment, OutcomeKeepsCircuits DEF AdapterRaises
<1>9. ASSUME NEW w \in Workers, StreamHttpError(w) PROVE TypeInv'
    BY <1>9, LedgerTyped DEF StreamHttpError, CircuitsOK
<1>10. ASSUME NEW w \in Workers, TestReportsFailure(w) PROVE TypeInv'
    BY <1>10, CurrentIsDeployment, OutcomeKeepsCircuits DEF TestReportsFailure
<1>11. ASSUME NEW w \in Workers, Settle(w) PROVE TypeInv'
    BY <1>11, LedgerTyped DEF Settle, CircuitsOK
<1>12. ASSUME NEW w \in Workers, SettleRaises(w) PROVE TypeInv'
    BY <1>12, CurrentIsDeployment, OutcomeKeepsCircuits, LedgerTyped DEF SettleRaises
<1>13. ASSUME NEW w \in Workers, RecordUsage(w) PROVE TypeInv'
  <2>1. cost[w] \in Nat
      BY CostBounded
  <2>2. spent' \in Nat
    <3>1. spent \in Nat /\ spent' = spent + cost[w]
        BY <1>13 DEF RecordUsage
    <3> QED
        BY ONLY <2>1, <3>1
  <2> QED
      BY <1>13, <2>2 DEF RecordUsage, CircuitsOK
<1>14. ASSUME NEW w \in Workers, RecordTest(w) PROVE TypeInv'
  <2>1. ~IsLast(w) => todo[w] \ {Current(w)} # {}
      BY <1>14, CurrentIsDeployment DEF IsLast, RecordTest
  <2>2. CASE ok[w] \/ kind[w] = "explicit_test" \/ IsLast(w)
      BY <1>14, <2>2, LedgerTyped DEF RecordTest, CircuitsOK
  <2>3. CASE ~(ok[w] \/ kind[w] = "explicit_test" \/ IsLast(w))
    <3>1. /\ todo' = [todo EXCEPT ![w] = @ \ {Current(w)}]
          /\ pc' = [pc EXCEPT ![w] = "attempt"]
          /\ UNCHANGED <<circuits, kind, shown, cost, ok, held, books>>
        BY <1>14, <2>3 DEF RecordTest
    <3>2. TypeOK'
        BY <3>1
    <3>3. RoutesLeft'
        BY <2>1, <2>3, <3>1
    <3> QED
        BY <3>1, <3>2, <3>3 DEF CircuitsOK
  <2> QED
      BY <2>2, <2>3
<1>15. ASSUME NEW w \in Workers, RecordRaises(w) PROVE TypeInv'
    BY <1>15, CurrentIsDeployment, OutcomeKeepsCircuits DEF RecordRaises
<1>16. ASSUME NEW w \in Workers, NextRoute(w) PROVE TypeInv'
  <2>1. ~IsLast(w) => todo[w] \ {Current(w)} # {}
      BY <1>16, CurrentIsDeployment DEF IsLast, NextRoute, NoFallback
  <2>2. CASE NoFallback(w)
      BY <1>16, <2>2, LedgerTyped DEF NextRoute, CircuitsOK
  <2>3. CASE ~NoFallback(w)
    <3>1. /\ todo' = [todo EXCEPT ![w] = @ \ {Current(w)}]
          /\ pc' = [pc EXCEPT ![w] = "attempt"]
          /\ UNCHANGED <<circuits, kind, shown, cost, ok, held, books>>
        BY <1>16, <2>3 DEF NextRoute
    <3>2. TypeOK'
        BY <3>1
    <3>3. RoutesLeft'
        BY <2>1, <2>3, <3>1 DEF NoFallback
    <3> QED
        BY <3>1, <3>2, <3>3 DEF CircuitsOK
  <2> QED
      BY <2>2, <2>3
<1>17. ASSUME NEW w \in Workers, GiveUp(w) PROVE TypeInv'
    BY <1>17, LedgerTyped DEF GiveUp, CircuitsOK
<1>18. ASSUME NEW w \in Workers, Cancel(w) PROVE TypeInv'
    BY <1>18, CancelEffects DEF CircuitsOK
<1>19. CASE Tick
    BY <1>19, TickKeepsCircuits DEF Tick
<1>20. CASE UNCHANGED vars
    BY <1>20 DEF CircuitsOK
<1> QED
    BY <1>0, <1>1, <1>2, <1>3, <1>4, <1>5, <1>6, <1>7, <1>8, <1>9, <1>10, <1>11,
       <1>12, <1>13, <1>14, <1>15, <1>16, <1>17, <1>18, <1>19, <1>20
       DEF Next, Step

\* The state is always well-typed; every call that is being routed has a route
\* left to try.
THEOREM GatewayTypeCorrect == Spec => []TypeOK
<1>1. TypeInv => TypeOK
    BY DEF TypeInv
<1> QED
    BY <1>1, InitTypeInv, NextTypeInv, PTL DEF Spec

\* What the breaker promises alone holds among the calls of the gateway, whatever
\* late outcomes they record: a closed circuit is below its threshold, and an open one
\* knows when it was opened, so that is_open can end the cooldown.
THEOREM GatewayCircuitsRecover ==
    Spec => [](\A d \in Deployments :
                  /\ circuits[d].state = Closed => circuits[d].consecutive_failures < FailureThreshold
                  /\ circuits[d].state = Open => circuits[d].openedFor # NotOpened)
<1> DEFINE Recovers ==
        \A d \in Deployments :
            /\ circuits[d].state = Closed => circuits[d].consecutive_failures < FailureThreshold
            /\ circuits[d].state = Open => circuits[d].openedFor # NotOpened
<1>1. TypeInv => Recovers
    BY DEF TypeInv, CircuitsOK, Sound
<1> HIDE DEF Recovers
<1>2. Spec => []Recovers
    BY <1>1, InitTypeInv, NextTypeInv, PTL DEF Spec
<1> QED
    BY <1>2 DEF Recovers

-----------------------------------------------------------------------------
(* One answer, one deployment. *)

ShownInv ==
    \A w \in Workers :
        /\ pc[w] \in {"reserve", "reserving", "plan", "unroutable"} => shown[w] = {}
        /\ pc[w] \in Routed => shown[w] \subseteq {Current(w)}
        /\ kind[w] # "stream" => shown[w] = {}
        /\ \E d : shown[w] \subseteq {d}

LEMMA NextShownInv == TypeInv /\ ShownInv /\ [Next]_vars => ShownInv'
<1> SUFFICES ASSUME TypeInv, ShownInv, [Next]_vars PROVE ShownInv'
    OBVIOUS
<1> USE DEF TypeInv, TypeOK, ShownInv, Current, Ended, Awaits, Tests, Routed, Goto,
            vars, local, held, books
<1>1. ASSUME NEW w \in Workers, NEW k \in Kinds, Start(w, k) PROVE ShownInv'
    BY <1>1 DEF Start
<1>2. ASSUME NEW w \in Workers,
             Refuse(w) \/ Reserve(w) \/ RecordReservation(w) \/ Unroutable(w)
                \/ StreamHttpError(w) \/ GiveUp(w) \/ Cancel(w) \/ RecordUsage(w)
      PROVE  ShownInv'
    BY <1>2 DEF Refuse, Reserve, RecordReservation, Unroutable, StreamHttpError, GiveUp, Cancel, RecordUsage
<1>3. ASSUME NEW w \in Workers, Plan(w) PROVE ShownInv'
  <2>1. /\ shown[w] = {} /\ UNCHANGED <<shown, kind>>
        /\ \A v \in Workers \ {w} : pc'[v] = pc[v] /\ todo'[v] = todo[v]
      BY <1>3 DEF Plan
  <2> QED
      BY ONLY <2>1, ShownInv DEF ShownInv, Current, Routed
<1>4. ASSUME NEW w \in Workers, Delta(w) PROVE ShownInv'
    BY <1>4 DEF Delta
<1>5. ASSUME NEW w \in Workers,
             AdapterReturns(w) \/ AdapterRaises(w) \/ TestReportsFailure(w)
                \/ Settle(w) \/ SettleRaises(w) \/ RecordRaises(w)
      PROVE  ShownInv'
    BY <1>5 DEF AdapterReturns, AdapterRaises, TestReportsFailure,
                Settle, SettleRaises, RecordRaises
<1>6. ASSUME NEW w \in Workers, RecordTest(w) PROVE ShownInv'
    BY <1>6 DEF RecordTest
<1>7. ASSUME NEW w \in Workers, NextRoute(w) PROVE ShownInv'
    BY <1>7 DEF NextRoute, NoFallback
<1>8. CASE Tick \/ UNCHANGED vars
    BY <1>8 DEF Tick
<1> QED
    BY <1>1, <1>2, <1>3, <1>4, <1>5, <1>6, <1>7, <1>8 DEF Next, Step

\* No client of stream_chat ever sees output of two deployments, whatever
\* fails, whatever is cancelled and however many calls run.
THEOREM GatewaySingleSource == Spec => []SingleSource
<1>1. Init => ShownInv
    BY DEF Init, ShownInv, Routed
<1>2. ShownInv => SingleSource
  <2> SUFFICES ASSUME ShownInv, NEW w \in Workers
               PROVE  Cardinality(shown[w]) <= 1
      BY DEF SingleSource
  <2>1. PICK d : shown[w] \in SUBSET {d}
      BY DEF ShownInv
  <2>2. IsFiniteSet({d}) /\ Cardinality({d}) = 1
      BY ONLY FS_Singleton
  <2>3. Cardinality(shown[w]) <= Cardinality({d})
      BY ONLY <2>1, <2>2, FS_Subset
  <2> QED
      BY <2>2, <2>3
<1> QED
    BY <1>1, <1>2, InitTypeInv, NextTypeInv, NextShownInv, PTL DEF Spec

-----------------------------------------------------------------------------
(* Overspending is bounded. *)

\* Calls that leave do not raise the bound.
LEMMA FewerAdmitted ==
    ASSUME TypeOK, OverspendIsBounded, UNCHANGED spent, Admitted' \subseteq Admitted
    PROVE  OverspendIsBounded'
<1> DEFINE n == Cardinality(Admitted)
           m == Cardinality(Admitted')
<1>1. IsFiniteSet(Workers) /\ Admitted \subseteq Workers /\ Admitted' \subseteq Workers
    BY GatewayAssumption DEF Admitted
<1>2. IsFiniteSet(Admitted) /\ m <= n /\ n \in Nat /\ m \in Nat
    BY ONLY <1>1, Admitted' \subseteq Admitted, FS_Subset, FS_CardinalityType
<1>3. CASE spent = 0 /\ Admitted = {}
    BY <1>3 DEF OverspendIsBounded
<1>4. CASE spent + Estimate + MaxCost * n <= HardLimit + MaxCost * Cardinality(Workers)
  <2>1. MaxCost * m <= MaxCost * n
      BY <1>2, GatewayAssumption
  <2>2. MaxCost * m \in Nat /\ MaxCost * n \in Nat /\ MaxCost * Cardinality(Workers) \in Nat
      BY <1>1, <1>2, GatewayAssumption, FS_CardinalityType
  <2>3. spent + Estimate + MaxCost * m <= HardLimit + MaxCost * Cardinality(Workers)
      BY <1>4, <2>1, <2>2, GatewayAssumption DEF TypeOK
  <2> QED
      BY <2>3 DEF OverspendIsBounded
<1> QED
    BY <1>3, <1>4 DEF OverspendIsBounded

LEMMA AddBound ==
    \A s, e, h, a, b \in Nat : s + e <= h /\ a <= b => s + e + a <= h + b
OBVIOUS

\* A call that is admitted has seen everything spent so far.
LEMMA ReserveBounded ==
    ASSUME TypeOK, OverspendIsBounded, NEW w \in Workers, Reserve(w)
    PROVE  OverspendIsBounded'
<1>1. CASE spent + Estimate > HardLimit
  <2>1. Admitted' \subseteq Admitted /\ UNCHANGED spent
      BY <1>1 DEF Reserve, Admitted, Goto, TypeOK, Awaits, Ended, books
  <2> QED
      BY <2>1, FewerAdmitted
<1>2. CASE ~(spent + Estimate > HardLimit)
  <2> DEFINE m == Cardinality(Admitted')
             n == Cardinality(Workers)
  <2>1. Admitted' \subseteq Workers /\ IsFiniteSet(Workers)
      BY GatewayAssumption DEF Admitted
  <2>2. m \in Nat /\ n \in Nat /\ m <= n
      BY ONLY <2>1, FS_Subset, FS_CardinalityType
  <2>3. MaxCost * m <= MaxCost * n /\ MaxCost * m \in Nat /\ MaxCost * n \in Nat
      BY <2>2, GatewayAssumption
  <2>4. spent' + Estimate <= HardLimit
      BY <1>2, GatewayAssumption DEF Reserve, books, TypeOK
  <2>5. spent' \in Nat
      BY DEF Reserve, books, TypeOK
  <2>6. spent' + Estimate + MaxCost * m <= HardLimit + MaxCost * n
    <3>1. Estimate \in Nat /\ HardLimit \in Nat
        BY GatewayAssumption
    <3> QED
        BY ONLY <2>3, <2>4, <2>5, <3>1, AddBound
  <2> QED
      BY <2>6 DEF OverspendIsBounded
<1> QED
    BY <1>1, <1>2

\* A call that records its usage spends no more than its share of the bound.
LEMMA RecordBounded ==
    ASSUME TypeOK, OverspendIsBounded, NEW w \in Workers, pc[w] = "record",
           NEW end \in Ended, Goto(w, end), spent' = spent + cost[w]
    PROVE  OverspendIsBounded'
<1> DEFINE n == Cardinality(Admitted)
           k == Cardinality(Workers)
<1>1. w \in Admitted /\ Admitted' = Admitted \ {w}
    BY DEF Admitted, Goto, TypeOK, Awaits, Ended
<1>2. IsFiniteSet(Admitted) /\ n \in Nat /\ k \in Nat
  <2>1. IsFiniteSet(Workers) /\ Admitted \subseteq Workers
      BY GatewayAssumption DEF Admitted
  <2> QED
      BY ONLY <2>1, FS_Subset, FS_CardinalityType
<1>3. Cardinality(Admitted') = n - 1
    BY ONLY <1>1, <1>2, FS_RemoveElement
<1>4. MaxCost * (n - 1) = MaxCost * n - MaxCost
      /\ MaxCost * n \in Nat /\ MaxCost * k \in Nat
    BY <1>2, GatewayAssumption
<1>5. spent' = spent + cost[w] /\ cost[w] \in Nat /\ cost[w] <= MaxCost /\ spent \in Nat
    BY CostBounded DEF TypeOK
<1>6. spent + Estimate + MaxCost * n <= HardLimit + MaxCost * k
    BY <1>1 DEF OverspendIsBounded
<1>7. spent' + Estimate + MaxCost * Cardinality(Admitted') <= HardLimit + MaxCost * k
    BY <1>3, <1>4, <1>5, <1>6, GatewayAssumption
<1> QED
    BY <1>7 DEF OverspendIsBounded

LEMMA NextBounded ==
    TypeInv /\ OverspendIsBounded /\ [Next]_vars => OverspendIsBounded'
<1> SUFFICES ASSUME TypeInv, OverspendIsBounded, [Next]_vars
             PROVE  OverspendIsBounded'
    OBVIOUS
<1>0. TypeOK
    BY DEF TypeInv
<1>1. ASSUME NEW w \in Workers, Reserve(w) PROVE OverspendIsBounded'
    BY <1>0, <1>1, ReserveBounded
<1>2. ASSUME NEW w \in Workers, RecordUsage(w) PROVE OverspendIsBounded'
    BY <1>0, <1>2, RecordBounded DEF RecordUsage, Ended
<1>3. ASSUME UNCHANGED spent, Admitted' \subseteq Admitted PROVE OverspendIsBounded'
    BY <1>0, <1>3, FewerAdmitted
<1> USE <1>0 DEF TypeOK, Admitted, Ended, Awaits, Goto, local, held, books, vars
<1>4. ASSUME NEW w \in Workers, NEW k \in Kinds, Start(w, k)
      PROVE  UNCHANGED spent /\ Admitted' \subseteq Admitted
    BY <1>4 DEF Start
<1>5. ASSUME NEW w \in Workers,
             Refuse(w) \/ RecordReservation(w) \/ Unroutable(w) \/ StreamHttpError(w)
                \/ GiveUp(w)
      PROVE  UNCHANGED spent /\ Admitted' \subseteq Admitted
    BY <1>5 DEF Refuse, RecordReservation, Unroutable, StreamHttpError, GiveUp
<1>6. ASSUME NEW w \in Workers,
             Plan(w) \/ Delta(w) \/ AdapterReturns(w) \/ AdapterRaises(w)
                \/ TestReportsFailure(w)
      PROVE  UNCHANGED spent /\ Admitted' \subseteq Admitted
    BY <1>6 DEF Plan, Delta, AdapterReturns, AdapterRaises, TestReportsFailure
<1>7. ASSUME NEW w \in Workers,
             Settle(w) \/ SettleRaises(w) \/ RecordRaises(w) \/ RecordTest(w)
                \/ NextRoute(w)
      PROVE  UNCHANGED spent /\ Admitted' \subseteq Admitted
    BY <1>7 DEF Settle, SettleRaises, RecordRaises, RecordTest, NextRoute
<1>8. Tick \/ UNCHANGED vars => UNCHANGED spent /\ Admitted' \subseteq Admitted
    BY DEF Tick
<1>9. ASSUME NEW w \in Workers, Cancel(w) PROVE OverspendIsBounded'
  <2>1. pc' = [pc EXCEPT ![w] = "raised"] /\ Admitted' \subseteq Admitted
      BY <1>9, CancelEffects
  <2>2. CASE UNCHANGED spent
      BY <1>3, <2>1, <2>2
  <2>3. CASE pc[w] = "record" /\ spent' = spent + cost[w]
      BY <1>0, <2>1, <2>3, RecordBounded
  <2> QED
      BY <1>9, <2>2, <2>3, CancelEffects
<1> QED
    BY ONLY <1>1, <1>2, <1>3, <1>4, <1>5, <1>6, <1>7, <1>8, <1>9, [Next]_vars
       DEF Next, Step

\* The hard budget is overspent by no more than the calls in flight together
\* can cost, with any number of calls, under every fault and cancellation.
THEOREM GatewayOverspendBounded == Spec => []OverspendIsBounded
<1>1. Init => OverspendIsBounded
    BY DEF Init, OverspendIsBounded, Admitted, Awaits
<1> QED
    BY <1>1, InitTypeInv, NextTypeInv, NextBounded, PTL DEF Spec
-----------------------------------------------------------------------------
(* A stream ends with its reservation closed, unless it was interrupted. *)

\* A stream learns of its reservation when the guard has recorded it, keeps it open or
\* closed from there on, and has settled it when it records the usage.
StreamHeld ==
    \A w \in Workers : kind[w] = "stream" =>
        /\ pc[w] \in {"reserve", "reserving"} => resv[w] = "none" /\ ledger[w].reserve = 0
        /\ pc[w] \in Awaits \ {"reserve", "reserving"} => resv[w] # "none"
        /\ pc[w] = "record" => resv[w] = "closed"
        /\ pc[w] \in Ended =>
              \/ resv[w] = "closed"
              \/ interrupted[w]
              \/ resv[w] = "none" /\ ledger[w].reserve = 0

\* A cancelled stream: nothing was written before the reservation, and a release that was
\* carried out closes it.
LEMMA CancelStreamHeld ==
    ASSUME TypeOK, StreamHeld, NEW w \in Workers, Cancel(w)
    PROVE  StreamHeld'
<1>1. UNCHANGED kind /\ pc' = [pc EXCEPT ![w] = "raised"] /\ pc[w] \in Awaits
    BY CancelEffects DEF local
<1>2. \A v \in Workers \ {w} :
         /\ resv'[v] = resv[v] /\ ledger'[v] = ledger[v] /\ interrupted'[v] = interrupted[v]
         /\ pc'[v] = pc[v]
    BY <1>1, CancelEffects DEF TypeOK
<1>3. ASSUME kind[w] = "stream"
      PROVE  \/ resv'[w] = "closed"
             \/ interrupted'[w]
             \/ resv'[w] = "none" /\ ledger'[w].reserve = 0
  <2>1. CASE resv[w] = "open"
      BY <1>3, <2>1 DEF Cancel, TypeOK
  <2>2. CASE resv[w] = "closed"
      BY <1>3, <2>2 DEF Cancel, TypeOK
  <2>3. CASE resv[w] = "none" /\ pc[w] = "reserving"
      BY <1>3, <2>3 DEF Cancel, TypeOK
  <2>4. CASE resv[w] = "none" /\ pc[w] = "reserve"
    <3>1. ledger[w].reserve = 0 /\ Writing(w) = {}
        BY <1>3, <2>4 DEF StreamHeld, Writing
    <3>2. UNCHANGED resv /\ Written(w, {})
        BY <2>4, <3>1 DEF Cancel
    <3>3. ledger'[w].reserve = 0
        BY <3>1, <3>2 DEF Written, NoEvents, TypeOK
    <3> QED
        BY <2>4, <3>2, <3>3
  <2> QED
      BY <1>1, <1>3, <2>1, <2>2, <2>3, <2>4 DEF StreamHeld, TypeOK
<1> QED
    BY <1>1, <1>2, <1>3 DEF StreamHeld, TypeOK, Awaits, Ended

LEMMA NextStreamHeld == TypeOK /\ StreamHeld /\ [Next]_vars => StreamHeld'
<1> SUFFICES ASSUME TypeOK, StreamHeld, [Next]_vars PROVE StreamHeld'
    OBVIOUS
<1> USE DEF TypeOK, StreamHeld, Ended, Awaits, Tests, Goto, vars, local, held, books
<1>1. ASSUME NEW w \in Workers, NEW k \in Kinds, Start(w, k) PROVE StreamHeld'
    BY <1>1 DEF Start, NoEvents
<1>2. ASSUME NEW w \in Workers, Refuse(w) \/ Reserve(w) PROVE StreamHeld'
    BY <1>2 DEF Refuse, Reserve
<1>0. ASSUME NEW w \in Workers, RecordReservation(w) PROVE StreamHeld'
    BY <1>0 DEF RecordReservation, LedgerEvent
<1>3. ASSUME NEW w \in Workers, Plan(w) PROVE StreamHeld'
  <2>1. /\ UNCHANGED <<kind, held>> /\ pc[w] = "plan"
        /\ pc' = [pc EXCEPT ![w] = pc'[w]]
        /\ pc'[w] \in {"attempt", "unroutable"}
      BY <1>3 DEF Plan
  <2> QED
      BY ONLY <2>1, TypeOK, StreamHeld DEF TypeOK, StreamHeld, Ended, Awaits, held
<1>4. ASSUME NEW w \in Workers, Unroutable(w) \/ StreamHttpError(w) \/ GiveUp(w)
      PROVE  StreamHeld'
    BY <1>4 DEF Unroutable, StreamHttpError, GiveUp, Release, LedgerEvent
<1>5. ASSUME NEW w \in Workers,
             Delta(w) \/ AdapterReturns(w) \/ AdapterRaises(w) \/ TestReportsFailure(w)
      PROVE  StreamHeld'
    BY <1>5 DEF Delta, AdapterReturns, AdapterRaises, TestReportsFailure
<1>6. ASSUME NEW w \in Workers, Settle(w) \/ SettleRaises(w) PROVE StreamHeld'
    BY <1>6 DEF Settle, SettleRaises, LedgerEvent
<1>7. ASSUME NEW w \in Workers, RecordUsage(w) \/ RecordTest(w) \/ RecordRaises(w)
      PROVE  StreamHeld'
    BY <1>7 DEF RecordUsage, RecordTest, RecordRaises, Release, LedgerEvent
<1>8. ASSUME NEW w \in Workers, NextRoute(w) PROVE StreamHeld'
    BY <1>8 DEF NextRoute, Release, LedgerEvent
<1>9. CASE Tick \/ UNCHANGED vars
    BY <1>9 DEF Tick
<1>10. ASSUME NEW w \in Workers, Cancel(w) PROVE StreamHeld'
    BY ONLY <1>10, TypeOK, StreamHeld, CancelStreamHeld
<1> QED
    BY ONLY <1>0, <1>1, <1>2, <1>3, <1>4, <1>5, <1>6, <1>7, <1>8, <1>9, <1>10, [Next]_vars
       DEF Next, Step

\* However a stream ends, by an answer, a failed route, a database fault or a
\* client that goes away, its reservation has been settled or released: unless the client
\* went away while the guard was writing the reservation or its release.
THEOREM GatewayStreamsClose == Spec => []StreamsCloseUnlessInterrupted
<1>1. Init => StreamHeld
    BY DEF Init, StreamHeld
<1>2. StreamHeld => StreamsCloseUnlessInterrupted
    BY DEF StreamHeld, StreamsCloseUnlessInterrupted
<1>3. TypeInv => TypeOK
    BY DEF TypeInv
<1> QED
    BY <1>1, <1>2, <1>3, InitTypeInv, NextTypeInv, NextStreamHeld, PTL DEF Spec

-----------------------------------------------------------------------------
(* Without faults every reservation has exactly one closing event. *)

Events(w, reserves, settles, releases) ==
    /\ ledger[w].reserve = reserves
    /\ ledger[w].settle = settles
    /\ ledger[w].release = releases

\* A call holds its reservation from the guard on until it settles or releases; a test
\* never settles.
Accounts ==
    \A w \in Workers :
        /\ pc[w] \in {"reserve", "reserving"} => Events(w, 0, 0, 0)
        /\ pc[w] \in {"plan", "unroutable", "attempt", "settle", "failed"}
              => resv[w] = "open" /\ Events(w, 1, 0, 0)
        /\ pc[w] = "record" /\ kind[w] \in Tests
              => resv[w] = "open" /\ Events(w, 1, 0, 0)
        /\ pc[w] = "settle" => kind[w] \notin Tests
        /\ pc[w] = "record" /\ kind[w] \notin Tests => Events(w, 1, 1, 0)

LEMMA NextAccounts ==
    ~DbFaults /\ ~Cancels /\ TypeOK /\ Accounts /\ ClosedExactlyOnce /\ [Next]_vars
        => Accounts' /\ ClosedExactlyOnce'
<1> SUFFICES ASSUME ~DbFaults, ~Cancels, TypeOK, Accounts, ClosedExactlyOnce, [Next]_vars
             PROVE  Accounts' /\ ClosedExactlyOnce'
    OBVIOUS
<1> USE DEF TypeOK, Accounts, ClosedExactlyOnce, Events, Ended, Awaits, Tests, Goto,
            LedgerEvent, Release, vars, local, held, books
<1>0. ASSUME NEW w \in Workers, resv[w] = "open", Events(w, 1, 0, 0), Release(w),
             NEW end \in {"raised", "returned"}, Goto(w, end), UNCHANGED kind,
             end = "returned" => kind[w] \in Tests
      PROVE  Accounts' /\ ClosedExactlyOnce'
  <2>1. /\ ledger' = [ledger EXCEPT ![w]["release"] = @ + 1]
        /\ resv' = [resv EXCEPT ![w] = "closed"]
      BY <1>0
  <2>2. \A v \in Workers \ {w} :
           ledger'[v] = ledger[v] /\ resv'[v] = resv[v] /\ pc'[v] = pc[v]
      BY <1>0, <2>1
  <2>3. Events(w, 1, 0, 1)' /\ pc'[w] = end
      BY <1>0, <2>1
  <2> QED
      BY <1>0, <2>2, <2>3
<1>1. ASSUME NEW w \in Workers, NEW k \in Kinds, Start(w, k)
      PROVE  Accounts' /\ ClosedExactlyOnce'
    BY <1>1 DEF Start, NoEvents
<1>2. ASSUME NEW w \in Workers, Refuse(w) \/ Reserve(w) PROVE Accounts' /\ ClosedExactlyOnce'
    BY <1>2 DEF Refuse, Reserve
<1>12. ASSUME NEW w \in Workers, RecordReservation(w)
       PROVE  Accounts' /\ ClosedExactlyOnce'
    BY <1>12 DEF RecordReservation
<1>3. ASSUME NEW w \in Workers, Plan(w) PROVE Accounts' /\ ClosedExactlyOnce'
  <2>1. /\ UNCHANGED <<kind, resv, ledger>> /\ pc[w] = "plan"
        /\ pc' = [pc EXCEPT ![w] = pc'[w]] /\ pc'[w] \in {"attempt", "unroutable"}
      BY <1>3 DEF Plan
  <2> QED
      BY ONLY <2>1, TypeOK, Accounts, ClosedExactlyOnce
         DEF TypeOK, Accounts, ClosedExactlyOnce, Events, Ended, Awaits
<1>4. ASSUME NEW w \in Workers, Unroutable(w) \/ StreamHttpError(w)
      PROVE  Accounts' /\ ClosedExactlyOnce'
    BY <1>0, <1>4 DEF Unroutable, StreamHttpError
<1>5. ASSUME NEW w \in Workers,
             Delta(w) \/ AdapterReturns(w) \/ AdapterRaises(w) \/ TestReportsFailure(w)
      PROVE  Accounts' /\ ClosedExactlyOnce'
    BY <1>5 DEF Delta, AdapterReturns, AdapterRaises, TestReportsFailure
<1>6. ASSUME NEW w \in Workers, Settle(w) PROVE Accounts' /\ ClosedExactlyOnce'
    BY <1>6 DEF Settle
<1>7. ASSUME NEW w \in Workers, RecordUsage(w) PROVE Accounts' /\ ClosedExactlyOnce'
    BY <1>7 DEF RecordUsage
<1>8. ASSUME NEW w \in Workers, RecordTest(w) PROVE Accounts' /\ ClosedExactlyOnce'
  <2>1. pc[w] = "record" /\ kind[w] \in Tests /\ UNCHANGED kind
      BY <1>8 DEF RecordTest
  <2>2. resv[w] = "open" /\ Events(w, 1, 0, 0)
      BY <2>1 DEF Awaits
  <2>3. CASE Release(w) /\ Goto(w, "returned")
      BY <1>0, <2>1, <2>2, <2>3 DEF Ended
  <2>4. CASE Goto(w, "attempt") /\ UNCHANGED <<resv, ledger>>
    <3>1. /\ UNCHANGED <<kind, resv, ledger>> /\ pc[w] = "record" /\ kind[w] \in Tests
          /\ pc' = [pc EXCEPT ![w] = "attempt"]
        BY <2>1, <2>4 DEF Goto
    <3> QED
        BY ONLY <3>1, <2>2, TypeOK, Accounts, ClosedExactlyOnce
           DEF TypeOK, Accounts, ClosedExactlyOnce, Events, Ended, Awaits, Tests
  <2> QED
      BY <1>8, <2>3, <2>4 DEF RecordTest
<1>9. ASSUME NEW w \in Workers, NextRoute(w) PROVE Accounts' /\ ClosedExactlyOnce'
  <2>1. pc[w] = "failed" /\ UNCHANGED kind
      BY <1>9 DEF NextRoute
  <2>2. resv[w] = "open" /\ Events(w, 1, 0, 0)
      BY <2>1 DEF Awaits
  <2>3. CASE Release(w) /\ Goto(w, "raised")
      BY <1>0, <2>1, <2>2, <2>3 DEF Ended
  <2>4. CASE Goto(w, "attempt") /\ UNCHANGED <<resv, ledger>>
    <3>1. pc' = [pc EXCEPT ![w] = "attempt"]
        BY <2>4 DEF Goto
    <3>2. UNCHANGED <<resv, ledger>>
        BY <2>4
    <3> QED
        BY ONLY <2>1, <2>2, <3>1, <3>2, TypeOK, Accounts, ClosedExactlyOnce
           DEF TypeOK, Accounts, ClosedExactlyOnce, Events, Ended, Awaits, Tests
  <2> QED
      BY <1>9, <2>3, <2>4 DEF NextRoute
<1>10. ASSUME NEW w \in Workers, SettleRaises(w) \/ RecordRaises(w) \/ GiveUp(w) \/ Cancel(w)
       PROVE  FALSE
    BY <1>10 DEF SettleRaises, RecordRaises, GiveUp, Cancel
<1>11. CASE Tick \/ UNCHANGED vars
    BY <1>11 DEF Tick
<1> QED
    BY ONLY <1>1, <1>2, <1>3, <1>4, <1>5, <1>6, <1>7, <1>8, <1>9, <1>10, <1>11, <1>12,
            [Next]_vars
       DEF Next, Step

\* Where the database answers and no client goes away, each call that got a reservation
\* ends with exactly one closing event, and the right one, whichever routes fail and
\* however many calls run.
THEOREM GatewayClosesOnce == ~DbFaults /\ ~Cancels /\ Spec => []ClosedExactlyOnce
<1> SUFFICES ASSUME ~DbFaults, ~Cancels PROVE Spec => []ClosedExactlyOnce
    OBVIOUS
<1>1. Init => Accounts /\ ClosedExactlyOnce
    BY DEF Init, Accounts, ClosedExactlyOnce
<1>2. TypeOK /\ (Accounts /\ ClosedExactlyOnce) /\ [Next]_vars => (Accounts /\ ClosedExactlyOnce)'
    BY NextAccounts
<1>3. TypeInv => TypeOK
    BY DEF TypeInv
<1> QED
    BY <1>1, <1>2, <1>3, InitTypeInv, NextTypeInv, PTL DEF Spec

-----------------------------------------------------------------------------
(* Nobody blames a healthy deployment. *)

\* Outcomes are recorded for the route that was tried: failures for one that can fail.
LEMMA NextHealthy ==
    ~DbFaults /\ "explicit_test" \notin Kinds /\ TypeInv /\ HealthyStaysClosed
        /\ (\A w \in Workers : kind[w] # "explicit_test") /\ [Next]_vars
        => HealthyStaysClosed' /\ (\A w \in Workers : kind[w] # "explicit_test")'
<1> SUFFICES ASSUME ~DbFaults, "explicit_test" \notin Kinds, TypeInv, HealthyStaysClosed,
                    \A w \in Workers : kind[w] # "explicit_test", [Next]_vars
             PROVE  HealthyStaysClosed' /\ (\A w \in Workers : kind[w] # "explicit_test")'
    OBVIOUS
<1>1. UNCHANGED circuits => HealthyStaysClosed'
    BY DEF HealthyStaysClosed
<1>2. UNCHANGED kind => (\A w \in Workers : kind[w] # "explicit_test")'
    OBVIOUS
<1>3. circuits \in [Deployments -> Circuits] /\ Healthy \subseteq Deployments
    BY GatewayAssumption DEF TypeInv, TypeOK
<1>4. ASSUME NEW w \in Workers, pc[w] = "attempt", RecordSuccess(Current(w))
      PROVE  HealthyStaysClosed'
  <2>1. Current(w) \in Deployments
      BY <1>4, CurrentIsDeployment DEF Routed
  <2> QED
      BY <1>3, <1>4, <2>1
         DEF RecordSuccess, AfterSuccess, HealthyStaysClosed, Circuits, FreshCircuit, Closed, HalfOpen
<1>5. ASSUME NEW w \in Workers, CanFail(w), RecordFailure(Current(w)) PROVE HealthyStaysClosed'
    BY <1>3, <1>5 DEF CanFail, RecordFailure, HealthyStaysClosed
<1>6. ASSUME NEW cand \in CandidateSets, circuits' = Queried(cand) PROVE HealthyStaysClosed'
    BY <1>3, <1>6 DEF Queried, AfterQuery, HealthyStaysClosed, Closed, Open
<1> USE DEF local, held, books, vars
<1>7. ASSUME NEW w \in Workers, NEW k \in Kinds, Start(w, k)
      PROVE  UNCHANGED circuits /\ (\A v \in Workers : kind[v] # "explicit_test")'
    BY <1>7 DEF Start, TypeInv, TypeOK
<1>8. ASSUME NEW w \in Workers, Plan(w) PROVE HealthyStaysClosed' /\ UNCHANGED kind
    BY <1>1, <1>6, <1>8 DEF Plan
<1>9. ASSUME NEW w \in Workers, AdapterReturns(w) PROVE HealthyStaysClosed' /\ UNCHANGED kind
    BY <1>4, <1>9 DEF AdapterReturns
<1>10. ASSUME NEW w \in Workers, AdapterRaises(w) \/ TestReportsFailure(w)
       PROVE  HealthyStaysClosed' /\ UNCHANGED kind
    BY <1>5, <1>10 DEF AdapterRaises, TestReportsFailure
<1>11. ASSUME NEW w \in Workers,
              Refuse(w) \/ Reserve(w) \/ RecordReservation(w) \/ Unroutable(w)
                 \/ Delta(w) \/ StreamHttpError(w) \/ Settle(w) \/ RecordUsage(w) \/ RecordTest(w) \/ NextRoute(w) \/ Cancel(w)
       PROVE  UNCHANGED <<circuits, kind>>
    BY <1>11 DEF Refuse, Reserve, RecordReservation, Unroutable, Delta, StreamHttpError, Settle, RecordUsage,
                 RecordTest, NextRoute, Cancel
<1>12. ASSUME NEW w \in Workers, SettleRaises(w) \/ RecordRaises(w) \/ GiveUp(w)
       PROVE  FALSE
    BY <1>12 DEF SettleRaises, RecordRaises, GiveUp
<1>13. CASE Tick
    BY <1>2, <1>3, <1>13 DEF Tick, Aged, HealthyStaysClosed, Circuits
<1> QED
    BY <1>1, <1>2, <1>7, <1>8, <1>9, <1>10, <1>11, <1>12, <1>13 DEF Next, Step

\* A deployment whose provider never fails a call stays in the routing, whichever others
\* fail and whatever is cancelled: unless the database fails while its answer is booked,
\* or a connection test brings credentials of its own.
THEOREM GatewayHealthyStaysClosed ==
    ~DbFaults /\ "explicit_test" \notin Kinds /\ Spec => []HealthyStaysClosed
<1> SUFFICES ASSUME ~DbFaults, "explicit_test" \notin Kinds PROVE Spec => []HealthyStaysClosed
    OBVIOUS
<1> DEFINE NoExplicit == \A w \in Workers : kind[w] # "explicit_test"
<1>1. Init => HealthyStaysClosed /\ NoExplicit
    BY GatewayAssumption DEF Init, HealthyStaysClosed, FreshCircuit
<1>2. TypeInv /\ (HealthyStaysClosed /\ NoExplicit) /\ [Next]_vars
        => (HealthyStaysClosed /\ NoExplicit)'
    BY NextHealthy
<1> HIDE DEF NoExplicit
<1> QED
    BY <1>1, <1>2, InitTypeInv, NextTypeInv, PTL DEF Spec

-----------------------------------------------------------------------------
\* The hard limit itself holds where calls come one at a time and cost no more than they
\* reserve, under every fault and cancellation: the overspending that is possible is that
\* of the other calls in flight.
THEOREM GatewayHardLimitHolds ==
    Cardinality(Workers) = 1 /\ MaxCost <= Estimate /\ Spec => []HardLimitHolds
<1> SUFFICES ASSUME Cardinality(Workers) = 1, MaxCost <= Estimate PROVE Spec => []HardLimitHolds
    OBVIOUS
<1>1. TypeInv /\ OverspendIsBounded => HardLimitHolds
  <2> SUFFICES ASSUME TypeOK, OverspendIsBounded PROVE HardLimitHolds
      BY DEF TypeInv
  <2> DEFINE n == Cardinality(Admitted)
  <2>1. n \in Nat
      BY GatewayAssumption, FS_Subset, FS_CardinalityType DEF Admitted
  <2>2. MaxCost * n \in Nat /\ MaxCost * Cardinality(Workers) = MaxCost
      BY <2>1, GatewayAssumption
  <2>3. spent = 0 \/ spent + Estimate + MaxCost * n <= HardLimit + MaxCost
      BY <2>2 DEF OverspendIsBounded
  <2> HIDE DEF n
  <2> QED
      BY <2>2, <2>3, GatewayAssumption DEF HardLimitHolds, TypeOK
<1> QED
    BY <1>1, GatewayOverspendBounded, InitTypeInv, NextTypeInv, PTL DEF Spec
=============================================================================
