----------------------------- MODULE LLMGateway -----------------------------
(***************************************************************************)
(* The single entry point of every model call (app/llm/gateway.py): policy  *)
(* -> budget -> router -> adapter -> usage.  A worker is one request in     *)
(* flight; it is reused for the next request when its call has ended.  The  *)
(* workers share the process-wide circuit breaker and the database; each    *)
(* action below runs from one await of the handler to the next.             *)
(*                                                                          *)
(* Abstractions.  A tenant has one hard-limit and one soft budget and every *)
(* call matches both, so the ledger events of the scopes of a reservation   *)
(* are kept once.  Costs are whole units.  Usage rows of failed calls are   *)
(* read by reports only and are left out, but not the exceptions their      *)
(* commits raise.  A commit that fails has not taken effect.                *)
(***************************************************************************)
EXTENDS Circuit, FiniteSets

CONSTANTS
    Deployments,    \* deployment ids known to the breaker
    Priority,       \* [Deployments -> Nat], the order routes are tried in
    Registered,     \* deployments whose provider is registered
    CandidateSets,  \* the sets of active deployments a request may match
    Healthy,        \* deployments whose provider never fails a call
    Workers,        \* requests that can be in flight together
    Kinds,          \* the entry points the workers call
    MaxCalls,       \* bound of the model on the calls started
    HardLimit,      \* limit of the hard budget
    SoftLimit,      \* alert threshold of the soft budget
    Estimate,       \* what a call reserves
    Costs,          \* what a call may turn out to cost
    MaxCost,        \* a bound of Costs
    DbFaults,       \* database commits and reads may fail
    Cancels         \* the client may go away during a call

ASSUME GatewayAssumption ==
    /\ Priority \in [Deployments -> Nat]
    /\ Registered \subseteq Deployments
    /\ CandidateSets \subseteq SUBSET Deployments
    /\ Healthy \subseteq Deployments
    /\ IsFiniteSet(Workers) /\ Workers # {}
    /\ Kinds \subseteq {"chat", "stream", "test", "explicit_test"}
    /\ MaxCalls \in Nat
    /\ HardLimit \in Nat /\ SoftLimit \in Nat /\ Estimate \in Nat
    /\ Costs \subseteq Nat
    /\ MaxCost \in Nat /\ \A c \in Costs : c <= MaxCost
    /\ DbFaults \in BOOLEAN /\ Cancels \in BOOLEAN

VARIABLES
    circuits,  \* the circuit breaker
    pc,        \* where the handler of each worker awaits
    kind,      \* the entry point it runs
    todo,      \* routes not given up yet; the current one is the first
    resv,      \* its local reservation: none, open, closed
    shown,     \* deployments whose content has reached its client
    cost,      \* recalculated usage of the response it holds
    ok,        \* result.ok of a connection test
    ledger,    \* llm_budget_ledger: events of its reservation
    spent,     \* SUM of the successful rows of llm_usage
    alerts,    \* alert events of the soft budget
    started,   \* calls started so far
    interrupted \* history: cancelled while the guard wrote for the call what
                \* no handler makes up for

local == <<kind, todo, shown, cost, ok>>
books == <<spent, alerts, started>>
held  == <<resv, ledger, interrupted>>
vars  == <<circuits, pc, local, held, books>>

Ended  == {"idle", "returned", "raised"}
Awaits == {"reserve", "reserving", "plan", "unroutable", "attempt", "settle",
           "record", "failed"}
Tests  == {"test", "explicit_test"}

NoEvents == [reserve |-> 0, settle |-> 0, release |-> 0]

TypeOK ==
    /\ circuits \in [Deployments -> Circuits]
    /\ pc \in [Workers -> Ended \cup Awaits]
    /\ kind \in [Workers -> {"chat", "stream", "test", "explicit_test"}]
    /\ todo \in [Workers -> SUBSET Deployments]
    /\ resv \in [Workers -> {"none", "open", "closed"}]
    /\ shown \in [Workers -> SUBSET Deployments]
    /\ cost \in [Workers -> Costs \cup {0}]
    /\ ok \in [Workers -> BOOLEAN]
    /\ ledger \in [Workers -> [reserve : Nat, settle : Nat, release : Nat]]
    /\ spent \in Nat /\ alerts \in Nat /\ started \in 0..MaxCalls
    /\ interrupted \in [Workers -> BOOLEAN]

Init ==
    /\ circuits = [d \in Deployments |-> FreshCircuit]
    /\ pc = [w \in Workers |-> "idle"]
    /\ kind = [w \in Workers |-> "chat"]
    /\ todo = [w \in Workers |-> {}]
    /\ resv = [w \in Workers |-> "none"]
    /\ shown = [w \in Workers |-> {}]
    /\ cost = [w \in Workers |-> 0]
    /\ ok = [w \in Workers |-> TRUE]
    /\ ledger = [w \in Workers |-> NoEvents]
    /\ spent = 0 /\ alerts = 0 /\ started = 0
    /\ interrupted = [w \in Workers |-> FALSE]

-----------------------------------------------------------------------------
Goto(w, l) == pc' = [pc EXCEPT ![w] = l]

\* The route being attempted: the first by priority of those left.
First(D)   == CHOOSE d \in D : \A e \in D : Priority[d] <= Priority[e]
Current(w) == First(todo[w])
IsLast(w)  == todo[w] = {Current(w)}

\* _record_budget_event: a database error is swallowed and the event is lost.
LedgerEvent(w, e) ==
    \/ ledger' = [ledger EXCEPT ![w][e] = @ + 1]
    \/ DbFaults /\ UNCHANGED ledger

\* BudgetGuard.release, called only with a reservation still held.
Release(w) ==
    IF resv[w] = "open"
    THEN LedgerEvent(w, "release") /\ resv' = [resv EXCEPT ![w] = "closed"]
    ELSE UNCHANGED <<ledger, resv>>

RecordSuccess(d) == circuits' = [circuits EXCEPT ![d] = AfterSuccess(@)]
RecordFailure(d) == circuits' = [circuits EXCEPT ![d] = AfterFailure(@)]

\* ModelRouter.plan: the open deployments are left out, unless all are open.
Queried(cand) ==
    [d \in Deployments |-> IF d \in cand THEN AfterQuery(circuits[d]) ELSE circuits[d]]

Routes(cand, cs) ==
    LET healthy == {d \in cand : ~BlocksRouting(cs[d])}
    IN  (IF healthy # {} THEN healthy ELSE cand) \cap Registered

-----------------------------------------------------------------------------
Start(w, k) ==
    /\ pc[w] \in Ended
    /\ started < MaxCalls
    /\ started' = started + 1
    /\ Goto(w, "reserve")
    /\ kind' = [kind EXCEPT ![w] = k]
    /\ todo' = [todo EXCEPT ![w] = {}]
    /\ resv' = [resv EXCEPT ![w] = "none"]
    /\ shown' = [shown EXCEPT ![w] = {}]
    /\ cost' = [cost EXCEPT ![w] = 0]
    /\ ok' = [ok EXCEPT ![w] = TRUE]
    /\ ledger' = [ledger EXCEPT ![w] = NoEvents]
    /\ interrupted' = [interrupted EXCEPT ![w] = FALSE]
    /\ UNCHANGED <<circuits, spent, alerts>>

\* The policy denies the request, or the budget storage cannot be read.
Refuse(w) ==
    /\ pc[w] = "reserve"
    /\ Goto(w, "raised")
    /\ UNCHANGED <<circuits, local, held, books>>

\* Variants: the estimate is not counted; nothing is checked.
Reserve_IgnoresEstimate(w) ==
    /\ pc[w] = "reserve"
    /\ Goto(w, IF spent > HardLimit THEN "raised" ELSE "reserving")
    /\ UNCHANGED <<circuits, local, held, books>>

Reserve_Unchecked(w) ==
    /\ pc[w] = "reserve"
    /\ Goto(w, "reserving")
    /\ UNCHANGED <<circuits, local, held, books>>

\* BudgetGuard.reserve_usage: what has been recorded as spent, and nothing of
\* what is only reserved, is held against the hard limit.
Reserve(w) ==
    /\ pc[w] = "reserve"
    /\ Goto(w, IF spent + Estimate > HardLimit THEN "raised" ELSE "reserving")
    /\ UNCHANGED <<circuits, local, held, books>>

\* The guard commits the reserve events; only when it has returned does the
\* caller know that it holds a reservation.
RecordReservation(w) ==
    /\ pc[w] = "reserving"
    /\ LedgerEvent(w, "reserve")
    /\ resv' = [resv EXCEPT ![w] = "open"]
    /\ Goto(w, "plan")
    /\ UNCHANGED <<circuits, local, interrupted, books>>

\* Routing: the router's plan for the deployments the request matches.  A
\* connection test that names a known deployment takes it, unfiltered; one that
\* names an unknown deployment matches nothing.
Plan(w) ==
    /\ pc[w] = "plan"
    /\ \E cand \in CandidateSets :
          \/ /\ kind[w] = "explicit_test"
             /\ Cardinality(cand) = 1
             /\ cand \subseteq Registered
             /\ todo' = [todo EXCEPT ![w] = cand]
             /\ Goto(w, "attempt")
             /\ UNCHANGED circuits
          \/ /\ circuits' = Queried(cand)
             /\ todo' = [todo EXCEPT ![w] = Routes(cand, circuits')]
             /\ Goto(w, IF todo'[w] = {} THEN "unroutable" ELSE "attempt")
    /\ UNCHANGED <<kind, shown, cost, ok, held, books>>

\* The HTTPException of plan.  chat and test_connection write the failed usage
\* row before they release; when that write fails too, nothing is released.
Unroutable(w) ==
    /\ pc[w] = "unroutable"
    /\ Goto(w, "raised")
    /\ \/ Release(w)
       \/ DbFaults /\ kind[w] # "stream" /\ UNCHANGED <<resv, ledger>>
    /\ UNCHANGED <<circuits, local, interrupted, books>>

\* adapter.stream_chat yields a non-empty delta to the client.
Delta(w) ==
    /\ pc[w] = "attempt" /\ kind[w] = "stream"
    /\ shown' = [shown EXCEPT ![w] = @ \cup {Current(w)}]
    /\ UNCHANGED <<circuits, pc, kind, todo, cost, ok, held, books>>

\* The adapter returns (the stream is exhausted, the test succeeds).
AdapterReturns(w) ==
    /\ pc[w] = "attempt"
    /\ RecordSuccess(Current(w))
    /\ Goto(w, IF kind[w] \in Tests THEN "record" ELSE "settle")
    /\ \E c \in Costs : cost' = [cost EXCEPT ![w] = c]
    /\ ok' = [ok EXCEPT ![w] = TRUE]
    /\ UNCHANGED <<kind, todo, shown, held, books>>

\* The adapter raises.  An explicit test may carry temporary credentials, so
\* it can fail on a deployment that serves every other call.
CanFail(w) == Current(w) \notin Healthy \/ kind[w] = "explicit_test"

\* Variant: the failure is recorded for the last route of the plan.
AdapterRaises_BlamesLast(w) ==
    /\ pc[w] = "attempt" /\ CanFail(w)
    /\ RecordFailure(CHOOSE d \in todo[w] : \A e \in todo[w] : Priority[d] >= Priority[e])
    /\ Goto(w, "failed")
    /\ UNCHANGED <<local, held, books>>

AdapterRaises(w) ==
    /\ pc[w] = "attempt" /\ CanFail(w)
    /\ RecordFailure(Current(w))
    /\ Goto(w, "failed")
    /\ UNCHANGED <<local, held, books>>

\* stream_chat lets an HTTPException of the adapter through: no failure is
\* recorded and no other route is tried.
StreamHttpError(w) ==
    /\ pc[w] = "attempt" /\ kind[w] = "stream" /\ CanFail(w)
    /\ Goto(w, "raised")
    /\ Release(w)
    /\ UNCHANGED <<circuits, local, interrupted, books>>

\* test_connection: the adapter answers with result.ok = False.
TestReportsFailure(w) ==
    /\ pc[w] = "attempt" /\ kind[w] \in Tests /\ CanFail(w)
    /\ RecordFailure(Current(w))
    /\ Goto(w, "record")
    /\ ok' = [ok EXCEPT ![w] = FALSE]
    /\ UNCHANGED <<kind, todo, shown, cost, held, books>>

\* The soft budget alerts on the call that crosses its threshold, computed
\* from what was spent before this call's own usage row is written.
Crosses(w) == spent < SoftLimit /\ spent + cost[w] >= SoftLimit

\* BudgetGuard.settle.  Only stream_chat remembers that its reservation is
\* no longer open.
Settle(w) ==
    /\ pc[w] = "settle"
    /\ Goto(w, "record")
    /\ LedgerEvent(w, "settle")
    /\ resv' = IF kind[w] = "stream" THEN [resv EXCEPT ![w] = "closed"] ELSE resv
    /\ \/ alerts' = IF Crosses(w) THEN alerts + 1 ELSE alerts
       \/ DbFaults /\ UNCHANGED alerts
    /\ UNCHANGED <<circuits, local, interrupted, spent, started>>

\* Reading the soft budget's usage raises after the settle event is written;
\* the handler blames the deployment.
SettleRaises(w) ==
    /\ DbFaults /\ pc[w] = "settle"
    /\ LedgerEvent(w, "settle")
    /\ RecordFailure(Current(w))
    /\ Goto(w, "failed")
    /\ UNCHANGED <<local, resv, interrupted, books>>

\* Variant: the usage is taken off the total.
RecordUsage_Subtracts(w) ==
    /\ pc[w] = "record" /\ kind[w] \notin Tests
    /\ spent' = spent - cost[w]
    /\ Goto(w, "returned")
    /\ UNCHANGED <<circuits, local, held, alerts, started>>

\* usage.record_success, the last thing a successful call does.
RecordUsage(w) ==
    /\ pc[w] = "record" /\ kind[w] \notin Tests
    /\ spent' = spent + cost[w]
    /\ Goto(w, "returned")
    /\ UNCHANGED <<circuits, local, held, alerts, started>>

\* usage.record_connection_test; the reservation of a test is always released.
RecordTest(w) ==
    /\ pc[w] = "record" /\ kind[w] \in Tests
    /\ IF ok[w] \/ kind[w] = "explicit_test" \/ IsLast(w)
       THEN /\ Release(w)
            /\ Goto(w, "returned")
            /\ UNCHANGED todo
       ELSE /\ todo' = [todo EXCEPT ![w] = @ \ {Current(w)}]
            /\ Goto(w, "attempt")
            /\ UNCHANGED <<resv, ledger>>
    /\ UNCHANGED <<circuits, kind, shown, cost, ok, interrupted, books>>

\* The usage row cannot be written: handled like a failure of the adapter.
RecordRaises(w) ==
    /\ DbFaults /\ pc[w] = "record"
    /\ RecordFailure(Current(w))
    /\ Goto(w, "failed")
    /\ UNCHANGED <<local, held, books>>

\* A failed attempt is the last one: no route is left, the test was explicit, or
\* the client already saw some content.
NoFallback(w) == IsLast(w) \/ kind[w] = "explicit_test" \/ Current(w) \in shown[w]

\* Variants: a partial answer does not stop the fallback; the last failure does
\* not release; the failed route is tried again.
NextRoute_IgnoresPartial(w) ==
    /\ pc[w] = "failed"
    /\ IF IsLast(w) \/ kind[w] = "explicit_test"
       THEN /\ Release(w)
            /\ Goto(w, "raised")
            /\ UNCHANGED todo
       ELSE /\ todo' = [todo EXCEPT ![w] = @ \ {Current(w)}]
            /\ Goto(w, "attempt")
            /\ UNCHANGED <<resv, ledger>>
    /\ UNCHANGED <<circuits, kind, shown, cost, ok, interrupted, books>>

NextRoute_Leaks(w) ==
    /\ pc[w] = "failed"
    /\ IF NoFallback(w)
       THEN Goto(w, "raised") /\ UNCHANGED todo
       ELSE /\ todo' = [todo EXCEPT ![w] = @ \ {Current(w)}]
            /\ Goto(w, "attempt")
    /\ UNCHANGED <<circuits, kind, shown, cost, ok, held, books>>

NextRoute_SameAgain(w) ==
    /\ pc[w] = "failed"
    /\ Goto(w, "attempt")
    /\ UNCHANGED <<circuits, local, held, books>>

\* The failed attempt is written, and the next route tried or the call given up.
NextRoute(w) ==
    /\ pc[w] = "failed"
    /\ IF NoFallback(w)
       THEN /\ Release(w)
            /\ Goto(w, "raised")
            /\ UNCHANGED todo
       ELSE /\ todo' = [todo EXCEPT ![w] = @ \ {Current(w)}]
            /\ Goto(w, "attempt")
            /\ UNCHANGED <<resv, ledger>>
    /\ UNCHANGED <<circuits, kind, shown, cost, ok, interrupted, books>>

\* Writing the failed attempt raises as well: the call is given up.
GiveUp(w) ==
    /\ DbFaults /\ pc[w] = "failed"
    /\ Release(w)
    /\ Goto(w, "raised")
    /\ UNCHANGED <<circuits, local, interrupted, books>>

\* Variant: nobody catches the cancellation of a stream.
Cancel_Uncaught(w) ==
    /\ Cancels /\ pc[w] \in Awaits
    /\ Goto(w, "raised")
    /\ UNCHANGED <<circuits, local, held, books>>

\* The events a cancelled await may have committed.
Writing(w) ==
    CASE pc[w] = "reserving" -> {"reserve"}
      [] pc[w] = "settle" -> {"settle"}
      [] pc[w] = "unroutable" -> {"release"}
      [] pc[w] = "failed" /\ (NoFallback(w) \/ DbFaults) -> {"release"}
      [] pc[w] = "record" /\ kind[w] \in Tests -> {"release"}
      [] OTHER -> {}

Written(w, es) ==
    ledger' = [ledger EXCEPT ![w] =
                  [e \in DOMAIN NoEvents |-> @[e] + (IF e \in es THEN 1 ELSE 0)]]

\* CancelledError at an await.  Only stream_chat catches it, to release a
\* reservation it knows to hold; that release can be cancelled as well.
Cancel(w) ==
    /\ Cancels /\ pc[w] \in Awaits
    /\ Goto(w, "raised")
    /\ \E done \in SUBSET Writing(w) :
          /\ IF kind[w] = "stream" /\ resv[w] = "open"
             THEN \/ /\ \/ Written(w, done \cup {"release"})
                        \/ DbFaults /\ Written(w, done)
                     /\ resv' = [resv EXCEPT ![w] = "closed"]
                     /\ UNCHANGED interrupted
                  \/ /\ \E again \in SUBSET {"release"} : Written(w, done \cup again)
                     /\ interrupted' = [interrupted EXCEPT ![w] = TRUE]
                     /\ UNCHANGED resv
             ELSE /\ Written(w, done)
                  /\ interrupted' = [interrupted EXCEPT ![w] = (pc[w] = "reserving")]
                  /\ UNCHANGED resv
          /\ \/ UNCHANGED alerts
             \/ "settle" \in done /\ Crosses(w) /\ alerts' = alerts + 1
    /\ \/ UNCHANGED spent
       \/ pc[w] = "record" /\ kind[w] \notin Tests /\ spent' = spent + cost[w]
    /\ UNCHANGED <<circuits, local, started>>

Tick ==
    /\ circuits' = [d \in Deployments |-> Aged(circuits[d])]
    /\ UNCHANGED <<pc, local, held, books>>

\* The handler's own progress, once the adapter answers.
Step(w) ==
    \/ Refuse(w) \/ Reserve(w) \/ RecordReservation(w) \/ Plan(w) \/ Unroutable(w)
    \/ AdapterReturns(w) \/ AdapterRaises(w) \/ StreamHttpError(w)
    \/ TestReportsFailure(w)
    \/ Settle(w) \/ SettleRaises(w)
    \/ RecordUsage(w) \/ RecordTest(w) \/ RecordRaises(w)
    \/ NextRoute(w) \/ GiveUp(w)

Next ==
    \/ \E w \in Workers :
          \/ \E k \in Kinds : Start(w, k)
          \/ Step(w)
          \/ Delta(w)
          \/ Cancel(w)
    \/ Tick

Spec == Init /\ [][Next]_vars

\* Adapters have timeouts and the event loop resumes every handler.
FairSpec == Spec /\ \A w \in Workers : WF_vars(Step(w))

-----------------------------------------------------------------------------
\* Calls that were let past the budget and can still add to what is spent.
Admitted == {w \in Workers : pc[w] \in Awaits \ {"reserve"}}

\* A client never sees the output of two deployments in one answer: once a
\* delta has been yielded stream_chat does not fall back.
SingleSource == \A w \in Workers : Cardinality(shown[w]) <= 1

\* Reservations are not held against the limit, so calls in flight together
\* can overspend a hard budget; but never by more than the calls in flight
\* cost, since the next call to be admitted sees what they have spent.
OverspendIsBounded ==
    \/ spent = 0 /\ Admitted = {}
    \/ spent + Estimate + MaxCost * Cardinality(Admitted)
          <= HardLimit + MaxCost * Cardinality(Workers)

\* What docs/cost-governance.md promises of a hard budget, when no call costs
\* more than its estimate.
HardLimitHolds == spent <= HardLimit

\* Every call that got a reservation has exactly one closing event when it
\* ends: settled if it returned a model's answer, released otherwise.
ClosedExactlyOnce ==
    \A w \in Workers :
        pc[w] \in {"returned", "raised"} /\ ledger[w].reserve = 1 =>
            IF pc[w] = "returned" /\ kind[w] \notin Tests
            THEN ledger[w].settle = 1 /\ ledger[w].release = 0
            ELSE ledger[w].settle = 0 /\ ledger[w].release = 1

\* However a stream ends, by an answer, a failed route, a database fault or a
\* client that goes away, its reservation is closed: unless the client goes away
\* exactly while the guard writes the reservation, before stream_chat has it, or
\* the release itself is cancelled.
StreamsCloseUnlessInterrupted ==
    \A w \in Workers :
        /\ kind[w] = "stream" /\ pc[w] \in Ended
        /\ ledger[w].reserve > 0 \/ resv[w] # "none"
        => resv[w] = "closed" \/ interrupted[w]

\* The breaker's account of a deployment is of the deployment's own calls:
\* one that never fails is never taken out of the routing.
HealthyStaysClosed == \A d \in Healthy : circuits[d].state = Closed

\* Every call ends, whichever routes fail.
CallsEnd == \A w \in Workers : pc[w] \in Awaits ~> pc[w] \in Ended
=============================================================================
