-------------------------- MODULE AgentConcurrency --------------------------
(***************************************************************************)
(* The limiter of agent executions in one backend process                   *)
(* (app/services/agent_concurrency.py).  Chats enter it before they run an  *)
(* agent and leave it however they end.                                     *)
(*                                                                          *)
(* What is done under the lock has no await in it and is one step.  A       *)
(* request that is blocked sleeps and looks again until its deadline; the   *)
(* sleeps of a request are counted, and as the event loop may be late the   *)
(* deadline may have come after any of them.                                *)
(***************************************************************************)
EXTENDS Integers, FiniteSets

CONSTANTS
    Requests,    \* requests that run agents
    Scopes,      \* keys of the table of counters
    Candidates,  \* tenant, user and agent scope of each request
    Limit,       \* the configured limit of each scope; 0 means unlimited
    MaxSleeps    \* sleeps that fit into agent_concurrency_wait_timeout_seconds

ASSUME ConcurrencyAssumption ==
    /\ IsFiniteSet(Requests)
    /\ Candidates \in [Requests -> SUBSET Scopes]
    /\ Limit \in [Scopes -> Nat]
    /\ MaxSleeps \in Nat

VARIABLES
    active,  \* the counters; 0 where the table has no entry
    phase,   \* where each request is
    slept    \* how often it has slept

vars == <<active, phase, slept>>

Phases == {"idle", "waiting", "inside", "refused"}

TypeOK ==
    /\ active \in [Scopes -> Nat]
    /\ phase \in [Requests -> Phases]
    /\ slept \in [Requests -> 0..MaxSleeps]

Init ==
    /\ active = [s \in Scopes |-> 0]
    /\ phase = [r \in Requests |-> "idle"]
    /\ slept = [r \in Requests |-> 0]

inside == {r \in Requests : phase[r] = "inside"}

Promise == INSTANCE Admission
           WITH Requests <- Requests, Scopes <- Scopes, Candidates <- Candidates,
                Limit <- Limit, inside <- inside

-----------------------------------------------------------------------------
\* Variant: a limit of 0 claims its scope like any other.
Slots_Unfiltered(r) == Candidates[r]

Slots(r) == {s \in Candidates[r] : Limit[s] > 0}

\* Variant: one execution too many is let in.
Blocked_OffByOne(r) == {s \in Slots(r) : active[s] > Limit[s]}

\* The scopes that keep a request out.
Blocked(r) == {s \in Slots(r) : active[s] >= Limit[s]}

\* An entry that falls to zero is removed from the table.
Lowered(n) == IF n <= 1 THEN 0 ELSE n - 1

GotoPhase(r, p) == phase' = [phase EXCEPT ![r] = p]

Arrive(r) ==
    /\ phase[r] \in {"idle", "refused"}
    /\ GotoPhase(r, "waiting")
    /\ slept' = [slept EXCEPT ![r] = 0]
    /\ UNCHANGED active

\* Variant: the counters are raised up to the first scope that is full.
Acquire_Partial(r) ==
    /\ phase[r] = "waiting" /\ Blocked(r) # Slots(r)
    /\ active' = [s \in Scopes |->
                     IF s \in Slots(r) \ Blocked(r) THEN active[s] + 1 ELSE active[s]]
    /\ IF Blocked(r) = {} THEN GotoPhase(r, "inside") ELSE UNCHANGED phase
    /\ UNCHANGED slept

\* All the scopes have room: all their counters are raised at once.
Acquire(r) ==
    /\ phase[r] = "waiting" /\ Blocked(r) = {}
    /\ active' = [s \in Scopes |-> IF s \in Slots(r) THEN active[s] + 1 ELSE active[s]]
    /\ GotoPhase(r, "inside")
    /\ UNCHANGED slept

\* Variant: a sleep starts the wait anew.
Sleep_NewDeadline(r) ==
    /\ phase[r] = "waiting" /\ Blocked(r) # {}
    /\ slept' = [slept EXCEPT ![r] = (@ + 1) % (MaxSleeps + 1)]
    /\ UNCHANGED <<active, phase>>

Sleep(r) ==
    /\ phase[r] = "waiting" /\ Blocked(r) # {}
    /\ slept[r] < MaxSleeps
    /\ slept' = [slept EXCEPT ![r] = @ + 1]
    /\ UNCHANGED <<active, phase>>

Refuse(r) ==
    /\ phase[r] = "waiting" /\ Blocked(r) # {}
    /\ GotoPhase(r, "refused")
    /\ UNCHANGED <<active, slept>>

\* The client goes away while the request sleeps.
Abandon(r) ==
    /\ phase[r] = "waiting"
    /\ GotoPhase(r, "idle")
    /\ UNCHANGED <<active, slept>>

\* The execution returns, raises or is cancelled.
Leave(r) ==
    /\ phase[r] = "inside"
    /\ active' = [s \in Scopes |-> IF s \in Slots(r) THEN Lowered(active[s]) ELSE active[s]]
    /\ GotoPhase(r, "idle")
    /\ UNCHANGED slept

-----------------------------------------------------------------------------
\* The loop of _acquire.
Look(r) == Acquire(r) \/ Sleep(r) \/ Refuse(r)

Next == \E r \in Requests : Arrive(r) \/ Look(r) \/ Abandon(r) \/ Leave(r)

Spec == Init /\ [][Next]_vars

\* A request that waits looks again; executions need not end.
FairSpec == Spec /\ \A r \in Requests : WF_vars(Look(r))

-----------------------------------------------------------------------------
\* The executions that run under a scope.
Running(s) == {r \in inside : s \in Candidates[r]}

\* No slot is ever lost or given back twice: a counter is the number of the
\* executions that run under its scope, through waits, refusals and requests
\* that go away.
Accounted ==
    \A s \in Scopes : Limit[s] > 0 => active[s] = Cardinality(Running(s))

\* The counters keep the promise: nobody is let in beyond a limit, whatever
\* other scopes the executions have in common.
KeepsPromise == Promise!Spec

\* A request is refused only while one of its limits is used up by executions
\* that really run.
RefusedOnlyWhenFull ==
    [][\A r \in Requests :
          phase[r] = "waiting" /\ phase'[r] = "refused"
              => \E s \in Candidates[r] :
                    Limit[s] > 0 /\ Cardinality(Running(s)) = Limit[s]]_vars

\* No request waits for ever, even if no execution ends.
Answered == \A r \in Requests : phase[r] = "waiting" ~> phase[r] # "waiting"
=============================================================================
