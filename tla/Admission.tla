----------------------------- MODULE Admission -----------------------------
(***************************************************************************)
(* What the limiter of agent executions promises: among the executions that *)
(* run at a time, at most Limit[s] count against the scope s.  There are no *)
(* counters here: who runs is the whole state.                              *)
(***************************************************************************)
EXTENDS Integers, FiniteSets

CONSTANTS
    Requests,    \* executions that ask to run
    Scopes,      \* tenants, users of a tenant, agents of a tenant
    Candidates,  \* the scopes of each request
    Limit        \* the limit of each scope; 0 means unlimited

VARIABLE inside  \* the executions that run

\* The scopes a request counts against: those with a limit.
Claims(r) == {s \in Candidates[r] : Limit[s] > 0}

Users(S, s) == {r \in S : s \in Claims(r)}

Full(S, s) == Cardinality(Users(S, s)) >= Limit[s]

Init == inside = {}

Admit(r) ==
    /\ r \notin inside
    /\ \A s \in Claims(r) : ~Full(inside, s)
    /\ inside' = inside \cup {r}

Leave(r) == r \in inside /\ inside' = inside \ {r}

Next == \E r \in Requests : Admit(r) \/ Leave(r)

Spec == Init /\ [][Next]_inside
=============================================================================
