------------------------- MODULE MCAgentConcurrency -------------------------
(* Two tenants.  In the first, which may run two agents at a time, agent a1 *)
(* and user u1 may each take part in one execution only.                    *)
EXTENDS AgentConcurrency, TLC

Caller(tenant, user, agent) ==
    {<<"tenant", tenant>>, <<"user", tenant, user>>, <<"agent", tenant, agent>>}

Callers == <<Caller("t1", "u1", "a1"), Caller("t1", "u2", "a1"),
             Caller("t1", "u1", "a2"), Caller("t1", "u3", "a2"),
             Caller("t2", "u1", "a1")>>

FiveRequests == DOMAIN Callers

AllScopes == UNION {Callers[r] : r \in FiveRequests}

Limits == [s \in AllScopes |->
              CASE s[1] = "tenant" -> 2
                [] s = <<"user", "t1", "u1">> -> 1
                [] s = <<"agent", "t1", "a1">> -> 1
                [] OTHER -> 0]
=============================================================================
