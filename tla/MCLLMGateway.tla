---------------------------- MODULE MCLLMGateway ----------------------------
(* Instances of LLMGateway for TLC. *)
EXTENDS LLMGateway, TLC

CONSTANTS d1, d2, w1, w2

MCDeployments == {d1, d2}
MCPriority == (d1 :> 1 @@ d2 :> 2)
OneWorker == {w1}
TwoWorkers == {w1, w2}
AllMatch == {MCDeployments}
AnyMatch == SUBSET MCDeployments
=============================================================================
