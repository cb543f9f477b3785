----------------------------- MODULE MCMediaJob -----------------------------
(* Instances of MediaJob for TLC. *)
EXTENDS MediaJob, TLC

CONSTANTS w1, w2, r1, r2

OneWorker == {w1}
TwoWorkers == {w1, w2}
OneRequest == {r1}
TwoRequests == {r1, r2}
RequestSymmetry == Permutations({r1, r2})
=============================================================================
