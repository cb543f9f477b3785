----------------------------- MODULE MCConsole -----------------------------
(***************************************************************************)
(* A tab of two accounts, one that sees every page in both workspaces and   *)
(* one that sees few and has no workspace of administration.                *)
(***************************************************************************)
EXTENDS Console

MCUsers == {"enterprise_admin", "employee"}
MCTargets == {"chatConsole", "mediaGeneration", "knowledgeBases", "builder"}
=============================================================================
