--------------------------- MODULE MCEmployeeDesk ---------------------------
(***************************************************************************)
(* Two employees in two categories, each with a conversation that may exist *)
(* or be opened, and a generic one.                                         *)
(***************************************************************************)
EXTENDS EmployeeDesk, TLC

MCEmployees == {"anna", "ben"}
MCCategoryOf == "anna" :> "hr" @@ "ben" :> "media"
MCConversations == {"a", "b", "generic"}
MCAgentOf == "a" :> "anna" @@ "b" :> "ben" @@ "generic" :> None

\* Calls differ by nothing but their name.
MCSymmetry == Permutations(Calls)
=============================================================================
