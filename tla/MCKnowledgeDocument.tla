------------------------- MODULE MCKnowledgeDocument -------------------------
(***************************************************************************)
(* Instance for TLC.  Sessions and documents differ by their names alone.   *)
(***************************************************************************)
EXTENDS KnowledgeDocument, TLC

MCSymmetry == Permutations(Sessions) \cup Permutations(Documents)
=============================================================================
