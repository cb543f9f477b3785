-------------------------- MODULE MCKnowledgePage --------------------------
(***************************************************************************)
(* The knowledge page alone, for a user who may write, with a bound on what *)
(* the user does.                                                           *)
(***************************************************************************)
EXTENDS KnowledgePage

CONSTANT MaxCommands

VARIABLE commands

MCInit == KnowledgeInit /\ commands = 0

MCNext ==
    \/ /\ commands < MaxCommands /\ commands' = commands + 1
       /\ KnowledgeRead \/ KnowledgeWrite
    \/ KnowledgeAnswer /\ UNCHANGED commands

MCSpec == MCInit /\ [][MCNext]_<<knowledge, commands>>
=============================================================================
