-------------------------- MODULE MCKnowledgeCache --------------------------
(* A small instance of KnowledgeCache for TLC. *)
EXTENDS KnowledgeCache, TLC

CONSTANTS acme, r1, u1

MCMaxWrites == (acme :> [keys |-> 2, aliases |-> 2, examples |-> 2])
=============================================================================
