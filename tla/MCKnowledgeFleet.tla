-------------------------- MODULE MCKnowledgeFleet --------------------------
(* A small instance of KnowledgeFleet for TLC. *)
EXTENDS KnowledgeFleet, TLC

CONSTANTS acme, umbrella, r1, r2, u1

\* Every section of one tenant is written; the other is only onboarded, and
\* competes for the room in the cache.
MCMaxWrites ==
    (acme :> [keys |-> 1, aliases |-> 1, examples |-> 1] @@
     umbrella :> [keys |-> 1, aliases |-> 0, examples |-> 0])

\* Readers are interchangeable; tenants are not, NoRead picks one.
Symmetry == Permutations({r1, r2})
=============================================================================
