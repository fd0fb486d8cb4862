------------------------- MODULE MCConversationFlow -------------------------
(* Small instances of ConversationFlow for TLC. *)
EXTENDS ConversationFlow, TLC

CONSTANTS w1, w2, acme, umbrella

BothWorkers == {w1, w2}
BothTenants == {acme, umbrella}

\* Tenants and workers are only compared for equality, so safety runs may
\* treat them as interchangeable.
Symmetry == Permutations(BothWorkers) \cup Permutations(BothTenants)
=============================================================================
