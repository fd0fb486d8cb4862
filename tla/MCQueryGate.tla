---------------------------- MODULE MCQueryGate ----------------------------
(* Small instances of QueryGate for TLC. *)
EXTENDS QueryGate, TLC

CONSTANTS h1, h2, acme, umbrella

\* Threads are interchangeable.
Symmetry == Permutations(Threads)
=============================================================================
