-------------------------- MODULE MCDocumentIngest --------------------------
(* A small instance of DocumentIngest for TLC. *)
EXTENDS DocumentIngest, TLC

CONSTANTS u1, u2, acme, umbrella, manual, blank

\* Four words make two overlapping pieces of at most three; a section of one
\* word follows; the other file has no text.
MCSections == (manual :> <<4, 1>> @@ blank :> <<0>>)

\* Uploaders are interchangeable.
Symmetry == Permutations({u1, u2})
=============================================================================
