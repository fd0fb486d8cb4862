------------------------- MODULE MCFeedbackFlywheel -------------------------
(* Small instances of FeedbackFlywheel for TLC. *)
EXTENDS FeedbackFlywheel, TLC

CONSTANTS a1, a2, speed, wrong, s1, s2

\* Actors are interchangeable; the SQL texts are not, NoJob picks one.
Symmetry == Permutations({a1, a2})
=============================================================================
