------------------------- MODULE MCOnboardingWizard -------------------------
(* Small instances of OnboardingWizard for TLC. *)
EXTENDS OnboardingWizard, TLC

CONSTANTS m1, m2, rpm, oil, speed, temperature

\* Admins are interchangeable, and so are keys and aliases.
Symmetry ==
    Permutations({m1, m2}) \cup Permutations({rpm, oil}) \cup Permutations({speed, temperature})
=============================================================================
