------------------------------ MODULE MCIntake -------------------------------
(***************************************************************************)
(* Small instances of Intake for TLC.                                      *)
(***************************************************************************)
EXTENDS Intake, TLC

Symmetric ==
  Permutations(Onboarding) \cup Permutations(Taking) \cup Permutations(Slug)
    \cup Permutations(Uei)
=============================================================================
