---------------------------- MODULE MCDogfoodRun ----------------------------
(* Instance of DogfoodRun for TLC. *)
EXTENDS DogfoodRun, TLC

CONSTANTS r1, r2, r3, none

MCSymmetry == Permutations(RunIds)
=============================================================================
