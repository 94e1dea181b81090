------------------------ MODULE MCDogfoodTransaction ------------------------
(* Instance of DogfoodTransaction for TLC. *)
EXTENDS DogfoodTransaction, TLC

CONSTANTS p1, p2, g1, r1, r2, o1, o2, none

MCSymmetry ==
    Permutations(Operators) \cup Permutations(RunIds) \cup Permutations(Outs)
=============================================================================
