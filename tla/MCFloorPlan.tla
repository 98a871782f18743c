---------------------------- MODULE MCFloorPlan ----------------------------
(* The instance of FloorPlan that TLC checks.                              *)
EXTENDS FloorPlan, TLC

RequestSymmetry == Permutations(Requests)
=============================================================================
