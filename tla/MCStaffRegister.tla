-------------------------- MODULE MCStaffRegister --------------------------
(* The instance of StaffRegister that TLC checks.                          *)
EXTENDS StaffRegister, TLC

EditorSymmetry == Permutations(Editors)
=============================================================================
