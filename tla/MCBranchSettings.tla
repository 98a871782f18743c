-------------------------- MODULE MCBranchSettings --------------------------
(* The instance of BranchSettings that TLC checks: two default templates,   *)
(* and an admin who makes one of them as well.                             *)
EXTENDS BranchSettings, TLC

MCDefaultCodes == <<"PAGI", "SORE">>
MCAdminCodes == {"SORE"}
RequestSymmetry == Permutations(Requests)
=============================================================================
