--------------------------- MODULE MCAuthSession ---------------------------
(* The instance of AuthSession that TLC checks.                            *)
EXTENDS AuthSession, TLC

AuthSymmetry == Permutations(Requests) \cup Permutations(Users) \cup Permutations(Keys)
=============================================================================
