----------------------------- MODULE MCCatalog -----------------------------
(* The instance of Catalog that TLC checks.                                *)
EXTENDS Catalog, TLC

RequestSymmetry == Permutations(Requests)
=============================================================================
