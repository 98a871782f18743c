---------------------------- MODULE MCCafeFloor -----------------------------
(* The instances of CafeFloor that TLC checks; each cfg picks its sets.    *)
EXTENDS CafeFloor

AllStatuses == OrderStatus
NoStatuses == {}
ServingSets == {"PREPARING", "SERVED"}
HandSets == {"VACANT", "OCCUPIED", "WAITING_PAYMENT"}
=============================================================================
