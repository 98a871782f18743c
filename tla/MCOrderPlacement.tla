-------------------------- MODULE MCOrderPlacement --------------------------
(* The instance of OrderPlacement that TLC checks.                         *)
EXTENDS OrderPlacement

CONSTANTS r1, r2, t1, latte, toast

MCRequests == {r1, r2}
MCTables == {t1}
MCItems == {latte, toast}
MCPrices == {1, 2}
MCCarts == {<<latte, toast>>, <<toast, toast>>}
MCOpeningMenu ==
    [i \in MCItems |-> [price |-> 1, promo |-> NoPrice, state |-> "on_sale"]]
=============================================================================
