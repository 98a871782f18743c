---------------------------- MODULE MCMenuCache -----------------------------
(* The instance of MenuCache that TLC checks.                              *)
EXTENDS MenuCache

CONSTANTS espresso, onSale

MCItems == {espresso}
MCLists == {onSale}
MCListShows == [k \in MCLists |-> "on_sale"]
MCGroups == {{}, MCItems}
=============================================================================
