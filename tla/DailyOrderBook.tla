--------------------------- MODULE DailyOrderBook ---------------------------
(***************************************************************************)
(* What the order numbers of the cafe promise, whatever the handlers do:   *)
(* for each calendar day there is a book of numbers, and the only thing    *)
(* that ever happens to it is that the next number is written into it.     *)
(* "Generates readable sequential order number: ORD-YYYYMMDD-XXX"          *)
(* (orders.service.ts, generateOrderNumber).                               *)
(***************************************************************************)
EXTENDS Naturals, FiniteSets

CONSTANT Days

VARIABLE book    \* book[d]: the sequence numbers carried by the orders of day d

Init == book = [d \in Days |-> {}]

Issue(d) == book' = [book EXCEPT ![d] = @ \cup {Cardinality(@) + 1}]

Next == \E d \in Days : Issue(d)

Spec == Init /\ [][Next]_book
=============================================================================
