--------------------------- MODULE PaymentLedger ----------------------------
(***************************************************************************)
(* What becomes of payments, whatever the handlers do: a code is settled   *)
(* or fails once; an order is credited because a code of its own settled   *)
(* or while it is at the till; only then does its bell ring; an answer to  *)
(* the payment gateway comes after both; and nothing is ever taken back.   *)
(* (docs/flow/master-cafe-activity-flow.md, 33-34: by QRIS or at the till, *)
(* an order enters the queue of the kitchen when it is paid.)              *)
(***************************************************************************)
CONSTANTS
    Codes, Orders,
    NoCharge     \* a code that was not asked for yet

VARIABLES
    charges,     \* the codes: their order, their state, whether answered
    atTill,      \* orders that staff are about to mark as paid
    credited,    \* orders that count as paid
    rung         \* orders that the kitchen was told of

vars == <<charges, atTill, credited, rung>>

Init ==
    /\ charges = [c \in Codes |-> NoCharge]
    /\ atTill = {}
    /\ credited = {}
    /\ rung = {}

Charge(c, o) ==
    /\ charges[c] = NoCharge
    /\ charges' = [charges EXCEPT ![c] = [order |-> o, state |-> "open",
                                          acked |-> FALSE]]
    /\ UNCHANGED <<atTill, credited, rung>>

Decide(c, result) ==
    /\ charges[c].state = "open"
    /\ charges' = [charges EXCEPT ![c].state = result]
    /\ UNCHANGED <<atTill, credited, rung>>

CreditByCode(c) ==
    /\ charges[c].state = "settled"
    /\ credited' = credited \cup {charges[c].order}
    /\ UNCHANGED <<charges, atTill, rung>>

BringToTill(o) ==
    /\ atTill' = atTill \cup {o}
    /\ UNCHANGED <<charges, credited, rung>>

\* Another handler may have the same order at the till.
CreditAtTill(o) ==
    /\ o \in atTill
    /\ credited' = credited \cup {o}
    /\ atTill' \in {atTill, atTill \ {o}}
    /\ UNCHANGED <<charges, rung>>

\* The till forgets some of what it was about to do, or all of it.
AbandonTill ==
    /\ atTill' \in SUBSET atTill
    /\ UNCHANGED <<charges, credited, rung>>

Ring(o) ==
    /\ o \in credited
    /\ rung' = rung \cup {o}
    /\ UNCHANGED <<charges, atTill, credited>>

AnswerSettled(c) ==
    /\ charges[c].state = "settled"
    /\ charges[c].order \in credited
    /\ rung' = rung \cup {charges[c].order}
    /\ charges' = [charges EXCEPT ![c].acked = TRUE]
    /\ UNCHANGED <<atTill, credited>>

AnswerFailed(c) ==
    /\ charges[c].state = "failed"
    /\ charges' = [charges EXCEPT ![c].acked = TRUE]
    /\ UNCHANGED <<atTill, credited, rung>>

Next ==
    \/ \E c \in Codes, o \in Orders : Charge(c, o)
    \/ \E c \in Codes, result \in {"settled", "failed"} : Decide(c, result)
    \/ \E c \in Codes : CreditByCode(c) \/ AnswerSettled(c) \/ AnswerFailed(c)
    \/ \E o \in Orders : BringToTill(o) \/ CreditAtTill(o) \/ Ring(o)
    \/ AbandonTill

Spec == Init /\ [][Next]_vars
=============================================================================
