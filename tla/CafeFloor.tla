----------------------------- MODULE CafeFloor ------------------------------
(***************************************************************************)
(* The life of an order on the cafe floor: OrdersService.updateStatus,     *)
(* PaymentsService, the session and reset operations of TablesService, and *)
(* the broadcasts of EventsGateway, over the rows they share.              *)
(*                                                                         *)
(* A handler is split at its awaits.  A first read that only looks up an   *)
(* id is merged with the write after it: orders are never deleted, their   *)
(* tableId never changes, and a table with an order cannot be deleted, so  *)
(* nothing another handler does can change what that read returns.  The    *)
(* broadcast after the write is a step of its own, because other handlers  *)
(* run while the write is awaited.                                         *)
(*                                                                         *)
(* The payment gateway is external: it settles a QRIS code or lets it      *)
(* expire, once, and repeats its notification until one is acknowledged.   *)
(***************************************************************************)
EXTENDS Naturals, FiniteSets

CONSTANTS
    Tables, Guests, Orders,
    Codes,        \* QRIS transactions
    Staff,        \* staff requests in flight: PATCH order status
    Calls,        \* webhook notifications in flight
    Desks,        \* session, reset and table edits in flight
    NoGuest,      \* activeCustomerName is null
    NoCode,       \* the handler does not serve a notification
    StaffSets,    \* order statuses that staff send
    DeskSets,     \* table statuses set by hand with PATCH table
    MaxCrashes    \* bound on server crashes

OrderStatus == {"PENDING", "PREPARING", "SERVED", "PAID", "CANCELLED"}
TableStatus == {"VACANT", "OCCUPIED", "WAITING_PAYMENT", "WAITING_CLEANUP"}

ASSUME FloorAssumption ==
    /\ Staff \cap Calls = {}
    /\ NoGuest \notin Guests
    /\ NoCode \notin Codes
    /\ StaffSets \subseteq OrderStatus
    /\ DeskSets \subseteq TableStatus
    /\ MaxCrashes \in Nat

VARIABLES
    tables,       \* rows of the tables table
    orders,       \* rows of the orders table
    codes,        \* the gateway's record of the QRIS codes, and its acknowledgements
    job,          \* handlers that write orders
    desk,         \* handlers that write tables only
    bells,        \* orders for which order:new rang in the kitchen
    orderScreen,  \* last order:status_changed seen by the screens, per order
    tableScreen,  \* last table:status_changed seen by the screens, per table
    disturbed,    \* history: orders with overlapping or lost broadcasts
    torn,         \* history: unpaid orders whose marking as PAID broke off halfway
    crashes

rows == <<tables, orders>>
screens == <<bells, orderScreen, tableScreen>>
vars == <<rows, codes, job, desk, screens, disturbed, torn, crashes>>

Handlers == Staff \cup Calls

NoOrder == [status |-> "NONE"]
NoQris == [state |-> "NONE"]
Idle == [at |-> "idle"]

OrderRow == [table: Tables, guest: Guests, status: OrderStatus, paidAt: BOOLEAN]
TableRow == [status: TableStatus, guest: Guests \cup {NoGuest}]
Qris == [order: Orders, state: {"open", "settled", "failed"}, acked: BOOLEAN]

\* at: "write" the order row comes next, "emit" the broadcast comes next.
Job == [at: {"write", "emit"}, order: Orders, to: OrderStatus,
        code: Codes \cup {NoCode}]
DeskJob == [at: {"emit"}, table: Tables, row: TableRow]

TypeOK ==
    /\ tables \in [Tables -> TableRow]
    /\ orders \in [Orders -> OrderRow \cup {NoOrder}]
    /\ codes \in [Codes -> Qris \cup {NoQris}]
    /\ job \in [Handlers -> Job \cup {Idle}]
    /\ desk \in [Desks -> DeskJob \cup {Idle}]
    /\ bells \subseteq Orders
    /\ orderScreen \in [Orders -> OrderStatus \cup {"NONE"}]
    /\ tableScreen \in [Tables -> TableStatus]
    /\ disturbed \subseteq Orders
    /\ torn \subseteq Orders
    /\ crashes \in 0..MaxCrashes

Placed(o) == orders[o] # NoOrder

\* Handlers whose broadcast about o is still to come.
Emitting(o) == {h \in Handlers : job[h].at = "emit" /\ job[h].order = o}

\* Staff handlers between the two writes that mark o as PAID.
Marking(o) == {h \in Staff : job[h].at = "write" /\ job[h].order = o}

-----------------------------------------------------------------------------
(* Guests and the payment gateway.                                         *)

\* The transaction of OrdersService.create; OrderPlacement has its inside.
\* It broadcasts nothing.
PlaceOrder(o, t, g) ==
    /\ ~ Placed(o)
    /\ orders' = [orders EXCEPT ![o] = [table |-> t, guest |-> g,
                                        status |-> "PENDING", paidAt |-> FALSE]]
    /\ tables' = [tables EXCEPT ![t] = [status |-> "OCCUPIED", guest |-> g]]
    /\ UNCHANGED <<codes, job, desk, screens, disturbed, torn, crashes>>

\* createQris: nothing is stored, the code lives at the gateway.
CreateQris(c, o) ==
    /\ codes[c] = NoQris
    /\ Placed(o)
    /\ orders[o].status # "PAID"
    /\ codes' = [codes EXCEPT ![c] = [order |-> o, state |-> "open",
                                      acked |-> FALSE]]
    /\ UNCHANGED <<rows, job, desk, screens, disturbed, torn, crashes>>

\* External: the guest pays the code, or its 15 minutes end or it is cancelled.
CloseCode(c, result) ==
    /\ codes[c].state = "open"
    /\ codes' = [codes EXCEPT ![c].state = result]
    /\ UNCHANGED <<rows, job, desk, screens, disturbed, torn, crashes>>

-----------------------------------------------------------------------------
(* Writes of an order row, and the broadcast that follows each.            *)

\* An update that forgets the payment date.
StatusOnly(row, s) == [row EXCEPT !.status = s]

\* An update that sends paidAt with every status: null unless it is PAID.
DateOfStatus(row, s) == [row EXCEPT !.status = s, !.paidAt = s = "PAID"]

\* The data of order.update: paidAt is set with PAID and never cleared.
WithStatus(row, s) ==
    [row EXCEPT !.status = s, !.paidAt = @ \/ s = "PAID"]

\* History: a write is undisturbed when no other broadcast about the order is
\* pending, and it then puts an earlier disturbance right.
Disturb(o) == IF Emitting(o) = {} THEN disturbed \ {o} ELSE disturbed \cup {o}

WriteOrder(h, o, s, c) ==
    /\ orders' = [orders EXCEPT ![o] = WithStatus(@, s)]
    /\ job' = [job EXCEPT ![h] = [at |-> "emit", order |-> o, to |-> s, code |-> c]]
    /\ disturbed' = Disturb(o)
    /\ torn' = IF s = "PAID" THEN torn \ {o} ELSE torn

\* The webhook writes on whatever status the order has by now.  A write that
\* fails changes nothing, and the notification stays unanswered.
HandleWebhook(h, c) ==
    /\ job[h] = Idle
    /\ codes[c].state \in {"settled", "failed"}
    /\ ~ codes[c].acked
    /\ WriteOrder(h, codes[c].order,
                  IF codes[c].state = "settled" THEN "PAID" ELSE "CANCELLED", c)
    /\ UNCHANGED <<tables, codes, desk, screens, crashes>>

\* A status that is in no enum, which the cast "as any" would let through.
FlaggedMisspelt(row) == [row EXCEPT !.status = "NEEDS_CLEANING"]

Flagged(row) == [row EXCEPT !.status = "WAITING_CLEANUP"]

\* updateStatus with PAID writes the table first, in a statement of its own.
FlagTable(h, o) ==
    /\ job[h] = Idle
    /\ "PAID" \in StaffSets
    /\ Placed(o)
    /\ tables' = [tables EXCEPT ![orders[o].table] = Flagged(@)]
    /\ job' = [job EXCEPT ![h] = [at |-> "write", order |-> o, to |-> "PAID",
                                  code |-> NoCode]]
    /\ UNCHANGED <<orders, codes, desk, screens, disturbed, torn, crashes>>

WritePaid(h) ==
    /\ job[h].at = "write"
    /\ WriteOrder(h, job[h].order, job[h].to, NoCode)
    /\ UNCHANGED <<tables, codes, desk, screens, crashes>>

\* The unpaid orders whose marking ends when the handlers hs end.
HalfMarked(hs) ==
    {o \in Orders : Marking(o) \cap hs # {} /\ ~ orders[o].paidAt}

\* order.update fails and the request is answered with an error; the statement
\* before it is in no transaction, and the table stays flagged.
FailUpdate(h) ==
    /\ job[h].at = "write"
    /\ torn' = torn \cup HalfMarked({h})
    /\ job' = [job EXCEPT ![h] = Idle]
    /\ UNCHANGED <<rows, codes, desk, screens, disturbed, crashes>>

\* The table written for every status, outside the test for PAID.
SetStatusFlagging(h, o, s) ==
    /\ job[h] = Idle
    /\ Placed(o)
    /\ s # "PAID"
    /\ WriteOrder(h, o, s, NoCode)
    /\ tables' = [tables EXCEPT ![orders[o].table] = Flagged(@)]
    /\ UNCHANGED <<codes, desk, screens, crashes>>

\* updateStatus with any other status: no transition is refused.
SetStatus(h, o, s) ==
    /\ job[h] = Idle
    /\ Placed(o)
    /\ s # "PAID"
    /\ WriteOrder(h, o, s, NoCode)
    /\ UNCHANGED <<tables, codes, desk, screens, crashes>>

\* Without the kitchen bell.
RingNot(j) == bells

\* emitNewPaidOrder for a payment.
Ring(j) == IF j.to = "PAID" THEN bells \cup {j.order} ELSE bells

\* A broadcast of the status the order had before.
ShowPending(j) == [orderScreen EXCEPT ![j.order] = "PENDING"]

\* emitOrderStatusChanged carries the row as this handler wrote it.
Show(j) == [orderScreen EXCEPT ![j.order] = j.to]

\* The broadcasts and the return: for a notification, the answer either reaches
\* the gateway or is lost on the way, and then the gateway repeats it.
Emit(h) ==
    /\ job[h].at = "emit"
    /\ bells' = Ring(job[h])
    /\ orderScreen' = Show(job[h])
    /\ job' = [job EXCEPT ![h] = Idle]
    /\ \/ codes' = codes
       \/ /\ job[h].code # NoCode
          /\ codes' = [codes EXCEPT ![job[h].code].acked = TRUE]
    /\ UNCHANGED <<rows, desk, tableScreen, disturbed, torn, crashes>>

-----------------------------------------------------------------------------
(* Writes of a table row.                                                  *)

WriteTable(d, t, row) ==
    /\ desk[d] = Idle
    /\ tables' = [tables EXCEPT ![t] = row]
    /\ desk' = [desk EXCEPT ![d] = [at |-> "emit", table |-> t, row |-> row]]
    /\ UNCHANGED <<orders, codes, job, screens, disturbed, torn, crashes>>

InitSession(d, t, g) == WriteTable(d, t, [status |-> "OCCUPIED", guest |-> g])

ResetTable(d, t) == WriteTable(d, t, [status |-> "VACANT", guest |-> NoGuest])

\* TablesService.update with a status: activeCustomerName stays as it was.
SetTableStatus(d, t, s) == WriteTable(d, t, [tables[t] EXCEPT !.status = s])

\* TablesService.update with other columns only, say the capacity.
EditTable(d, t) == WriteTable(d, t, tables[t])

EmitTable(d) ==
    /\ desk[d].at = "emit"
    /\ tableScreen' = [tableScreen EXCEPT ![desk[d].table] = desk[d].row.status]
    /\ desk' = [desk EXCEPT ![d] = Idle]
    /\ UNCHANGED <<rows, codes, job, bells, orderScreen, disturbed, torn, crashes>>

-----------------------------------------------------------------------------

\* The server process ends: handlers in flight are gone, and the broadcasts
\* they still owed; rows and codes stay.
Crash ==
    /\ crashes < MaxCrashes
    /\ crashes' = crashes + 1
    /\ job' = [h \in Handlers |-> Idle]
    /\ desk' = [d \in Desks |-> Idle]
    /\ disturbed' = disturbed \cup {o \in Orders : Emitting(o) # {}}
    /\ torn' = torn \cup HalfMarked(Staff)
    /\ UNCHANGED <<rows, codes, screens>>

Init ==
    /\ tables = [t \in Tables |-> [status |-> "VACANT", guest |-> NoGuest]]
    /\ orders = [o \in Orders |-> NoOrder]
    /\ codes = [c \in Codes |-> NoQris]
    /\ job = [h \in Handlers |-> Idle]
    /\ desk = [d \in Desks |-> Idle]
    /\ bells = {}
    /\ orderScreen = [o \in Orders |-> "NONE"]
    /\ tableScreen = [t \in Tables |-> "VACANT"]
    /\ disturbed = {}
    /\ torn = {}
    /\ crashes = 0

Next ==
    \/ \E o \in Orders, t \in Tables, g \in Guests : PlaceOrder(o, t, g)
    \/ \E c \in Codes, o \in Orders : CreateQris(c, o)
    \/ \E c \in Codes, result \in {"settled", "failed"} : CloseCode(c, result)
    \/ \E h \in Calls, c \in Codes : HandleWebhook(h, c)
    \/ \E h \in Staff, o \in Orders : FlagTable(h, o)
    \/ \E h \in Staff, o \in Orders, s \in StaffSets : SetStatus(h, o, s)
    \/ \E h \in Staff : WritePaid(h) \/ FailUpdate(h)
    \/ \E h \in Handlers : Emit(h)
    \/ \E d \in Desks, t \in Tables, g \in Guests : InitSession(d, t, g)
    \/ \E d \in Desks, t \in Tables : ResetTable(d, t)
    \/ \E d \in Desks, t \in Tables, s \in DeskSets : SetTableStatus(d, t, s)
    \/ \E d \in Desks, t \in Tables : EditTable(d, t)
    \/ \E d \in Desks : EmitTable(d)
    \/ Crash

Spec == Init /\ [][Next]_vars

(***************************************************************************)
(* A handler that has started runs on, since nothing in it waits for       *)
(* another.  The gateway repeats an unacknowledged notification on a       *)
(* schedule of its own: strong fairness, because the slot it needs is only *)
(* free from time to time.  Guests and staff owe nothing.                  *)
(***************************************************************************)
Fairness ==
    /\ \A h \in Handlers : WF_vars(Emit(h))
    /\ \A h \in Staff : WF_vars(WritePaid(h))
    /\ \A c \in Codes : SF_vars(\E h \in Calls : HandleWebhook(h, c))

FairSpec == Spec /\ Fairness

-----------------------------------------------------------------------------
(* What holds.                                                             *)

Row(c) == orders[codes[c].order]
Settled(c) == codes[c].state = "settled"

\* A PAID order has its payment date, whichever of the two handlers paid it:
\* the dashboard sums PAID orders by paidAt and would never see it otherwise.
PaidHasDate == \A o \in Orders : orders[o].status = "PAID" => orders[o].paidAt

\* A payment whose notification was acknowledged is on the order for good and
\* has rung in the kitchen, through crashes, lost answers, repeated and late
\* notifications and whatever staff do with the order afterwards: the gateway
\* sends no more once it has its answer.
AckedPaymentIsKept ==
    \A c \in Codes : Settled(c) /\ codes[c].acked =>
        Row(c).paidAt /\ codes[c].order \in bells

\* The bell never rings for an order whose payment is not stored yet.
BellsArePaid == \A o \in bells : Placed(o) /\ orders[o].paidAt

\* The screens show the stored status of every order, unless two updates of it
\* overlapped or a crash swallowed a broadcast; the next update that is alone
\* puts the screens right again.
ScreensCatchUp ==
    \A o \in Orders \ disturbed : Placed(o) /\ Emitting(o) = {} =>
        \/ orderScreen[o] = orders[o].status
        \/ orderScreen[o] = "NONE" /\ orders[o].status = "PENDING"

\* Unless staff set the status by hand, a table waits for cleanup only on account
\* of an order placed at it: one that is paid, one that is being marked PAID at
\* this moment, or one whose marking broke off between the two writes of
\* updateStatus, by an error or a crash, and was not made up for since.  Nothing
\* else flags a table, and no overlap takes the payment back from under the flag.
CleanupHasCause ==
    "WAITING_CLEANUP" \notin DeskSets => \A t \in Tables :
        tables[t].status = "WAITING_CLEANUP" =>
            \E o \in Orders :
                /\ Placed(o)
                /\ orders[o].table = t
                /\ orders[o].paidAt \/ Marking(o) # {} \/ o \in torn

\* A payment settled at the gateway reaches the order and the kitchen.
SettledPaymentArrives ==
    \A c \in Codes :
        Settled(c) ~> (Settled(c) /\ Row(c).paidAt /\ codes[c].order \in bells)

Ledger == INSTANCE PaymentLedger
            WITH charges <- codes,
                 atTill <- {o \in Orders : Marking(o) # {}},
                 credited <- {o \in Orders : Placed(o) /\ orders[o].paidAt},
                 rung <- bells,
                 NoCharge <- NoQris

\* Refinement of PaymentLedger by the payment dates: no order is dated without a
\* settled code of its own or a staff handler that is marking this order PAID,
\* the bell and the answer to the gateway come after the date, and no overlap of
\* notifications, status updates and crashes takes any of it back.
ImplementsLedger == Ledger!Spec

CodesOf(o) == {c \in Codes : codes[c] # NoQris /\ codes[c].order = o}

\* Unless staff send CANCELLED, a paid order is cancelled only by the notification that
\* one of its codes failed, while another of its codes was paid (or staff marked it PAID).
CancellationNeedsSecondCode ==
    [][\A o \in Orders :
         orders[o].status = "PAID" /\ orders'[o].status = "CANCELLED" =>
            \/ "CANCELLED" \in StaffSets
            \/ \E c \in CodesOf(o) :
                  /\ codes[c].state = "failed" /\ ~ codes[c].acked
                  /\ "PAID" \in StaffSets \/ \E d \in CodesOf(o) \ {c} : Settled(d)]_vars

-----------------------------------------------------------------------------
(* What the documents say and the code does not do.                        *)

\* The status diagram leaves PAID only for PREPARING: with no staff involved, a
\* paid order is never cancelled.
PaidIsNotCancelled ==
    [][\A o \in Orders : orders[o].status = "PAID" =>
                            orders'[o].status # "CANCELLED"]_orders

\* The orders that dashboardOverview and getRevenueReport sum.
RevenueOrders == {o \in Orders : orders[o].status = "PAID" /\ orders[o].paidAt}

\* An order that was paid, cooked and served is part of the revenue, as the end
\* of the cafe flow test expects.
ServedOrdersAreRevenue ==
    \A o \in Orders :
        orders[o].status = "SERVED" /\ orders[o].paidAt => o \in RevenueOrders
=============================================================================
