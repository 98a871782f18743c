--------------------------- MODULE OrderPlacement ---------------------------
(***************************************************************************)
(* OrdersService.create and generateOrderNumber: how concurrent checkout   *)
(* requests of the guests become numbered, priced rows of the orders table *)
(* while staff edit the menu and the tables and the date changes.          *)
(*                                                                         *)
(* Every await of the handler is a step of its own: the table is read, the *)
(* menu items are read, the orders of the day are counted, and one         *)
(* transaction inserts the order.  Nothing holds between the steps; the    *)
(* database only adds its UNIQUE constraint on orderNumber and its foreign *)
(* keys at the commit.                                                     *)
(***************************************************************************)
EXTENDS Naturals, Sequences, FiniteSets

CONSTANTS
    Requests,     \* slots for checkout requests that are in flight together
    Tables,       \* ids of the tables that exist at the start
    Items,        \* ids of the menu items
    Prices,       \* amounts an item may cost
    NoPrice,      \* an absent promoPrice
    Carts,        \* the item ids of dto.items, one entry per line of the cart
    OpeningMenu,  \* the menu at the start
    MaxDay,       \* bound: the days of the model are 1..MaxDay
    MaxOrders,    \* bound on rows in the orders table
    MaxEdits      \* bound on edits of the menu

VARIABLES
    day,        \* the current UTC date
    menuLog,    \* the states of the menu_items table so far, the current one last
    tables,     \* the ids in the tables table
    orders,     \* the rows of the orders table
    req         \* req[r]: how far the handler of request r has come

vars == <<day, menuLog, tables, orders, req>>

Days == 1..MaxDay

MenuItem == [price: Prices, promo: Prices \cup {NoPrice},
             state: {"on_sale", "sold_out", "deleted"}]

Menu == [Items -> MenuItem]

ASSUME PlacementAssumption ==
    /\ MaxDay \in Nat \ {0}
    /\ MaxOrders \in Nat
    /\ MaxEdits \in Nat
    /\ NoPrice \notin Prices
    /\ Carts \subseteq Seq(Items) \ {<<>>}
    /\ OpeningMenu \in Menu

ItemsOf(cart) == {cart[k] : k \in DOMAIN cart}

\* began and ended delimit the part of menuLog that the request overlapped.
Order == [day: Days, seq: Nat, placed: Days, table: Tables,
          prices: UNION {[S -> Prices] : S \in SUBSET Items},
          began: Nat, ended: Nat]

Idle == [at |-> "idle"]

Request ==
    {Idle}
      \cup [at: {"menus"}, table: Tables, cart: Carts, began: Nat]
      \cup [at: {"count"}, table: Tables, cart: Carts, began: Nat,
            quote: Menu, day: Days]
      \cup [at: {"commit"}, table: Tables, cart: Carts, began: Nat,
            quote: Menu, day: Days, seq: Nat]

TypeOK ==
    /\ day \in Days
    /\ menuLog \in Seq(Menu) \ {<<>>}
    /\ tables \subseteq Tables
    /\ orders \subseteq Order
    /\ IsFiniteSet(orders)
    /\ req \in [Requests -> Request]

CurrentMenu == menuLog[Len(menuLog)]

-----------------------------------------------------------------------------
(* The order number.                                                       *)

OrdersOf(d) == {o \in orders : o.day = d}

\* A count by creation date instead of by number prefix.
CountByCreation(d) == Cardinality({o \in orders : o.placed = d})

\* A count of the whole table, without the prefix.
CountAll(d) == Cardinality(orders)

\* order.count({where: {orderNumber: {startsWith: prefix}}}); the prefix of a
\* day is the prefix of no other day's numbers, and padStart loses nothing.
CountToday(d) == Cardinality(OrdersOf(d))

\* A UNIQUE constraint that is not there.
NumberAnything(d, s) == TRUE

NumberIsFree(d, s) == ~ \E o \in orders : o.day = d /\ o.seq = s

-----------------------------------------------------------------------------
(* The checkout handler.                                                   *)

\* A price that forgets the item may have no promotion.
PromoAlways(m) == m.promo

BasePrice(m) == IF m.promo # NoPrice THEN m.promo ELSE m.price

\* A handler that forgets the isAvailable check.
AcceptsSoldOut(menu, cart) ==
    Cardinality({i \in ItemsOf(cart) : menu[i].state # "deleted"}) = Len(cart)

\* A cart with the same item on two lines is refused too: findMany returns one
\* row for both and the lengths differ.
Accepts(menu, cart) ==
    /\ Cardinality({i \in ItemsOf(cart) : menu[i].state # "deleted"}) = Len(cart)
    /\ \A i \in ItemsOf(cart) : menu[i].state = "on_sale"

InFlight == {r \in Requests : req[r].at # "idle"}

\* table.findUnique; a table that is not there answers 404 and changes nothing.
Receive(r, t, cart) ==
    /\ req[r].at = "idle"
    /\ Cardinality(orders) + Cardinality(InFlight) < MaxOrders
    /\ t \in tables
    /\ req' = [req EXCEPT ![r] = [at |-> "menus", table |-> t, cart |-> cart,
                                  began |-> Len(menuLog)]]
    /\ UNCHANGED <<day, menuLog, tables, orders>>

\* menuItem.findMany and the checks on its result.  generateOrderNumber takes
\* the date before its own await, so in the same step.
ReadMenus(r) ==
    /\ req[r].at = "menus"
    /\ req' = [req EXCEPT ![r] =
                 IF Accepts(CurrentMenu, @.cart)
                 THEN [at |-> "count", table |-> @.table, cart |-> @.cart,
                       began |-> @.began, quote |-> CurrentMenu, day |-> day]
                 ELSE Idle]
    /\ UNCHANGED <<day, menuLog, tables, orders>>

DrawNumber(r) ==
    /\ req[r].at = "count"
    /\ req' = [req EXCEPT ![r] =
                 [at |-> "commit", table |-> @.table, cart |-> @.cart,
                  began |-> @.began, quote |-> @.quote, day |-> @.day,
                  seq |-> CountToday(@.day) + 1]]
    /\ UNCHANGED <<day, menuLog, tables, orders>>

\* The row written by the transaction: prices come from the rows read earlier.
NewOrder(q) ==
    [day |-> q.day, seq |-> q.seq, placed |-> day, table |-> q.table,
     prices |-> [i \in ItemsOf(q.cart) |-> BasePrice(q.quote[i])],
     began |-> q.began, ended |-> Len(menuLog)]

Commit(r) ==
    /\ req[r].at = "commit"
    /\ NumberIsFree(req[r].day, req[r].seq)
    /\ req[r].table \in tables
    /\ orders' = orders \cup {NewOrder(req[r])}
    /\ req' = [req EXCEPT ![r] = Idle]
    /\ UNCHANGED <<day, menuLog, tables>>

\* P2002 (the number is taken, 409) or P2003 (the table is gone, 400): the
\* transaction is rolled back and the guest gets an error.  There is no retry.
Refuse(r) ==
    /\ req[r].at = "commit"
    /\ \/ ~ NumberIsFree(req[r].day, req[r].seq)
       \/ req[r].table \notin tables
    /\ req' = [req EXCEPT ![r] = Idle]
    /\ UNCHANGED <<day, menuLog, tables, orders>>

-----------------------------------------------------------------------------
(* What happens around the handler.                                        *)

Midnight ==
    /\ day < MaxDay
    /\ day' = day + 1
    /\ UNCHANGED <<menuLog, tables, orders, req>>

\* MenusService.update and updateStatus set prices and availability, remove sets
\* deletedAt; each is one transaction, and none clears deletedAt.  The lookup
\* that precedes the write may be stale, so a deleted item can still be edited.
EditedTo(m, n) ==
    \/ n.state # "deleted" /\ m.state # "deleted"
    \/ n.state = "deleted" /\ m.state = "deleted"
    \/ n = [m EXCEPT !.state = "deleted"]

EditMenu(i, n) ==
    /\ Len(menuLog) <= MaxEdits
    /\ n # CurrentMenu[i]
    /\ EditedTo(CurrentMenu[i], n)
    /\ menuLog' = Append(menuLog, [CurrentMenu EXCEPT ![i] = n])
    /\ UNCHANGED <<day, tables, orders, req>>

\* A foreign key with ON DELETE that lets the table go.
NothingRefersTo(t) == TRUE

\* ON DELETE RESTRICT on orders.table_id.
Unreferenced(t) == ~ \E o \in orders : o.table = t

\* TablesService.remove.  Its own check, for orders that are still open, is
\* implied by the foreign key, which lets no table with an order go.
RemoveTable(t) ==
    /\ t \in tables
    /\ Unreferenced(t)
    /\ tables' = tables \ {t}
    /\ UNCHANGED <<day, menuLog, orders, req>>

\* The server process ends: the handlers in flight are lost, the rows stay.
Crash ==
    /\ InFlight # {}
    /\ req' = [r \in Requests |-> Idle]
    /\ UNCHANGED <<day, menuLog, tables, orders>>

Init ==
    /\ day = 1
    /\ menuLog = <<OpeningMenu>>
    /\ tables = Tables
    /\ orders = {}
    /\ req = [r \in Requests |-> Idle]

Next ==
    \/ \E r \in Requests, t \in Tables, cart \in Carts : Receive(r, t, cart)
    \/ \E r \in Requests : ReadMenus(r) \/ DrawNumber(r) \/ Commit(r) \/ Refuse(r)
    \/ \E i \in Items, n \in MenuItem : EditMenu(i, n)
    \/ \E t \in Tables : RemoveTable(t)
    \/ Midnight
    \/ Crash

Spec == Init /\ [][Next]_vars

-----------------------------------------------------------------------------
(* Properties.                                                             *)

\* The numbers of each day are 1, 2, ... without a gap or a duplicate, however
\* the requests interleave, fail, or commit after midnight.
NumbersAreSequential ==
    \A d \in Days : {o.seq : o \in OrdersOf(d)} = 1..Cardinality(OrdersOf(d))

\* A number is free at the moment it is drawn: a 409 at the commit can only be
\* the fault of a request that committed in between, never of the count.
DrawnNumberIsFree ==
    [][\A r \in Requests :
         DrawNumber(r) => NumberIsFree(req'[r].day, req'[r].seq)]_vars

\* All the prices of an order were in force, and all its items on sale, at one
\* and the same moment while the request ran.
PricedAtOneInstant ==
    \A o \in orders : \E k \in o.began..o.ended :
        \A i \in DOMAIN o.prices :
            /\ menuLog[k][i].state = "on_sale"
            /\ o.prices[i] = BasePrice(menuLog[k][i])

\* No order loses its table, also when the table is deleted between the
\* handler's table check and its transaction.
OrdersKeepTheirTable == \A o \in orders : o.table \in tables

-----------------------------------------------------------------------------
(* The handlers with all their interleavings implement the plain book of   *)
(* numbers: only Commit writes a number, and it writes the next one.       *)

Book == INSTANCE DailyOrderBook
          WITH book <- [d \in Days |-> {o.seq : o \in OrdersOf(d)}]

\* Refinement of DailyOrderBook by the numbered rows of the orders table.
ImplementsBook == Book!Spec
=============================================================================
