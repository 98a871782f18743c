------------------------ MODULE OrderPlacementProofs ------------------------
(***************************************************************************)
(* Proofs about OrderPlacement, for any numbers of requests, tables, items *)
(* and days.  The numbers rest on NumInv, the prices on PriceInv.          *)
(***************************************************************************)
EXTENDS OrderPlacement, FiniteSetTheorems, TLAPS

-----------------------------------------------------------------------------
(* Types.                                                                  *)

\* The rows that Commit writes are rows of the orders table.
LEMMA NewOrderType ==
  ASSUME TypeOK, NEW r \in Requests, req[r].at = "commit"
  PROVE  NewOrder(req[r]) \in Order
<1> DEFINE q == req[r]
<1>1. q \in [at: {"commit"}, table: Tables, cart: Carts, began: Nat,
             quote: Menu, day: Days, seq: Nat]
  BY DEF TypeOK, Request, Idle
<1>2. ItemsOf(q.cart) \in SUBSET Items
  BY <1>1, PlacementAssumption DEF ItemsOf
<1>3. [i \in ItemsOf(q.cart) |-> BasePrice(q.quote[i])]
        \in [ItemsOf(q.cart) -> Prices]
  <2> SUFFICES ASSUME NEW i \in ItemsOf(q.cart)
               PROVE  BasePrice(q.quote[i]) \in Prices
    OBVIOUS
  <2>1. q.quote[i] \in MenuItem
    BY <1>1, <1>2 DEF Menu
  <2> QED  BY <2>1 DEF MenuItem, BasePrice
<1>4. Len(menuLog) \in Nat /\ day \in Days
  BY DEF TypeOK
<1>5. [i \in ItemsOf(q.cart) |-> BasePrice(q.quote[i])]
        \in UNION {[S -> Prices] : S \in SUBSET Items}
  BY <1>2, <1>3
<1> QED  BY <1>1, <1>4, <1>5 DEF NewOrder, Order

LEMMA CountType ==
  ASSUME TypeOK, NEW d
  PROVE  /\ IsFiniteSet(OrdersOf(d))
         /\ CountToday(d) \in Nat
BY FS_Subset, FS_CardinalityType DEF TypeOK, OrdersOf, CountToday

LEMMA CurrentMenuType == TypeOK => CurrentMenu \in Menu
<1> SUFFICES ASSUME TypeOK PROVE CurrentMenu \in Menu  OBVIOUS
<1>1. menuLog \in Seq(Menu) /\ Len(menuLog) \in 1..Len(menuLog)
  BY DEF TypeOK
<1> QED  BY <1>1 DEF CurrentMenu

\* Every state of the handlers, the menu, the tables and the orders has the
\* types that the database schema and the handler's variables give it.
THEOREM Typing == Spec => []TypeOK
<1>1. Init => TypeOK
  <2> SUFFICES ASSUME Init PROVE TypeOK  OBVIOUS
  <2>1. IsFiniteSet(orders)
    BY FS_EmptySet DEF Init
  <2>2. menuLog \in Seq(Menu) \ {<<>>}
    BY PlacementAssumption DEF Init
  <2> QED  BY <2>1, <2>2, PlacementAssumption DEF Init, TypeOK, Days, Request
<1>2. TypeOK /\ [Next]_vars => TypeOK'
  <2> SUFFICES ASSUME TypeOK, [Next]_vars PROVE TypeOK'  OBVIOUS
  <2>1. ASSUME NEW r \in Requests, NEW t \in Tables, NEW cart \in Carts,
               Receive(r, t, cart)
        PROVE  TypeOK'
    <3>1. [at |-> "menus", table |-> t, cart |-> cart, began |-> Len(menuLog)]
            \in Request
      BY DEF TypeOK, Request
    <3> QED  BY <2>1, <3>1 DEF Receive, TypeOK
  <2>2. ASSUME NEW r \in Requests, ReadMenus(r) PROVE TypeOK'
    <3> DEFINE q == req[r]
    <3>1. q \in [at: {"menus"}, table: Tables, cart: Carts, began: Nat]
      BY <2>2 DEF ReadMenus, TypeOK, Request, Idle
    <3>2. [at |-> "count", table |-> q.table, cart |-> q.cart,
           began |-> q.began, quote |-> CurrentMenu, day |-> day] \in Request
      BY <3>1, CurrentMenuType DEF TypeOK, Request
    <3>3. Idle \in Request
      BY DEF Request
    <3> QED  BY <2>2, <3>2, <3>3 DEF ReadMenus, TypeOK
  <2>3. ASSUME NEW r \in Requests, DrawNumber(r) PROVE TypeOK'
    <3> DEFINE q == req[r]
    <3>1. q \in [at: {"count"}, table: Tables, cart: Carts, began: Nat,
                 quote: Menu, day: Days]
      BY <2>3 DEF DrawNumber, TypeOK, Request, Idle
    <3>2. CountToday(q.day) + 1 \in Nat
      BY CountType
    <3>3. [at |-> "commit", table |-> q.table, cart |-> q.cart,
           began |-> q.began, quote |-> q.quote, day |-> q.day,
           seq |-> CountToday(q.day) + 1] \in Request
      BY <3>1, <3>2 DEF Request
    <3> QED  BY <2>3, <3>3 DEF DrawNumber, TypeOK
  <2>4. ASSUME NEW r \in Requests, Commit(r) PROVE TypeOK'
    <3>1. NewOrder(req[r]) \in Order
      BY <2>4, NewOrderType DEF Commit
    <3>2. IsFiniteSet(orders')
      BY <2>4, FS_AddElement DEF Commit, TypeOK
    <3> QED  BY <2>4, <3>1, <3>2 DEF Commit, TypeOK, Request
  <2>5. ASSUME NEW r \in Requests, Refuse(r) PROVE TypeOK'
    BY <2>5 DEF Refuse, TypeOK, Request
  <2>6. ASSUME NEW i \in Items, NEW n \in MenuItem, EditMenu(i, n) PROVE TypeOK'
    <3>1. [CurrentMenu EXCEPT ![i] = n] \in Menu
      BY CurrentMenuType DEF Menu
    <3>2. menuLog' \in Seq(Menu) \ {<<>>}
      BY <2>6, <3>1 DEF EditMenu, TypeOK
    <3> QED  BY <2>6, <3>2 DEF EditMenu, TypeOK
  <2>7. ASSUME NEW t \in Tables, RemoveTable(t) PROVE TypeOK'
    BY <2>7 DEF RemoveTable, TypeOK
  <2>8. CASE Midnight
    BY <2>8, PlacementAssumption DEF Midnight, TypeOK, Days
  <2>9. CASE Crash
    BY <2>9 DEF Crash, TypeOK, Request
  <2>10. CASE UNCHANGED vars
    BY <2>10 DEF vars, TypeOK
  <2> QED
    BY <2>1, <2>2, <2>3, <2>4, <2>5, <2>6, <2>7, <2>8, <2>9, <2>10 DEF Next
<1> QED  BY <1>1, <1>2, PTL DEF Spec

-----------------------------------------------------------------------------
(* The order numbers.                                                      *)

(***************************************************************************)
(* The numbers of a day are sequential only because no handler holds a     *)
(* number beyond the next free one: rows are never deleted, so a number    *)
(* drawn earlier is at most one past the count of any later moment, and    *)
(* the UNIQUE constraint turns away every one that is not exactly that.    *)
(***************************************************************************)
DrawnInRange ==
    \A r \in Requests :
        req[r].at = "commit" => req[r].seq \in 1..(CountToday(req[r].day) + 1)

NumInv == NumbersAreSequential /\ DrawnInRange

\* The number after the last of a day is free.
LEMMA NextIsFree ==
  ASSUME TypeOK, NumInv, NEW d \in Days
  PROVE  NumberIsFree(d, CountToday(d) + 1)
<1>1. CountToday(d) \in Nat
  BY CountType
<1>2. {o.seq : o \in OrdersOf(d)} = 1..CountToday(d)
  BY DEF NumInv, NumbersAreSequential, CountToday
<1>3. \A o \in OrdersOf(d) : o.seq \in 1..CountToday(d)
  BY <1>2
<1> QED  BY <1>1, <1>3 DEF NumberIsFree, OrdersOf

\* A commit adds one row to one day, and its number is the next of that day.
LEMMA CommitTakesNext ==
  ASSUME TypeOK, NumInv, NEW r \in Requests, Commit(r)
  PROVE  \E d \in Days, o \in Order :
           /\ o.seq = CountToday(d) + 1
           /\ \A e \in Days :
                /\ OrdersOf(e)' = IF e = d THEN OrdersOf(e) \cup {o} ELSE OrdersOf(e)
                /\ CountToday(e)' = IF e = d THEN CountToday(e) + 1 ELSE CountToday(e)
<1>1. req[r] \in [at: {"commit"}, table: Tables, cart: Carts, began: Nat,
                  quote: Menu, day: Days, seq: Nat]
  BY DEF Commit, TypeOK, Request, Idle
<1>2. PICK d \in Days : d = req[r].day
  BY <1>1
<1>3. PICK o \in Order : o = NewOrder(req[r])
  BY NewOrderType DEF Commit
<1>4. o.day = d /\ o.seq = req[r].seq
  BY <1>2, <1>3 DEF NewOrder
<1>5. \A p \in OrdersOf(d) : p.seq # o.seq
  BY <1>2, <1>4 DEF Commit, NumberIsFree, OrdersOf
<1>6. CountToday(d) \in Nat
  BY CountType
<1>7. o.seq \notin 1..CountToday(d)
  <2>1. {p.seq : p \in OrdersOf(d)} = 1..CountToday(d)
    BY DEF NumInv, NumbersAreSequential, CountToday
  <2> QED  BY <1>5, <2>1
<1>8. o.seq \in 1..(CountToday(d) + 1)
  BY <1>2, <1>4 DEF Commit, NumInv, DrawnInRange
<1>9. o.seq = CountToday(d) + 1
  BY <1>6, <1>7, <1>8
<1>10. ASSUME NEW e \in Days
       PROVE  /\ OrdersOf(e)' = IF e = d THEN OrdersOf(e) \cup {o} ELSE OrdersOf(e)
              /\ CountToday(e)' = IF e = d THEN CountToday(e) + 1 ELSE CountToday(e)
  <2>1. orders' = orders \cup {o}
    BY <1>3 DEF Commit
  <2>2. OrdersOf(e)' = IF e = d THEN OrdersOf(e) \cup {o} ELSE OrdersOf(e)
    BY <1>4, <2>1 DEF OrdersOf
  <2>3. IsFiniteSet(OrdersOf(e)) /\ o \notin OrdersOf(d)
    BY <1>5, CountType
  <2>4. Cardinality(OrdersOf(e)') =
          IF e = d THEN Cardinality(OrdersOf(e)) + 1 ELSE Cardinality(OrdersOf(e))
    <3>1. CASE e = d
      BY <2>2, <2>3, <3>1, FS_AddElement
    <3>2. CASE e # d
      BY <2>2, <3>2
    <3> QED  BY <3>1, <3>2
  <2> QED  BY <2>2, <2>4 DEF CountToday
<1> QED  BY <1>9, <1>10

LEMMA CommitKeepsNumInv ==
  ASSUME TypeOK, NumInv, NEW r \in Requests, Commit(r)
  PROVE  NumInv'
<1>1. PICK d \in Days, o \in Order :
           /\ o.seq = CountToday(d) + 1
           /\ \A e \in Days :
                /\ OrdersOf(e)' = IF e = d THEN OrdersOf(e) \cup {o} ELSE OrdersOf(e)
                /\ CountToday(e)' = IF e = d THEN CountToday(e) + 1 ELSE CountToday(e)
  BY CommitTakesNext
<1>2. \A e \in Days : CountToday(e) \in Nat
  BY CountType
<1>3. NumbersAreSequential'
  <2> SUFFICES ASSUME NEW e \in Days
               PROVE  {p.seq : p \in OrdersOf(e)'} = 1..Cardinality(OrdersOf(e)')
    BY DEF NumbersAreSequential
  <2>1. {p.seq : p \in OrdersOf(e)} = 1..CountToday(e)
    BY DEF NumInv, NumbersAreSequential, CountToday
  <2>2. Cardinality(OrdersOf(e)') = CountToday(e)'
    BY DEF CountToday
  <2>3. CASE e = d
    <3>1. {p.seq : p \in OrdersOf(e)'} = {p.seq : p \in OrdersOf(e)} \cup {o.seq}
      BY <1>1, <2>3
    <3>2. {p.seq : p \in OrdersOf(e)'} = 1..(CountToday(e) + 1)
      BY <1>1, <1>2, <2>1, <2>3, <3>1
    <3> QED  BY <1>1, <2>2, <2>3, <3>2
  <2>4. CASE e # d
    BY <1>1, <2>1, <2>2, <2>4
  <2> QED  BY <2>3, <2>4
<1>4. DrawnInRange'
  <2> SUFFICES ASSUME NEW s \in Requests, req'[s].at = "commit",
                      NEW e, e = req'[s].day
               PROVE  req'[s].seq \in 1..(CountToday(e)' + 1)
    BY DEF DrawnInRange, CountToday, OrdersOf
  <2>1. req'[s] = req[s]
    BY DEF Commit, TypeOK, Idle
  <2>2. req[s] \in [at: {"commit"}, table: Tables, cart: Carts, began: Nat,
                    quote: Menu, day: Days, seq: Nat]
    BY <2>1 DEF TypeOK, Request, Idle
  <2>3. e \in Days
    BY <2>1, <2>2
  <2>4. req[s].seq \in 1..(CountToday(e) + 1)
    BY <2>1 DEF NumInv, DrawnInRange
  <2>5. req[s].seq \in 1..(CountToday(e)' + 1)
    BY <1>1, <1>2, <2>2, <2>3, <2>4
  <2> QED  BY <2>1, <2>5
<1> QED  BY <1>3, <1>4 DEF NumInv

\* Only Commit changes the orders: any other step leaves the numbers alone, and
\* a number that is in a handler afterwards was there before or is the next one.
LEMMA QuietKeepsNumInv ==
  ASSUME TypeOK, NumInv, UNCHANGED orders,
         \A s \in Requests : req'[s].at = "commit" =>
            \/ req'[s] = req[s]
            \/ /\ req'[s].day \in Days
               /\ req'[s].seq = CountToday(req'[s].day) + 1
  PROVE  NumInv'
<1>1. \A e : OrdersOf(e)' = OrdersOf(e) /\ CountToday(e)' = CountToday(e)
  BY DEF OrdersOf, CountToday
<1>2. NumbersAreSequential'
  BY <1>1 DEF NumInv, NumbersAreSequential
<1>3. DrawnInRange'
  <2> SUFFICES ASSUME NEW s \in Requests, req'[s].at = "commit",
                      NEW e, e = req'[s].day
               PROVE  req'[s].seq \in 1..(CountToday(e)' + 1)
    BY DEF DrawnInRange, CountToday, OrdersOf
  <2>1. CASE req'[s] = req[s]
    BY <1>1, <2>1 DEF NumInv, DrawnInRange
  <2>2. CASE req'[s].day \in Days /\ req'[s].seq = CountToday(req'[s].day) + 1
    <3>1. CountToday(e) \in Nat
      BY CountType
    <3> QED  BY <1>1, <2>2, <3>1
  <2> QED  BY <2>1, <2>2
<1> QED  BY <1>2, <1>3 DEF NumInv

LEMMA NextKeepsNumInv ==
  ASSUME TypeOK, NumInv, [Next]_vars
  PROVE  NumInv'
<1>1. ASSUME NEW r \in Requests, NEW t \in Tables, NEW cart \in Carts,
             Receive(r, t, cart)
      PROVE  NumInv'
  BY <1>1, QuietKeepsNumInv DEF Receive, TypeOK
<1>2. ASSUME NEW r \in Requests, ReadMenus(r) PROVE NumInv'
  BY <1>2, QuietKeepsNumInv DEF ReadMenus, TypeOK, Idle
<1>3. ASSUME NEW r \in Requests, DrawNumber(r) PROVE NumInv'
  <2>1. req[r] \in [at: {"count"}, table: Tables, cart: Carts, began: Nat,
                    quote: Menu, day: Days]
    BY <1>3 DEF DrawNumber, TypeOK, Request, Idle
  <2> QED  BY <1>3, <2>1, QuietKeepsNumInv DEF DrawNumber, TypeOK
<1>4. ASSUME NEW r \in Requests, Commit(r) PROVE NumInv'
  BY <1>4, CommitKeepsNumInv
<1>5. ASSUME NEW r \in Requests, Refuse(r) PROVE NumInv'
  BY <1>5, QuietKeepsNumInv DEF Refuse, TypeOK, Idle
<1>6. ASSUME NEW i \in Items, NEW n \in MenuItem, EditMenu(i, n) PROVE NumInv'
  BY <1>6, QuietKeepsNumInv DEF EditMenu
<1>7. ASSUME NEW t \in Tables, RemoveTable(t) PROVE NumInv'
  BY <1>7, QuietKeepsNumInv DEF RemoveTable
<1>8. CASE Midnight
  BY <1>8, QuietKeepsNumInv DEF Midnight
<1>9. CASE Crash
  BY <1>9, QuietKeepsNumInv DEF Crash, Idle
<1>10. CASE UNCHANGED vars
  BY <1>10, QuietKeepsNumInv DEF vars
<1> QED
  BY <1>1, <1>2, <1>3, <1>4, <1>5, <1>6, <1>7, <1>8, <1>9, <1>10 DEF Next

LEMMA InitNumInv == Init => NumInv
<1> SUFFICES ASSUME Init PROVE NumInv  OBVIOUS
<1>1. \A d : OrdersOf(d) = {}
  BY DEF Init, OrdersOf
<1>2. NumbersAreSequential
  <2>1. Cardinality({}) = 0 /\ 1..0 = {}
    BY FS_EmptySet
  <2>2. ASSUME NEW d \in Days
        PROVE  {o.seq : o \in OrdersOf(d)} = 1..Cardinality(OrdersOf(d))
    BY <1>1, <2>1
  <2> QED  BY <2>2 DEF NumbersAreSequential
<1>3. DrawnInRange
  BY DEF Init, Idle, DrawnInRange
<1> QED  BY <1>2, <1>3 DEF NumInv

LEMMA NumInvHolds == Spec => []NumInv
<1>1. TypeOK /\ NumInv /\ [Next]_vars => NumInv'
  BY NextKeepsNumInv
<1> QED  BY <1>1, InitNumInv, Typing, PTL DEF Spec

\* The numbers of each day are 1, 2, ... without a gap or a duplicate, however
\* many requests create orders at once, fail, or commit after midnight.
THEOREM SequentialNumbers == Spec => []NumbersAreSequential
<1>1. NumInv => NumbersAreSequential
  BY DEF NumInv
<1> QED  BY <1>1, NumInvHolds, PTL

\* generateOrderNumber never returns a number that is taken when it counts.
THEOREM FreeNumbers == Spec => DrawnNumberIsFree
<1>1. TypeOK /\ NumInv /\ [Next]_vars =>
        [\A r \in Requests :
           DrawNumber(r) => NumberIsFree(req'[r].day, req'[r].seq)]_vars
  <2> SUFFICES ASSUME TypeOK, NumInv, NEW r \in Requests, DrawNumber(r)
               PROVE  NumberIsFree(req'[r].day, req'[r].seq)
    OBVIOUS
  <2>1. req[r] \in [at: {"count"}, table: Tables, cart: Carts, began: Nat,
                    quote: Menu, day: Days]
    BY DEF DrawNumber, TypeOK, Request, Idle
  <2>2. /\ req'[r].day = req[r].day
        /\ req'[r].seq = CountToday(req[r].day) + 1
    BY DEF DrawNumber, TypeOK
  <2> QED  BY <2>1, <2>2, NextIsFree
<1> QED  BY <1>1, Typing, NumInvHolds, PTL DEF Spec, DrawnNumberIsFree

\* The checkout handlers implement DailyOrderBook: a commit writes the next
\* number into the book of its day, and nothing else touches a book.
THEOREM BookRefinement == Spec => ImplementsBook
<1> DEFINE book == [d \in Days |-> {o.seq : o \in OrdersOf(d)}]
<1>1. Init => Book!Init
  <2> SUFFICES ASSUME Init PROVE Book!Init  OBVIOUS
  <2>1. \A d : OrdersOf(d) = {}
    BY DEF Init, OrdersOf
  <2> QED  BY <2>1 DEF Book!Init
<1>2. TypeOK /\ NumInv /\ [Next]_vars => [Book!Next]_book
  <2> SUFFICES ASSUME TypeOK, NumInv, [Next]_vars PROVE [Book!Next]_book
    OBVIOUS
  <2>1. ASSUME NEW r \in Requests, Commit(r) PROVE Book!Next
    <3>1. PICK d \in Days, o \in Order :
             /\ o.seq = CountToday(d) + 1
             /\ \A e \in Days :
                  OrdersOf(e)' = IF e = d THEN OrdersOf(e) \cup {o} ELSE OrdersOf(e)
      BY <2>1, CommitTakesNext
    <3>2. Cardinality(book[d]) = CountToday(d)
      <4>1. book[d] = 1..CountToday(d)
        BY DEF NumInv, NumbersAreSequential, CountToday
      <4>2. CountToday(d) \in Nat
        BY CountType
      <4>3. Cardinality(1..CountToday(d)) = CountToday(d)
        BY <4>2, FS_Interval
      <4> QED  BY <4>1, <4>3
    <3>3. book' = [book EXCEPT ![d] = @ \cup {CountToday(d) + 1}]
      BY <3>1
    <3>4. book' = [book EXCEPT ![d] = @ \cup {Cardinality(@) + 1}]
      BY <3>2, <3>3
    <3>5. Book!Issue(d)
      BY <3>4 DEF Book!Issue, Cardinality, Book!Cardinality
    <3> QED  BY <3>5 DEF Book!Next
  <2>2. CASE UNCHANGED orders
    BY <2>2 DEF OrdersOf
  <2>3. (\E r \in Requests : Commit(r)) \/ UNCHANGED orders
    BY DEF Next, vars, Receive, ReadMenus, DrawNumber, Refuse, EditMenu,
           RemoveTable, Midnight, Crash
  <2> QED  BY <2>1, <2>2, <2>3
<1> QED
  BY <1>1, <1>2, Typing, NumInvHolds, PTL DEF Spec, ImplementsBook, Book!Spec

-----------------------------------------------------------------------------
(* The tables and the prices.                                              *)

\* No order loses its table, although the handler's check of the table and its
\* transaction are apart and TablesService.remove may run between them.
THEOREM TablesKept == Spec => []OrdersKeepTheirTable
<1>1. Init => OrdersKeepTheirTable
  BY DEF Init, OrdersKeepTheirTable
<1>2. OrdersKeepTheirTable /\ [Next]_vars => OrdersKeepTheirTable'
  <2> SUFFICES ASSUME OrdersKeepTheirTable, [Next]_vars
               PROVE  OrdersKeepTheirTable'
    OBVIOUS
  <2>1. ASSUME NEW r \in Requests, Commit(r) PROVE OrdersKeepTheirTable'
    BY <2>1 DEF Commit, NewOrder, OrdersKeepTheirTable
  <2>2. ASSUME NEW t \in Tables, RemoveTable(t) PROVE OrdersKeepTheirTable'
    BY <2>2 DEF RemoveTable, Unreferenced, OrdersKeepTheirTable
  <2>3. CASE UNCHANGED <<tables, orders>>
    BY <2>3 DEF OrdersKeepTheirTable
  <2>4. \/ \E r \in Requests : Commit(r)
        \/ \E t \in Tables : RemoveTable(t)
        \/ UNCHANGED <<tables, orders>>
    BY DEF Next, vars, Receive, ReadMenus, DrawNumber, Refuse, EditMenu,
           Midnight, Crash
  <2> QED  BY <2>1, <2>2, <2>3, <2>4
<1> QED  BY <1>1, <1>2, PTL DEF Spec

(***************************************************************************)
(* The prices of an order are consistent because they all come from one    *)
(* read: what a handler carries past its findMany is a whole menu that was *)
(* in force after the request began.                                       *)
(***************************************************************************)
QuotesAreMenus ==
    \A r \in Requests :
        /\ req[r].at # "idle" => req[r].began \in 1..Len(menuLog)
        /\ req[r].at \in {"count", "commit"} =>
             \E k \in req[r].began..Len(menuLog) :
                 /\ req[r].quote = menuLog[k]
                 /\ Accepts(menuLog[k], req[r].cart)

PricedWithin(o) ==
    \E k \in o.began..o.ended : \A i \in DOMAIN o.prices :
        /\ menuLog[k][i].state = "on_sale"
        /\ o.prices[i] = BasePrice(menuLog[k][i])

OrdersAreClosed ==
    \A o \in orders : o.began \in 1..Len(menuLog) /\ o.ended \in 1..Len(menuLog)

PriceInv == QuotesAreMenus /\ OrdersAreClosed /\ PricedAtOneInstant

\* The menu log only grows: what was in force stays on record.
LEMMA LogGrows ==
  ASSUME TypeOK, [Next]_vars
  PROVE  /\ Len(menuLog) \in Nat \ {0}
         /\ Len(menuLog)' \in Nat /\ Len(menuLog)' >= Len(menuLog)
         /\ \A k \in 1..Len(menuLog) : menuLog'[k] = menuLog[k]
<1>1. menuLog \in Seq(Menu) /\ Len(menuLog) \in Nat \ {0}
  BY DEF TypeOK
<1>2. CASE UNCHANGED menuLog
  BY <1>1, <1>2
<1>3. ASSUME NEW i \in Items, NEW n \in MenuItem, EditMenu(i, n)
      PROVE  /\ Len(menuLog)' = Len(menuLog) + 1
             /\ \A k \in 1..Len(menuLog) : menuLog'[k] = menuLog[k]
  <2>1. [CurrentMenu EXCEPT ![i] = n] \in Menu
    BY CurrentMenuType DEF Menu
  <2> QED  BY <1>1, <1>3, <2>1 DEF EditMenu
<1>4. \/ UNCHANGED menuLog
      \/ \E i \in Items, n \in MenuItem : EditMenu(i, n)
  BY DEF Next, vars, Receive, ReadMenus, DrawNumber, Commit, Refuse,
         RemoveTable, Midnight, Crash
<1> QED  BY <1>1, <1>2, <1>3, <1>4

\* A request that a step leaves as it was, or ends, keeps its quote.
LEMMA QuoteKept ==
  ASSUME TypeOK, [Next]_vars, QuotesAreMenus, NEW r \in Requests,
         req'[r] = req[r] \/ req'[r] = Idle
  PROVE  /\ req'[r].at # "idle" => req'[r].began \in 1..Len(menuLog')
         /\ req'[r].at \in {"count", "commit"} =>
              \E k \in req'[r].began..Len(menuLog') :
                  /\ req'[r].quote = menuLog'[k]
                  /\ Accepts(menuLog'[k], req'[r].cart)
<1>1. /\ Len(menuLog) \in Nat \ {0}
      /\ Len(menuLog') \in Nat /\ Len(menuLog') >= Len(menuLog)
      /\ \A k \in 1..Len(menuLog) : menuLog'[k] = menuLog[k]
  BY LogGrows
<1>2. CASE req'[r] = Idle
  BY <1>2 DEF Idle
<1>3. CASE req'[r] = req[r]
  <2>1. req[r].at # "idle" => req[r].began \in 1..Len(menuLog)
    BY DEF QuotesAreMenus
  <2>2. ASSUME req[r].at \in {"count", "commit"}
        PROVE  \E k \in req[r].began..Len(menuLog') :
                  /\ req[r].quote = menuLog'[k]
                  /\ Accepts(menuLog'[k], req[r].cart)
    <3>1. PICK k \in req[r].began..Len(menuLog) :
                 /\ req[r].quote = menuLog[k]
                 /\ Accepts(menuLog[k], req[r].cart)
      BY <2>2 DEF QuotesAreMenus
    <3>2. k \in 1..Len(menuLog) /\ k \in req[r].began..Len(menuLog')
      BY <1>1, <2>1, <2>2, <3>1
    <3>3. menuLog'[k] = menuLog[k]
      BY <1>1, <3>2
    <3> QED  BY <3>1, <3>2, <3>3
  <2>3. req[r].at # "idle" => req[r].began \in 1..Len(menuLog')
    BY <1>1, <2>1
  <2> QED  BY <1>3, <2>2, <2>3
<1> QED  BY <1>2, <1>3

LEMMA NextKeepsQuotes ==
  ASSUME TypeOK, QuotesAreMenus, [Next]_vars
  PROVE  QuotesAreMenus'
<1> DEFINE Good(r) ==
             /\ req'[r].at # "idle" => req'[r].began \in 1..Len(menuLog')
             /\ req'[r].at \in {"count", "commit"} =>
                  \E k \in req'[r].began..Len(menuLog') :
                      /\ req'[r].quote = menuLog'[k]
                      /\ Accepts(menuLog'[k], req'[r].cart)
<1>1. SUFFICES ASSUME NEW r \in Requests PROVE Good(r)
  BY DEF QuotesAreMenus, Accepts
<1>2. CASE req'[r] = req[r] \/ req'[r] = Idle
  BY <1>2, QuoteKept
<1>3. Len(menuLog) \in Nat \ {0}
  BY LogGrows
<1>4. ASSUME NEW t \in Tables, NEW cart \in Carts, Receive(r, t, cart)
      PROVE  Good(r)
  BY <1>3, <1>4 DEF Receive, TypeOK
<1>5. CASE ReadMenus(r) /\ req'[r] # Idle
  <2>1. /\ req'[r].at = "count"
        /\ req'[r].began = req[r].began
        /\ req'[r].quote = menuLog[Len(menuLog)]
        /\ Accepts(menuLog[Len(menuLog)], req[r].cart)
        /\ req'[r].cart = req[r].cart
        /\ menuLog' = menuLog
    BY <1>5 DEF ReadMenus, TypeOK, CurrentMenu
  <2>2. req[r].began \in 1..Len(menuLog)
    BY <1>5 DEF ReadMenus, QuotesAreMenus
  <2>3. Len(menuLog) \in req[r].began..Len(menuLog)
    BY <1>3, <2>2
  <2> QED  BY <2>1, <2>2, <2>3
<1>6. CASE DrawNumber(r)
  <2>1. /\ req'[r].at = "commit"
        /\ req'[r].began = req[r].began
        /\ req'[r].quote = req[r].quote
        /\ req'[r].cart = req[r].cart
        /\ menuLog' = menuLog
        /\ req[r].at = "count"
    BY <1>6 DEF DrawNumber, TypeOK
  <2> QED  BY <2>1 DEF QuotesAreMenus
<1>7. \/ req'[r] = req[r] \/ req'[r] = Idle
      \/ \E t \in Tables, cart \in Carts : Receive(r, t, cart)
      \/ ReadMenus(r) \/ DrawNumber(r)
  BY DEF Next, vars, TypeOK, Receive, ReadMenus, DrawNumber, Commit, Refuse,
         EditMenu, RemoveTable, Midnight, Crash
<1> QED  BY <1>2, <1>4, <1>5, <1>6, <1>7

\* An order that is committed carries the prices of the menu its handler read.
LEMMA CommitIsPriced ==
  ASSUME TypeOK, QuotesAreMenus, NEW r \in Requests, Commit(r)
  PROVE  /\ NewOrder(req[r]).began \in 1..Len(menuLog)
         /\ NewOrder(req[r]).ended = Len(menuLog)
         /\ PricedWithin(NewOrder(req[r]))
<1> DEFINE o == NewOrder(req[r])
<1>1. req[r].at = "commit"
  BY DEF Commit
<1>2. req[r].began \in 1..Len(menuLog)
  BY <1>1 DEF QuotesAreMenus
<1>3. PICK k \in req[r].began..Len(menuLog) :
             /\ req[r].quote = menuLog[k]
             /\ Accepts(menuLog[k], req[r].cart)
  BY <1>1 DEF QuotesAreMenus
<1>4. \A i \in ItemsOf(req[r].cart) : menuLog[k][i].state = "on_sale"
  BY <1>3 DEF Accepts
<1>5. /\ o.began = req[r].began /\ o.ended = Len(menuLog)
      /\ o.prices = [i \in ItemsOf(req[r].cart) |-> BasePrice(req[r].quote[i])]
  BY DEF NewOrder
<1> QED  BY <1>2, <1>3, <1>4, <1>5 DEF PricedWithin

LEMMA NextKeepsPriceInv ==
  ASSUME TypeOK, PriceInv, [Next]_vars
  PROVE  PriceInv'
<1>1. QuotesAreMenus'
  BY NextKeepsQuotes DEF PriceInv
<1>2. /\ Len(menuLog) \in Nat \ {0}
      /\ Len(menuLog') \in Nat /\ Len(menuLog') >= Len(menuLog)
      /\ \A k \in 1..Len(menuLog) : menuLog'[k] = menuLog[k]
  BY LogGrows
<1> DEFINE Good(o) ==
             /\ o.began \in 1..Len(menuLog) /\ o.ended \in 1..Len(menuLog)
             /\ PricedWithin(o)
<1>3. ASSUME NEW o, Good(o)
      PROVE  /\ o.began \in 1..Len(menuLog') /\ o.ended \in 1..Len(menuLog')
             /\ \E k \in o.began..o.ended : \A i \in DOMAIN o.prices :
                  /\ menuLog'[k][i].state = "on_sale"
                  /\ o.prices[i] = BasePrice(menuLog'[k][i])
  <2>1. PICK k \in o.began..o.ended : \A i \in DOMAIN o.prices :
                  /\ menuLog[k][i].state = "on_sale"
                  /\ o.prices[i] = BasePrice(menuLog[k][i])
    BY <1>3 DEF PricedWithin
  <2>2. k \in 1..Len(menuLog)
    BY <1>2, <1>3, <2>1
  <2>3. menuLog'[k] = menuLog[k]
    BY <1>2, <2>2
  <2> QED  BY <1>2, <1>3, <2>1, <2>3
<1>4. \A o \in orders : Good(o)
  BY DEF PriceInv, OrdersAreClosed, PricedAtOneInstant, PricedWithin
<1>5. \A o \in orders' : Good(o)
  <2>1. ASSUME NEW r \in Requests, Commit(r) PROVE \A o \in orders' : Good(o)
    <3>1. QuotesAreMenus
      BY DEF PriceInv
    <3>2. /\ NewOrder(req[r]).began \in 1..Len(menuLog)
          /\ NewOrder(req[r]).ended = Len(menuLog)
          /\ PricedWithin(NewOrder(req[r]))
      BY <2>1, <3>1, CommitIsPriced
    <3>3. Good(NewOrder(req[r]))
      BY <1>2, <3>2
    <3> QED  BY <1>4, <2>1, <3>3 DEF Commit
  <2>2. (\E r \in Requests : Commit(r)) \/ UNCHANGED orders
    BY DEF Next, vars, Receive, ReadMenus, DrawNumber, Refuse, EditMenu,
           RemoveTable, Midnight, Crash
  <2> QED  BY <1>4, <2>1, <2>2
<1>6. OrdersAreClosed' /\ PricedAtOneInstant'
  BY <1>3, <1>5 DEF OrdersAreClosed, PricedAtOneInstant, BasePrice
<1> QED  BY <1>1, <1>6 DEF PriceInv

\* All the prices of an order were in force together, with all its items on
\* sale, at one moment between the request and its commit, whatever edits of
\* the menu run meanwhile.
THEOREM ConsistentPrices == Spec => []PricedAtOneInstant
<1>1. Init => PriceInv
  BY DEF Init, PriceInv, QuotesAreMenus, OrdersAreClosed, PricedAtOneInstant, Idle
<1>2. TypeOK /\ PriceInv /\ [Next]_vars => PriceInv'
  BY NextKeepsPriceInv
<1>3. PriceInv => PricedAtOneInstant
  BY DEF PriceInv
<1> QED  BY <1>1, <1>2, <1>3, Typing, PTL DEF Spec
=============================================================================
