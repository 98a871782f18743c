--------------------------- MODULE CafeFloorProofs ---------------------------
(***************************************************************************)
(* Proofs about CafeFloor, for any numbers of orders, tables, QRIS codes,  *)
(* handlers and crashes.                                                   *)
(***************************************************************************)
EXTENDS CafeFloor, TLAPS

-----------------------------------------------------------------------------
(* Types.                                                                  *)

LEMMA OrderTypes ==
  ASSUME TypeOK, NEW o \in Orders, Placed(o)
  PROVE  orders[o] \in OrderRow
BY DEF TypeOK, Placed

LEMMA WithStatusType ==
  ASSUME NEW row \in OrderRow, NEW s \in OrderStatus
  PROVE  /\ WithStatus(row, s) \in OrderRow
         /\ WithStatus(row, s).status = s
         /\ WithStatus(row, s).table = row.table
         /\ row.paidAt => WithStatus(row, s).paidAt
         /\ s = "PAID" => WithStatus(row, s).paidAt
         /\ WithStatus(row, s) # NoOrder
BY DEF WithStatus, OrderRow, NoOrder, OrderStatus

\* A code or a handler that is under way names an order that was placed.
Referenced ==
    /\ \A c \in Codes : codes[c] # NoQris => Placed(codes[c].order)
    /\ \A h \in Handlers : job[h] # Idle => Placed(job[h].order)

LEMMA WriteOrderTypes ==
  ASSUME TypeOK, NEW h \in Handlers, NEW o \in Orders, Placed(o),
         NEW s \in OrderStatus, NEW c \in Codes \cup {NoCode},
         WriteOrder(h, o, s, c)
  PROVE  /\ orders' \in [Orders -> OrderRow \cup {NoOrder}]
         /\ job' \in [Handlers -> Job \cup {Idle}]
         /\ disturbed' \in SUBSET Orders /\ torn' \in SUBSET Orders
         /\ \A p \in Orders : Placed(p)' <=> Placed(p)
<1>1. orders[o] \in OrderRow
  BY OrderTypes
<1>2. /\ WithStatus(orders[o], s) \in OrderRow
      /\ WithStatus(orders[o], s) # NoOrder
  BY <1>1, WithStatusType
<1>3. orders' = [orders EXCEPT ![o] = WithStatus(orders[o], s)]
  BY DEF WriteOrder
<1>4. [at |-> "emit", order |-> o, to |-> s, code |-> c] \in Job
  BY DEF Job
<1>5. disturbed' \in SUBSET Orders /\ torn' \in SUBSET Orders
  BY DEF WriteOrder, Disturb, TypeOK
<1>6. \A p \in Orders : Placed(p)' <=> Placed(p)
  BY <1>2, <1>3 DEF Placed, TypeOK
<1>7. job' \in [Handlers -> Job \cup {Idle}]
  BY <1>4 DEF WriteOrder, TypeOK
<1>8. orders' \in [Orders -> OrderRow \cup {NoOrder}]
  BY <1>2, <1>3 DEF TypeOK
<1> QED  BY <1>5, <1>6, <1>7, <1>8

LEMMA ShowType ==
  ASSUME TypeOK, NEW h \in Handlers, job[h].at = "emit"
  PROVE  /\ job[h] \in Job
         /\ Show(job[h]) \in [Orders -> OrderStatus \cup {"NONE"}]
         /\ Ring(job[h]) \in SUBSET Orders
<1>1. job[h] \in Job
  BY DEF TypeOK, Idle
<1> QED  BY <1>1 DEF Job, Show, Ring, TypeOK

LEMMA WriteTableTypes ==
  ASSUME TypeOK, NEW d \in Desks, NEW t \in Tables, NEW row \in TableRow,
         WriteTable(d, t, row)
  PROVE  TypeOK'
<1>1. [at |-> "emit", table |-> t, row |-> row] \in DeskJob
  BY DEF DeskJob
<1> QED  BY <1>1 DEF WriteTable, TypeOK, screens

LEMMA InitTypes == Init => TypeOK /\ Referenced
<1> SUFFICES ASSUME Init PROVE TypeOK /\ Referenced  OBVIOUS
<1>1. TypeOK
  BY FloorAssumption DEF Init, TypeOK, TableRow, TableStatus
<1>2. Referenced
  BY DEF Init, Referenced
<1> QED  BY <1>1, <1>2

LEMMA NextTypes ==
  ASSUME TypeOK, Referenced, [Next]_vars
  PROVE  TypeOK' /\ Referenced'
<1>1. ASSUME NEW o \in Orders, NEW t \in Tables, NEW g \in Guests,
             PlaceOrder(o, t, g)
      PROVE  TypeOK' /\ Referenced'
  <2>1. /\ [table |-> t, guest |-> g, status |-> "PENDING", paidAt |-> FALSE]
             \in OrderRow
        /\ [table |-> t, guest |-> g, status |-> "PENDING", paidAt |-> FALSE]
             # NoOrder
        /\ [status |-> "OCCUPIED", guest |-> g] \in TableRow
    BY DEF OrderRow, OrderStatus, TableRow, TableStatus, NoOrder
  <2>2. \A p \in Orders : Placed(p) => Placed(p)'
    BY <1>1, <2>1 DEF PlaceOrder, Placed, TypeOK
  <2>3. TypeOK'
    BY <1>1, <2>1 DEF PlaceOrder, TypeOK, screens
  <2>4. Referenced'
    BY <1>1, <2>2 DEF PlaceOrder, Referenced, TypeOK, Job, Qris
  <2> QED  BY <2>3, <2>4
<1>2. ASSUME NEW c \in Codes, NEW o \in Orders, CreateQris(c, o)
      PROVE  TypeOK' /\ Referenced'
  <2>1. [order |-> o, state |-> "open", acked |-> FALSE] \in Qris
    BY DEF Qris
  <2> QED
    BY <1>2, <2>1 DEF CreateQris, TypeOK, Referenced, Placed, rows, screens
<1>3. ASSUME NEW c \in Codes, NEW result \in {"settled", "failed"},
             CloseCode(c, result)
      PROVE  TypeOK' /\ Referenced'
  <2>1. codes[c] \in Qris
    BY <1>3 DEF CloseCode, TypeOK, NoQris
  <2>2. /\ [codes[c] EXCEPT !.state = result] \in Qris
        /\ [codes[c] EXCEPT !.state = result].order = codes[c].order
        /\ codes[c] # NoQris
    BY <2>1 DEF Qris, NoQris
  <2> QED
    BY <1>3, <2>2 DEF CloseCode, TypeOK, Referenced, Placed, rows, screens
<1>4. ASSUME NEW h \in Handlers, NEW o \in Orders, Placed(o),
             NEW s \in OrderStatus, NEW c \in Codes \cup {NoCode},
             WriteOrder(h, o, s, c),
             UNCHANGED <<tables, codes, desk, screens, crashes>>
      PROVE  TypeOK' /\ Referenced'
  <2>1. /\ orders' \in [Orders -> OrderRow \cup {NoOrder}]
        /\ job' \in [Handlers -> Job \cup {Idle}]
        /\ disturbed' \in SUBSET Orders /\ torn' \in SUBSET Orders
        /\ \A p \in Orders : Placed(p)' <=> Placed(p)
    BY <1>4, WriteOrderTypes
  <2>2. TypeOK'
    BY <1>4, <2>1 DEF TypeOK, screens
  <2>3. Referenced'
    BY <1>4, <2>1 DEF Referenced, WriteOrder, TypeOK, Qris, Job
  <2> QED  BY <2>2, <2>3
<1>5. ASSUME NEW h \in Calls, NEW c \in Codes, HandleWebhook(h, c)
      PROVE  TypeOK' /\ Referenced'
  <2>1. codes[c] \in Qris /\ codes[c] # NoQris
    BY <1>5 DEF HandleWebhook, TypeOK, NoQris
  <2>2. codes[c].order \in Orders /\ Placed(codes[c].order)
    BY <2>1 DEF Qris, Referenced
  <2>3. PICK s \in OrderStatus :
          s = IF codes[c].state = "settled" THEN "PAID" ELSE "CANCELLED"
    BY DEF OrderStatus
  <2> QED  BY <1>4, <1>5, <2>2, <2>3 DEF HandleWebhook, Handlers
<1>6. ASSUME NEW h \in Staff, NEW o \in Orders, FlagTable(h, o)
      PROVE  TypeOK' /\ Referenced'
  <2>1. orders[o] \in OrderRow
    BY <1>6, OrderTypes DEF FlagTable
  <2>2. /\ orders[o].table \in Tables
        /\ Flagged(tables[orders[o].table]) \in TableRow
        /\ [at |-> "write", order |-> o, to |-> "PAID", code |-> NoCode] \in Job
    BY <2>1 DEF OrderRow, TypeOK, TableRow, TableStatus, Flagged, Job, OrderStatus
  <2> QED
    BY <1>6, <2>2 DEF FlagTable, TypeOK, Referenced, Placed, screens, Handlers, Qris
<1>7. ASSUME NEW h \in Staff, NEW o \in Orders, NEW s \in StaffSets,
             SetStatus(h, o, s)
      PROVE  TypeOK' /\ Referenced'
  BY <1>4, <1>7, FloorAssumption DEF SetStatus, Handlers
<1>8. ASSUME NEW h \in Staff, WritePaid(h) PROVE TypeOK' /\ Referenced'
  <2>1. h \in Handlers /\ job[h] \in Job /\ job[h] # Idle
    BY <1>8 DEF WritePaid, TypeOK, Idle, Handlers
  <2>2. /\ job[h].order \in Orders /\ Placed(job[h].order)
        /\ job[h].to \in OrderStatus
    BY <2>1 DEF Job, Referenced
  <2> QED  BY <1>4, <1>8, <2>1, <2>2 DEF WritePaid
<1>9. ASSUME NEW h \in Handlers, Emit(h) PROVE TypeOK' /\ Referenced'
  <2>1. /\ job[h] \in Job
        /\ orderScreen' \in [Orders -> OrderStatus \cup {"NONE"}]
        /\ bells' \in SUBSET Orders
    BY <1>9, ShowType DEF Emit
  <2>2. /\ codes' \in [Codes -> Qris \cup {NoQris}]
        /\ \A c \in Codes : codes'[c] # NoQris =>
             codes[c] # NoQris /\ codes'[c].order = codes[c].order
    <3>1. CASE codes' = codes
      BY <3>1 DEF TypeOK
    <3>2. CASE codes' = [codes EXCEPT ![job[h].code].acked = TRUE]
      BY <3>2 DEF TypeOK, Qris, NoQris
    <3> QED  BY <1>9, <3>1, <3>2 DEF Emit
  <2> QED  BY <1>9, <2>1, <2>2 DEF Emit, TypeOK, Referenced, Placed, rows
<1>10. ASSUME NEW d \in Desks, NEW t \in Tables, NEW row \in TableRow,
              WriteTable(d, t, row)
       PROVE  TypeOK' /\ Referenced'
  BY <1>10, WriteTableTypes DEF WriteTable, Referenced, Placed
<1>11. ASSUME NEW d \in Desks, NEW t \in Tables, NEW g \in Guests,
              InitSession(d, t, g)
       PROVE  TypeOK' /\ Referenced'
  BY <1>10, <1>11 DEF InitSession, TableRow, TableStatus
<1>12. ASSUME NEW d \in Desks, NEW t \in Tables, ResetTable(d, t)
       PROVE  TypeOK' /\ Referenced'
  BY <1>10, <1>12 DEF ResetTable, TableRow, TableStatus
<1>13. ASSUME NEW d \in Desks, NEW t \in Tables, NEW s \in DeskSets,
              SetTableStatus(d, t, s)
       PROVE  TypeOK' /\ Referenced'
  <2>1. [tables[t] EXCEPT !.status = s] \in TableRow
    BY FloorAssumption DEF TypeOK, TableRow
  <2> QED  BY <1>10, <1>13, <2>1 DEF SetTableStatus
<1>14. ASSUME NEW d \in Desks, NEW t \in Tables, EditTable(d, t)
       PROVE  TypeOK' /\ Referenced'
  <2>1. tables[t] \in TableRow
    BY DEF TypeOK
  <2> QED  BY <1>10, <1>14, <2>1 DEF EditTable
<1>15. ASSUME NEW d \in Desks, EmitTable(d) PROVE TypeOK' /\ Referenced'
  <2>1. desk[d] \in DeskJob
    BY <1>15 DEF EmitTable, TypeOK, Idle
  <2>2. tableScreen' \in [Tables -> TableStatus]
    BY <1>15, <2>1 DEF EmitTable, TypeOK, DeskJob, TableRow
  <2> QED  BY <1>15, <2>2 DEF EmitTable, TypeOK, Referenced, Placed, rows
<1>16. CASE Crash
  BY <1>16, FloorAssumption
     DEF Crash, HalfMarked, TypeOK, Referenced, Placed, rows, screens
<1>17. CASE UNCHANGED vars
  BY <1>17 DEF vars, rows, screens, TypeOK, Referenced, Placed
<1>18. ASSUME NEW h \in Staff, FailUpdate(h) PROVE TypeOK' /\ Referenced'
  BY <1>18 DEF FailUpdate, HalfMarked, TypeOK, Referenced, Placed, rows, screens, Handlers
<1> QED
  BY <1>1, <1>2, <1>3, <1>5, <1>6, <1>7, <1>8, <1>9, <1>11, <1>12, <1>13,
     <1>14, <1>15, <1>16, <1>17, <1>18 DEF Next

LEMMA TypesHold == Spec => [](TypeOK /\ Referenced)
<1>1. TypeOK /\ Referenced /\ [Next]_vars => (TypeOK /\ Referenced)'
  BY NextTypes
<1> QED  BY <1>1, InitTypes, PTL DEF Spec

\* The rows, the handlers and the screens keep the values that the schema's
\* enums and the handlers' variables allow.
THEOREM Typing == Spec => []TypeOK
BY TypesHold, PTL

-----------------------------------------------------------------------------
(* Payments.                                                               *)

(***************************************************************************)
(* An acknowledged payment is safe because the handler that acknowledges   *)
(* it stored it first (Stored), because no write clears a payment date,    *)
(* and because its bell rings in the step of the answer.                   *)
(***************************************************************************)
Stored(j) ==
    /\ j.to = "PAID" => orders[j.order].paidAt
    /\ j.code # NoCode =>
         /\ codes[j.code].order = j.order
         /\ codes[j.code].state \in {"settled", "failed"}
         /\ codes[j.code].state = "settled" <=> j.to = "PAID"

JobsAreStored == \A h \in Handlers : job[h].at = "emit" => Stored(job[h])

OpenIsUnacked == \A c \in Codes : codes[c].state = "open" => ~ codes[c].acked

PayInv ==
    /\ PaidHasDate
    /\ BellsArePaid
    /\ JobsAreStored
    /\ OpenIsUnacked
    /\ AckedPaymentIsKept

LEMMA JobTypes ==
  ASSUME TypeOK, Referenced, NEW h \in Handlers, job[h].at = "emit"
  PROVE  /\ job[h].order \in Orders /\ Placed(job[h].order)
         /\ job[h].code \in Codes \cup {NoCode}
         /\ job[h].to \in OrderStatus
BY DEF TypeOK, Referenced, Idle, Job

LEMMA CodeTypes ==
  ASSUME TypeOK, Referenced, NEW c \in Codes,
         codes[c].state \in {"open", "settled", "failed"}
  PROVE  /\ codes[c] \in Qris /\ codes[c] # NoQris
         /\ codes[c].order \in Orders /\ Placed(codes[c].order)
BY DEF TypeOK, Referenced, NoQris, Qris

\* Every step but Emit and CloseCode: payment dates, codes and bells stay, and a
\* handler that comes to its broadcast has stored what it will say.
LEMMA QuietKeepsPayInv ==
  ASSUME TypeOK, Referenced, PayInv, PaidHasDate', bells' = bells,
         \A o \in Orders : Placed(o) =>
            Placed(o)' /\ (orders[o].paidAt => orders'[o].paidAt),
         \A c \in Codes : \/ codes'[c] = codes[c]
                          \/ codes[c] = NoQris /\ ~ codes'[c].acked,
         \A h \in Handlers :
            job'[h].at = "emit" => job'[h] = job[h] \/ Stored(job[h])'
  PROVE  PayInv'
<1>1. BellsArePaid'
  BY DEF PayInv, BellsArePaid, TypeOK
<1>2. JobsAreStored'
  <2> SUFFICES ASSUME NEW h \in Handlers, job'[h] = job[h], job[h].at = "emit"
               PROVE  Stored(job[h])'
    BY DEF JobsAreStored
  <2>1. Stored(job[h])
    BY DEF PayInv, JobsAreStored
  <2>2. /\ job[h].order \in Orders /\ Placed(job[h].order)
        /\ job[h].code \in Codes \cup {NoCode}
    BY JobTypes
  <2>3. job[h].code # NoCode => codes'[job[h].code] = codes[job[h].code]
    BY <2>1, <2>2 DEF Stored, NoQris
  <2> QED  BY <2>1, <2>2, <2>3 DEF Stored
<1>3. OpenIsUnacked'
  BY DEF PayInv, OpenIsUnacked
<1>4. AckedPaymentIsKept'
  <2> SUFFICES ASSUME NEW c \in Codes, codes'[c].state = "settled", codes'[c].acked
               PROVE  orders'[codes'[c].order].paidAt /\ codes'[c].order \in bells'
    BY DEF AckedPaymentIsKept, Settled, Row
  <2>1. codes'[c] = codes[c]
    OBVIOUS
  <2>2. codes[c].order \in Orders /\ Placed(codes[c].order)
    BY <2>1, CodeTypes
  <2>3. orders[codes[c].order].paidAt /\ codes[c].order \in bells
    BY <2>1 DEF PayInv, AckedPaymentIsKept, Settled, Row
  <2> QED  BY <2>1, <2>2, <2>3
<1> QED  BY <1>1, <1>2, <1>3, <1>4 DEF PayInv

\* A write of an order keeps its payment date and dates a new PAID.
LEMMA WriteKeepsPayInv ==
  ASSUME TypeOK, Referenced, PayInv,
         NEW h \in Handlers, NEW o \in Orders, Placed(o),
         NEW s \in OrderStatus, NEW c \in Codes \cup {NoCode},
         WriteOrder(h, o, s, c),
         c # NoCode => /\ codes[c].order = o
                       /\ codes[c].state \in {"settled", "failed"}
                       /\ codes[c].state = "settled" <=> s = "PAID",
         codes' = codes, bells' = bells
  PROVE  PayInv'
<1>1. orders[o] \in OrderRow
  BY OrderTypes
<1>2. /\ orders' = [orders EXCEPT ![o] = WithStatus(orders[o], s)]
      /\ WithStatus(orders[o], s).status = s
      /\ orders[o].paidAt => WithStatus(orders[o], s).paidAt
      /\ s = "PAID" => WithStatus(orders[o], s).paidAt
      /\ WithStatus(orders[o], s) # NoOrder
  BY <1>1, WithStatusType DEF WriteOrder
<1>3. \A p \in Orders : Placed(p) =>
        Placed(p)' /\ (orders[p].paidAt => orders'[p].paidAt)
  BY <1>2 DEF Placed, TypeOK
<1>4. PaidHasDate'
  BY <1>2 DEF PayInv, PaidHasDate, TypeOK
<1>5. ASSUME NEW g \in Handlers, job'[g].at = "emit", job'[g] # job[g]
      PROVE  Stored(job[g])'
  <2>1. job'[g] = [at |-> "emit", order |-> o, to |-> s, code |-> c]
    BY <1>5 DEF WriteOrder, TypeOK
  <2>2. s = "PAID" => orders'[o].paidAt
    BY <1>2 DEF TypeOK
  <2> QED  BY <2>1, <2>2 DEF Stored
<1> QED  BY <1>3, <1>4, <1>5, QuietKeepsPayInv

LEMMA EmitKeepsPayInv ==
  ASSUME TypeOK, Referenced, PayInv, NEW h \in Handlers, Emit(h)
  PROVE  PayInv'
<1>1. /\ job[h].at = "emit" /\ Stored(job[h])
      /\ job[h].order \in Orders /\ Placed(job[h].order)
      /\ job[h].code \in Codes \cup {NoCode}
      /\ orders' = orders /\ bells \subseteq bells'
  BY JobTypes DEF Emit, PayInv, JobsAreStored, rows, Ring
<1>2. /\ \A c \in Codes : /\ codes'[c].order = codes[c].order
                          /\ codes'[c].state = codes[c].state
      /\ \A c \in Codes : \/ codes'[c] = codes[c]
                          \/ c = job[h].code /\ job[h].code # NoCode
  <2>1. CASE codes' = codes
    BY <2>1
  <2>2. CASE /\ job[h].code # NoCode
             /\ codes' = [codes EXCEPT ![job[h].code].acked = TRUE]
    <3>1. job[h].code \in Codes /\ codes[job[h].code] \in Qris
      BY <1>1, <2>2, CodeTypes DEF Stored
    <3> QED  BY <2>2, <3>1 DEF TypeOK, Qris
  <2> QED  BY <2>1, <2>2 DEF Emit
<1>3. PaidHasDate'
  BY <1>1 DEF PayInv, PaidHasDate
<1>4. BellsArePaid'
  BY <1>1 DEF PayInv, BellsArePaid, Placed, Emit, Ring, Stored
<1>5. JobsAreStored'
  <2> SUFFICES ASSUME NEW g \in Handlers, job'[g].at = "emit"
               PROVE  Stored(job[g])'
    BY DEF JobsAreStored
  <2>1. job'[g] = job[g] /\ job[g].at = "emit"
    BY DEF Emit, Idle, TypeOK
  <2>2. Stored(job[g]) /\ job[g].code \in Codes \cup {NoCode}
    BY <2>1, JobTypes DEF PayInv, JobsAreStored
  <2> QED  BY <1>1, <1>2, <2>1, <2>2 DEF Stored
<1>6. OpenIsUnacked'
  BY <1>1, <1>2 DEF PayInv, OpenIsUnacked, Stored
<1>7. AckedPaymentIsKept'
  <2> SUFFICES ASSUME NEW c \in Codes, codes'[c].state = "settled", codes'[c].acked
               PROVE  orders'[codes'[c].order].paidAt /\ codes'[c].order \in bells'
    BY DEF AckedPaymentIsKept, Settled, Row
  <2>1. CASE codes'[c] = codes[c]
    BY <1>1, <2>1 DEF PayInv, AckedPaymentIsKept, Settled, Row
  <2>2. CASE c = job[h].code /\ job[h].code # NoCode
    <3>1. codes'[c].order = job[h].order /\ job[h].to = "PAID"
      BY <1>1, <1>2, <2>2 DEF Stored
    <3> QED  BY <1>1, <3>1 DEF Stored, Emit, Ring
  <2> QED  BY <1>2, <2>1, <2>2
<1> QED  BY <1>3, <1>4, <1>5, <1>6, <1>7 DEF PayInv

LEMMA CloseKeepsPayInv ==
  ASSUME TypeOK, Referenced, PayInv, NEW c \in Codes,
         NEW result \in {"settled", "failed"}, CloseCode(c, result)
  PROVE  PayInv'
<1>1. codes[c] \in Qris /\ codes[c].state = "open" /\ ~ codes[c].acked
  BY CodeTypes DEF CloseCode, PayInv, OpenIsUnacked
<1>2. /\ codes' = [codes EXCEPT ![c] = [codes[c] EXCEPT !.state = result]]
      /\ [codes[c] EXCEPT !.state = result].state = result
      /\ ~ [codes[c] EXCEPT !.state = result].acked
  BY <1>1 DEF CloseCode, Qris
<1>3. PaidHasDate' /\ BellsArePaid'
  BY DEF PayInv, PaidHasDate, BellsArePaid, Placed, CloseCode, rows, screens
<1>4. JobsAreStored'
  <2> SUFFICES ASSUME NEW h \in Handlers, job[h].at = "emit"
               PROVE  Stored(job[h])'
    BY DEF JobsAreStored, CloseCode
  <2>1. Stored(job[h]) /\ job[h].code \in Codes \cup {NoCode}
    BY JobTypes DEF PayInv, JobsAreStored
  <2>2. job[h].code # c \/ job[h].code = NoCode
    BY <1>1, <2>1 DEF Stored
  <2>3. job[h].code # NoCode => codes'[job[h].code] = codes[job[h].code]
    BY <1>2, <2>1, <2>2 DEF TypeOK
  <2> QED  BY <2>1, <2>3 DEF Stored, CloseCode, rows
<1>5. OpenIsUnacked' /\ AckedPaymentIsKept'
  <2>1. \A d \in Codes : codes'[d] = codes[d] \/ ~ codes'[d].acked
    BY <1>2 DEF TypeOK
  <2> QED
    BY <2>1 DEF PayInv, OpenIsUnacked, AckedPaymentIsKept, Settled, Row,
                CloseCode, rows, screens
<1> QED  BY <1>3, <1>4, <1>5 DEF PayInv

LEMMA NextKeepsPayInv ==
  ASSUME TypeOK, Referenced, PayInv, [Next]_vars
  PROVE  PayInv'
<1>1. ASSUME NEW o \in Orders, NEW t \in Tables, NEW g \in Guests,
             PlaceOrder(o, t, g)
      PROVE  PayInv'
  <2>1. \A p \in Orders : Placed(p) => orders'[p] = orders[p] /\ Placed(p)'
    BY <1>1 DEF PlaceOrder, Placed, TypeOK
  <2>2. PaidHasDate'
    BY <1>1 DEF PlaceOrder, PayInv, PaidHasDate, TypeOK
  <2> QED  BY <1>1, <2>1, <2>2, QuietKeepsPayInv DEF PlaceOrder, screens
<1>2. ASSUME NEW c \in Codes, NEW o \in Orders, CreateQris(c, o)
      PROVE  PayInv'
  <2>1. PaidHasDate' /\ \A p \in Orders : Placed(p) => Placed(p)' /\ orders'[p] = orders[p]
    BY <1>2 DEF CreateQris, PayInv, PaidHasDate, rows, Placed
  <2>2. \A d \in Codes : \/ codes'[d] = codes[d]
                         \/ codes[d] = NoQris /\ ~ codes'[d].acked
    BY <1>2 DEF CreateQris, TypeOK
  <2> QED  BY <1>2, <2>1, <2>2, QuietKeepsPayInv DEF CreateQris, screens
<1>3. ASSUME NEW c \in Codes, NEW result \in {"settled", "failed"},
             CloseCode(c, result)
      PROVE  PayInv'
  BY <1>3, CloseKeepsPayInv
<1>4. ASSUME NEW h \in Calls, NEW c \in Codes, HandleWebhook(h, c)
      PROVE  PayInv'
  <2>1. codes[c].order \in Orders /\ Placed(codes[c].order)
    BY <1>4, CodeTypes DEF HandleWebhook
  <2>2. PICK s \in OrderStatus :
          s = IF codes[c].state = "settled" THEN "PAID" ELSE "CANCELLED"
    BY DEF OrderStatus
  <2> QED
    BY <1>4, <2>1, <2>2, WriteKeepsPayInv DEF HandleWebhook, Handlers, screens
<1>5. ASSUME NEW h \in Staff, NEW o \in Orders, FlagTable(h, o)
      PROVE  PayInv'
  <2>1. /\ PaidHasDate'
        /\ \A p \in Orders : Placed(p) => Placed(p)' /\ orders'[p] = orders[p]
    BY <1>5 DEF FlagTable, PayInv, PaidHasDate, Placed
  <2>2. \A g \in Handlers : job'[g].at = "emit" => job'[g] = job[g]
    BY <1>5 DEF FlagTable, TypeOK
  <2> QED  BY <1>5, <2>1, <2>2, QuietKeepsPayInv DEF FlagTable, screens
<1>6. ASSUME NEW h \in Staff, NEW o \in Orders, NEW s \in StaffSets,
             SetStatus(h, o, s)
      PROVE  PayInv'
  BY <1>6, WriteKeepsPayInv, FloorAssumption DEF SetStatus, Handlers, screens
<1>7. ASSUME NEW h \in Staff, WritePaid(h) PROVE PayInv'
  <2>1. h \in Handlers /\ job[h] \in Job /\ job[h] # Idle
    BY <1>7 DEF WritePaid, TypeOK, Idle, Handlers
  <2>2. /\ job[h].order \in Orders /\ Placed(job[h].order)
        /\ job[h].to \in OrderStatus
    BY <2>1 DEF Job, Referenced
  <2> QED  BY <1>7, <2>1, <2>2, WriteKeepsPayInv DEF WritePaid, screens
<1>8. ASSUME NEW h \in Handlers, Emit(h) PROVE PayInv'
  BY <1>8, EmitKeepsPayInv
<1>9. CASE UNCHANGED <<orders, codes, job, bells>>
  BY <1>9, QuietKeepsPayInv DEF PayInv, PaidHasDate, Placed
<1>10. CASE Crash
  <2>1. /\ PaidHasDate' /\ bells' = bells /\ codes' = codes
        /\ \A p \in Orders : Placed(p) => Placed(p)' /\ orders'[p] = orders[p]
        /\ \A g \in Handlers : job'[g].at # "emit"
    BY <1>10 DEF Crash, PayInv, PaidHasDate, Placed, rows, screens, Idle
  <2> QED  BY <2>1, QuietKeepsPayInv
<1>11. ASSUME NEW h \in Staff, FailUpdate(h) PROVE PayInv'
  <2>1. /\ PaidHasDate' /\ bells' = bells /\ codes' = codes
        /\ \A p \in Orders : Placed(p) => Placed(p)' /\ orders'[p] = orders[p]
        /\ \A g \in Handlers : job'[g].at = "emit" => job'[g] = job[g]
    BY <1>11 DEF FailUpdate, PayInv, PaidHasDate, Placed, rows, screens, Idle, TypeOK
  <2> QED  BY <2>1, QuietKeepsPayInv
<1> QED
  BY <1>1, <1>2, <1>3, <1>4, <1>5, <1>6, <1>7, <1>8, <1>9, <1>10, <1>11
     DEF Next, vars, rows, screens, InitSession, ResetTable, SetTableStatus,
         EditTable, WriteTable, EmitTable

LEMMA PayInvHolds == Spec => []PayInv
<1>1. Init => PayInv
  BY DEF Init, PayInv, PaidHasDate, BellsArePaid, JobsAreStored, OpenIsUnacked,
         AckedPaymentIsKept, Settled, NoOrder, NoQris, Idle
<1>2. TypeOK /\ Referenced /\ PayInv /\ [Next]_vars => PayInv'
  BY NextKeepsPayInv
<1> QED  BY <1>1, <1>2, TypesHold, PTL DEF Spec

\* Whichever handler marks an order PAID also gives it its payment date.
THEOREM PaymentsAreDated == Spec => []PaidHasDate
<1>1. PayInv => PaidHasDate  BY DEF PayInv
<1> QED  BY <1>1, PayInvHolds, PTL

\* The kitchen bell never rings for an order whose payment is not stored.
THEOREM BellsFollowPayment == Spec => []BellsArePaid
<1>1. PayInv => BellsArePaid  BY DEF PayInv
<1> QED  BY <1>1, PayInvHolds, PTL

\* A settled payment that the gateway was told is received stays on its order,
\* dated, and has rung in the kitchen, through any number of crashes, repeated
\* notifications and changes by staff.
THEOREM AckedPaymentsAreSafe == Spec => []AckedPaymentIsKept
<1>1. PayInv => AckedPaymentIsKept  BY DEF PayInv
<1> QED  BY <1>1, PayInvHolds, PTL

-----------------------------------------------------------------------------
(* The screens.                                                            *)

(***************************************************************************)
(* The screens are right as long as the updates of an order do not         *)
(* overlap: of an undisturbed order at most one broadcast is pending, and  *)
(* it carries the status that is stored.                                   *)
(***************************************************************************)
LoneEmitter ==
    \A o \in Orders \ disturbed : \A h \in Emitting(o) :
        Emitting(o) = {h} /\ job[h].to = orders[o].status

Unseen == \A o \in Orders : ~ Placed(o) => orderScreen[o] = "NONE"

ScreenInv == LoneEmitter /\ Unseen /\ ScreensCatchUp

\* Steps that move no order, no broadcast and no order screen.
LEMMA QuietKeepsScreenInv ==
  ASSUME ScreenInv, orders' = orders, orderScreen' = orderScreen,
         disturbed' = disturbed,
         \A h \in Handlers : job'[h].at = "emit" \/ job[h].at = "emit" =>
                                job'[h] = job[h]
  PROVE  ScreenInv'
<1>1. \A o : Emitting(o)' = Emitting(o)
  BY DEF Emitting
<1>2. \A o \in Orders : \A h \in Emitting(o) : job'[h] = job[h]
  BY DEF Emitting
<1>3. LoneEmitter'
  BY <1>1, <1>2 DEF ScreenInv, LoneEmitter
<1>4. Unseen' /\ ScreensCatchUp'
  BY <1>1 DEF ScreenInv, Unseen, ScreensCatchUp, Placed
<1> QED  BY <1>3, <1>4 DEF ScreenInv

LEMMA PlaceKeepsScreenInv ==
  ASSUME TypeOK, Referenced, ScreenInv, NEW o \in Orders, NEW t \in Tables,
         NEW g \in Guests, PlaceOrder(o, t, g)
  PROVE  ScreenInv'
<1>1. \A p : Emitting(p)' = Emitting(p)
  BY DEF PlaceOrder, Emitting
<1>2. Emitting(o) = {}
  BY JobTypes DEF Emitting, PlaceOrder
<1>3. /\ orders'[o].status = "PENDING"
      /\ \A p \in Orders \ {o} : orders'[p] = orders[p] /\ (Placed(p)' <=> Placed(p))
      /\ Placed(o)' /\ ~ Placed(o)
      /\ UNCHANGED <<job, orderScreen, disturbed>>
  BY DEF PlaceOrder, Placed, TypeOK, NoOrder, screens
<1>4. LoneEmitter'
  BY <1>1, <1>2, <1>3 DEF ScreenInv, LoneEmitter
<1>5. Unseen' /\ ScreensCatchUp'
  BY <1>1, <1>3 DEF ScreenInv, Unseen, ScreensCatchUp
<1> QED  BY <1>4, <1>5 DEF ScreenInv

LEMMA WriteKeepsScreenInv ==
  ASSUME TypeOK, Referenced, ScreenInv,
         NEW h \in Handlers, job[h].at # "emit", NEW o \in Orders, Placed(o),
         NEW s \in OrderStatus, NEW c \in Codes \cup {NoCode},
         WriteOrder(h, o, s, c), orderScreen' = orderScreen
  PROVE  ScreenInv'
<1>1. orders[o] \in OrderRow
  BY OrderTypes
<1>2. /\ orders'[o].status = s
      /\ \A p \in Orders \ {o} : orders'[p] = orders[p]
      /\ \A p \in Orders : Placed(p)' <=> Placed(p)
  BY <1>1, WithStatusType, WriteOrderTypes DEF WriteOrder, TypeOK
<1>3. /\ job'[h].at = "emit" /\ job'[h].order = o /\ job'[h].to = s
      /\ \A g \in Handlers \ {h} : job'[g] = job[g]
  BY DEF WriteOrder, TypeOK
<1>4. /\ Emitting(o)' = Emitting(o) \cup {h}
      /\ \A p \in Orders \ {o} : Emitting(p)' = Emitting(p)
  BY <1>3 DEF Emitting
<1>5. /\ \A p \in Orders \ {o} : p \in disturbed' <=> p \in disturbed
      /\ o \notin disturbed' => Emitting(o) = {}
  BY DEF WriteOrder, Disturb
<1>6. ASSUME NEW p \in Orders \ disturbed', NEW g \in Emitting(p)'
      PROVE  Emitting(p)' = {g} /\ job'[g].to = orders'[p].status
  <2>1. CASE p = o
    BY <1>2, <1>3, <1>4, <1>5, <1>6, <2>1
  <2>2. CASE p # o
    <3>1. p \in Orders \ disturbed /\ g \in Emitting(p) /\ Emitting(p)' = Emitting(p)
      BY <1>4, <1>5, <1>6, <2>2
    <3>2. Emitting(p) = {g} /\ job[g].to = orders[p].status
      BY <3>1 DEF ScreenInv, LoneEmitter
    <3>3. g \in Handlers \ {h}
      BY <3>1 DEF Emitting
    <3> QED  BY <1>2, <1>3, <2>2, <3>1, <3>2, <3>3
  <2> QED  BY <2>1, <2>2
<1>7. LoneEmitter'
  BY <1>6 DEF LoneEmitter
<1>8. Unseen'
  BY <1>2 DEF ScreenInv, Unseen
<1>9. ScreensCatchUp'
  BY <1>2, <1>4, <1>5 DEF ScreenInv, ScreensCatchUp
<1> QED  BY <1>7, <1>8, <1>9 DEF ScreenInv

LEMMA EmitKeepsScreenInv ==
  ASSUME TypeOK, Referenced, ScreenInv, NEW h \in Handlers, Emit(h)
  PROVE  ScreenInv'
<1>1. job[h].at = "emit" /\ job[h].order \in Orders /\ Placed(job[h].order)
  BY JobTypes DEF Emit
<1>2. PICK o \in Orders : o = job[h].order
  BY <1>1
<1>3. /\ orders' = orders /\ disturbed' = disturbed
      /\ job'[h] = Idle
      /\ \A g \in Handlers \ {h} : job'[g] = job[g]
      /\ orderScreen'[o] = job[h].to
      /\ \A p \in Orders \ {o} : orderScreen'[p] = orderScreen[p]
  BY <1>2 DEF Emit, Show, rows, TypeOK
<1>4. /\ h \in Emitting(o) /\ Emitting(o)' = Emitting(o) \ {h}
      /\ \A p \in Orders \ {o} : Emitting(p)' = Emitting(p)
  BY <1>1, <1>2, <1>3 DEF Emitting, Idle
<1>5. LoneEmitter'
  <2> SUFFICES ASSUME NEW p \in Orders \ disturbed, NEW g \in Emitting(p)'
               PROVE  Emitting(p)' = {g} /\ job'[g].to = orders[p].status
    BY <1>3 DEF LoneEmitter
  <2>1. p # o
    BY <1>4 DEF ScreenInv, LoneEmitter
  <2>2. Emitting(p)' = Emitting(p) /\ g \in Handlers \ {h}
    BY <1>2, <1>4, <2>1 DEF Emitting
  <2> QED  BY <1>3, <2>1, <2>2 DEF ScreenInv, LoneEmitter
<1>6. Unseen'
  BY <1>1, <1>2, <1>3 DEF ScreenInv, Unseen, Placed
<1>7. ScreensCatchUp'
  <2> SUFFICES ASSUME NEW p \in Orders \ disturbed, Placed(p), Emitting(p)' = {}
               PROVE  \/ orderScreen'[p] = orders[p].status
                      \/ orderScreen'[p] = "NONE" /\ orders[p].status = "PENDING"
    BY <1>3 DEF ScreensCatchUp, Placed
  <2>1. CASE p = o
    BY <1>3, <1>4, <2>1 DEF ScreenInv, LoneEmitter
  <2>2. CASE p # o
    BY <1>3, <1>4, <2>2 DEF ScreenInv, ScreensCatchUp
  <2> QED  BY <2>1, <2>2
<1> QED  BY <1>5, <1>6, <1>7 DEF ScreenInv

LEMMA CrashKeepsScreenInv ==
  ASSUME TypeOK, ScreenInv, Crash
  PROVE  ScreenInv'
<1>1. /\ \A o \in Orders : Emitting(o)' = {}
      /\ \A o \in Orders \ disturbed' : Emitting(o) = {} /\ o \notin disturbed
      /\ UNCHANGED <<orders, orderScreen>>
  BY DEF Crash, Emitting, Idle, rows, screens
<1> QED  BY <1>1 DEF ScreenInv, LoneEmitter, Unseen, ScreensCatchUp, Placed

LEMMA NextKeepsScreenInv ==
  ASSUME TypeOK, Referenced, ScreenInv, [Next]_vars
  PROVE  ScreenInv'
<1>1. ASSUME NEW o \in Orders, NEW t \in Tables, NEW g \in Guests,
             PlaceOrder(o, t, g)
      PROVE  ScreenInv'
  BY <1>1, PlaceKeepsScreenInv
<1>2. ASSUME NEW h \in Calls, NEW c \in Codes, HandleWebhook(h, c)
      PROVE  ScreenInv'
  <2>1. codes[c].order \in Orders /\ Placed(codes[c].order)
    BY <1>2, CodeTypes DEF HandleWebhook
  <2>2. PICK s \in OrderStatus :
          s = IF codes[c].state = "settled" THEN "PAID" ELSE "CANCELLED"
    BY DEF OrderStatus
  <2> QED
    BY <1>2, <2>1, <2>2, WriteKeepsScreenInv
       DEF HandleWebhook, Handlers, screens, Idle
<1>3. ASSUME NEW h \in Staff, NEW o \in Orders, FlagTable(h, o)
      PROVE  ScreenInv'
  <2>1. \A g \in Handlers : job'[g].at = "emit" \/ job[g].at = "emit" =>
                               job'[g] = job[g]
    BY <1>3 DEF FlagTable, TypeOK, Idle
  <2> QED  BY <1>3, <2>1, QuietKeepsScreenInv DEF FlagTable, screens
<1>4. ASSUME NEW h \in Staff, NEW o \in Orders, NEW s \in StaffSets,
             SetStatus(h, o, s)
      PROVE  ScreenInv'
  BY <1>4, WriteKeepsScreenInv, FloorAssumption
     DEF SetStatus, Handlers, screens, Idle
<1>5. ASSUME NEW h \in Staff, WritePaid(h) PROVE ScreenInv'
  <2>1. h \in Handlers /\ job[h] \in Job /\ job[h] # Idle
    BY <1>5 DEF WritePaid, TypeOK, Idle, Handlers
  <2>2. /\ job[h].order \in Orders /\ Placed(job[h].order)
        /\ job[h].to \in OrderStatus
    BY <2>1 DEF Job, Referenced
  <2> QED  BY <1>5, <2>1, <2>2, WriteKeepsScreenInv DEF WritePaid, screens
<1>6. ASSUME NEW h \in Handlers, Emit(h) PROVE ScreenInv'
  BY <1>6, EmitKeepsScreenInv
<1>7. CASE UNCHANGED <<orders, job, orderScreen, disturbed>>
  BY <1>7, QuietKeepsScreenInv
<1>8. CASE Crash
  BY <1>8, CrashKeepsScreenInv
<1>9. ASSUME NEW h \in Staff, FailUpdate(h) PROVE ScreenInv'
  <2>1. \A g \in Handlers : job'[g].at = "emit" \/ job[g].at = "emit" =>
                               job'[g] = job[g]
    BY <1>9 DEF FailUpdate, TypeOK, Idle
  <2> QED  BY <1>9, <2>1, QuietKeepsScreenInv DEF FailUpdate, rows, screens
<1> QED
  BY <1>1, <1>2, <1>3, <1>4, <1>5, <1>6, <1>7, <1>8, <1>9
     DEF Next, vars, rows, screens, CreateQris, CloseCode, InitSession,
         ResetTable, SetTableStatus, EditTable, WriteTable, EmitTable

\* The screens show the stored status of every order whose updates did not
\* overlap and lost no broadcast, and one update alone puts them right again.
THEOREM ScreensConverge == Spec => []ScreensCatchUp
<1>1. Init => ScreenInv
  BY DEF Init, ScreenInv, LoneEmitter, Unseen, ScreensCatchUp, Emitting,
         Placed, Idle
<1>2. TypeOK /\ Referenced /\ ScreenInv /\ [Next]_vars => ScreenInv'
  BY NextKeepsScreenInv
<1>3. ScreenInv => ScreensCatchUp
  BY DEF ScreenInv
<1> QED  BY <1>1, <1>2, <1>3, TypesHold, PTL DEF Spec

-----------------------------------------------------------------------------
(* The tables.                                                             *)

\* Only updateStatus with PAID writes in two steps.
FlagsForPaid ==
    \A h \in Handlers : job[h].at = "write" => job[h].to = "PAID"

CleanupInv == FlagsForPaid /\ CleanupHasCause

\* An order that accounts for a flag on its table.
Accounts(o) == orders[o].paidAt \/ Marking(o) # {} \/ o \in torn

\* Steps that flag no table, keep the orders at their tables, and leave an order that
\* accounts for a flag paid, half marked or being marked.
LEMMA QuietKeepsCleanup ==
  ASSUME TypeOK, CleanupInv,
         \A t \in Tables : tables'[t].status = "WAITING_CLEANUP" =>
                              tables[t].status = "WAITING_CLEANUP",
         \A o \in Orders : Placed(o) =>
            /\ Placed(o)'
            /\ orders'[o].table = orders[o].table
            /\ Accounts(o) => Accounts(o)',
         \A h \in Handlers : job'[h].at = "write" => job'[h] = job[h]
  PROVE  CleanupInv'
<1>1. FlagsForPaid'
  BY DEF CleanupInv, FlagsForPaid
<1>2. CleanupHasCause'
  BY DEF CleanupInv, CleanupHasCause, Accounts
<1> QED  BY <1>1, <1>2 DEF CleanupInv

LEMMA WriteKeepsCleanup ==
  ASSUME TypeOK, CleanupInv,
         NEW h \in Handlers, NEW o \in Orders, Placed(o),
         NEW s \in OrderStatus, NEW c \in Codes \cup {NoCode},
         WriteOrder(h, o, s, c),
         job[h].at = "write" => job[h].order = o /\ s = "PAID",
         tables' = tables
  PROVE  CleanupInv'
<1>1. orders[o] \in OrderRow
  BY OrderTypes
<1>2. /\ orders' = [orders EXCEPT ![o] = WithStatus(orders[o], s)]
      /\ WithStatus(orders[o], s).table = orders[o].table
      /\ orders[o].paidAt => WithStatus(orders[o], s).paidAt
      /\ s = "PAID" => WithStatus(orders[o], s).paidAt
      /\ WithStatus(orders[o], s) # NoOrder
  BY <1>1, WithStatusType DEF WriteOrder
<1>3. job'[h].at = "emit" /\ \A g \in Handlers \ {h} : job'[g] = job[g]
  BY DEF WriteOrder, TypeOK
<1>4. ASSUME NEW p \in Orders, Placed(p)
      PROVE  Placed(p)' /\ orders'[p].table = orders[p].table
  BY <1>2, <1>4 DEF Placed, TypeOK
<1>5. ASSUME NEW p \in Orders, Accounts(p) PROVE Accounts(p)'
  <2>1. CASE p = o /\ s = "PAID"
    BY <1>2, <2>1 DEF Accounts, TypeOK
  <2>2. CASE p # o \/ s # "PAID"
    <3>1. orders[p].paidAt => orders'[p].paidAt
      BY <1>2 DEF TypeOK
    <3>2. p \in torn => p \in torn'
      BY <2>2 DEF WriteOrder
    <3>3. Marking(p) \subseteq Marking(p)'
      BY <1>3, <2>2 DEF Marking, Handlers
    <3> QED  BY <1>5, <3>1, <3>2, <3>3 DEF Accounts
  <2> QED  BY <2>1, <2>2
<1> QED  BY <1>3, <1>4, <1>5, QuietKeepsCleanup

LEMMA FlagKeepsCleanup ==
  ASSUME TypeOK, CleanupInv, NEW h \in Staff, NEW o \in Orders, FlagTable(h, o)
  PROVE  CleanupInv'
<1>1. h \in Handlers /\ Placed(o) /\ orders' = orders /\ torn' = torn
  BY DEF FlagTable, Handlers
<1>2. /\ job'[h].at = "write" /\ job'[h].order = o /\ job'[h].to = "PAID"
      /\ job[h].at # "write"
      /\ \A g \in Handlers \ {h} : job'[g] = job[g]
  BY <1>1 DEF FlagTable, TypeOK, Idle
<1>3. \A t \in Tables : t # orders[o].table => tables'[t] = tables[t]
  BY DEF FlagTable, TypeOK
<1>4. FlagsForPaid'
  BY <1>2 DEF CleanupInv, FlagsForPaid
<1>5. CleanupHasCause'
  <2> SUFFICES ASSUME "WAITING_CLEANUP" \notin DeskSets,
                      NEW t \in Tables, tables'[t].status = "WAITING_CLEANUP"
               PROVE  \E p \in Orders :
                        Placed(p) /\ orders[p].table = t /\ Accounts(p)'
    BY <1>1 DEF CleanupHasCause, Placed, Accounts
  <2>1. CASE t = orders[o].table
    <3>1. h \in Marking(o)'
      BY <1>2 DEF Marking
    <3> QED  BY <1>1, <2>1, <3>1 DEF Accounts
  <2>2. CASE t # orders[o].table
    <3>1. PICK p \in Orders : Placed(p) /\ orders[p].table = t /\ Accounts(p)
      BY <1>3, <2>2 DEF CleanupInv, CleanupHasCause, Accounts
    <3>2. Marking(p) \subseteq Marking(p)'
      BY <1>2 DEF Marking, Handlers
    <3> QED  BY <1>1, <3>1, <3>2 DEF Accounts
  <2> QED  BY <2>1, <2>2
<1> QED  BY <1>4, <1>5 DEF CleanupInv

\* Handlers that end between their two writes, one by an error or all by a crash, leave
\* their orders in torn, unless these are paid.
LEMMA EndKeepsCleanup ==
  ASSUME TypeOK, CleanupInv, NEW hs \in SUBSET Staff,
         torn' = torn \cup HalfMarked(hs), UNCHANGED rows,
         \A h \in Handlers : job'[h].at = "write" => job'[h] = job[h],
         \A h \in Staff \ hs : job'[h] = job[h]
  PROVE  CleanupInv'
<1>1. ASSUME NEW o \in Orders, Accounts(o) PROVE Accounts(o)'
  <2>1. CASE Marking(o) \cap hs # {}
    BY <2>1 DEF HalfMarked, Accounts, rows
  <2>2. CASE Marking(o) \cap hs = {}
    <3>1. Marking(o) \subseteq Marking(o)'
      BY <2>2 DEF Marking
    <3> QED  BY <1>1, <3>1 DEF Accounts, rows
  <2> QED  BY <2>1, <2>2
<1> QED  BY <1>1, QuietKeepsCleanup DEF rows, Placed

LEMMA NextKeepsCleanup ==
  ASSUME TypeOK, Referenced, CleanupInv, [Next]_vars
  PROVE  CleanupInv'
<1>1. ASSUME NEW o \in Orders, NEW t \in Tables, NEW g \in Guests,
             PlaceOrder(o, t, g)
      PROVE  CleanupInv'
  <2>1. \A p \in Orders : Placed(p) => orders'[p] = orders[p] /\ Placed(p)'
    BY <1>1 DEF PlaceOrder, Placed, TypeOK
  <2>2. \A p \in Orders : Placed(p) /\ Accounts(p) => Accounts(p)'
    BY <1>1, <2>1 DEF PlaceOrder, Accounts, Marking
  <2>3. \A u \in Tables : tables'[u].status = "WAITING_CLEANUP" =>
                             tables[u].status = "WAITING_CLEANUP"
    BY <1>1 DEF PlaceOrder, TypeOK
  <2> QED  BY <1>1, <2>1, <2>2, <2>3, QuietKeepsCleanup DEF PlaceOrder
<1>2. ASSUME NEW h \in Calls, NEW c \in Codes, HandleWebhook(h, c)
      PROVE  CleanupInv'
  <2>1. codes[c].order \in Orders /\ Placed(codes[c].order)
    BY <1>2, CodeTypes DEF HandleWebhook
  <2>2. PICK s \in OrderStatus :
          s = IF codes[c].state = "settled" THEN "PAID" ELSE "CANCELLED"
    BY DEF OrderStatus
  <2> QED
    BY <1>2, <2>1, <2>2, WriteKeepsCleanup DEF HandleWebhook, Handlers, Idle
<1>3. ASSUME NEW h \in Staff, NEW o \in Orders, FlagTable(h, o)
      PROVE  CleanupInv'
  BY <1>3, FlagKeepsCleanup
<1>4. ASSUME NEW h \in Staff, NEW o \in Orders, NEW s \in StaffSets,
             SetStatus(h, o, s)
      PROVE  CleanupInv'
  BY <1>4, WriteKeepsCleanup, FloorAssumption DEF SetStatus, Handlers, Idle
<1>5. ASSUME NEW h \in Staff, WritePaid(h) PROVE CleanupInv'
  <2>1. h \in Handlers /\ job[h] \in Job /\ job[h] # Idle
    BY <1>5 DEF WritePaid, TypeOK, Idle, Handlers
  <2>2. /\ job[h].order \in Orders /\ Placed(job[h].order)
        /\ job[h].to \in OrderStatus /\ job[h].to = "PAID"
    BY <1>5, <2>1 DEF Job, Referenced, CleanupInv, FlagsForPaid, WritePaid
  <2> QED  BY <1>5, <2>1, <2>2, WriteKeepsCleanup DEF WritePaid
<1>6. ASSUME NEW h \in Handlers, Emit(h) PROVE CleanupInv'
  <2>1. \A g \in Handlers : job'[g].at = "write" \/ job[g].at = "write" => job'[g] = job[g]
    BY <1>6 DEF Emit, TypeOK, Idle
  <2>2. \A p \in Orders : Accounts(p) => Accounts(p)'
    BY <1>6, <2>1 DEF Emit, rows, Accounts, Marking, Handlers
  <2> QED  BY <1>6, <2>1, <2>2, QuietKeepsCleanup DEF Emit, rows, Placed
<1>7. ASSUME NEW d \in Desks, NEW t \in Tables, NEW row \in TableRow,
             WriteTable(d, t, row),
             "WAITING_CLEANUP" \notin DeskSets =>
                row.status # "WAITING_CLEANUP" \/ row = tables[t]
      PROVE  CleanupInv'
  <2>1. CASE "WAITING_CLEANUP" \in DeskSets
    BY <1>7, <2>1 DEF CleanupInv, FlagsForPaid, CleanupHasCause, WriteTable
  <2>2. CASE "WAITING_CLEANUP" \notin DeskSets
    <3>1. \A u \in Tables : tables'[u].status = "WAITING_CLEANUP" =>
                               tables[u].status = "WAITING_CLEANUP"
      BY <1>7, <2>2 DEF WriteTable, TypeOK
    <3> QED  BY <1>7, <3>1, QuietKeepsCleanup DEF WriteTable, Placed, Accounts, Marking
  <2> QED  BY <2>1, <2>2
<1>8. ASSUME NEW d \in Desks, NEW t \in Tables, NEW g \in Guests,
             InitSession(d, t, g)
      PROVE  CleanupInv'
  BY <1>7, <1>8 DEF InitSession, TableRow, TableStatus
<1>9. ASSUME NEW d \in Desks, NEW t \in Tables, ResetTable(d, t)
      PROVE  CleanupInv'
  BY <1>7, <1>9 DEF ResetTable, TableRow, TableStatus
<1>10. ASSUME NEW d \in Desks, NEW t \in Tables, NEW s \in DeskSets,
              SetTableStatus(d, t, s)
       PROVE  CleanupInv'
  <2>1. /\ [tables[t] EXCEPT !.status = s] \in TableRow
        /\ [tables[t] EXCEPT !.status = s].status = s
    BY FloorAssumption DEF TypeOK, TableRow
  <2> QED  BY <1>7, <1>10, <2>1 DEF SetTableStatus
<1>11. ASSUME NEW d \in Desks, NEW t \in Tables, EditTable(d, t)
       PROVE  CleanupInv'
  BY <1>7, <1>11 DEF EditTable, TypeOK
<1>12. CASE UNCHANGED <<rows, job, torn>>
  BY <1>12, QuietKeepsCleanup DEF rows, Placed, Accounts, Marking
<1>13. CASE Crash
  <2>1. \A h \in Handlers : job'[h].at # "write"
    BY <1>13 DEF Crash, Idle
  <2> QED  BY <1>13, <2>1, EndKeepsCleanup DEF Crash
<1>14. ASSUME NEW h \in Staff, FailUpdate(h) PROVE CleanupInv'
  <2>1. \A g \in Handlers : job'[g].at = "write" => job'[g] = job[g]
    BY <1>14 DEF FailUpdate, TypeOK, Idle
  <2>2. \A g \in Staff \ {h} : job'[g] = job[g]
    BY <1>14 DEF FailUpdate, TypeOK, Handlers
  <2> QED  BY <1>14, <2>1, <2>2, EndKeepsCleanup DEF FailUpdate
<1> QED
  BY <1>1, <1>2, <1>3, <1>4, <1>5, <1>6, <1>8, <1>9, <1>10, <1>11, <1>12, <1>13, <1>14
     DEF Next, vars, CreateQris, CloseCode, EmitTable

LEMMA CleanupInvHolds == Spec => []CleanupInv
<1>1. Init => CleanupInv
  BY DEF Init, CleanupInv, FlagsForPaid, CleanupHasCause, Idle
<1>2. TypeOK /\ Referenced /\ CleanupInv /\ [Next]_vars => CleanupInv'
  BY NextKeepsCleanup
<1> QED  BY <1>1, <1>2, TypesHold, PTL DEF Spec

\* For any number of orders, staff, errors and crashes, a table waits for cleanup only on
\* account of an order at it that is paid, is being marked PAID, or was left half marked by
\* an error or a crash between the two writes of updateStatus.
THEOREM CleanupFollowsPayment == Spec => []CleanupHasCause
<1>1. CleanupInv => CleanupHasCause  BY DEF CleanupInv
<1> QED  BY <1>1, CleanupInvHolds, PTL

-----------------------------------------------------------------------------
(* The payment ledger.                                                     *)

(***************************************************************************)
(* Credited and AtTill are the ledger's views of the payment dates and of  *)
(* the staff handlers between the two writes of PAID.  PayInv says that a  *)
(* handler in front of its broadcast has stored what it will say, and      *)
(* FlagsForPaid that a handler at the till is there to write PAID.         *)
(***************************************************************************)
Credited == {o \in Orders : Placed(o) /\ orders[o].paidAt}

AtTill == {o \in Orders : Marking(o) # {}}

LEMMA FlagsHold == Spec => []FlagsForPaid
<1>1. CleanupInv => FlagsForPaid  BY DEF CleanupInv
<1> QED  BY <1>1, CleanupInvHolds, PTL

\* A handler that neither comes from the till nor goes there leaves it as it is.
LEMMA TillKept ==
  ASSUME TypeOK, NEW h \in Handlers, job[h].at # "write", NEW j, j.at # "write",
         job' = [job EXCEPT ![h] = j]
  PROVE  AtTill' = AtTill
<1>1. job'[h] = j /\ \A g \in Handlers \ {h} : job'[g] = job[g]
  BY DEF TypeOK
<1>2. \A g \in Handlers, o \in Orders :
        (job'[g].at = "write" /\ job'[g].order = o)
           <=> (job[g].at = "write" /\ job[g].order = o)
  BY <1>1
<1> QED  BY <1>2 DEF AtTill, Marking, Handlers

LEMMA WriteKeepsTill ==
  ASSUME TypeOK, NEW h \in Handlers, job[h] = Idle,
         NEW o, NEW s, NEW c, WriteOrder(h, o, s, c)
  PROVE  AtTill' = AtTill
<1> DEFINE j == [at |-> "emit", order |-> o, to |-> s, code |-> c]
<1>1. j.at # "write" /\ job[h].at # "write"
  BY DEF Idle
<1>2. job' = [job EXCEPT ![h] = j]
  BY DEF WriteOrder
<1> HIDE DEF j
<1> QED  BY <1>1, <1>2, TillKept

\* A write credits its order if it is PAID, and no other.
LEMMA WriteCredits ==
  ASSUME TypeOK, NEW h \in Handlers, NEW o \in Orders, Placed(o),
         NEW s \in OrderStatus, NEW c, WriteOrder(h, o, s, c)
  PROVE  Credited' = IF s = "PAID" THEN Credited \cup {o} ELSE Credited
<1>1. orders[o] \in OrderRow
  BY OrderTypes
<1>2. /\ orders' = [orders EXCEPT ![o] = WithStatus(orders[o], s)]
      /\ WithStatus(orders[o], s) # NoOrder
      /\ WithStatus(orders[o], s).paidAt <=> orders[o].paidAt \/ s = "PAID"
  BY <1>1, WithStatusType DEF WriteOrder, WithStatus, OrderRow
<1> QED  BY <1>2 DEF Credited, Placed, TypeOK

\* The handlers of orders and payments implement PaymentLedger: each of their
\* steps is one entry of the ledger or none, in any overlap and over crashes.
THEOREM LedgerRefinement == Spec => ImplementsLedger
<1>1. Init => Ledger!Init
  BY DEF Init, Ledger!Init, Placed, Marking, Idle, Handlers
<1>2. TypeOK /\ Referenced /\ PayInv /\ FlagsForPaid /\ [Next]_vars
      => [Ledger!Next]_(Ledger!vars)
  <2> SUFFICES ASSUME TypeOK, Referenced, PayInv, FlagsForPaid, [Next]_vars
               PROVE  Ledger!Next \/ UNCHANGED <<codes, AtTill, Credited, bells>>
    BY DEF Ledger!vars, Credited, AtTill
  <2>1. ASSUME NEW o \in Orders, NEW t \in Tables, NEW g \in Guests,
               PlaceOrder(o, t, g)
        PROVE  UNCHANGED <<codes, AtTill, Credited, bells>>
    BY <2>1 DEF PlaceOrder, AtTill, Marking, Credited, Placed, TypeOK, screens
  <2>2. ASSUME NEW c \in Codes, NEW o \in Orders, CreateQris(c, o)
        PROVE  Ledger!Next
    BY <2>2 DEF CreateQris, rows, screens, Placed, Marking, Ledger!Charge, Ledger!Next
  <2>3. ASSUME NEW c \in Codes, NEW result \in {"settled", "failed"},
               CloseCode(c, result)
        PROVE  Ledger!Next
    BY <2>3 DEF CloseCode, rows, screens, Placed, Marking, Ledger!Decide, Ledger!Next
  <2>4. ASSUME NEW h \in Calls, NEW c \in Codes, HandleWebhook(h, c)
        PROVE  Ledger!Next \/ UNCHANGED <<codes, AtTill, Credited, bells>>
    <3>1. codes[c].order \in Orders /\ Placed(codes[c].order) /\ h \in Handlers
      BY <2>4, CodeTypes DEF HandleWebhook, Handlers
    <3>2. PICK s \in OrderStatus :
            s = IF codes[c].state = "settled" THEN "PAID" ELSE "CANCELLED"
      BY DEF OrderStatus
    <3>3. Credited' = IF s = "PAID" THEN Credited \cup {codes[c].order}
                                    ELSE Credited
      BY <2>4, <3>1, <3>2, WriteCredits DEF HandleWebhook
    <3>4. AtTill' = AtTill
      BY <2>4, <3>1, WriteKeepsTill DEF HandleWebhook
    <3>5. CASE s = "PAID"
      <4>1. Ledger!CreditByCode(c)
        BY <2>4, <3>2, <3>3, <3>4, <3>5
           DEF HandleWebhook, screens, Credited, AtTill, Ledger!CreditByCode
      <4> QED  BY <4>1 DEF Ledger!Next
    <3>6. CASE s # "PAID"
      BY <2>4, <3>3, <3>4, <3>6 DEF HandleWebhook, screens
    <3> QED  BY <3>5, <3>6
  <2>5. ASSUME NEW h \in Staff, NEW o \in Orders, FlagTable(h, o)
        PROVE  Ledger!Next
    <3>1. AtTill' = AtTill \cup {o}
      BY <2>5 DEF FlagTable, AtTill, Marking, TypeOK, Idle, Handlers
    <3>2. Ledger!BringToTill(o)
      BY <2>5, <3>1
         DEF FlagTable, AtTill, Placed, screens, Ledger!BringToTill
    <3> QED  BY <3>2 DEF Ledger!Next
  <2>6. ASSUME NEW h \in Staff, NEW o \in Orders, NEW s \in StaffSets,
               SetStatus(h, o, s)
        PROVE  UNCHANGED <<codes, AtTill, Credited, bells>>
    <3>1. Credited' = Credited
      BY <2>6, WriteCredits, FloorAssumption DEF SetStatus, Handlers
    <3>2. AtTill' = AtTill
      BY <2>6, WriteKeepsTill DEF SetStatus, Handlers
    <3> QED  BY <2>6, <3>1, <3>2 DEF SetStatus, screens
  <2>7. ASSUME NEW h \in Staff, WritePaid(h)
        PROVE  Ledger!Next
    <3>1. h \in Handlers /\ job[h] \in Job /\ job[h] # Idle
      BY <2>7 DEF WritePaid, TypeOK, Idle, Handlers
    <3>2. PICK o \in Orders : o = job[h].order
      BY <3>1 DEF Job
    <3>3. Placed(o) /\ job[h].to = "PAID" /\ "PAID" \in OrderStatus
      BY <2>7, <3>1, <3>2 DEF Referenced, WritePaid, FlagsForPaid, OrderStatus
    <3>4. Credited' = Credited \cup {o}
      BY <2>7, <3>1, <3>2, <3>3, WriteCredits DEF WritePaid
    <3>5. o \in AtTill
      BY <2>7, <3>2 DEF WritePaid, AtTill, Marking
    <3>6. AtTill' \in {AtTill, AtTill \ {o}}
      <4>1. /\ job'[h].at = "emit"
            /\ \A g \in Handlers \ {h} : job'[g] = job[g]
        BY <2>7, <3>1 DEF WritePaid, WriteOrder, TypeOK
      <4>2. \A p \in Orders \ {o} : p \in AtTill' <=> p \in AtTill
        BY <3>2, <4>1 DEF AtTill, Marking, Handlers
      <4>3. AtTill' \subseteq Orders /\ AtTill \subseteq Orders
        BY DEF AtTill
      <4> QED  BY <3>5, <4>2, <4>3
    <3>7. Ledger!CreditAtTill(o)
      BY <2>7, <3>4, <3>5, <3>6
         DEF WritePaid, screens, Credited, AtTill, Ledger!CreditAtTill
    <3> QED  BY <3>7 DEF Ledger!Next
  <2>8. ASSUME NEW h \in Handlers, Emit(h)
        PROVE  Ledger!Next \/ UNCHANGED <<codes, AtTill, Credited, bells>>
    <3> DEFINE o == job[h].order
               c == job[h].code
    <3>1. /\ o \in Orders /\ Placed(o) /\ c \in Codes \cup {NoCode}
          /\ Stored(job[h])
      BY <2>8, JobTypes DEF Emit, PayInv, JobsAreStored
    <3>2. /\ Credited' = Credited
          /\ bells' = Ring(job[h])
          /\ AtTill' = AtTill
      <4>1. AtTill' = AtTill
        BY <2>8, TillKept DEF Emit, Idle
      <4> QED  BY <2>8, <4>1 DEF Emit, Credited, Placed, rows
    <3>3. job[h].to = "PAID" => o \in Credited
      BY <3>1 DEF Stored, Credited
    <3>4. CASE codes' = codes /\ job[h].to = "PAID"
      <4>1. Ledger!Ring(o)
        BY <3>2, <3>3, <3>4 DEF Ring, Credited, AtTill, Ledger!Ring
      <4> QED  BY <3>1, <4>1 DEF Ledger!Next
    <3>5. CASE codes' = codes /\ job[h].to # "PAID"
      BY <3>2, <3>5 DEF Ring
    <3>6. CASE c # NoCode /\ codes' = [codes EXCEPT ![c].acked = TRUE]
      <4>1. c \in Codes /\ codes[c].order = o
        BY <3>1, <3>6 DEF Stored
      <4>2. CASE job[h].to = "PAID" /\ codes[c].state = "settled"
        <5>1. Ledger!AnswerSettled(c)
          BY <3>2, <3>3, <3>6, <4>1, <4>2
             DEF Ring, Credited, AtTill, Ledger!AnswerSettled
        <5> QED  BY <4>1, <5>1 DEF Ledger!Next
      <4>3. CASE job[h].to # "PAID" /\ codes[c].state = "failed"
        <5>1. Ledger!AnswerFailed(c)
          BY <3>2, <3>6, <4>3 DEF Ring, Credited, AtTill, Ledger!AnswerFailed
        <5> QED  BY <4>1, <5>1 DEF Ledger!Next
      <4> QED  BY <3>1, <3>6, <4>2, <4>3 DEF Stored
    <3> QED  BY <2>8, <3>4, <3>5, <3>6 DEF Emit
  <2>9. CASE Crash
    <3>1. AtTill' \in SUBSET AtTill
      BY <2>9 DEF Crash, AtTill, Marking, Idle, Handlers
    <3>2. Ledger!AbandonTill
      BY <2>9, <3>1
         DEF Crash, AtTill, Placed, rows, screens, Ledger!AbandonTill
    <3> QED  BY <3>2 DEF Ledger!Next
  <2>10. CASE UNCHANGED <<orders, codes, job, bells>>
    BY <2>10 DEF AtTill, Marking, Credited, Placed
  <2>11. ASSUME NEW h \in Staff, FailUpdate(h)
         PROVE  Ledger!Next
    <3>1. AtTill' \in SUBSET AtTill
      BY <2>11 DEF FailUpdate, AtTill, Marking, Idle, TypeOK, Handlers
    <3>2. Ledger!AbandonTill
      BY <2>11, <3>1
         DEF FailUpdate, AtTill, Placed, rows, screens, Ledger!AbandonTill
    <3> QED  BY <3>2 DEF Ledger!Next
  <2> QED
    BY <2>1, <2>2, <2>3, <2>4, <2>5, <2>6, <2>7, <2>8, <2>9, <2>10, <2>11
       DEF Next, vars, rows, screens, InitSession, ResetTable, SetTableStatus,
           EditTable, WriteTable, EmitTable
<1> QED
  BY <1>1, <1>2, TypesHold, PayInvHolds, FlagsHold,
     PTL DEF Spec, ImplementsLedger, Ledger!Spec
-----------------------------------------------------------------------------
(* What cancels a paid order.                                              *)

\* Who wants to mark orders PAID is staff, and only if staff do that at all; every other
\* PAID order has a code that was settled.
MarksAreSent == \A h \in Handlers : job[h].at = "write" => "PAID" \in StaffSets

PaidHasPayer ==
    \A o \in Orders : orders[o].status = "PAID" =>
        "PAID" \in StaffSets \/ \E d \in CodesOf(o) : Settled(d)

PayerInv == MarksAreSent /\ PaidHasPayer

\* A settled code stays settled and keeps its order.
LEMMA SettledStays ==
  ASSUME TypeOK, Referenced, [Next]_vars, NEW o \in Orders, NEW d \in CodesOf(o), Settled(d)
  PROVE  d \in CodesOf(o)' /\ Settled(d)'
<1>1. d \in Codes /\ codes[d] \in Qris /\ codes[d].order = o
      /\ codes[d].state = "settled" /\ codes[d] # NoQris
  BY DEF CodesOf, Settled, TypeOK
<1>2. CASE codes' = codes
  BY <1>1, <1>2 DEF CodesOf, Settled
<1>3. ASSUME NEW c \in Codes, NEW p \in Orders, CreateQris(c, p)
      PROVE  d \in CodesOf(o)' /\ Settled(d)'
  <2>1. codes'[d] = codes[d]
    BY <1>1, <1>3 DEF CreateQris, TypeOK
  <2> QED  BY <1>1, <2>1 DEF CodesOf, Settled
<1>4. ASSUME NEW c \in Codes, NEW result \in {"settled", "failed"}, CloseCode(c, result)
      PROVE  d \in CodesOf(o)' /\ Settled(d)'
  <2>1. codes'[d] = codes[d]
    BY <1>1, <1>4 DEF CloseCode, TypeOK
  <2> QED  BY <1>1, <2>1 DEF CodesOf, Settled
<1>5. ASSUME NEW h \in Handlers, Emit(h)
      PROVE  d \in CodesOf(o)' /\ Settled(d)'
  <2>1. CASE codes' = [codes EXCEPT ![job[h].code].acked = TRUE]
    <3>1. codes'[d].order = codes[d].order /\ codes'[d].state = codes[d].state
      BY <1>1, <2>1 DEF TypeOK, Qris
    <3> QED  BY <1>1, <3>1 DEF CodesOf, Settled, NoQris
  <2> QED  BY <1>2, <1>5, <2>1 DEF Emit
<1> QED
  BY <1>2, <1>3, <1>4, <1>5
     DEF Next, vars, HandleWebhook, FlagTable, SetStatus, WritePaid, FailUpdate, InitSession,
         ResetTable, SetTableStatus, EditTable, WriteTable, EmitTable, PlaceOrder, Crash

\* How an order can get another status.
LEMMA StatusSteps ==
  ASSUME TypeOK, Referenced, FlagsForPaid, PayerInv, [Next]_vars, NEW o \in Orders
  PROVE  \/ orders'[o] = orders[o]
         \/ orders'[o].status = "PENDING"
         \/ orders'[o].status \in StaffSets
         \/ \E c \in CodesOf(o) :
               /\ codes[c].state \in {"settled", "failed"} /\ ~ codes[c].acked
               /\ orders'[o].status = IF codes[c].state = "settled" THEN "PAID" ELSE "CANCELLED"
               /\ codes' = codes
<1>1. ASSUME NEW h \in Handlers, NEW p \in Orders, Placed(p), NEW s \in OrderStatus, NEW c,
             WriteOrder(h, p, s, c)
      PROVE  IF o = p THEN orders'[o].status = s ELSE orders'[o] = orders[o]
  <2>1. orders[p] \in OrderRow
    BY <1>1, OrderTypes
  <2>2. orders' = [orders EXCEPT ![p] = WithStatus(orders[p], s)]
    BY <1>1 DEF WriteOrder
  <2> QED  BY <2>1, <2>2, WithStatusType DEF TypeOK
<1>2. ASSUME NEW p \in Orders, NEW t \in Tables, NEW g \in Guests, PlaceOrder(p, t, g)
      PROVE  orders'[o] = orders[o] \/ orders'[o].status = "PENDING"
  BY <1>2 DEF PlaceOrder, TypeOK
<1>3. ASSUME NEW h \in Calls, NEW c \in Codes, HandleWebhook(h, c)
      PROVE  \/ orders'[o] = orders[o]
             \/ /\ c \in CodesOf(o)
                /\ codes[c].state \in {"settled", "failed"} /\ ~ codes[c].acked
                /\ orders'[o].status = IF codes[c].state = "settled" THEN "PAID" ELSE "CANCELLED"
                /\ codes' = codes
  <2> DEFINE p == codes[c].order
  <2>1. p \in Orders /\ Placed(p) /\ codes[c] # NoQris
    BY <1>3, CodeTypes DEF HandleWebhook
  <2>2. PICK s \in OrderStatus :
          s = IF codes[c].state = "settled" THEN "PAID" ELSE "CANCELLED"
    BY DEF OrderStatus
  <2>3. h \in Handlers /\ WriteOrder(h, p, s, c)
    BY <1>3, <2>2 DEF HandleWebhook, Handlers
  <2>4. IF o = p THEN orders'[o].status = s ELSE orders'[o] = orders[o]
    BY <1>1, <2>1, <2>3
  <2> QED  BY <1>3, <2>1, <2>2, <2>4 DEF HandleWebhook, CodesOf
<1>4. ASSUME NEW h \in Staff, NEW p \in Orders, NEW s \in StaffSets, SetStatus(h, p, s)
      PROVE  orders'[o] = orders[o] \/ orders'[o].status \in StaffSets
  <2>1. IF o = p THEN orders'[o].status = s ELSE orders'[o] = orders[o]
    BY <1>1, <1>4, FloorAssumption DEF SetStatus, Handlers
  <2> QED  BY <2>1
<1>5. ASSUME NEW h \in Staff, WritePaid(h)
      PROVE  orders'[o] = orders[o] \/ orders'[o].status \in StaffSets
  <2>1. h \in Handlers /\ job[h] \in Job /\ job[h] # Idle
    BY <1>5 DEF WritePaid, TypeOK, Idle, Handlers
  <2>2. /\ job[h].order \in Orders /\ Placed(job[h].order)
        /\ job[h].to = "PAID" /\ "PAID" \in StaffSets /\ "PAID" \in OrderStatus
    BY <1>5, <2>1
       DEF WritePaid, Job, Referenced, FlagsForPaid, PayerInv, MarksAreSent, OrderStatus
  <2> QED  BY <1>1, <1>5, <2>1, <2>2 DEF WritePaid
<1> QED
  BY <1>2, <1>3, <1>4, <1>5
     DEF Next, vars, rows, CreateQris, CloseCode, FlagTable, FailUpdate, Emit, InitSession,
         ResetTable, SetTableStatus, EditTable, WriteTable, EmitTable, Crash

LEMMA NextKeepsPayerInv ==
  ASSUME TypeOK, Referenced, FlagsForPaid, PayerInv, [Next]_vars
  PROVE  PayerInv'
<1>1. MarksAreSent'
  <2> SUFFICES ASSUME NEW h \in Handlers, job'[h].at = "write" PROVE "PAID" \in StaffSets
    BY DEF MarksAreSent
  <2>1. CASE job'[h] = job[h]
    BY <2>1 DEF PayerInv, MarksAreSent
  <2>2. ASSUME NEW g \in Handlers, NEW p, NEW s, NEW c, WriteOrder(g, p, s, c)
        PROVE  job'[h] = job[h]
    BY <2>2 DEF WriteOrder, TypeOK
  <2>3. ASSUME NEW g \in Staff, NEW p \in Orders, FlagTable(g, p) PROVE "PAID" \in StaffSets
    BY <2>3 DEF FlagTable
  <2>4. ASSUME NEW g \in Handlers, Emit(g) PROVE job'[h] = job[h]
    BY <2>4 DEF Emit, Idle, TypeOK
  <2>5. CASE Crash
    BY <2>5 DEF Crash, Idle
  <2>6. ASSUME NEW g \in Staff, FailUpdate(g) PROVE job'[h] = job[h]
    BY <2>6 DEF FailUpdate, Idle, TypeOK
  <2> QED
    BY <2>1, <2>2, <2>3, <2>4, <2>5, <2>6
       DEF Next, vars, Handlers, PlaceOrder, CreateQris, CloseCode, HandleWebhook, SetStatus,
           WritePaid, InitSession, ResetTable, SetTableStatus, EditTable, WriteTable, EmitTable
<1>2. PaidHasPayer'
  <2> SUFFICES ASSUME NEW o \in Orders, orders'[o].status = "PAID", "PAID" \notin StaffSets
               PROVE  \E d \in CodesOf(o)' : Settled(d)'
    BY DEF PaidHasPayer
  <2>1. CASE orders'[o] = orders[o]
    <3>1. PICK d \in CodesOf(o) : Settled(d)
      BY <2>1 DEF PayerInv, PaidHasPayer
    <3> QED  BY <3>1, SettledStays
  <2>2. ASSUME NEW c \in CodesOf(o), codes[c].state \in {"settled", "failed"},
               orders'[o].status = IF codes[c].state = "settled" THEN "PAID" ELSE "CANCELLED"
        PROVE  \E d \in CodesOf(o)' : Settled(d)'
    <3>1. Settled(c)
      BY <2>2 DEF Settled
    <3> QED  BY <3>1, SettledStays
  <2> QED  BY <2>1, <2>2, StatusSteps
<1> QED  BY <1>1, <1>2 DEF PayerInv

\* With any number of codes and calls: unless staff send CANCELLED, a paid order is cancelled
\* only where one of its codes failed and another was paid, so an order with one code that is
\* left to the gateway stays paid.  What PaidIsNotCancelled fails by is the only way.
THEOREM OnlyASecondCodeCancels == Spec => CancellationNeedsSecondCode
<1>1. Init => PayerInv
  BY DEF Init, PayerInv, MarksAreSent, PaidHasPayer, Idle, NoOrder
<1>2. TypeOK /\ Referenced /\ FlagsForPaid /\ PayerInv /\ [Next]_vars => PayerInv'
  BY NextKeepsPayerInv
<1>3. TypeOK /\ Referenced /\ FlagsForPaid /\ PayerInv /\ [Next]_vars =>
        [\A o \in Orders :
           orders[o].status = "PAID" /\ orders'[o].status = "CANCELLED" =>
              \/ "CANCELLED" \in StaffSets
              \/ \E c \in CodesOf(o) :
                    /\ codes[c].state = "failed" /\ ~ codes[c].acked
                    /\ "PAID" \in StaffSets \/ \E d \in CodesOf(o) \ {c} : Settled(d)]_vars
  <2> SUFFICES ASSUME TypeOK, Referenced, FlagsForPaid, PayerInv, [Next]_vars,
                      NEW o \in Orders, orders[o].status = "PAID",
                      orders'[o].status = "CANCELLED", "CANCELLED" \notin StaffSets
               PROVE  \E c \in CodesOf(o) :
                         /\ codes[c].state = "failed" /\ ~ codes[c].acked
                         /\ "PAID" \in StaffSets \/ \E d \in CodesOf(o) \ {c} : Settled(d)
    OBVIOUS
  <2>1. PICK c \in CodesOf(o) :
           /\ codes[c].state \in {"settled", "failed"} /\ ~ codes[c].acked
           /\ orders'[o].status = IF codes[c].state = "settled" THEN "PAID" ELSE "CANCELLED"
    BY StatusSteps
  <2>2. codes[c].state = "failed"
    BY <2>1
  <2>3. "PAID" \in StaffSets \/ \E d \in CodesOf(o) \ {c} : Settled(d)
    BY <2>2 DEF PayerInv, PaidHasPayer, Settled
  <2> QED  BY <2>1, <2>2, <2>3
<1> QED
  BY <1>1, <1>2, <1>3, TypesHold, FlagsHold, PTL DEF Spec, CancellationNeedsSecondCode
=============================================================================
