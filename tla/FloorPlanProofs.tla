-------------------------- MODULE FloorPlanProofs --------------------------
(***************************************************************************)
(* Proofs about FloorPlan, for any number of requests, zones and tables.   *)
(* The first part says what the steps write; the second is typing, with    *)
(* the foreign key; the third the properties.                              *)
(***************************************************************************)
EXTENDS FloorPlan, TLAPS

-----------------------------------------------------------------------------
(* Sequences.                                                              *)

\* A sequence whose elements are replaced in place.
LEMMA ReplacedSeq ==
    ASSUME NEW S, NEW s \in Seq(S), NEW r \in [1..Len(s) -> S]
    PROVE  r \in Seq(S) /\ Len(r) = Len(s) /\ DOMAIN r = DOMAIN s
OBVIOUS

LEMMA AppendedSeq ==
    ASSUME NEW S, NEW s \in Seq(S), NEW e \in S, NEW r, r = Append(s, e)
    PROVE  /\ r \in Seq(S) /\ Len(r) = Len(s) + 1 /\ Len(s) \in Nat
           /\ DOMAIN r = DOMAIN s \cup {Len(s) + 1} /\ Len(s) + 1 \notin DOMAIN s
           /\ \A i \in DOMAIN s : r[i] = s[i]
           /\ r[Len(s) + 1] = e
OBVIOUS

-----------------------------------------------------------------------------
(* What the steps write, on typed data.                                    *)

Data == /\ zones \in Seq(Zone) /\ Len(zones) <= MaxZones
        /\ tables \in Seq(Table) /\ Len(tables) <= MaxTables
        /\ asked \in Seq(Place) /\ Len(asked) = Len(tables)

ZoneKept == \A t \in DOMAIN tables : tables[t].there => ZoneExists(tables[t].zone)

EmptiedExist == emptied \subseteq DOMAIN zones

LEMMA TypedData ==
    ASSUME TypeOK
    PROVE  /\ Data /\ ZoneKept
           /\ DOMAIN zones \subseteq ZoneIds /\ DOMAIN tables \subseteq TableIds
           /\ DOMAIN asked = DOMAIN tables
           /\ \A t \in DOMAIN tables : tables[t] \in Table /\ asked[t] \in Place
           /\ \A z \in DOMAIN zones : zones[z] \in Zone
<1>1. Data /\ ZoneKept
  BY DEF TypeOK, Data, ZoneKept
<1>2. DOMAIN zones = 1..Len(zones) /\ DOMAIN tables = 1..Len(tables) /\ DOMAIN asked = 1..Len(asked)
  BY <1>1 DEF Data
<1>3. DOMAIN zones \subseteq ZoneIds /\ DOMAIN tables \subseteq TableIds
  BY <1>1, <1>2, FloorPlanAssumption DEF Data, ZoneIds, TableIds
<1> QED
  BY <1>1, <1>2, <1>3 DEF Data

\* A zone is made.
LEMMA ZoneAdded ==
    ASSUME TypeOK, NEW name \in Names, AddZone(name)
    PROVE  /\ zones' \in Seq(Zone) /\ Len(zones') <= MaxZones
           /\ DOMAIN zones' = DOMAIN zones \cup {Len(zones) + 1}
           /\ Len(zones) + 1 \notin DOMAIN zones /\ Len(zones) + 1 \in ZoneIds
           /\ \A z \in DOMAIN zones : zones'[z] = zones[z]
           /\ zones'[Len(zones) + 1] = [name |-> name, there |-> TRUE]
           /\ Zones' = Zones \cup {Len(zones) + 1}
<1>1. zones \in Seq(Zone)
  BY DEF TypeOK
<1>2. PICK e \in Zone : e = [name |-> name, there |-> TRUE]
  BY DEF Zone
<1>3. zones' = Append(zones, e)
  BY <1>2 DEF AddZone
<1>4. /\ zones' \in Seq(Zone) /\ Len(zones') = Len(zones) + 1 /\ Len(zones) \in Nat
      /\ DOMAIN zones' = DOMAIN zones \cup {Len(zones) + 1} /\ Len(zones) + 1 \notin DOMAIN zones
      /\ \A z \in DOMAIN zones : zones'[z] = zones[z]
      /\ zones'[Len(zones) + 1] = e
  BY <1>1, <1>3, AppendedSeq
<1>5. Len(zones) < MaxZones
  BY DEF AddZone
<1>6. Len(zones) + 1 \in ZoneIds /\ Len(zones') <= MaxZones
  BY <1>4, <1>5, FloorPlanAssumption DEF ZoneIds
<1>7. e.there
  BY <1>2
<1>8. Zones' = Zones \cup {Len(zones) + 1}
  BY <1>4, <1>7 DEF Zones
<1> QED
  BY <1>2, <1>4, <1>6, <1>8

\* A table is made.
LEMMA TableAdded ==
    ASSUME TypeOK, NEW number \in Numbers, NEW zone \in ZoneIds \cup {NoZone},
           AddTable(number, zone)
    PROVE  /\ Data' <=> (zones' \in Seq(Zone) /\ Len(zones') <= MaxZones)
           /\ DOMAIN tables' = DOMAIN tables \cup {Len(tables) + 1}
           /\ Len(tables) + 1 \notin DOMAIN tables
           /\ \A t \in DOMAIN tables : tables'[t] = tables[t] /\ asked'[t] = asked[t]
           /\ tables'[Len(tables) + 1] = [number |-> number, zone |-> zone, there |-> TRUE]
           /\ asked'[Len(tables) + 1] = [number |-> number, zone |-> zone]
           /\ Tables' = Tables \cup {Len(tables) + 1}
<1>1. tables \in Seq(Table) /\ asked \in Seq(Place) /\ Len(asked) = Len(tables)
  BY DEF TypeOK
<1>2. PICK e \in Table : e = [number |-> number, zone |-> zone, there |-> TRUE]
  BY DEF Table
<1>3. PICK p \in Place : p = [number |-> number, zone |-> zone]
  BY DEF Place
<1>4. tables' = Append(tables, e) /\ asked' = Append(asked, p) /\ Len(tables) < MaxTables
  BY <1>2, <1>3 DEF AddTable
<1>5. /\ tables' \in Seq(Table) /\ Len(tables') = Len(tables) + 1 /\ Len(tables) \in Nat
      /\ DOMAIN tables' = DOMAIN tables \cup {Len(tables) + 1}
      /\ Len(tables) + 1 \notin DOMAIN tables
      /\ \A t \in DOMAIN tables : tables'[t] = tables[t]
      /\ tables'[Len(tables) + 1] = e
  BY <1>1, <1>4, AppendedSeq
<1>6. /\ asked' \in Seq(Place) /\ Len(asked') = Len(asked) + 1
      /\ \A t \in DOMAIN asked : asked'[t] = asked[t]
      /\ asked'[Len(asked) + 1] = p
  BY <1>1, <1>4, AppendedSeq
<1>7. DOMAIN asked = DOMAIN tables
  BY <1>1
<1>8. Len(tables') <= MaxTables
  BY <1>4, <1>5, FloorPlanAssumption
<1>9. Tables' = Tables \cup {Len(tables) + 1}
  <2>1. e.there
    BY <1>2
  <2> QED
    BY <1>5, <2>1 DEF Tables
<1>10. Data' <=> (zones' \in Seq(Zone) /\ Len(zones') <= MaxZones)
  BY <1>1, <1>5, <1>6, <1>8 DEF Data
<1> QED
  BY <1>1, <1>2, <1>3, <1>5, <1>6, <1>7, <1>9, <1>10

\* The tables of a zone leave it.
LEMMA TablesLeave ==
    ASSUME TypeOK, NEW z \in ZoneIds, Leave(z)
    PROVE  /\ tables' \in Seq(Table) /\ asked' \in Seq(Place)
           /\ Len(tables') = Len(tables) /\ Len(asked') = Len(asked)
           /\ DOMAIN tables' = DOMAIN tables /\ Tables' = Tables
           /\ \A t \in DOMAIN tables :
                /\ tables'[t].number = tables[t].number /\ tables'[t].there = tables[t].there
                /\ tables'[t].zone = IF tables[t].zone = z THEN NoZone ELSE tables[t].zone
                /\ asked'[t].number = asked[t].number
                /\ asked'[t].zone = IF tables[t].zone = z THEN NoZone ELSE asked[t].zone
           /\ emptied' \subseteq emptied \cup ({z} \cap DOMAIN zones)
<1>1. /\ tables \in Seq(Table) /\ asked \in Seq(Place) /\ Len(asked) = Len(tables)
      /\ DOMAIN asked = DOMAIN tables /\ DOMAIN tables = 1..Len(tables)
      /\ \A t \in DOMAIN tables : tables[t] \in Table /\ asked[t] \in Place
  BY TypedData DEF TypeOK
<1>2. ASSUME NEW t \in DOMAIN tables
      PROVE  /\ tables'[t] \in Table /\ asked'[t] \in Place
             /\ tables'[t].number = tables[t].number /\ tables'[t].there = tables[t].there
             /\ tables'[t].zone = IF tables[t].zone = z THEN NoZone ELSE tables[t].zone
             /\ asked'[t].number = asked[t].number
             /\ asked'[t].zone = IF tables[t].zone = z THEN NoZone ELSE asked[t].zone
  <2>1. tables[t] \in Table /\ asked[t] \in Place
    BY <1>1
  <2>2. CASE tables[t].zone = z
    <3>1. tables'[t] = [tables[t] EXCEPT !.zone = NoZone] /\ asked'[t] = [asked[t] EXCEPT !.zone = NoZone]
      BY <1>1, <2>2 DEF Leave
    <3> QED
      BY <2>1, <2>2, <3>1 DEF Table, Place
  <2>3. CASE tables[t].zone # z
    <3>1. tables'[t] = tables[t] /\ asked'[t] = asked[t]
      BY <1>1, <2>3 DEF Leave
    <3> QED
      BY <2>1, <2>3, <3>1
  <2> QED
    BY <2>2, <2>3
<1>3. tables' \in [1..Len(tables) -> Table]
  BY <1>1, <1>2 DEF Leave
<1>4. asked' \in [1..Len(asked) -> Place]
  BY <1>1, <1>2 DEF Leave
<1>5. /\ tables' \in Seq(Table) /\ asked' \in Seq(Place)
      /\ Len(tables') = Len(tables) /\ Len(asked') = Len(asked)
      /\ DOMAIN tables' = DOMAIN tables
  BY <1>1, <1>3, <1>4, ReplacedSeq
<1>6. Tables' = Tables
  BY <1>2, <1>5 DEF Tables
<1>7. (\E t \in Tables : tables[t].zone = z) => z \in DOMAIN zones
  BY TypedData, FloorPlanAssumption DEF ZoneKept, Tables, ZoneExists, Zones, ZoneIds
<1>8. emptied' \subseteq emptied \cup ({z} \cap DOMAIN zones)
  BY <1>7 DEF Leave
<1> QED
  BY <1>2, <1>5, <1>6, <1>8

\* A zone gets another row: another name, or none.
LEMMA ZoneReplaced ==
    ASSUME TypeOK, NEW z \in ZoneIds, NEW e \in Zone, zones' = [zones EXCEPT ![z] = e]
    PROVE  /\ zones' \in Seq(Zone) /\ Len(zones') = Len(zones) /\ DOMAIN zones' = DOMAIN zones
           /\ \A x \in DOMAIN zones : zones'[x] = IF x = z THEN e ELSE zones[x]
           /\ ~ e.there => Zones' = Zones \ {z}
           /\ z \in Zones /\ e.there => Zones' = Zones
<1>1. zones \in Seq(Zone)
  BY DEF TypeOK
<1>2. zones \in [1..Len(zones) -> Zone]
  BY <1>1
<1>3. zones' \in [1..Len(zones) -> Zone]
  BY <1>2
<1>4. zones' \in Seq(Zone) /\ Len(zones') = Len(zones) /\ DOMAIN zones' = DOMAIN zones
  BY <1>1, <1>3, ReplacedSeq
<1>5. \A x \in DOMAIN zones : zones'[x] = IF x = z THEN e ELSE zones[x]
  BY <1>2
<1> QED
  BY <1>4, <1>5 DEF Zones

\* A table gets another row, and another row is asked for.
LEMMA TableReplaced ==
    ASSUME TypeOK, NEW t \in TableIds, NEW e \in Table, NEW p \in Place,
           tables' = [tables EXCEPT ![t] = e], asked' = [asked EXCEPT ![t] = p]
    PROVE  /\ tables' \in Seq(Table) /\ asked' \in Seq(Place)
           /\ Len(tables') = Len(tables) /\ Len(asked') = Len(asked)
           /\ DOMAIN tables' = DOMAIN tables
           /\ \A x \in DOMAIN tables : /\ tables'[x] = IF x = t THEN e ELSE tables[x]
                                       /\ asked'[x] = IF x = t THEN p ELSE asked[x]
           /\ ~ e.there => Tables' = Tables \ {t}
           /\ t \in Tables /\ e.there => Tables' = Tables
<1>1. /\ tables \in Seq(Table) /\ asked \in Seq(Place) /\ Len(asked) = Len(tables)
      /\ DOMAIN asked = DOMAIN tables
  BY DEF TypeOK
<1>2. tables \in [1..Len(tables) -> Table] /\ asked \in [1..Len(asked) -> Place]
  BY <1>1
<1>3. tables' \in [1..Len(tables) -> Table] /\ asked' \in [1..Len(asked) -> Place]
  BY <1>2
<1>4. /\ tables' \in Seq(Table) /\ Len(tables') = Len(tables) /\ DOMAIN tables' = DOMAIN tables
      /\ asked' \in Seq(Place) /\ Len(asked') = Len(asked)
  BY <1>1, <1>3, ReplacedSeq
<1>5. \A x \in DOMAIN tables : /\ tables'[x] = IF x = t THEN e ELSE tables[x]
                               /\ asked'[x] = IF x = t THEN p ELSE asked[x]
  BY <1>1, <1>2
<1> QED
  BY <1>1, <1>4, <1>5 DEF Tables

-----------------------------------------------------------------------------
(* The kinds of steps.                                                     *)

\* A handler that updates a table writes what it was asked to write.
Sends(j) == j.at \in {"check table", "write table"} =>
                j.sent.number = j.number /\ j.sent.zone = j.zone

SentIsKept == \A h \in Requests : Sends(job[h])

TableEdit == [at: {"check table", "write table"}, table: TableIds,
              number: Numbers \cup {Keep}, zone: ZoneIds \cup {NoZone, Keep}, sent: Edit]

\* What the step of a handler says about its data.
LEMMA JobShapes ==
    ASSUME TypeOK, NEW h \in Requests
    PROVE  /\ job[h].at = "insert zone" => job[h].name \in Names
           /\ job[h].at \in {"check zone", "rename zone"} =>
                job[h] \in [at: {"check zone", "rename zone"}, zone: ZoneIds, name: Names]
           /\ job[h].at \in {"detach", "delete zone"} =>
                job[h] \in [at: {"detach", "delete zone"}, zone: ZoneIds]
           /\ job[h].at = "insert table" =>
                job[h].number \in Numbers /\ job[h].zone \in ZoneIds \cup {NoZone}
           /\ job[h].at \in {"check table", "write table"} => job[h] \in TableEdit
           /\ job[h].at = "delete table" => job[h].table \in TableIds
           /\ job[h].at = "seed table" => job[h].zone \in ZoneIds
<1>1. job[h] \in Job \cup {Idle}
  BY DEF TypeOK
<1>2. CASE job[h] \in [at: {"insert zone"}, name: Names]
  BY <1>2
<1>3. CASE job[h] \in [at: {"check zone", "rename zone"}, zone: ZoneIds, name: Names]
  BY <1>3
<1>4. CASE job[h] \in [at: {"detach", "delete zone"}, zone: ZoneIds]
  BY <1>4
<1>5. CASE job[h] \in [at: {"insert table"}, number: Numbers, zone: ZoneIds \cup {NoZone}]
  BY <1>5
<1>6. CASE job[h] \in TableEdit
  BY <1>6 DEF TableEdit
<1>7. CASE job[h] \in [at: {"delete table"}, table: TableIds]
  BY <1>7
<1>8. CASE job[h] \in [at: {"seed table"}, zone: ZoneIds]
  BY <1>8
<1>9. CASE job[h] = Idle
  BY <1>9 DEF Idle
<1> QED
  BY <1>1, <1>2, <1>3, <1>4, <1>5, <1>6, <1>7, <1>8, <1>9 DEF Job, TableEdit

\* The handler of a step goes on with a typed record of its own.
Goes(h) == \E j \in Job \cup {Idle} : job' = [job EXCEPT ![h] = j] /\ Sends(j)

LEMMA Ends ==
    ASSUME NEW h \in Requests, Done(h)
    PROVE  Goes(h)
<1>1. Sends(Idle)
  BY DEF Sends, Idle
<1> QED
  BY <1>1 DEF Done, Continue, Goes

LEMMA JobSteps ==
    ASSUME TypeOK, SentIsKept, NEW h \in Requests,
           ZoneNext(h) \/ TableNext(h) \/ SeedNext(h) \/ CutOff(h)
    PROVE  Goes(h)
<1>1. ASSUME NEW name \in Names, CreateZone(h, name) PROVE Goes(h)
  <2>1. PICK j : j = [at |-> "insert zone", name |-> name]
    OBVIOUS
  <2>2. j \in Job /\ Sends(j)
    BY <2>1 DEF Job, Sends
  <2> QED
    BY <1>1, <2>1, <2>2 DEF CreateZone, Start, Goes
<1>2. ASSUME NEW z \in DOMAIN zones, NEW name \in Names, UpdateZone(h, z, name) PROVE Goes(h)
  <2>1. PICK j : j = [at |-> "check zone", zone |-> z, name |-> name]
    OBVIOUS
  <2>2. j \in Job /\ Sends(j)
    BY <2>1, TypedData DEF Job, Sends
  <2> QED
    BY <1>2, <2>1, <2>2 DEF UpdateZone, Start, Goes
<1>3. ASSUME NEW z \in DOMAIN zones, RemoveZone(h, z) PROVE Goes(h)
  <2>1. PICK j : j = [at |-> "detach", zone |-> z]
    OBVIOUS
  <2>2. j \in Job /\ Sends(j)
    BY <2>1, TypedData DEF Job, Sends
  <2> QED
    BY <1>3, <2>1, <2>2 DEF RemoveZone, Start, Goes
<1>4. CASE CheckZone(h)
  <2>1. CASE Done(h)
    BY <2>1, Ends
  <2>2. CASE Continue(h, [job[h] EXCEPT !.at = "rename zone"])
    <3>1. PICK j : j = [job[h] EXCEPT !.at = "rename zone"]
      OBVIOUS
    <3>2. j \in Job /\ Sends(j)
      BY <1>4, <3>1, JobShapes DEF Job, Sends, CheckZone
    <3> QED
      BY <2>2, <3>1, <3>2 DEF Continue, Goes
  <2> QED
    BY <1>4, <2>1, <2>2 DEF CheckZone
<1>5. CASE DetachTables(h)
  <2>1. PICK j : j = [job[h] EXCEPT !.at = "delete zone"]
    OBVIOUS
  <2>2. j \in Job /\ Sends(j)
    BY <1>5, <2>1, JobShapes DEF Job, Sends, DetachTables
  <2> QED
    BY <1>5, <2>1, <2>2 DEF DetachTables, Continue, Goes
<1>6. ASSUME NEW number \in Numbers, NEW zone \in DOMAIN zones \cup {NoZone},
             CreateTable(h, number, zone)
      PROVE  Goes(h)
  <2>1. PICK j : j = [at |-> "insert table", number |-> number, zone |-> zone]
    OBVIOUS
  <2>2. j \in Job /\ Sends(j)
    BY <2>1, TypedData DEF Job, Sends
  <2> QED
    BY <1>6, <2>1, <2>2 DEF CreateTable, Start, Goes
<1>7. ASSUME NEW t \in DOMAIN tables, NEW number \in Numbers \cup {Keep},
             NEW zone \in DOMAIN zones \cup {NoZone, Keep}, UpdateTable(h, t, number, zone)
      PROVE  Goes(h)
  <2>1. PICK a \in {"check table", "write table"} :
          a = IF number \in {Keep, tables[t].number} THEN "write table" ELSE "check table"
    OBVIOUS
  <2>2. PICK j : j = [at |-> a, table |-> t, number |-> number, zone |-> zone,
                      sent |-> [number |-> number, zone |-> zone]]
    OBVIOUS
  <2>3. t \in TableIds /\ zone \in ZoneIds \cup {NoZone, Keep}
    BY TypedData
  <2>4. j \in Job /\ Sends(j)
    BY <2>1, <2>2, <2>3 DEF Job, Edit, Sends
  <2> QED
    BY <1>7, <2>1, <2>2, <2>4 DEF UpdateTable, Start, Goes
<1>8. ASSUME NEW t \in DOMAIN tables, RemoveTable(h, t) PROVE Goes(h)
  <2>1. PICK j : j = [at |-> "delete table", table |-> t]
    OBVIOUS
  <2>2. j \in Job /\ Sends(j)
    BY <2>1, TypedData DEF Job, Sends
  <2> QED
    BY <1>8, <2>1, <2>2 DEF RemoveTable, Start, Goes
<1>9. CASE CheckTable(h)
  <2>1. CASE Done(h)
    BY <2>1, Ends
  <2>2. CASE Continue(h, [job[h] EXCEPT !.at = "write table"])
    <3>1. PICK j : j = [job[h] EXCEPT !.at = "write table"]
      OBVIOUS
    <3>2. job[h] \in TableEdit /\ Sends(job[h])
      BY <1>9, JobShapes DEF CheckTable, SentIsKept
    <3>3. j \in Job /\ Sends(j)
      BY <1>9, <3>1, <3>2 DEF Job, TableEdit, Sends, CheckTable
    <3> QED
      BY <2>2, <3>1, <3>3 DEF Continue, Goes
  <2> QED
    BY <1>9, <2>1, <2>2 DEF CheckTable
<1>10. CASE SeedZone(h)
  <2>1. PICK z : /\ z \in ZoneIds
                 /\ Start(h, [at |-> "seed table", zone |-> z])
    <3>1. CASE NameIsFree(SeedName, {}) /\ AddZone(SeedName)
               /\ Start(h, [at |-> "seed table", zone |-> Len(zones) + 1])
      BY <3>1, ZoneAdded, FloorPlanAssumption
    <3> QED
      BY <1>10, <3>1, TypedData DEF SeedZone, Zones
  <2>2. PICK j : j = [at |-> "seed table", zone |-> z]
    OBVIOUS
  <2>3. j \in Job /\ Sends(j)
    BY <2>1, <2>2 DEF Job, Sends
  <2> QED
    BY <2>1, <2>2, <2>3 DEF Start, Goes
<1>11. CASE InsertZone(h) \/ RenameZone(h) \/ DeleteZone(h) \/ InsertTable(h) \/ WriteTable(h)
            \/ DeleteTable(h) \/ SeedTable(h) \/ CutOff(h)
  BY <1>11, Ends DEF InsertZone, RenameZone, DeleteZone, InsertTable, WriteTable, DeleteTable,
                     SeedTable, CutOff
<1> QED
  BY <1>1, <1>2, <1>3, <1>4, <1>5, <1>6, <1>7, <1>8, <1>9, <1>10, <1>11
     DEF ZoneNext, TableNext, SeedNext

\* What a step does to zones and tables.
ZoneMade ==
    /\ \E name \in Names : NameIsFree(name, {}) /\ AddZone(name)
    /\ UNCHANGED <<tables, asked, emptied>>

ZoneRenamed ==
    /\ \E z \in Zones, name \in Names :
         NameIsFree(name, {z}) /\ zones' = [zones EXCEPT ![z].name = name]
    /\ UNCHANGED <<tables, asked, emptied>>

ZoneLeft == \E z \in ZoneIds : Leave(z) /\ UNCHANGED zones

ZoneGone == \E z \in ZoneIds : Leave(z) /\ zones' = [zones EXCEPT ![z] = GoneZone]

TableMade ==
    /\ \E number \in Numbers, zone \in ZoneIds \cup {NoZone} :
         NumberIsFree(number, {}) /\ ZoneExists(zone) /\ AddTable(number, zone)
    /\ UNCHANGED <<zones, emptied>>

\* Row t becomes e, and p is asked for.
TablePut(t, e, p) ==
    /\ tables' = [tables EXCEPT ![t] = e]
    /\ asked' = [asked EXCEPT ![t] = p]
    /\ UNCHANGED <<zones, emptied>>

TableEdited ==
    \E t \in Tables, e \in Table, p \in Place :
       /\ TablePut(t, e, p)
       /\ e.there /\ NumberIsFree(e.number, {t}) /\ ZoneExists(e.zone)
       /\ (tables[t].number = asked[t].number /\ tables[t].zone = asked[t].zone) =>
             (e.number = p.number /\ e.zone = p.zone)

TableGone == \E t \in TableIds, p \in Place : TablePut(t, GoneTable, p)

NothingWritten == UNCHANGED <<zones, tables, asked, emptied>>

DataStep ==
    \/ ZoneMade \/ ZoneRenamed \/ ZoneLeft \/ ZoneGone
    \/ TableMade \/ TableEdited \/ TableGone \/ NothingWritten

LEMMA DataSteps ==
    ASSUME TypeOK, SentIsKept, NamesAreDistinct, NEW h \in Requests,
           ZoneNext(h) \/ TableNext(h) \/ SeedNext(h) \/ CutOff(h)
    PROVE  DataStep
<1>1. CASE InsertZone(h)
  <2>1. PICK name \in Names : name = job[h].name
    BY <1>1, JobShapes DEF InsertZone
  <2> QED
    BY <1>1, <2>1 DEF InsertZone, DataStep, ZoneMade, NothingWritten
<1>2. CASE RenameZone(h)
  <2>1. PICK z \in ZoneIds, name \in Names : z = job[h].zone /\ name = job[h].name
    BY <1>2, JobShapes DEF RenameZone
  <2> QED
    BY <1>2, <2>1 DEF RenameZone, DataStep, ZoneRenamed, NothingWritten
<1>3. CASE DetachTables(h)
  <2>1. PICK z \in ZoneIds : z = job[h].zone
    BY <1>3, JobShapes DEF DetachTables
  <2> QED
    BY <1>3, <2>1 DEF DetachTables, DataStep, ZoneLeft
<1>4. CASE DeleteZone(h)
  <2>1. PICK z \in ZoneIds : z = job[h].zone
    BY <1>4, JobShapes DEF DeleteZone
  <2> QED
    BY <1>4, <2>1 DEF DeleteZone, DataStep, ZoneGone
<1>5. CASE InsertTable(h)
  <2>1. PICK number \in Numbers, zone \in ZoneIds \cup {NoZone} :
          number = job[h].number /\ zone = job[h].zone
    BY <1>5, JobShapes DEF InsertTable
  <2> QED
    BY <1>5, <2>1 DEF InsertTable, DataStep, TableMade, NothingWritten
<1>6. CASE WriteTable(h)
  <2>1. PICK j \in TableEdit : j = job[h] /\ Sends(j)
    BY <1>6, JobShapes DEF WriteTable, SentIsKept
  <2>2. PICK t \in TableIds : t = j.table
    BY DEF TableEdit
  <2>3. CASE UNCHANGED <<tables, asked>>
    BY <1>6, <2>3 DEF WriteTable, DataStep, NothingWritten
  <2>4. CASE ~ UNCHANGED <<tables, asked>>
    <3>1. PICK number, zone : /\ number = Chosen(j.number, tables[t].number)
                              /\ zone = Chosen(j.zone, tables[t].zone)
      OBVIOUS
    <3>2. /\ t \in Tables /\ NumberIsFree(number, {t}) /\ ZoneExists(zone)
          /\ tables' = [tables EXCEPT ![t].number = number, ![t].zone = zone]
          /\ asked' = [asked EXCEPT ![t].number = Chosen(j.sent.number, @),
                                    ![t].zone = Chosen(j.sent.zone, @)]
          /\ UNCHANGED <<zones, emptied>>
      BY <1>6, <2>1, <2>2, <2>4, <3>1 DEF WriteTable
    <3>3. /\ t \in DOMAIN tables /\ t \in DOMAIN asked
          /\ tables[t] \in Table /\ asked[t] \in Place /\ tables[t].there
      BY <3>2, TypedData DEF Tables
    <3>4. number \in Numbers /\ zone \in ZoneIds \cup {NoZone}
      BY <3>1, <3>3 DEF TableEdit, Table, Chosen
    <3>5. PICK e \in Table : e = [tables[t] EXCEPT !.number = number, !.zone = zone]
      BY <3>3, <3>4 DEF Table
    <3>6. /\ j.sent.number = j.number /\ j.sent.zone = j.zone
          /\ j.number \in Numbers \cup {Keep} /\ j.zone \in ZoneIds \cup {NoZone, Keep}
      BY <2>1 DEF Sends, TableEdit
    <3>7. PICK number2 \in Numbers, zone2 \in ZoneIds \cup {NoZone} :
            /\ number2 = Chosen(j.sent.number, asked[t].number)
            /\ zone2 = Chosen(j.sent.zone, asked[t].zone)
      BY <3>3, <3>6 DEF Chosen, Place
    <3>8. PICK p \in Place : p = [asked[t] EXCEPT !.number = number2, !.zone = zone2]
      BY <3>3 DEF Place
    <3>9. /\ e.number = number /\ e.zone = zone /\ e.there
          /\ p.number = number2 /\ p.zone = zone2
      BY <3>3, <3>5, <3>8 DEF Table, Place
    <3>10. tables' = [tables EXCEPT ![t] = e]
      BY <3>2, <3>3, <3>5
    <3>12. asked' = [asked EXCEPT ![t] = p]
      BY <3>2, <3>3, <3>7, <3>8
    <3>13. (tables[t].number = asked[t].number /\ tables[t].zone = asked[t].zone) =>
             (e.number = p.number /\ e.zone = p.zone)
      BY <3>1, <3>6, <3>7, <3>9
    <3>14. e.there /\ NumberIsFree(e.number, {t}) /\ ZoneExists(e.zone)
      BY <3>2, <3>9
    <3>15. TablePut(t, e, p)
      BY <3>2, <3>10, <3>12 DEF TablePut
    <3>16. TableEdited
      BY <3>2, <3>13, <3>14, <3>15 DEF TableEdited
    <3> QED
      BY <3>16 DEF DataStep
  <2> QED
    BY <2>3, <2>4
<1>7. CASE DeleteTable(h)
  <2>1. PICK t \in TableIds : t = job[h].table
    BY <1>7, JobShapes DEF DeleteTable
  <2>2. PICK p \in Place : p = [number |-> SeedNumber, zone |-> NoZone]
    BY FloorPlanAssumption DEF Place
  <2> QED
    BY <1>7, <2>1, <2>2 DEF DeleteTable, DataStep, TableGone, TablePut, NothingWritten
<1>8. CASE SeedZone(h)
  BY <1>8, FloorPlanAssumption DEF SeedZone, DataStep, ZoneMade, NothingWritten
<1>9. CASE SeedTable(h)
  <2>1. PICK zone \in ZoneIds : zone = job[h].zone
    BY <1>9, JobShapes DEF SeedTable
  <2>2. ASSUME NEW t \in Tables, tables[t].number = SeedNumber, ZoneExists(zone),
               tables' = [tables EXCEPT ![t].zone = zone],
               asked' = [asked EXCEPT ![t].zone = zone],
               UNCHANGED <<zones, emptied>>
        PROVE  TableEdited
    <3>1. /\ t \in DOMAIN tables /\ t \in DOMAIN asked
          /\ tables[t] \in Table /\ asked[t] \in Place /\ tables[t].there
      BY TypedData DEF Tables
    <3>2. PICK e \in Table : e = [tables[t] EXCEPT !.zone = zone]
      BY <3>1 DEF Table
    <3>3. PICK p \in Place : p = [asked[t] EXCEPT !.zone = zone]
      BY <3>1 DEF Place
    <3>4. /\ e.number = tables[t].number /\ e.zone = zone /\ e.there
          /\ p.number = asked[t].number /\ p.zone = zone
      BY <3>1, <3>2, <3>3 DEF Table, Place
    <3>5. tables' = [tables EXCEPT ![t] = e] /\ asked' = [asked EXCEPT ![t] = p]
      BY <2>2, <3>1, <3>2, <3>3
    <3>6. NumberIsFree(e.number, {t}) /\ ZoneExists(e.zone)
      BY <2>2, <3>4 DEF NamesAreDistinct
    <3>7. TablePut(t, e, p)
      BY <2>2, <3>5 DEF TablePut
    <3> QED
      BY <3>4, <3>6, <3>7 DEF TableEdited
  <2> QED
    BY <1>9, <2>1, <2>2, FloorPlanAssumption DEF SeedTable, DataStep, TableMade, NothingWritten
<1>10. CASE ~ (InsertZone(h) \/ RenameZone(h) \/ DetachTables(h) \/ DeleteZone(h) \/ InsertTable(h)
               \/ WriteTable(h) \/ DeleteTable(h) \/ SeedZone(h) \/ SeedTable(h))
  BY <1>10 DEF ZoneNext, TableNext, SeedNext, CreateZone, UpdateZone, RemoveZone, CheckZone,
               CreateTable, UpdateTable, RemoveTable, CheckTable, CutOff, DataStep, NothingWritten
<1> QED
  BY <1>1, <1>2, <1>3, <1>4, <1>5, <1>6, <1>7, <1>8, <1>9, <1>10

-----------------------------------------------------------------------------
(* Typing.                                                                 *)

\* Zones that are there stay there, but for the one that is deleted.
LEMMA DataTyped ==
    ASSUME TypeOK, DataStep
    PROVE  Data' /\ ZoneKept' /\ emptied' \subseteq ZoneIds
<1>1. Data /\ ZoneKept /\ emptied \subseteq ZoneIds
  BY TypedData DEF TypeOK
<1>2. CASE ZoneMade
  <2>1. PICK name \in Names : AddZone(name)
    BY <1>2 DEF ZoneMade
  <2>2. zones' \in Seq(Zone) /\ Len(zones') <= MaxZones /\ Zones \subseteq Zones'
    BY <2>1, ZoneAdded
  <2>3. UNCHANGED <<tables, asked, emptied>>
    BY <1>2 DEF ZoneMade
  <2> QED
    BY <1>1, <2>2, <2>3 DEF Data, ZoneKept, ZoneExists
<1>3. CASE ZoneRenamed
  <2>1. PICK z \in Zones, name \in Names : zones' = [zones EXCEPT ![z].name = name]
    BY <1>3 DEF ZoneRenamed
  <2>2. z \in DOMAIN zones /\ z \in ZoneIds /\ zones[z] \in Zone /\ zones[z].there
    BY TypedData DEF Zones
  <2>3. PICK e \in Zone : e = [zones[z] EXCEPT !.name = name]
    BY <2>2 DEF Zone
  <2>4. e.there
    BY <2>2, <2>3 DEF Zone
  <2>5. zones' = [zones EXCEPT ![z] = e]
    BY <2>1, <2>2, <2>3
  <2>6. zones' \in Seq(Zone) /\ Len(zones') = Len(zones) /\ Zones' = Zones
    BY <2>2, <2>4, <2>5, ZoneReplaced
  <2>7. UNCHANGED <<tables, asked, emptied>>
    BY <1>3 DEF ZoneRenamed
  <2> QED
    BY <1>1, <2>6, <2>7 DEF Data, ZoneKept, ZoneExists
<1>4. CASE ZoneLeft
  <2>1. PICK z \in ZoneIds : Leave(z) /\ UNCHANGED zones
    BY <1>4 DEF ZoneLeft
  <2>2. Data' /\ emptied' \subseteq ZoneIds
    BY <1>1, <2>1, TablesLeave DEF Data
  <2>3. ASSUME NEW t \in DOMAIN tables', tables'[t].there
        PROVE  tables'[t].zone = NoZone \/ tables'[t].zone \in Zones'
    <3>1. /\ t \in DOMAIN tables /\ tables[t].there
          /\ tables'[t].zone = IF tables[t].zone = z THEN NoZone ELSE tables[t].zone
      BY <2>1, <2>3, TablesLeave
    <3>2. tables'[t].zone = NoZone \/ tables'[t].zone \in Zones
      BY <1>1, <3>1 DEF ZoneKept, ZoneExists
    <3> QED
      BY <2>1, <3>2 DEF Zones
  <2> QED
    BY <2>2, <2>3 DEF ZoneKept, ZoneExists
<1>5. CASE ZoneGone
  <2>1. PICK z \in ZoneIds : Leave(z) /\ zones' = [zones EXCEPT ![z] = GoneZone]
    BY <1>5 DEF ZoneGone
  <2>2. GoneZone \in Zone /\ ~ GoneZone.there
    BY FloorPlanAssumption DEF GoneZone, Zone
  <2>3. zones' \in Seq(Zone) /\ Len(zones') = Len(zones) /\ Zones' = Zones \ {z}
    BY <2>1, <2>2, ZoneReplaced
  <2>4. Data' /\ emptied' \subseteq ZoneIds
    BY <1>1, <2>1, <2>3, TablesLeave DEF Data
  <2>5. ASSUME NEW t \in DOMAIN tables', tables'[t].there
        PROVE  tables'[t].zone = NoZone \/ tables'[t].zone \in Zones'
    <3>1. /\ t \in DOMAIN tables /\ tables[t].there
          /\ tables'[t].zone = IF tables[t].zone = z THEN NoZone ELSE tables[t].zone
      BY <2>1, <2>5, TablesLeave
    <3>2. tables'[t].zone = NoZone \/ tables'[t].zone \in Zones \ {z}
      BY <1>1, <3>1 DEF ZoneKept, ZoneExists
    <3> QED
      BY <2>3, <3>2
  <2> QED
    BY <2>4, <2>5 DEF ZoneKept, ZoneExists
<1>6. CASE TableMade
  <2>1. PICK number \in Numbers, zone \in ZoneIds \cup {NoZone} :
          ZoneExists(zone) /\ AddTable(number, zone)
    BY <1>6 DEF TableMade
  <2>2. UNCHANGED <<zones, emptied>>
    BY <1>6 DEF TableMade
  <2>3. Data'
    BY <1>1, <2>1, <2>2, TableAdded DEF Data
  <2>4. ASSUME NEW t \in DOMAIN tables', tables'[t].there
        PROVE  tables'[t].zone = NoZone \/ tables'[t].zone \in Zones'
    <3>1. \/ t \in DOMAIN tables /\ tables'[t] = tables[t]
          \/ tables'[t] = [number |-> number, zone |-> zone, there |-> TRUE]
      BY <2>1, <2>4, TableAdded
    <3>2. tables'[t].zone = NoZone \/ tables'[t].zone \in Zones
      BY <1>1, <2>1, <2>4, <3>1 DEF ZoneKept, ZoneExists
    <3> QED
      BY <2>2, <3>2 DEF Zones
  <2> QED
    BY <1>1, <2>2, <2>3, <2>4 DEF ZoneKept, ZoneExists
<1>7. ASSUME NEW t \in TableIds, NEW e \in Table, NEW p \in Place, TablePut(t, e, p),
             e.there => ZoneExists(e.zone)
      PROVE  Data' /\ ZoneKept' /\ emptied' \subseteq ZoneIds
  <2>1. UNCHANGED <<zones, emptied>>
    BY <1>7 DEF TablePut
  <2>2. Data'
    BY <1>1, <1>7, <2>1, TableReplaced DEF Data, TablePut
  <2>3. ASSUME NEW x \in DOMAIN tables', tables'[x].there
        PROVE  tables'[x].zone = NoZone \/ tables'[x].zone \in Zones'
    <3>1. x \in DOMAIN tables /\ tables'[x] = IF x = t THEN e ELSE tables[x]
      BY <1>7, <2>3, TableReplaced DEF TablePut
    <3>2. tables'[x].zone = NoZone \/ tables'[x].zone \in Zones
      BY <1>1, <1>7, <2>3, <3>1 DEF ZoneKept, ZoneExists
    <3> QED
      BY <2>1, <3>2 DEF Zones
  <2> QED
    BY <1>1, <2>1, <2>2, <2>3 DEF ZoneKept, ZoneExists
<1>8. CASE TableEdited
  <2>1. PICK t \in Tables, e \in Table, p \in Place : TablePut(t, e, p) /\ ZoneExists(e.zone)
    BY <1>8 DEF TableEdited
  <2>2. t \in TableIds
    BY TypedData DEF Tables
  <2> QED
    BY <1>7, <2>1, <2>2
<1>9. CASE TableGone
  <2>1. GoneTable \in Table /\ ~ GoneTable.there
    BY FloorPlanAssumption DEF GoneTable, Table
  <2> QED
    BY <1>7, <1>9, <2>1 DEF TableGone
<1>10. CASE NothingWritten
  BY <1>1, <1>10 DEF NothingWritten, Data, ZoneKept, ZoneExists, Zones
<1> QED
  BY <1>2, <1>3, <1>4, <1>5, <1>6, <1>8, <1>9, <1>10 DEF DataStep

-----------------------------------------------------------------------------
(* Names and numbers.                                                      *)

LEMMA NamesKept ==
    ASSUME TypeOK, NamesAreDistinct, DataStep
    PROVE  NamesAreDistinct'
<1>1. /\ \A y, z \in Zones : y # z => zones[y].name # zones[z].name
      /\ \A t, u \in Tables : t # u => tables[t].number # tables[u].number
  BY DEF NamesAreDistinct, NameIsFree, NumberIsFree
<1>2. ASSUME UNCHANGED zones
      PROVE  \A y, z \in Zones' : y # z => zones'[y].name # zones'[z].name
  BY <1>1, <1>2 DEF Zones
<1>3. ASSUME UNCHANGED tables
      PROVE  \A t, u \in Tables' : t # u => tables'[t].number # tables'[u].number
  BY <1>1, <1>3 DEF Tables
<1>4. ASSUME \A y, z \in Zones' : y # z => zones'[y].name # zones'[z].name,
             \A t, u \in Tables' : t # u => tables'[t].number # tables'[u].number
      PROVE  NamesAreDistinct'
  BY <1>4 DEF NamesAreDistinct, NameIsFree, NumberIsFree
<1>5. CASE ZoneMade
  <2>1. PICK name \in Names : NameIsFree(name, {}) /\ AddZone(name)
    BY <1>5 DEF ZoneMade
  <2>2. \A z \in Zones : zones[z].name # name
    BY <2>1 DEF NameIsFree
  <2>3. /\ Zones' = Zones \cup {Len(zones) + 1} /\ Zones \subseteq DOMAIN zones
        /\ \A z \in DOMAIN zones : zones'[z] = zones[z]
        /\ zones'[Len(zones) + 1] = [name |-> name, there |-> TRUE]
        /\ Len(zones) + 1 \notin DOMAIN zones
    BY <2>1, ZoneAdded DEF Zones
  <2>4. \A y, z \in Zones' : y # z => zones'[y].name # zones'[z].name
    BY <1>1, <2>2, <2>3
  <2> QED
    BY <1>3, <1>4, <1>5, <2>4 DEF ZoneMade
<1>6. CASE ZoneRenamed
  <2>1. PICK z \in Zones, name \in Names :
          NameIsFree(name, {z}) /\ zones' = [zones EXCEPT ![z].name = name]
    BY <1>6 DEF ZoneRenamed
  <2>2. z \in DOMAIN zones /\ z \in ZoneIds /\ zones[z] \in Zone /\ zones[z].there
    BY TypedData DEF Zones
  <2>3. PICK e \in Zone : e = [zones[z] EXCEPT !.name = name]
    BY <2>2 DEF Zone
  <2>4. e.there /\ e.name = name
    BY <2>2, <2>3 DEF Zone
  <2>5. zones' = [zones EXCEPT ![z] = e]
    BY <2>1, <2>2, <2>3
  <2>6. Zones' = Zones /\ \A x \in DOMAIN zones : zones'[x] = IF x = z THEN e ELSE zones[x]
    BY <2>2, <2>4, <2>5, ZoneReplaced
  <2>7. \A y \in Zones \ {z} : zones[y].name # name
    BY <2>1 DEF NameIsFree
  <2>8. \A x, y \in Zones' : x # y => zones'[x].name # zones'[y].name
    BY <1>1, <2>4, <2>6, <2>7 DEF Zones
  <2> QED
    BY <1>3, <1>4, <1>6, <2>8 DEF ZoneRenamed
<1>7. ASSUME NEW z \in ZoneIds, Leave(z)
      PROVE  \A t, u \in Tables' : t # u => tables'[t].number # tables'[u].number
  BY <1>1, <1>7, TablesLeave DEF Tables
<1>8. CASE ZoneLeft
  BY <1>2, <1>4, <1>7, <1>8 DEF ZoneLeft
<1>9. CASE ZoneGone
  <2>1. PICK z \in ZoneIds : Leave(z) /\ zones' = [zones EXCEPT ![z] = GoneZone]
    BY <1>9 DEF ZoneGone
  <2>2. GoneZone \in Zone /\ ~ GoneZone.there
    BY FloorPlanAssumption DEF GoneZone, Zone
  <2>3. /\ Zones' = Zones \ {z}
        /\ \A x \in DOMAIN zones : zones'[x] = IF x = z THEN GoneZone ELSE zones[x]
    BY <2>1, <2>2, ZoneReplaced
  <2>4. \A x, y \in Zones' : x # y => zones'[x].name # zones'[y].name
    BY <1>1, <2>3 DEF Zones
  <2> QED
    BY <1>4, <1>7, <2>1, <2>4
<1>10. CASE TableMade
  <2>1. PICK number \in Numbers, zone \in ZoneIds \cup {NoZone} :
          NumberIsFree(number, {}) /\ AddTable(number, zone)
    BY <1>10 DEF TableMade
  <2>2. \A t \in Tables : tables[t].number # number
    BY <2>1 DEF NumberIsFree
  <2>3. /\ Tables' = Tables \cup {Len(tables) + 1} /\ Tables \subseteq DOMAIN tables
        /\ \A t \in DOMAIN tables : tables'[t] = tables[t]
        /\ tables'[Len(tables) + 1] = [number |-> number, zone |-> zone, there |-> TRUE]
        /\ Len(tables) + 1 \notin DOMAIN tables
    BY <2>1, TableAdded DEF Tables
  <2>4. \A t, u \in Tables' : t # u => tables'[t].number # tables'[u].number
    BY <1>1, <2>2, <2>3
  <2> QED
    BY <1>2, <1>4, <1>10, <2>4 DEF TableMade
<1>11. CASE TableEdited
  <2>1. PICK t \in Tables, e \in Table, p \in Place :
          TablePut(t, e, p) /\ e.there /\ NumberIsFree(e.number, {t})
    BY <1>11 DEF TableEdited
  <2>2. t \in TableIds
    BY TypedData DEF Tables
  <2>3. Tables' = Tables /\ \A x \in DOMAIN tables : tables'[x] = IF x = t THEN e ELSE tables[x]
    BY <2>1, <2>2, TableReplaced DEF TablePut
  <2>4. \A u \in Tables \ {t} : tables[u].number # e.number
    BY <2>1 DEF NumberIsFree
  <2>5. \A u, x \in Tables' : u # x => tables'[u].number # tables'[x].number
    BY <1>1, <2>3, <2>4 DEF Tables
  <2> QED
    BY <1>2, <1>4, <2>1, <2>5 DEF TablePut
<1>12. CASE TableGone
  <2>1. PICK t \in TableIds, p \in Place : TablePut(t, GoneTable, p)
    BY <1>12 DEF TableGone
  <2>2. GoneTable \in Table /\ ~ GoneTable.there
    BY FloorPlanAssumption DEF GoneTable, Table
  <2>3. /\ Tables' = Tables \ {t}
        /\ \A x \in DOMAIN tables : tables'[x] = IF x = t THEN GoneTable ELSE tables[x]
    BY <2>1, <2>2, TableReplaced DEF TablePut
  <2>4. \A u, x \in Tables' : u # x => tables'[u].number # tables'[x].number
    BY <1>1, <2>3 DEF Tables
  <2> QED
    BY <1>2, <1>4, <2>1, <2>4 DEF TablePut
<1>13. CASE NothingWritten
  BY <1>2, <1>3, <1>4, <1>13 DEF NothingWritten
<1> QED
  BY <1>5, <1>6, <1>8, <1>9, <1>10, <1>11, <1>12, <1>13 DEF DataStep

-----------------------------------------------------------------------------
(* What was asked for.                                                     *)

LEMMA EditsKept ==
    ASSUME TypeOK, LastEditStands, DataStep
    PROVE  LastEditStands'
<1>1. Tables \subseteq DOMAIN tables
  BY DEF Tables
<1>2. CASE UNCHANGED <<tables, asked>>
  BY <1>2 DEF LastEditStands, Tables
<1>3. ASSUME NEW z \in ZoneIds, Leave(z) PROVE LastEditStands'
  BY <1>1, <1>3, TablesLeave DEF LastEditStands
<1>4. CASE TableMade
  <2>1. PICK number \in Numbers, zone \in ZoneIds \cup {NoZone} : AddTable(number, zone)
    BY <1>4 DEF TableMade
  <2>2. /\ Tables' = Tables \cup {Len(tables) + 1}
        /\ \A t \in DOMAIN tables : tables'[t] = tables[t] /\ asked'[t] = asked[t]
        /\ tables'[Len(tables) + 1] = [number |-> number, zone |-> zone, there |-> TRUE]
        /\ asked'[Len(tables) + 1] = [number |-> number, zone |-> zone]
    BY <2>1, TableAdded
  <2> QED
    BY <1>1, <2>2 DEF LastEditStands
<1>5. CASE TableEdited
  <2>1. PICK t \in Tables, e \in Table, p \in Place :
          /\ TablePut(t, e, p) /\ e.there
          /\ (tables[t].number = asked[t].number /\ tables[t].zone = asked[t].zone) =>
                (e.number = p.number /\ e.zone = p.zone)
    BY <1>5 DEF TableEdited
  <2>2. t \in TableIds
    BY TypedData DEF Tables
  <2>3. /\ Tables' = Tables
        /\ \A x \in DOMAIN tables : /\ tables'[x] = IF x = t THEN e ELSE tables[x]
                                    /\ asked'[x] = IF x = t THEN p ELSE asked[x]
    BY <2>1, <2>2, TableReplaced DEF TablePut
  <2> QED
    BY <1>1, <2>1, <2>3 DEF LastEditStands
<1>6. CASE TableGone
  <2>1. PICK t \in TableIds, p \in Place : TablePut(t, GoneTable, p)
    BY <1>6 DEF TableGone
  <2>2. GoneTable \in Table /\ ~ GoneTable.there
    BY FloorPlanAssumption DEF GoneTable, Table
  <2>3. /\ Tables' = Tables \ {t}
        /\ \A x \in DOMAIN tables : /\ tables'[x] = IF x = t THEN GoneTable ELSE tables[x]
                                    /\ asked'[x] = IF x = t THEN p ELSE asked[x]
    BY <2>1, <2>2, TableReplaced DEF TablePut
  <2> QED
    BY <1>1, <2>3 DEF LastEditStands
<1> QED
  BY <1>2, <1>3, <1>4, <1>5, <1>6
     DEF DataStep, ZoneMade, ZoneRenamed, ZoneLeft, ZoneGone, NothingWritten

-----------------------------------------------------------------------------
(* The invariant.                                                          *)

PlanInv == TypeOK /\ SentIsKept /\ NamesAreDistinct /\ LastEditStands

\* What the handlers do, step by step.
LEMMA PlanSteps == PlanInv /\ [Next]_vars => PlanInv'
<1> SUFFICES ASSUME PlanInv, [Next]_vars PROVE PlanInv'
  OBVIOUS
<1>1. CASE UNCHANGED vars
  BY <1>1 DEF PlanInv, TypeOK, SentIsKept, NamesAreDistinct, NameIsFree, NumberIsFree, ZoneExists,
              LastEditStands, Zones, Tables, vars
<1>2. ASSUME NEW h \in Requests, ZoneNext(h) \/ TableNext(h) \/ SeedNext(h) \/ CutOff(h)
      PROVE  PlanInv'
  <2>1. DataStep
    BY <1>2, DataSteps DEF PlanInv
  <2>2. PICK j \in Job \cup {Idle} : job' = [job EXCEPT ![h] = j] /\ Sends(j)
    BY <1>2, JobSteps DEF PlanInv, Goes
  <2>3. job' \in [Requests -> Job \cup {Idle}]
    BY <2>2 DEF PlanInv, TypeOK
  <2>4. SentIsKept'
    <3>1. ASSUME NEW g \in Requests PROVE Sends(job'[g])
      BY <2>2 DEF PlanInv, TypeOK, SentIsKept
    <3> QED
      BY <3>1 DEF SentIsKept, Sends
  <2>5. halted' \subseteq ZoneIds
    <3>1. CASE CutOff(h)
      BY <3>1, JobShapes DEF CutOff, PlanInv, TypeOK
    <3>2. CASE ~ CutOff(h)
      <4>1. UNCHANGED halted
        BY <1>2, <3>2 DEF ZoneNext, TableNext, SeedNext, CreateZone, UpdateZone, RemoveZone,
             InsertZone, CheckZone, RenameZone, DetachTables, DeleteZone, CreateTable, UpdateTable,
             RemoveTable, InsertTable, CheckTable, WriteTable, DeleteTable, SeedZone, SeedTable
      <4> QED
        BY <4>1 DEF PlanInv, TypeOK
    <3> QED
      BY <3>1, <3>2
  <2>6. Data' /\ ZoneKept' /\ emptied' \subseteq ZoneIds
    BY <2>1, DataTyped DEF PlanInv
  <2>7. TypeOK'
    BY <2>3, <2>5, <2>6 DEF TypeOK, Data, ZoneKept
  <2>8. NamesAreDistinct'
    BY <2>1, NamesKept DEF PlanInv
  <2>9. LastEditStands'
    BY <2>1, EditsKept DEF PlanInv
  <2> QED
    BY <2>4, <2>7, <2>8, <2>9 DEF PlanInv
<1> QED
  BY <1>1, <1>2 DEF Next

LEMMA PlanStarts == Init => PlanInv
<1> SUFFICES ASSUME Init PROVE PlanInv
  OBVIOUS
<1>1. zones = <<>> /\ tables = <<>> /\ asked = <<>> /\ Zones = {} /\ Tables = {}
  BY DEF Init, Zones, Tables
<1>2. TypeOK
  BY <1>1, FloorPlanAssumption DEF Init, TypeOK
<1>3. SentIsKept
  BY DEF Init, SentIsKept, Sends, Idle
<1>4. NamesAreDistinct /\ LastEditStands
  BY <1>1 DEF NamesAreDistinct, LastEditStands
<1> QED
  BY <1>2, <1>3, <1>4 DEF PlanInv

THEOREM Planned == Spec => []PlanInv
BY PlanStarts, PlanSteps, PTL DEF Spec

\* Every reachable state is typed, and every table that is there is in a zone that
\* is there or in none: the removal of a zone leaves no table behind in it.
THEOREM Typing == Spec => []TypeOK
BY Planned, PTL DEF PlanInv

\* Two zones never have one name nor two tables one number.
THEOREM DistinctNames == Spec => []NamesAreDistinct
BY Planned, PTL DEF PlanInv

\* No edit of a table undoes another one that was about something else.
THEOREM EditsStand == Spec => []LastEditStands
BY Planned, PTL DEF PlanInv

-----------------------------------------------------------------------------
(* Removal of a zone.                                                      *)

EmptiedInv == PlanInv /\ EmptiedExist /\ EmptiedZonesGo

\* No step brings a zone back.
LEMMA ZonesStayGone ==
    ASSUME TypeOK, DataStep
    PROVE  /\ DOMAIN zones \subseteq DOMAIN zones'
           /\ \A z \in DOMAIN zones : z \in Zones' => z \in Zones
<1>1. CASE UNCHANGED zones
  BY <1>1 DEF Zones
<1>2. CASE ZoneMade
  <2>1. PICK name \in Names : AddZone(name)
    BY <1>2 DEF ZoneMade
  <2> QED
    BY <2>1, ZoneAdded
<1>3. CASE ZoneRenamed
  <2>1. PICK z \in Zones, name \in Names : zones' = [zones EXCEPT ![z].name = name]
    BY <1>3 DEF ZoneRenamed
  <2>2. z \in DOMAIN zones /\ z \in ZoneIds /\ zones[z] \in Zone /\ zones[z].there
    BY TypedData DEF Zones
  <2>3. PICK e \in Zone : e = [zones[z] EXCEPT !.name = name]
    BY <2>2 DEF Zone
  <2>4. e.there
    BY <2>2, <2>3 DEF Zone
  <2>5. zones' = [zones EXCEPT ![z] = e]
    BY <2>1, <2>2, <2>3
  <2> QED
    BY <2>2, <2>4, <2>5, ZoneReplaced
<1>4. CASE ZoneGone
  <2>1. PICK z \in ZoneIds : zones' = [zones EXCEPT ![z] = GoneZone]
    BY <1>4 DEF ZoneGone
  <2>2. GoneZone \in Zone /\ ~ GoneZone.there
    BY FloorPlanAssumption DEF GoneZone, Zone
  <2>3. DOMAIN zones' = DOMAIN zones /\ Zones' = Zones \ {z}
    BY <2>1, <2>2, ZoneReplaced
  <2> QED
    BY <2>3
<1> QED
  BY <1>1, <1>2, <1>3, <1>4
     DEF DataStep, ZoneLeft, TableMade, TableEdited, TableGone, TablePut, NothingWritten

LEMMA EmptiedSteps == EmptiedInv /\ [Next]_vars => EmptiedInv'
<1> SUFFICES ASSUME EmptiedInv, [Next]_vars PROVE EmptiedInv'
  OBVIOUS
<1>1. TypeOK /\ PlanInv'
  BY PlanSteps DEF EmptiedInv, PlanInv
<1>2. CASE UNCHANGED vars
  BY <1>1, <1>2 DEF EmptiedInv, EmptiedExist, EmptiedZonesGo, Zones, vars
<1>3. ASSUME NEW h \in Requests, ZoneNext(h) \/ TableNext(h) \/ SeedNext(h) \/ CutOff(h)
      PROVE  EmptiedExist' /\ EmptiedZonesGo'
  <2>1. /\ DOMAIN zones \subseteq DOMAIN zones'
        /\ \A z \in DOMAIN zones : z \in Zones' => z \in Zones
    BY <1>1, <1>3, DataSteps, ZonesStayGone DEF EmptiedInv, PlanInv
  <2>2. PICK j \in Job \cup {Idle} : job' = [job EXCEPT ![h] = j]
    BY <1>3, JobSteps DEF EmptiedInv, PlanInv, Goes
  <2>3. job'[h] = j /\ \A g \in Requests \ {h} : job'[g] = job[g]
    BY <1>1, <2>2 DEF TypeOK
  <2>4. /\ emptied \subseteq DOMAIN zones
        /\ \A z \in emptied \ halted :
             z \in Zones => \E g \in Requests : job[g].at = "delete zone" /\ job[g].zone = z
    BY DEF EmptiedInv, EmptiedExist, EmptiedZonesGo
  \* A zone that was emptied before: another handler still has it.
  <2>5. ASSUME emptied' = emptied, halted \subseteq halted',
               job[h].at = "delete zone" => job[h].zone \in halted'
        PROVE  EmptiedExist' /\ EmptiedZonesGo'
    <3>1. ASSUME NEW z \in emptied' \ halted', z \in Zones'
          PROVE  \E g \in Requests : job'[g].at = "delete zone" /\ job'[g].zone = z
      <4>1. PICK g \in Requests : job[g].at = "delete zone" /\ job[g].zone = z
        BY <2>1, <2>4, <2>5, <3>1
      <4>2. g # h
        BY <2>5, <3>1, <4>1
      <4> QED
        BY <2>3, <4>1, <4>2
    <3> QED
      BY <2>1, <2>4, <2>5, <3>1 DEF EmptiedExist, EmptiedZonesGo
  <2>6. CASE DetachTables(h)
    <3>1. PICK z0 \in ZoneIds : z0 = job[h].zone
      BY <1>1, <2>6, JobShapes DEF DetachTables
    <3>2. emptied' \subseteq emptied \cup ({z0} \cap DOMAIN zones) /\ UNCHANGED <<zones, halted>>
      BY <1>1, <2>6, <3>1, TablesLeave DEF DetachTables
    <3>3. job[h].at = "detach" /\ job[h] \in [at: {"detach", "delete zone"}, zone: ZoneIds]
      BY <1>1, <2>6, JobShapes DEF DetachTables
    <3>4. job'[h] = [job[h] EXCEPT !.at = "delete zone"]
      BY <1>1, <2>6 DEF DetachTables, Continue, TypeOK
    <3>5. job'[h].at = "delete zone" /\ job'[h].zone = z0
      BY <3>1, <3>3, <3>4
    <3>6. ASSUME NEW z \in emptied' \ halted', z \in Zones'
          PROVE  \E g \in Requests : job'[g].at = "delete zone" /\ job'[g].zone = z
      <4>1. CASE z = z0
        BY <3>5, <4>1
      <4>2. CASE z # z0
        <5>1. PICK g \in Requests : job[g].at = "delete zone" /\ job[g].zone = z
          BY <2>1, <2>4, <3>2, <3>6, <4>2
        <5> QED
          BY <2>3, <3>3, <5>1
      <4> QED
        BY <4>1, <4>2
    <3> QED
      BY <2>4, <3>2, <3>6 DEF EmptiedExist, EmptiedZonesGo
  <2>7. CASE DeleteZone(h)
    <3>1. PICK z0 \in ZoneIds : z0 = job[h].zone
      BY <1>1, <2>7, JobShapes DEF DeleteZone
    <3>2. /\ emptied' \subseteq emptied \cup ({z0} \cap DOMAIN zones) /\ UNCHANGED halted
          /\ zones' = [zones EXCEPT ![z0] = GoneZone]
      BY <1>1, <2>7, <3>1, TablesLeave DEF DeleteZone
    <3>3. GoneZone \in Zone /\ ~ GoneZone.there
      BY FloorPlanAssumption DEF GoneZone, Zone
    <3>4. Zones' = Zones \ {z0}
      BY <1>1, <3>2, <3>3, ZoneReplaced
    <3>5. ASSUME NEW z \in emptied' \ halted', z \in Zones'
          PROVE  \E g \in Requests : job'[g].at = "delete zone" /\ job'[g].zone = z
      <4>1. z # z0 /\ z \in emptied \ halted /\ z \in Zones
        BY <3>2, <3>4, <3>5
      <4>2. PICK g \in Requests : job[g].at = "delete zone" /\ job[g].zone = z
        BY <2>4, <4>1
      <4> QED
        BY <2>3, <3>1, <4>1, <4>2
    <3> QED
      BY <2>1, <2>4, <3>2, <3>5 DEF EmptiedExist, EmptiedZonesGo
  <2>8. CASE CutOff(h)
    BY <2>5, <2>8 DEF CutOff
  <2>9. CASE ~ DetachTables(h) /\ ~ DeleteZone(h) /\ ~ CutOff(h)
    <3>1. emptied' = emptied /\ halted' = halted
      BY <1>3, <2>9 DEF ZoneNext, TableNext, SeedNext, CreateZone, UpdateZone, RemoveZone,
           InsertZone, CheckZone, RenameZone, CreateTable, UpdateTable,
           RemoveTable, InsertTable, CheckTable, WriteTable, DeleteTable, SeedZone, SeedTable
    <3>2. job[h].at # "delete zone"
      <4>1. CASE \/ InsertZone(h) \/ CheckZone(h) \/ RenameZone(h) \/ InsertTable(h) \/ CheckTable(h)
                 \/ WriteTable(h) \/ DeleteTable(h) \/ SeedTable(h)
        BY <4>1 DEF InsertZone, CheckZone, RenameZone, InsertTable, CheckTable, WriteTable,
                    DeleteTable, SeedTable
      <4>2. CASE job[h] = Idle
        BY <4>2 DEF Idle
      <4>3. CASE SeedZone(h)
        BY <4>2, <4>3 DEF SeedZone, Start
      <4>4. (\E j1 : Start(h, j1)) => job[h] = Idle
        BY DEF Start
      <4>5. CASE \/ \E name \in Names : CreateZone(h, name)
                 \/ \E z \in DOMAIN zones, name \in Names : UpdateZone(h, z, name)
                 \/ \E z \in DOMAIN zones : RemoveZone(h, z)
        BY <4>2, <4>4, <4>5 DEF CreateZone, UpdateZone, RemoveZone
      <4>6. CASE \/ \E number \in Numbers, zone \in DOMAIN zones \cup {NoZone} :
                        CreateTable(h, number, zone)
                 \/ \E t \in DOMAIN tables, number \in Numbers \cup {Keep},
                       zone \in DOMAIN zones \cup {NoZone, Keep} : UpdateTable(h, t, number, zone)
                 \/ \E t \in DOMAIN tables : RemoveTable(h, t)
        BY <4>2, <4>4, <4>6 DEF CreateTable, UpdateTable, RemoveTable
      <4> QED
        BY <1>3, <2>9, <4>1, <4>3, <4>5, <4>6 DEF ZoneNext, TableNext, SeedNext
    <3> QED
      BY <2>5, <3>1, <3>2
  <2> QED
    BY <2>6, <2>7, <2>8, <2>9
<1> QED
  BY <1>1, <1>2, <1>3 DEF EmptiedInv, Next

\* A zone whose tables were taken out is removed, or some handler is about to
\* remove it, or its removal was cut off.
THEOREM RemovalCompletes == Spec => []EmptiedZonesGo
<1>1. Init => EmptiedExist /\ EmptiedZonesGo
  BY DEF Init, EmptiedExist, EmptiedZonesGo
<1>2. PlanInv /\ EmptiedExist /\ EmptiedZonesGo => EmptiedInv
  BY DEF EmptiedInv
<1>3. EmptiedInv => EmptiedZonesGo
  BY DEF EmptiedInv
<1>4. Init => PlanInv
  BY PlanStarts
<1> QED
  BY <1>1, <1>2, <1>3, <1>4, EmptiedSteps, PTL DEF Spec
=============================================================================
