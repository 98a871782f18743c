----------------------------- MODULE FloorPlan -----------------------------
(***************************************************************************)
(* How the floor is laid out: TableZonesService, the table administration  *)
(* of TablesService and the seed script, on two tables that a foreign key  *)
(* ties together.                                                          *)
(*                                                                         *)
(* Zones and tables are deleted for good. A handler looks first and writes *)
(* later; the UNIQUE indexes and the foreign key judge the write. Sessions *)
(* and orders at a table are the business of CafeFloor and OrderPlacement: *)
(* here a table that has no orders may be removed at any time.             *)
(***************************************************************************)
EXTENDS Naturals, Sequences, FiniteSets

CONSTANTS
    Requests,   \* slots for requests and seedings in flight
    Names,      \* names of zones
    Numbers,    \* numbers of tables ("Meja 01")
    SeedName,   \* the name of a zone of the seed script
    SeedNumber, \* the number of a table of the seed script
    NoZone,     \* a table outside of every zone
    Keep,       \* an update that leaves the number or the zone out
    MaxZones,   \* bound on the zones ever made
    MaxTables   \* bound on the tables ever made

ASSUME FloorPlanAssumption ==
    /\ SeedName \in Names
    /\ SeedNumber \in Numbers
    /\ Keep \notin Numbers
    /\ Keep # NoZone /\ Keep \notin Nat /\ NoZone \notin Nat
    /\ MaxZones \in Nat
    /\ MaxTables \in Nat

VARIABLES
    zones,      \* the zones ever made; a zone's id is its place
    tables,     \* the tables ever made
    job,        \* handlers in flight
    asked,      \* history: number and zone that were last asked for each table
    emptied,    \* history: the zones that a removal took tables out of
    halted      \* history: zones whose removal was cut off

vars == <<zones, tables, job, asked, emptied, halted>>

ZoneIds == 1..MaxZones
TableIds == 1..MaxTables
Zone == [name: Names, there: BOOLEAN]
Place == [number: Numbers, zone: ZoneIds \cup {NoZone}]
\* What an update asks for.
Edit == [number: Numbers \cup {Keep}, zone: ZoneIds \cup {NoZone, Keep}]
Table == [number: Numbers, zone: ZoneIds \cup {NoZone}, there: BOOLEAN]

\* A row that is gone; what it held does not matter any more.
GoneZone == [name |-> SeedName, there |-> FALSE]
GoneTable == [number |-> SeedNumber, zone |-> NoZone, there |-> FALSE]

Idle == [at |-> "idle"]
Job == [at: {"insert zone"}, name: Names]
         \cup [at: {"check zone", "rename zone"}, zone: ZoneIds, name: Names]
         \cup [at: {"detach", "delete zone"}, zone: ZoneIds]
         \cup [at: {"insert table"}, number: Numbers, zone: ZoneIds \cup {NoZone}]
         \cup [at: {"check table", "write table"}, table: TableIds,
               number: Numbers \cup {Keep}, zone: ZoneIds \cup {NoZone, Keep},
               sent: Edit]
         \cup [at: {"delete table"}, table: TableIds]
         \cup [at: {"seed table"}, zone: ZoneIds]

Zones == {z \in DOMAIN zones : zones[z].there}
Tables == {t \in DOMAIN tables : tables[t].there}

\* The foreign key of a table that is written.
ZoneExists(zone) == zone = NoZone \/ zone \in Zones

TypeOK ==
    /\ zones \in Seq(Zone) /\ Len(zones) <= MaxZones
    /\ tables \in Seq(Table) /\ Len(tables) <= MaxTables
    /\ job \in [Requests -> Job \cup {Idle}]
    /\ asked \in Seq(Place) /\ Len(asked) = Len(tables)
    /\ \A t \in DOMAIN tables : tables[t].there => ZoneExists(tables[t].zone)
    /\ emptied \subseteq ZoneIds
    /\ halted \subseteq ZoneIds

-----------------------------------------------------------------------------

Start(h, j) == job[h] = Idle /\ job' = [job EXCEPT ![h] = j]
Continue(h, j) == job' = [job EXCEPT ![h] = j]
Done(h) == Continue(h, Idle)

\* tableZone.findFirst({ name }) and the UNIQUE index on name.
NameIsFree(name, but) == \A z \in Zones \ but : zones[z].name # name

\* table.findUnique({ number }) and the UNIQUE index on number.
NumberIsFree(number, but) == \A t \in Tables \ but : tables[t].number # number

-----------------------------------------------------------------------------
(* Zones.                                                                  *)

CreateZone(h, name) ==
    /\ NameIsFree(name, {})
    /\ Start(h, [at |-> "insert zone", name |-> name])
    /\ UNCHANGED <<zones, tables, asked, emptied, halted>>

AddZone(name) ==
    /\ Len(zones) < MaxZones
    /\ zones' = Append(zones, [name |-> name, there |-> TRUE])

\* A write that no index refuses.
InsertAnyZone(h) ==
    /\ job[h].at = "insert zone"
    /\ AddZone(job[h].name)
    /\ Done(h)
    /\ UNCHANGED <<tables, asked, emptied, halted>>

InsertZone(h) ==
    /\ job[h].at = "insert zone"
    /\ IF NameIsFree(job[h].name, {}) THEN AddZone(job[h].name) ELSE UNCHANGED zones
    /\ Done(h)
    /\ UNCHANGED <<tables, asked, emptied, halted>>

UpdateZone(h, z, name) ==
    /\ z \in Zones
    /\ Start(h, [at |-> "check zone", zone |-> z, name |-> name])
    /\ UNCHANGED <<zones, tables, asked, emptied, halted>>

CheckZone(h) ==
    /\ job[h].at = "check zone"
    /\ IF NameIsFree(job[h].name, {job[h].zone})
       THEN Continue(h, [job[h] EXCEPT !.at = "rename zone"])
       ELSE Done(h)
    /\ UNCHANGED <<zones, tables, asked, emptied, halted>>

\* tableZone.update: not of a zone that is gone, nor to a name that is taken.
RenameZone(h) ==
    /\ job[h].at = "rename zone"
    /\ IF job[h].zone \in Zones /\ NameIsFree(job[h].name, {job[h].zone})
       THEN zones' = [zones EXCEPT ![job[h].zone].name = job[h].name]
       ELSE UNCHANGED zones
    /\ Done(h)
    /\ UNCHANGED <<tables, asked, emptied, halted>>

RemoveZone(h, z) ==
    /\ z \in Zones
    /\ Start(h, [at |-> "detach", zone |-> z])
    /\ UNCHANGED <<zones, tables, asked, emptied, halted>>

\* The tables of a zone leave it: updateMany, or the foreign key (onDelete: SetNull).
Leave(z) ==
    /\ tables' = [t \in DOMAIN tables |->
                    IF tables[t].zone = z THEN [tables[t] EXCEPT !.zone = NoZone]
                                          ELSE tables[t]]
    /\ asked' = [t \in DOMAIN asked |->
                    IF tables[t].zone = z THEN [asked[t] EXCEPT !.zone = NoZone]
                                          ELSE asked[t]]
    /\ emptied' = IF \E t \in Tables : tables[t].zone = z THEN emptied \cup {z} ELSE emptied

DetachTables(h) ==
    /\ job[h].at = "detach"
    /\ Leave(job[h].zone)
    /\ Continue(h, [job[h] EXCEPT !.at = "delete zone"])
    /\ UNCHANGED <<zones, halted>>

\* A deletion that stops at a zone which has got a table again.
DeleteEmptyZone(h) ==
    /\ job[h].at = "delete zone"
    /\ IF \E t \in Tables : tables[t].zone = job[h].zone
       THEN UNCHANGED <<zones, tables, asked, emptied>>
       ELSE zones' = [zones EXCEPT ![job[h].zone] = GoneZone] /\ Leave(job[h].zone)
    /\ Done(h)
    /\ UNCHANGED halted

\* A deletion that no foreign key watches.
DeleteZoneRow(h) ==
    /\ job[h].at = "delete zone"
    /\ zones' = [zones EXCEPT ![job[h].zone] = GoneZone]
    /\ Done(h)
    /\ UNCHANGED <<tables, asked, emptied, halted>>

\* tableZone.delete; a table that was put into the zone since is taken out by the
\* foreign key. Of a zone that is gone already there is nothing to do but to fail.
DeleteZone(h) ==
    /\ job[h].at = "delete zone"
    /\ zones' = [zones EXCEPT ![job[h].zone] = GoneZone]
    /\ Leave(job[h].zone)
    /\ Done(h)
    /\ UNCHANGED halted

-----------------------------------------------------------------------------
(* Tables.                                                                 *)

CreateTable(h, number, zone) ==
    /\ NumberIsFree(number, {})
    /\ Start(h, [at |-> "insert table", number |-> number, zone |-> zone])
    /\ UNCHANGED <<zones, tables, asked, emptied, halted>>

AddTable(number, zone) ==
    /\ Len(tables) < MaxTables
    /\ tables' = Append(tables, [number |-> number, zone |-> zone, there |-> TRUE])
    /\ asked' = Append(asked, [number |-> number, zone |-> zone])

InsertTable(h) ==
    /\ job[h].at = "insert table"
    /\ IF NumberIsFree(job[h].number, {}) /\ ZoneExists(job[h].zone)
       THEN AddTable(job[h].number, job[h].zone)
       ELSE UNCHANGED <<tables, asked>>
    /\ Done(h)
    /\ UNCHANGED <<zones, emptied, halted>>

\* What an update leaves out stays as it is in the row.
Chosen(new, old) == IF new = Keep THEN old ELSE new

\* An update that writes back what it read of the columns it leaves out.
UpdateWholeTable(h, t, number, zone) ==
    /\ t \in Tables
    /\ Start(h, [at |-> IF number \in {Keep, tables[t].number} THEN "write table"
                                                               ELSE "check table",
                 table |-> t, number |-> Chosen(number, tables[t].number),
                 zone |-> Chosen(zone, tables[t].zone),
                 sent |-> [number |-> number, zone |-> zone]])
    /\ UNCHANGED <<zones, tables, asked, emptied, halted>>

\* Only a number that differs from that of the table is looked up.
UpdateTable(h, t, number, zone) ==
    /\ t \in Tables
    /\ Start(h, [at |-> IF number \in {Keep, tables[t].number} THEN "write table"
                                                               ELSE "check table",
                 table |-> t, number |-> number, zone |-> zone,
                 sent |-> [number |-> number, zone |-> zone]])
    /\ UNCHANGED <<zones, tables, asked, emptied, halted>>

CheckTable(h) ==
    /\ job[h].at = "check table"
    /\ IF NumberIsFree(job[h].number, {job[h].table})
       THEN Continue(h, [job[h] EXCEPT !.at = "write table"])
       ELSE Done(h)
    /\ UNCHANGED <<zones, tables, asked, emptied, halted>>

WriteTable(h) ==
    /\ job[h].at = "write table"
    /\ LET t == job[h].table
           number == Chosen(job[h].number, tables[t].number)
           zone == Chosen(job[h].zone, tables[t].zone)
       IN IF t \in Tables /\ NumberIsFree(number, {t}) /\ ZoneExists(zone)
          THEN /\ tables' = [tables EXCEPT ![t].number = number, ![t].zone = zone]
               /\ asked' = [asked EXCEPT ![t].number = Chosen(job[h].sent.number, @),
                                         ![t].zone = Chosen(job[h].sent.zone, @)]
          ELSE UNCHANGED <<tables, asked>>
    /\ Done(h)
    /\ UNCHANGED <<zones, emptied, halted>>

RemoveTable(h, t) ==
    /\ t \in Tables
    /\ Start(h, [at |-> "delete table", table |-> t])
    /\ UNCHANGED <<zones, tables, asked, emptied, halted>>

\* table.delete; a table that has orders by now is kept by their foreign key.
DeleteTable(h) ==
    /\ job[h].at = "delete table"
    /\ \/ /\ tables' = [tables EXCEPT ![job[h].table] = GoneTable]
          /\ asked' = [asked EXCEPT ![job[h].table] = [number |-> SeedNumber, zone |-> NoZone]]
       \/ UNCHANGED <<tables, asked>>
    /\ Done(h)
    /\ UNCHANGED <<zones, emptied, halted>>

-----------------------------------------------------------------------------
(* The seed script.                                                        *)

\* tableZone.upsert by name.
SeedZone(h) ==
    /\ \/ \E z \in Zones :
            /\ zones[z].name = SeedName
            /\ Start(h, [at |-> "seed table", zone |-> z])
            /\ UNCHANGED zones
       \/ /\ NameIsFree(SeedName, {})
          /\ AddZone(SeedName)
          /\ Start(h, [at |-> "seed table", zone |-> Len(zones) + 1])
    /\ UNCHANGED <<tables, asked, emptied, halted>>

\* table.upsert by number: a table that is there is put into the zone. A zone that
\* is gone since ends the script.
SeedTable(h) ==
    /\ job[h].at = "seed table"
    /\ \/ ~ ZoneExists(job[h].zone) /\ UNCHANGED <<tables, asked>>
       \/ /\ ZoneExists(job[h].zone)
          /\ \E t \in Tables :
               /\ tables[t].number = SeedNumber
               /\ tables' = [tables EXCEPT ![t].zone = job[h].zone]
               /\ asked' = [asked EXCEPT ![t].zone = job[h].zone]
       \/ /\ ZoneExists(job[h].zone)
          /\ NumberIsFree(SeedNumber, {})
          /\ AddTable(SeedNumber, job[h].zone)
    /\ Done(h)
    /\ UNCHANGED <<zones, emptied, halted>>

\* A handler ends where it is: a statement fails or the process is gone.
CutOff(h) ==
    /\ job[h] # Idle
    /\ halted' = IF job[h].at = "delete zone" THEN halted \cup {job[h].zone} ELSE halted
    /\ Done(h)
    /\ UNCHANGED <<zones, tables, asked, emptied>>

-----------------------------------------------------------------------------

Init ==
    /\ zones = <<>>
    /\ tables = <<>>
    /\ job = [h \in Requests |-> Idle]
    /\ asked = <<>>
    /\ emptied = {}
    /\ halted = {}

ZoneNext(h) ==
    \/ \E name \in Names : CreateZone(h, name)
    \/ \E z \in DOMAIN zones, name \in Names : UpdateZone(h, z, name)
    \/ \E z \in DOMAIN zones : RemoveZone(h, z)
    \/ InsertZone(h) \/ CheckZone(h) \/ RenameZone(h)
    \/ DetachTables(h) \/ DeleteZone(h)

TableNext(h) ==
    \/ \E number \in Numbers, zone \in DOMAIN zones \cup {NoZone} : CreateTable(h, number, zone)
    \/ \E t \in DOMAIN tables, number \in Numbers \cup {Keep},
          zone \in DOMAIN zones \cup {NoZone, Keep} : UpdateTable(h, t, number, zone)
    \/ \E t \in DOMAIN tables : RemoveTable(h, t)
    \/ InsertTable(h) \/ CheckTable(h) \/ WriteTable(h) \/ DeleteTable(h)

SeedNext(h) == SeedZone(h) \/ SeedTable(h)

Next == \E h \in Requests : ZoneNext(h) \/ TableNext(h) \/ SeedNext(h) \/ CutOff(h)

Spec == Init /\ [][Next]_vars

-----------------------------------------------------------------------------
(* Properties.                                                             *)

\* Two requests may both find a name or a number free, yet no two zones get one
\* name and no two tables one number.
NamesAreDistinct ==
    /\ \A z \in Zones : NameIsFree(zones[z].name, {z})
    /\ \A t \in Tables : NumberIsFree(tables[t].number, {t})

\* A table has the number and the zone it was last given: an edit that was about
\* something else, and read the table before, does not undo it.
LastEditStands ==
    \A t \in Tables : tables[t].number = asked[t].number /\ tables[t].zone = asked[t].zone

\* Removing a zone takes its tables out first. No zone is left without the tables
\* it had, unless the removal was cut off between its two statements.
EmptiedZonesGo ==
    \A z \in emptied \ halted :
        z \in Zones => \E h \in Requests : job[h].at = "delete zone" /\ job[h].zone = z
=============================================================================
