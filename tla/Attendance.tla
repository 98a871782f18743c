----------------------------- MODULE Attendance -----------------------------
(***************************************************************************)
(* AttendanceService: clock-in, clock-out and leave requests, each a chain *)
(* of statements on the one attendance row of a staff member and a day.    *)
(*                                                                         *)
(* A request is refused for an unknown or inactive member, a wrong PIN or  *)
(* a place outside the geofence before it touches the row; such a request  *)
(* changes nothing and is not modelled.  Prisma runs the upsert of the     *)
(* clock-in (which includes the staff relation) as a select and then an    *)
(* insert or update, and the upsert of the leave as one statement.         *)
(***************************************************************************)
EXTENDS Naturals, FiniteSets

CONSTANTS
    Staff,
    Requests,     \* slots for requests in flight
    MaxTime,      \* bound: the instants of the model are 1..MaxTime
    DayOf,        \* the UTC date of an instant
    LateTimes,    \* instants after opening time plus grace period
    LeaveSpans    \* the sets of days that leave requests ask for

Times == 1..MaxTime
Days == {DayOf[t] : t \in Times}
Never == 0        \* a time that is null

ASSUME AttendanceAssumption ==
    /\ MaxTime \in Nat \ {0}
    /\ DayOf \in [Times -> Nat]
    /\ LateTimes \subseteq Times
    /\ LeaveSpans \subseteq SUBSET Days

VARIABLES
    clock,
    rows,         \* the attendance table, by staffId and date
    leaves,       \* the leave requests, all approved
    job,          \* handlers in flight
    stale,        \* history: requests that found no time of theirs in the row, and
                  \* another request has recorded it since
    replaced      \* history: rows whose clock-in has been written over by another

vars == <<clock, rows, leaves, job, stale, replaced>>

AttendanceStatus == {"ON_TIME", "LATE", "COMPLETED", "SICK", "LEAVE"}
LeaveStatuses == {"SICK", "LEAVE"}

NoRow == [status |-> "NONE"]
Row == [in: Times \cup {Never}, out: Times \cup {Never}, worked: 0..MaxTime,
        status: AttendanceStatus, onLeave: BOOLEAN]
\* A row with a clock-in and no clock-out.
OpenRow == [in: Times, out: {Never}, worked: 0..MaxTime,
            status: AttendanceStatus, onLeave: BOOLEAN]
Leave == [who: Staff, days: LeaveSpans, as: LeaveStatuses]

Idle == [at |-> "idle"]
Job == [at: {"find_in", "find_out"}, who: Staff, day: Days]
         \cup [at: {"select"}, who: Staff, day: Days, found: Times]
         \cup [at: {"insert", "update"}, who: Staff, day: Days, now: Times]
         \cup [at: {"leave_work"}, who: Staff, day: Days, found: Times, row: OpenRow]
         \cup [at: {"mark"}, who: Staff, day: Days, as: LeaveStatuses]

TypeOK ==
    /\ clock \in Times
    /\ rows \in [Staff \X Days -> Row \cup {NoRow}]
    /\ leaves \subseteq Leave
    /\ job \in [Requests -> Job \cup {Idle}]
    /\ stale \subseteq Requests
    /\ replaced \subseteq Staff \X Days

Exists(key) == rows[key] # NoRow
KeyOf(j) == <<j.who, j.day>>

\* Requests other than h for the same row that are at one of these steps.
Rivals(h, steps) ==
    {g \in Requests \ {h} : job[g].at \in steps /\ KeyOf(job[g]) = KeyOf(job[h])}

-----------------------------------------------------------------------------

\* A request enters with the date of this moment.
Enter(h, j) ==
    /\ job[h] = Idle
    /\ job' = [job EXCEPT ![h] = j]

(* recordClockIn *)

BeginClockIn(h, s) ==
    /\ Enter(h, [at |-> "find_in", who |-> s, day |-> DayOf[clock]])
    /\ UNCHANGED <<clock, rows, leaves, stale, replaced>>

\* A clock-in that forgets to look for an earlier one.
ClockedInNever(key) == FALSE

\* Any row of the day taken for a clock-in.
AnyRowCounts(key) == Exists(key)

ClockedIn(key) == Exists(key) /\ rows[key].in # Never

\* The steps of a clock-in that has looked for an earlier one.
ClockingIn == {"select", "insert", "update"}

\* attendance.findUnique, and the 409 for a second clock-in.
FindIn(h) ==
    /\ job[h].at = "find_in"
    /\ job' = [job EXCEPT ![h] =
                 IF ClockedIn(KeyOf(@)) THEN Idle
                 ELSE [at |-> "select", who |-> @.who, day |-> @.day,
                       found |-> clock]]
    /\ UNCHANGED <<clock, rows, leaves, stale, replaced>>

\* The time is taken somewhere between the answer to the find and this select.
SelectRow(h) ==
    /\ job[h].at = "select"
    /\ \E now \in job[h].found..clock :
         job' = [job EXCEPT ![h] =
                   [at |-> IF Exists(KeyOf(@)) THEN "update" ELSE "insert",
                    who |-> @.who, day |-> @.day, now |-> now]]
    /\ UNCHANGED <<clock, rows, leaves, stale, replaced>>

ArrivalStatus(t) == IF t \in LateTimes THEN "LATE" ELSE "ON_TIME"

\* create: a row that another request made in the meantime is a 409 (P2002).
InsertRow(h) ==
    /\ job[h].at = "insert"
    /\ rows' = IF Exists(KeyOf(job[h])) THEN rows
               ELSE [rows EXCEPT ![KeyOf(job[h])] =
                       [in |-> job[h].now, out |-> Never, worked |-> 0,
                        status |-> ArrivalStatus(job[h].now), onLeave |-> FALSE]]
    /\ stale' = IF Exists(KeyOf(job[h])) THEN stale \ {h}
                ELSE (stale \ {h}) \cup Rivals(h, ClockingIn)
    /\ job' = [job EXCEPT ![h] = Idle]
    /\ UNCHANGED <<clock, leaves, replaced>>

\* update: the columns of a leave stay.
UpdateRow(h) ==
    /\ job[h].at = "update"
    /\ rows' = [rows EXCEPT ![KeyOf(job[h])] =
                  [@ EXCEPT !.in = job[h].now,
                            !.status = ArrivalStatus(job[h].now)]]
    /\ stale' = (stale \ {h}) \cup Rivals(h, ClockingIn)
    /\ replaced' = IF ClockedIn(KeyOf(job[h])) THEN replaced \cup {KeyOf(job[h])}
                                               ELSE replaced
    /\ job' = [job EXCEPT ![h] = Idle]
    /\ UNCHANGED <<clock, leaves>>

(* recordClockOut *)

BeginClockOut(h, s) ==
    /\ Enter(h, [at |-> "find_out", who |-> s, day |-> DayOf[clock]])
    /\ UNCHANGED <<clock, rows, leaves, stale, replaced>>

\* 400 without a clock-in, 409 after a clock-out.
FindOut(h) ==
    /\ job[h].at = "find_out"
    /\ job' = [job EXCEPT ![h] =
                 IF ClockedIn(KeyOf(@)) /\ rows[KeyOf(@)].out = Never
                 THEN [at |-> "leave_work", who |-> @.who, day |-> @.day,
                       found |-> clock, row |-> rows[KeyOf(@)]]
                 ELSE Idle]
    /\ UNCHANGED <<clock, rows, leaves, stale, replaced>>

\* The status of a clock-out that forgets the late arrival.
AlwaysCompleted(status) == "COMPLETED"

FinalStatus(status) == IF status = "LATE" THEN "LATE" ELSE "COMPLETED"

\* Time, duration and status come from the row found; the update writes them
\* over whatever the row is by now.
SaveOut(h) ==
    /\ job[h].at = "leave_work"
    /\ \E now \in job[h].found..clock :
         rows' = [rows EXCEPT ![KeyOf(job[h])] =
                    [@ EXCEPT !.out = now,
                              !.worked = IF now >= job[h].row.in
                                         THEN now - job[h].row.in ELSE 0,
                              !.status = FinalStatus(job[h].row.status)]]
    /\ stale' = (stale \ {h}) \cup Rivals(h, {"leave_work"})
    /\ job' = [job EXCEPT ![h] = Idle]
    /\ UNCHANGED <<clock, leaves, replaced>>

(* createLeaveRequest *)

\* A leave of any span that marks today.
CoversAnyDay(days) == TRUE

CoversToday(days) == DayOf[clock] \in days

\* The request is stored approved; if it covers today, today is marked next.
CreateLeave(h, s, days, as) ==
    /\ leaves' = leaves \cup {[who |-> s, days |-> days, as |-> as]}
    /\ IF CoversToday(days)
       THEN Enter(h, [at |-> "mark", who |-> s, day |-> DayOf[clock], as |-> as])
       ELSE job[h] = Idle /\ UNCHANGED job
    /\ UNCHANGED <<clock, rows, stale, replaced>>

\* attendance.upsert in one statement: the times stay, the status goes.
MarkLeave(h) ==
    /\ job[h].at = "mark"
    /\ rows' = [rows EXCEPT ![KeyOf(job[h])] =
                  IF Exists(KeyOf(job[h]))
                  THEN [@ EXCEPT !.status = job[h].as, !.onLeave = TRUE]
                  ELSE [in |-> Never, out |-> Never, worked |-> 0,
                        status |-> job[h].as, onLeave |-> TRUE]]
    /\ job' = [job EXCEPT ![h] = Idle]
    /\ UNCHANGED <<clock, leaves, stale, replaced>>

-----------------------------------------------------------------------------

Tick ==
    /\ clock < MaxTime
    /\ clock' = clock + 1
    /\ UNCHANGED <<rows, leaves, job, stale, replaced>>

\* A handler ends where it is: a statement fails or the server is gone.  A leave
\* request may stay without its mark.
CutOff(h) ==
    /\ job[h] # Idle
    /\ job' = [job EXCEPT ![h] = Idle]
    /\ stale' = stale \ {h}
    /\ UNCHANGED <<clock, rows, leaves, replaced>>

Init ==
    /\ clock = 1
    /\ rows = [key \in Staff \X Days |-> NoRow]
    /\ leaves = {}
    /\ job = [h \in Requests |-> Idle]
    /\ stale = {}
    /\ replaced = {}

Next ==
    \/ \E h \in Requests, s \in Staff : BeginClockIn(h, s) \/ BeginClockOut(h, s)
    \/ \E h \in Requests : FindIn(h) \/ SelectRow(h) \/ InsertRow(h) \/ UpdateRow(h)
    \/ \E h \in Requests : FindOut(h) \/ SaveOut(h)
    \/ \E h \in Requests, s \in Staff, days \in LeaveSpans, as \in LeaveStatuses :
         CreateLeave(h, s, days, as)
    \/ \E h \in Requests : MarkLeave(h) \/ CutOff(h)
    \/ Tick

Spec == Init /\ [][Next]_vars

-----------------------------------------------------------------------------
(* Properties.                                                             *)

\* Also when requests overlap: a status of presence has the clock-in behind
\* it, COMPLETED the clock-out, and a status of absence an approved leave of
\* that member for that day.
StatusHasEvidence ==
    \A key \in Staff \X Days : Exists(key) =>
        LET row == rows[key] IN
          /\ row.status \in {"ON_TIME", "LATE", "COMPLETED"} => row.in # Never
          /\ row.status = "COMPLETED" => row.out # Never
          /\ row.out # Never => row.in # Never
          /\ row.status \in LeaveStatuses =>
               \E leave \in leaves : /\ leave.who = key[1]
                                     /\ key[2] \in leave.days
                                     /\ leave.as = row.status

\* However the requests of a day overlap, its row tells the day, unless a second
\* clock-in has replaced the first: the duration is the time between in and out, and,
\* unless a leave was recorded, the status is that of the arrival and the departure.
DayIsRight ==
    \A key \in (Staff \X Days) \ replaced : Exists(key) =>
        LET row == rows[key] IN
          /\ row.out # Never => row.in <= row.out /\ row.worked = row.out - row.in
          /\ ~ row.onLeave => row.status = IF row.in \in LateTimes THEN "LATE"
                                           ELSE IF row.out = Never THEN "ON_TIME"
                                           ELSE "COMPLETED"

\* A stale request takes the last of its steps, on the row of this key.
ByStale(step, key) ==
    \E h \in stale : job[h].at = step /\ KeyOf(job[h]) = key /\ job'[h] = Idle

\* "Staf sudah melakukan presensi": the first clock-in and the first clock-out of a day
\* stand.  Only a request that looked for them before they were recorded writes over
\* them, never one that came later, in whatever order the requests go on.
FirstTimesStand ==
    [][\A key \in Staff \X Days : Exists(key) =>
         /\ rows[key].in # Never /\ rows'[key].in # rows[key].in => ByStale("update", key)
         /\ rows[key].out # Never /\ rows'[key].out # rows[key].out =>
              ByStale("leave_work", key)]_vars
=============================================================================
