-------------------------- MODULE AttendanceProofs --------------------------
(***************************************************************************)
(* Proofs about Attendance, for any staff, any number of requests, any     *)
(* calendar and any leave spans.  The first part is typing; the second     *)
(* shows that a status has its evidence; the third, that the row of a day  *)
(* is right unless its clock-in was replaced, and that its first times are *)
(* written over only by a request that had looked before.                  *)
(***************************************************************************)
EXTENDS Attendance, TLAPS

-----------------------------------------------------------------------------
(* Facts about the data.                                                   *)

\* DayOf gives each instant of the model a day of the model.
LEMMA TodayIsADay ==
    ASSUME TypeOK PROVE DayOf[clock] \in Days
BY DEF TypeOK, Days

\* A stored row is not the absent row.
LEMMA RowsExist ==
    ASSUME NEW row \in Row PROVE row # NoRow
BY DEF Row, NoRow, AttendanceStatus

\* What the step of a handler says about its data.
LEMMA JobShapes ==
    ASSUME TypeOK, NEW h \in Requests
    PROVE  /\ job[h].at \in {"find_in", "find_out"} =>
                /\ job[h] \in [at: {"find_in", "find_out"}, who: Staff, day: Days]
                /\ KeyOf(job[h]) \in Staff \X Days
           /\ job[h].at = "select" =>
                /\ job[h] \in [at: {"select"}, who: Staff, day: Days, found: Times]
                /\ KeyOf(job[h]) \in Staff \X Days
           /\ job[h].at \in {"insert", "update"} =>
                /\ job[h] \in [at: {"insert", "update"}, who: Staff, day: Days, now: Times]
                /\ KeyOf(job[h]) \in Staff \X Days
           /\ job[h].at = "leave_work" =>
                /\ job[h] \in [at: {"leave_work"}, who: Staff, day: Days,
                               found: Times, row: OpenRow]
                /\ KeyOf(job[h]) \in Staff \X Days
           /\ job[h].at = "mark" =>
                /\ job[h] \in [at: {"mark"}, who: Staff, day: Days, as: LeaveStatuses]
                /\ KeyOf(job[h]) \in Staff \X Days
<1>1. job[h] \in Job \cup {Idle}
  BY DEF TypeOK
<1>2. CASE job[h] = Idle
  BY <1>2 DEF Idle
<1>3. CASE job[h] \in [at: {"find_in", "find_out"}, who: Staff, day: Days]
  BY <1>3 DEF KeyOf
<1>4. CASE job[h] \in [at: {"select"}, who: Staff, day: Days, found: Times]
  BY <1>4 DEF KeyOf
<1>5. CASE job[h] \in [at: {"insert", "update"}, who: Staff, day: Days, now: Times]
  BY <1>5 DEF KeyOf
<1>6. CASE job[h] \in [at: {"leave_work"}, who: Staff, day: Days, found: Times, row: OpenRow]
  BY <1>6 DEF KeyOf
<1>7. CASE job[h] \in [at: {"mark"}, who: Staff, day: Days, as: LeaveStatuses]
  BY <1>7 DEF KeyOf
<1> QED
  BY <1>1, <1>2, <1>3, <1>4, <1>5, <1>6, <1>7 DEF Job

\* An instant between two instants is an instant.
LEMMA InstantsBetween ==
    ASSUME NEW a \in Times, NEW b \in Times, NEW t \in a..b
    PROVE  t \in Times /\ t \in Nat /\ a <= t /\ t <= b
BY AttendanceAssumption DEF Times

\* Entering keeps the handlers typed.
LEMMA EnterTyped ==
    ASSUME TypeOK, NEW h \in Requests, NEW j \in Job,
           KeyOf(j) \in Staff \X Days, Enter(h, j)
    PROVE  job' \in [Requests -> Job \cup {Idle}]
BY DEF TypeOK, Enter

-----------------------------------------------------------------------------
(* Typing, which needs to know that a handler that writes a row found one. *)

Approved(s, d, as) == \E leave \in leaves : leave.who = s /\ d \in leave.days /\ leave.as = as

JobsBacked ==
    \A h \in Requests :
        /\ job[h].at = "update" => Exists(KeyOf(job[h]))
        /\ job[h].at = "leave_work" => ClockedIn(KeyOf(job[h]))
        /\ job[h].at = "mark" => Approved(job[h].who, job[h].day, job[h].as)

\* Every step keeps the types.
LEMMA StepsTyped == TypeOK /\ JobsBacked /\ [Next]_vars => TypeOK'
<1> SUFFICES ASSUME TypeOK, JobsBacked, [Next]_vars PROVE TypeOK'
  OBVIOUS
<1> USE AttendanceAssumption
<1>1. ASSUME NEW h \in Requests, NEW s \in Staff, BeginClockIn(h, s) PROVE TypeOK'
  <2>1. PICK j : j = [at |-> "find_in", who |-> s, day |-> DayOf[clock]]
    OBVIOUS
  <2>2. j \in Job /\ KeyOf(j) \in Staff \X Days
    BY <2>1, TodayIsADay DEF Job, KeyOf
  <2>3. Enter(h, j)
    BY <1>1, <2>1 DEF BeginClockIn
  <2> QED
    BY <1>1, <2>2, <2>3, EnterTyped DEF BeginClockIn, TypeOK
<1>2. ASSUME NEW h \in Requests, NEW s \in Staff, BeginClockOut(h, s) PROVE TypeOK'
  <2>1. PICK j : j = [at |-> "find_out", who |-> s, day |-> DayOf[clock]]
    OBVIOUS
  <2>2. j \in Job /\ KeyOf(j) \in Staff \X Days
    BY <2>1, TodayIsADay DEF Job, KeyOf
  <2>3. Enter(h, j)
    BY <1>2, <2>1 DEF BeginClockOut
  <2> QED
    BY <1>2, <2>2, <2>3, EnterTyped DEF BeginClockOut, TypeOK
<1>3. ASSUME NEW h \in Requests, FindIn(h) PROVE TypeOK'
  <2>1. job[h].who \in Staff /\ job[h].day \in Days /\ clock \in Times
    BY <1>3, JobShapes DEF FindIn, TypeOK
  <2>2. [at |-> "select", who |-> job[h].who, day |-> job[h].day, found |-> clock] \in Job
    BY <2>1 DEF Job
  <2> QED
    BY <1>3, <2>2 DEF FindIn, TypeOK
<1>4. ASSUME NEW h \in Requests, SelectRow(h) PROVE TypeOK'
  <2>1. job[h].who \in Staff /\ job[h].day \in Days /\ job[h].found \in Times /\ clock \in Times
    BY <1>4, JobShapes DEF SelectRow, TypeOK
  <2>2. PICK now \in job[h].found..clock :
          job' = [job EXCEPT ![h] =
                    [at |-> IF Exists(KeyOf(@)) THEN "update" ELSE "insert",
                     who |-> @.who, day |-> @.day, now |-> now]]
    BY <1>4 DEF SelectRow
  <2>3. now \in Times
    BY <2>1, InstantsBetween
  <2>4. ASSUME NEW at \in {"insert", "update"}
        PROVE  [at |-> at, who |-> job[h].who, day |-> job[h].day, now |-> now] \in Job
    BY <2>1, <2>3 DEF Job
  <2> QED
    BY <1>4, <2>2, <2>4 DEF SelectRow, TypeOK
<1>5. ASSUME NEW h \in Requests, InsertRow(h) PROVE TypeOK'
  <2>1. job[h].now \in Times /\ KeyOf(job[h]) \in Staff \X Days
    BY <1>5, JobShapes DEF InsertRow
  <2>2. [in |-> job[h].now, out |-> Never, worked |-> 0,
         status |-> ArrivalStatus(job[h].now), onLeave |-> FALSE] \in Row
    BY <2>1 DEF Row, ArrivalStatus, AttendanceStatus
  <2> QED
    BY <1>5, <2>1, <2>2 DEF InsertRow, Rivals, TypeOK
<1>6. ASSUME NEW h \in Requests, UpdateRow(h) PROVE TypeOK'
  <2>1. job[h].now \in Times /\ KeyOf(job[h]) \in Staff \X Days
    BY <1>6, JobShapes DEF UpdateRow
  <2>2. rows[KeyOf(job[h])] \in Row
    BY <1>6, <2>1 DEF UpdateRow, JobsBacked, Exists, TypeOK
  <2>3. ASSUME NEW row \in Row, NEW now \in Times
        PROVE  [row EXCEPT !.in = now, !.status = ArrivalStatus(now)] \in Row
    BY DEF Row, ArrivalStatus, AttendanceStatus
  <2> QED
    BY <1>6, <2>1, <2>2, <2>3 DEF UpdateRow, Rivals, TypeOK
<1>7. ASSUME NEW h \in Requests, FindOut(h) PROVE TypeOK'
  <2>1. job[h].who \in Staff /\ job[h].day \in Days /\ clock \in Times
        /\ KeyOf(job[h]) \in Staff \X Days
    BY <1>7, JobShapes DEF FindOut, TypeOK
  <2>2. CASE ClockedIn(KeyOf(job[h])) /\ rows[KeyOf(job[h])].out = Never
    <3>1. rows[KeyOf(job[h])] \in OpenRow
      BY <2>1, <2>2 DEF ClockedIn, Exists, TypeOK, Row, OpenRow
    <3>2. [at |-> "leave_work", who |-> job[h].who, day |-> job[h].day,
           found |-> clock, row |-> rows[KeyOf(job[h])]] \in Job
      BY <2>1, <3>1 DEF Job
    <3> QED
      BY <1>7, <2>2, <3>2 DEF FindOut, TypeOK
  <2>3. CASE ~ (ClockedIn(KeyOf(job[h])) /\ rows[KeyOf(job[h])].out = Never)
    BY <1>7, <2>3 DEF FindOut, TypeOK
  <2> QED
    BY <2>2, <2>3
<1>8. ASSUME NEW h \in Requests, SaveOut(h) PROVE TypeOK'
  <2>1. /\ job[h].found \in Times /\ job[h].row \in OpenRow /\ clock \in Times
        /\ KeyOf(job[h]) \in Staff \X Days
    BY <1>8, JobShapes DEF SaveOut, TypeOK
  <2>2. rows[KeyOf(job[h])] \in Row
    BY <1>8, <2>1 DEF SaveOut, JobsBacked, ClockedIn, Exists, TypeOK
  <2>3. PICK now \in job[h].found..clock :
          rows' = [rows EXCEPT ![KeyOf(job[h])] =
                     [@ EXCEPT !.out = now,
                               !.worked = IF now >= job[h].row.in
                                          THEN now - job[h].row.in ELSE 0,
                               !.status = FinalStatus(job[h].row.status)]]
    BY <1>8 DEF SaveOut
  <2>4. now \in Times
    BY <2>1, InstantsBetween
  <2>5. PICK w : w = IF now >= job[h].row.in THEN now - job[h].row.in ELSE 0
    OBVIOUS
  <2> PICK st : st = FinalStatus(job[h].row.status)
    OBVIOUS
  <2> PICK k : k = KeyOf(job[h])
    OBVIOUS
  <2>6. w \in 0..MaxTime
    BY <2>1, <2>4, <2>5 DEF OpenRow, Times
  <2>7. st \in AttendanceStatus
    BY DEF FinalStatus, AttendanceStatus
  <2>8. ASSUME NEW row \in Row, NEW status \in AttendanceStatus
        PROVE  [row EXCEPT !.out = now, !.worked = w, !.status = status] \in Row
    BY <2>4, <2>6 DEF Row
  <2>9. rows' = [rows EXCEPT ![k] = [@ EXCEPT !.out = now, !.worked = w, !.status = st]]
    BY <2>3, <2>5
  <2>10. rows' \in [Staff \X Days -> Row \cup {NoRow}]
    BY <2>1, <2>2, <2>7, <2>8, <2>9 DEF TypeOK
  <2> QED
    BY <1>8, <2>10 DEF SaveOut, Rivals, TypeOK
<1>9. ASSUME NEW h \in Requests, NEW s \in Staff, NEW days \in LeaveSpans,
             NEW as \in LeaveStatuses, CreateLeave(h, s, days, as)
      PROVE TypeOK'
  <2> PICK leave : leave = [who |-> s, days |-> days, as |-> as]
    OBVIOUS
  <2>4. leave \in Leave
    BY DEF Leave
  <2>5. leaves' = leaves \cup {leave}
    BY <1>9 DEF CreateLeave
  <2>1. leaves' \subseteq Leave
    BY <2>4, <2>5 DEF TypeOK
  <2>2. CASE CoversToday(days)
    <3>1. PICK j : j = [at |-> "mark", who |-> s, day |-> DayOf[clock], as |-> as]
      OBVIOUS
    <3>2. j \in Job /\ KeyOf(j) \in Staff \X Days
      BY <3>1, TodayIsADay DEF Job, KeyOf
    <3>3. Enter(h, j)
      BY <1>9, <2>2, <3>1 DEF CreateLeave
    <3> QED
      BY <1>9, <2>1, <3>2, <3>3, EnterTyped DEF CreateLeave, TypeOK
  <2>3. CASE ~ CoversToday(days)
    BY <1>9, <2>1, <2>3 DEF CreateLeave, TypeOK
  <2> QED
    BY <2>2, <2>3
<1>10. ASSUME NEW h \in Requests, MarkLeave(h) PROVE TypeOK'
  <2>1. job[h].as \in LeaveStatuses /\ KeyOf(job[h]) \in Staff \X Days
    BY <1>10, JobShapes DEF MarkLeave
  <2>2. job[h].as \in AttendanceStatus
    BY <2>1 DEF LeaveStatuses, AttendanceStatus
  <2>3. ASSUME NEW row \in Row, NEW status \in AttendanceStatus
        PROVE  [row EXCEPT !.status = status, !.onLeave = TRUE] \in Row
    BY DEF Row
  <2>4. [in |-> Never, out |-> Never, worked |-> 0,
         status |-> job[h].as, onLeave |-> TRUE] \in Row
    BY <2>2 DEF Row
  <2> QED
    BY <1>10, <2>1, <2>2, <2>3, <2>4 DEF MarkLeave, TypeOK, Exists
<1>11. CASE Tick
  BY <1>11 DEF Tick, TypeOK, Times
<1>12. ASSUME NEW h \in Requests, CutOff(h) PROVE TypeOK'
  BY <1>12 DEF CutOff, TypeOK
<1>13. CASE UNCHANGED vars
  BY <1>13 DEF vars, TypeOK
<1> QED
  BY <1>1, <1>2, <1>3, <1>4, <1>5, <1>6, <1>7, <1>8, <1>9, <1>10, <1>11, <1>12, <1>13
     DEF Next

-----------------------------------------------------------------------------
(* What a step does to one row and to one handler.                         *)

\* A row changes only by the write of a handler for that member and day.
LEMMA RowChanges ==
    ASSUME TypeOK, JobsBacked, [Next]_vars, NEW key \in Staff \X Days
    PROVE  \/ rows'[key] = rows[key]
           \/ \E h \in Requests :
                /\ KeyOf(job[h]) = key
                /\ job'[h] = Idle
                /\ \/ /\ job[h].at = "insert" /\ ~ Exists(key)
                      /\ rows'[key] = [in |-> job[h].now, out |-> Never, worked |-> 0,
                                       status |-> ArrivalStatus(job[h].now),
                                       onLeave |-> FALSE]
                      /\ Rivals(h, ClockingIn) \subseteq stale'
                   \/ /\ job[h].at = "update" /\ Exists(key)
                      /\ rows'[key] = [rows[key] EXCEPT !.in = job[h].now,
                                          !.status = ArrivalStatus(job[h].now)]
                      /\ Rivals(h, ClockingIn) \subseteq stale'
                      /\ ClockedIn(key) => key \in replaced'
                   \/ /\ job[h].at = "leave_work" /\ ClockedIn(key)
                      /\ \E now \in job[h].found..clock :
                           rows'[key] = [rows[key] EXCEPT !.out = now,
                              !.worked = IF now >= job[h].row.in
                                         THEN now - job[h].row.in ELSE 0,
                              !.status = FinalStatus(job[h].row.status)]
                      /\ Rivals(h, {"leave_work"}) \subseteq stale'
                   \/ /\ job[h].at = "mark" /\ Exists(key)
                      /\ rows'[key] = [rows[key] EXCEPT !.status = job[h].as,
                                                        !.onLeave = TRUE]
                   \/ /\ job[h].at = "mark" /\ ~ Exists(key)
                      /\ rows'[key] = [in |-> Never, out |-> Never, worked |-> 0,
                                       status |-> job[h].as, onLeave |-> TRUE]
<1> USE DEF TypeOK
<1>1. ASSUME NEW h \in Requests, NEW s \in Staff, BeginClockIn(h, s) \/ BeginClockOut(h, s)
      PROVE rows' = rows
  BY <1>1 DEF BeginClockIn, BeginClockOut
<1>2. ASSUME NEW h \in Requests, FindIn(h) \/ SelectRow(h) \/ FindOut(h)
      PROVE rows' = rows
  BY <1>2 DEF FindIn, SelectRow, FindOut
<1>3. ASSUME NEW h \in Requests, NEW s \in Staff, NEW days \in LeaveSpans,
             NEW as \in LeaveStatuses, CreateLeave(h, s, days, as)
      PROVE rows' = rows
  BY <1>3 DEF CreateLeave
<1>4. ASSUME Tick \/ (\E h \in Requests : CutOff(h)) \/ UNCHANGED vars PROVE rows' = rows
  BY <1>4 DEF Tick, CutOff, vars
<1>5. ASSUME NEW h \in Requests, InsertRow(h), rows'[key] # rows[key]
      PROVE  /\ job'[h] = Idle /\ KeyOf(job[h]) = key /\ job[h].at = "insert" /\ ~ Exists(key)
             /\ rows'[key] = [in |-> job[h].now, out |-> Never, worked |-> 0,
                              status |-> ArrivalStatus(job[h].now), onLeave |-> FALSE]
             /\ Rivals(h, ClockingIn) \subseteq stale'
  BY <1>5 DEF InsertRow
<1>6. ASSUME NEW h \in Requests, UpdateRow(h), rows'[key] # rows[key]
      PROVE  /\ job'[h] = Idle /\ KeyOf(job[h]) = key /\ job[h].at = "update" /\ Exists(key)
             /\ rows'[key] = [rows[key] EXCEPT !.in = job[h].now,
                                 !.status = ArrivalStatus(job[h].now)]
             /\ Rivals(h, ClockingIn) \subseteq stale'
             /\ ClockedIn(key) => key \in replaced'
  BY <1>6 DEF UpdateRow, JobsBacked
<1>7. ASSUME NEW h \in Requests, SaveOut(h), rows'[key] # rows[key]
      PROVE  /\ job'[h] = Idle /\ KeyOf(job[h]) = key /\ job[h].at = "leave_work" /\ ClockedIn(key)
             /\ \E now \in job[h].found..clock :
                  rows'[key] = [rows[key] EXCEPT !.out = now,
                     !.worked = IF now >= job[h].row.in
                                THEN now - job[h].row.in ELSE 0,
                     !.status = FinalStatus(job[h].row.status)]
             /\ Rivals(h, {"leave_work"}) \subseteq stale'
  BY <1>7 DEF SaveOut, JobsBacked
<1>8. ASSUME NEW h \in Requests, MarkLeave(h), rows'[key] # rows[key]
      PROVE  /\ job'[h] = Idle /\ KeyOf(job[h]) = key /\ job[h].at = "mark"
             /\ Exists(key) => rows'[key] = [rows[key] EXCEPT !.status = job[h].as,
                                                             !.onLeave = TRUE]
             /\ ~ Exists(key) => rows'[key] = [in |-> Never, out |-> Never, worked |-> 0,
                                               status |-> job[h].as, onLeave |-> TRUE]
  BY <1>8 DEF MarkLeave
<1> QED
  BY <1>1, <1>2, <1>3, <1>4, <1>5, <1>6, <1>7, <1>8 DEF Next

\* Rows are never deleted and a clock-in is never taken back.
LEMMA RowsStay ==
    ASSUME TypeOK, JobsBacked, [Next]_vars, NEW key \in Staff \X Days
    PROVE  /\ Exists(key) => Exists(key)'
           /\ ClockedIn(key) => ClockedIn(key)'
<1>1. TypeOK'
  BY StepsTyped
<1>2. Exists(key) => rows[key] \in Row
  BY DEF TypeOK, Exists
<1>3. ASSUME NEW h \in Requests, job[h].at = "insert" \/ job[h].at = "update"
      PROVE  job[h].now \in Times /\ job[h].now # Never
  BY <1>3, JobShapes, AttendanceAssumption DEF Times, Never
<1>4. ASSUME Exists(key), rows'[key] # rows[key]
      PROVE  rows'[key] # NoRow /\ (rows[key].in # Never => rows'[key].in # Never)
  <2>1. rows[key] \in Row
    BY <1>2, <1>4
  <2>2. ASSUME rows'[key] \in Row PROVE rows'[key] # NoRow
    BY <2>2, RowsExist
  <2> QED
    BY <1>3, <1>4, <2>1, <2>2, RowChanges DEF Row, NoRow
<1> QED
  BY <1>4 DEF Exists, ClockedIn

\* Approved leaves stay.
LEMMA LeavesStay ==
    ASSUME [Next]_vars PROVE leaves \subseteq leaves'
BY DEF Next, vars, BeginClockIn, FindIn, SelectRow, InsertRow, UpdateRow, BeginClockOut,
       FindOut, SaveOut, CreateLeave, MarkLeave, Tick, CutOff

\* How a handler gets to the step it is at: it was there, or the step before
\* has been taken.
LEMMA JobChanges ==
    ASSUME TypeOK, [Next]_vars, NEW h \in Requests, job'[h] # Idle
    PROVE  \/ job'[h] = job[h]
           \/ /\ job[h] = Idle
              /\ rows' = rows
              /\ \/ job'[h].at \in {"find_in", "find_out"}
                 \/ job'[h].at = "mark" /\ Approved(job[h].who, job[h].day, job[h].as)'
           \/ /\ job[h].at = "find_in" /\ job'[h].at = "select"
              /\ KeyOf(job'[h]) = KeyOf(job[h]) /\ ~ ClockedIn(KeyOf(job[h]))
              /\ rows' = rows
           \/ /\ job[h].at = "select"
              /\ KeyOf(job'[h]) = KeyOf(job[h])
              /\ job'[h].at = IF Exists(KeyOf(job[h])) THEN "update" ELSE "insert"
              /\ \E now \in job[h].found..clock : job'[h].now = now
              /\ rows' = rows
           \/ /\ job[h].at = "find_out" /\ job'[h].at = "leave_work"
              /\ KeyOf(job'[h]) = KeyOf(job[h]) /\ ClockedIn(KeyOf(job[h]))
              /\ rows[KeyOf(job[h])].out = Never
              /\ job'[h].row = rows[KeyOf(job[h])] /\ job'[h].found = clock
              /\ rows' = rows
<1> USE DEF TypeOK
<1>1. ASSUME NEW g \in Requests, NEW s \in Staff, BeginClockIn(g, s), g = h
      PROVE  /\ job[h] = Idle /\ job'[h].at = "find_in" /\ rows' = rows
  BY <1>1 DEF BeginClockIn, Enter
<1>2. ASSUME NEW g \in Requests, NEW s \in Staff, BeginClockOut(g, s), g = h
      PROVE  /\ job[h] = Idle /\ job'[h].at = "find_out" /\ rows' = rows
  BY <1>2 DEF BeginClockOut, Enter
<1>3. ASSUME FindIn(h), job'[h] # Idle
      PROVE  /\ job[h].at = "find_in" /\ job'[h].at = "select"
             /\ KeyOf(job'[h]) = KeyOf(job[h]) /\ ~ ClockedIn(KeyOf(job[h]))
             /\ rows' = rows
  BY <1>3 DEF FindIn, KeyOf
<1>4. ASSUME SelectRow(h)
      PROVE  /\ job[h].at = "select" /\ KeyOf(job'[h]) = KeyOf(job[h])
             /\ job'[h].at = IF Exists(KeyOf(job[h])) THEN "update" ELSE "insert"
             /\ \E now \in job[h].found..clock : job'[h].now = now
             /\ rows' = rows
  BY <1>4 DEF SelectRow, KeyOf
<1>5. ASSUME FindOut(h), job'[h] # Idle
      PROVE  /\ job[h].at = "find_out" /\ job'[h].at = "leave_work"
             /\ KeyOf(job'[h]) = KeyOf(job[h]) /\ ClockedIn(KeyOf(job[h]))
             /\ rows[KeyOf(job[h])].out = Never
             /\ job'[h].row = rows[KeyOf(job[h])] /\ job'[h].found = clock
             /\ rows' = rows
  BY <1>5 DEF FindOut, KeyOf
<1>6. ASSUME NEW g \in Requests, NEW s \in Staff, NEW days \in LeaveSpans,
             NEW as \in LeaveStatuses, CreateLeave(g, s, days, as), job'[h] # job[h]
      PROVE  /\ job[h] = Idle /\ job'[h].at = "mark" /\ rows' = rows
             /\ Approved(job[h].who, job[h].day, job[h].as)'
  <2>1. /\ CoversToday(days)
        /\ Enter(g, [at |-> "mark", who |-> s, day |-> DayOf[clock], as |-> as])
    BY <1>6 DEF CreateLeave
  <2> PICK j : j = [at |-> "mark", who |-> s, day |-> DayOf[clock], as |-> as]
    OBVIOUS
  <2>2. g = h /\ job'[h] = j /\ job[h] = Idle
    BY <1>6, <2>1 DEF Enter
  <2> PICK leave : leave = [who |-> s, days |-> days, as |-> as]
    OBVIOUS
  <2>3. leave \in leaves'
    BY <1>6 DEF CreateLeave
  <2>5. job'[h].day \in leave.days
    BY <2>1, <2>2 DEF CoversToday
  <2>6. leave.who = job'[h].who /\ leave.as = job'[h].as
    BY <2>2
  <2>4. Approved(job[h].who, job[h].day, job[h].as)'
    BY <2>3, <2>5, <2>6 DEF Approved
  <2> QED
    BY <1>6, <2>1, <2>2, <2>4 DEF Enter, CreateLeave
<1>7. ASSUME NEW g \in Requests,
             InsertRow(g) \/ UpdateRow(g) \/ SaveOut(g) \/ MarkLeave(g)
      PROVE  job'[h] = job[h]
  BY <1>7 DEF InsertRow, UpdateRow, SaveOut, MarkLeave
<1>8. ASSUME NEW g \in Requests, g # h, NEW s \in Staff,
             BeginClockIn(g, s) \/ BeginClockOut(g, s)
      PROVE  job'[h] = job[h]
  BY <1>8 DEF BeginClockIn, BeginClockOut, Enter
<1>14. ASSUME NEW g \in Requests, g # h, FindIn(g) \/ SelectRow(g) \/ FindOut(g)
      PROVE  job'[h] = job[h]
  BY <1>14 DEF FindIn, SelectRow, FindOut
<1>9. ASSUME Tick \/ UNCHANGED vars PROVE job'[h] = job[h]
  BY <1>9 DEF Tick, vars
<1>10. ASSUME NEW g \in Requests, CutOff(g) PROVE job'[h] = job[h]
  BY <1>10 DEF CutOff
<1>11. CASE \E g \in Requests, s \in Staff : BeginClockIn(g, s) \/ BeginClockOut(g, s)
  BY <1>1, <1>2, <1>8, <1>11
<1>12. CASE \E g \in Requests : FindIn(g) \/ SelectRow(g) \/ FindOut(g)
  <2>1. PICK g \in Requests : FindIn(g) \/ SelectRow(g) \/ FindOut(g)
    BY <1>12
  <2>2. CASE g # h
    BY <1>14, <2>1, <2>2
  <2>3. CASE g = h
    BY <1>3, <1>4, <1>5, <2>1, <2>3
  <2> QED
    BY <2>2, <2>3
<1>13. CASE \E g \in Requests, s \in Staff, days \in LeaveSpans, as \in LeaveStatuses :
             CreateLeave(g, s, days, as)
  BY <1>6, <1>13
<1> QED
  BY <1>7, <1>9, <1>10, <1>11, <1>12, <1>13 DEF Next

\* What a handler relies on stays true until its write.
LEMMA StepsBacked == TypeOK /\ JobsBacked /\ [Next]_vars => JobsBacked'
<1> SUFFICES ASSUME TypeOK, JobsBacked, [Next]_vars, NEW h \in Requests
             PROVE  /\ job'[h].at = "update" => Exists(KeyOf(job[h]))'
                    /\ job'[h].at = "leave_work" => ClockedIn(KeyOf(job[h]))'
                    /\ job'[h].at = "mark" =>
                         Approved(job[h].who, job[h].day, job[h].as)'
  BY DEF JobsBacked
<1>1. CASE job'[h] = Idle
  BY <1>1 DEF Idle
<1>2. CASE job'[h] # Idle /\ job'[h] = job[h]
  <2>1. job'[h].at = "update" => Exists(KeyOf(job[h]))'
    <3> SUFFICES ASSUME job[h].at = "update" PROVE Exists(KeyOf(job[h]))'
      BY <1>2
    <3> PICK key : key = KeyOf(job[h])
      OBVIOUS
    <3>1. key \in Staff \X Days /\ Exists(key)
      BY JobShapes DEF JobsBacked
    <3>2. Exists(key)'
      BY <3>1, RowsStay
    <3> QED
      BY <1>2, <3>2 DEF KeyOf, Exists
  <2>2. job'[h].at = "leave_work" => ClockedIn(KeyOf(job[h]))'
    <3> SUFFICES ASSUME job[h].at = "leave_work" PROVE ClockedIn(KeyOf(job[h]))'
      BY <1>2
    <3> PICK key : key = KeyOf(job[h])
      OBVIOUS
    <3>1. key \in Staff \X Days /\ ClockedIn(key)
      BY JobShapes DEF JobsBacked
    <3>2. ClockedIn(key)'
      BY <3>1, RowsStay
    <3> QED
      BY <1>2, <3>2 DEF KeyOf, ClockedIn, Exists
  <2>3. job'[h].at = "mark" => Approved(job[h].who, job[h].day, job[h].as)'
    BY <1>2, LeavesStay DEF JobsBacked, Approved
  <2> QED
    BY <2>1, <2>2, <2>3
<1>3. CASE job'[h] # Idle /\ job'[h] # job[h]
  BY <1>3, JobChanges DEF Exists, ClockedIn
<1> QED
  BY <1>1, <1>2, <1>3

\* Every reachable state is typed, and the handlers under way have what their
\* next write needs.
THEOREM Typing == Spec => [](TypeOK /\ JobsBacked)
<1>1. Init => TypeOK /\ JobsBacked
  BY AttendanceAssumption DEF Init, TypeOK, JobsBacked, Times, Idle
<1>2. TypeOK /\ JobsBacked /\ [Next]_vars => (TypeOK /\ JobsBacked)'
  BY StepsTyped, StepsBacked
<1> QED
  BY <1>1, <1>2, PTL DEF Spec

-----------------------------------------------------------------------------
(* Statuses and their evidence.                                            *)

EvidenceFor(row, key) ==
    /\ row.status \in {"ON_TIME", "LATE", "COMPLETED"} => row.in # Never
    /\ row.status = "COMPLETED" => row.out # Never
    /\ row.out # Never => row.in # Never
    /\ row.status \in LeaveStatuses => Approved(key[1], key[2], row.status)

\* The values that the handlers write bring their evidence along.
LEMMA StepsKeepEvidence ==
    TypeOK /\ JobsBacked /\ StatusHasEvidence /\ [Next]_vars => StatusHasEvidence'
<1> SUFFICES ASSUME TypeOK, JobsBacked, StatusHasEvidence, [Next]_vars,
                    NEW key \in Staff \X Days, rows'[key] # NoRow
             PROVE  EvidenceFor(rows[key], key)'
  BY DEF StatusHasEvidence, EvidenceFor, Approved, Exists
<1>1. Exists(key) => EvidenceFor(rows[key], key)
  BY DEF StatusHasEvidence, EvidenceFor, Approved
<1>2. ASSUME NEW status PROVE Approved(key[1], key[2], status) => Approved(key[1], key[2], status)'
  BY LeavesStay DEF Approved
<1>3. CASE rows'[key] = rows[key]
  BY <1>1, <1>2, <1>3 DEF EvidenceFor, Exists
<1>4. ASSUME NEW h \in Requests, KeyOf(job[h]) = key,
             job[h].at = "insert" \/ job[h].at = "update"
      PROVE  /\ job[h].now # Never
             /\ ArrivalStatus(job[h].now) \in {"ON_TIME", "LATE"}
  BY <1>4, JobShapes, AttendanceAssumption DEF ArrivalStatus, Times, Never
<1>5. ASSUME NEW h \in Requests, KeyOf(job[h]) = key, job[h].at = "insert",
             rows'[key] = [in |-> job[h].now, out |-> Never, worked |-> 0,
                           status |-> ArrivalStatus(job[h].now), onLeave |-> FALSE]
      PROVE  EvidenceFor(rows[key], key)'
  BY <1>4, <1>5 DEF EvidenceFor, LeaveStatuses
<1>6. ASSUME NEW h \in Requests, KeyOf(job[h]) = key, job[h].at = "update", Exists(key),
             rows'[key] = [rows[key] EXCEPT !.in = job[h].now,
                              !.status = ArrivalStatus(job[h].now)]
      PROVE  EvidenceFor(rows[key], key)'
  <2>1. rows[key] \in Row
    BY <1>6 DEF Exists, TypeOK
  <2> QED
    BY <1>4, <1>6, <2>1 DEF EvidenceFor, LeaveStatuses, Row
<1>7. ASSUME NEW h \in Requests, KeyOf(job[h]) = key, job[h].at = "leave_work",
             ClockedIn(key),
             \E now \in job[h].found..clock :
               rows'[key] = [rows[key] EXCEPT !.out = now,
                  !.worked = IF now >= job[h].row.in THEN now - job[h].row.in ELSE 0,
                  !.status = FinalStatus(job[h].row.status)]
      PROVE  EvidenceFor(rows[key], key)'
  <2>1. rows[key] \in Row /\ rows[key].in # Never
    BY <1>7 DEF ClockedIn, Exists, TypeOK
  <2>2. PICK now \in job[h].found..clock :
          rows'[key] = [rows[key] EXCEPT !.out = now,
             !.worked = IF now >= job[h].row.in THEN now - job[h].row.in ELSE 0,
             !.status = FinalStatus(job[h].row.status)]
    BY <1>7
  <2>3. now \in Times
    BY <1>7, JobShapes, InstantsBetween DEF TypeOK
  <2>4. now # Never
    BY <2>3, AttendanceAssumption DEF Times, Never
  <2>5. /\ rows'[key].in = rows[key].in /\ rows'[key].out = now
        /\ rows'[key].status \in {"LATE", "COMPLETED"}
    BY <2>1, <2>2 DEF Row, FinalStatus
  <2> QED
    BY <2>1, <2>4, <2>5 DEF EvidenceFor, LeaveStatuses
<1>8. ASSUME NEW h \in Requests, KeyOf(job[h]) = key, job[h].at = "mark"
      PROVE  \E as \in LeaveStatuses : job[h].as = as /\ Approved(key[1], key[2], as)'
  <2>1. job[h].who = key[1] /\ job[h].day = key[2] /\ job[h].as \in LeaveStatuses
    BY <1>8, JobShapes DEF KeyOf
  <2>2. Approved(key[1], key[2], job[h].as)
    BY <1>8, <2>1 DEF JobsBacked
  <2> QED
    BY <2>1, <2>2, LeavesStay DEF Approved
<1>9. ASSUME NEW h \in Requests, KeyOf(job[h]) = key, job[h].at = "mark", Exists(key),
             rows'[key] = [rows[key] EXCEPT !.status = job[h].as, !.onLeave = TRUE]
      PROVE  EvidenceFor(rows[key], key)'
  <2>1. rows[key] \in Row
    BY <1>9 DEF Exists, TypeOK
  <2>2. PICK as \in LeaveStatuses : job[h].as = as /\ Approved(key[1], key[2], as)'
    BY <1>8, <1>9
  <2>3. /\ rows'[key].in = rows[key].in /\ rows'[key].out = rows[key].out
        /\ rows'[key].status = as
    BY <1>9, <2>1, <2>2 DEF Row
  <2>4. Approved(key[1], key[2], rows[key].status)'
    BY <2>2, <2>3 DEF Approved
  <2> QED
    BY <1>1, <1>9, <2>3, <2>4 DEF EvidenceFor, LeaveStatuses
<1>10. ASSUME NEW h \in Requests, KeyOf(job[h]) = key, job[h].at = "mark",
              rows'[key] = [in |-> Never, out |-> Never, worked |-> 0,
                            status |-> job[h].as, onLeave |-> TRUE]
       PROVE  EvidenceFor(rows[key], key)'
  <2>1. PICK as \in LeaveStatuses : job[h].as = as /\ Approved(key[1], key[2], as)'
    BY <1>8, <1>10
  <2>2. /\ rows'[key].in = Never /\ rows'[key].out = Never /\ rows'[key].status = as
    BY <1>10, <2>1
  <2>3. Approved(key[1], key[2], rows[key].status)'
    BY <2>1, <2>2 DEF Approved
  <2> QED
    BY <2>1, <2>2, <2>3 DEF EvidenceFor, LeaveStatuses
<1> QED
  BY <1>3, <1>5, <1>6, <1>7, <1>9, <1>10, RowChanges

\* For any number of overlapping requests and crashes, a status of presence
\* has its clock-in, COMPLETED its clock-out and an absence its leave.
THEOREM EvidenceTheorem == Spec => []StatusHasEvidence
<1>1. Init => StatusHasEvidence
  BY DEF Init, StatusHasEvidence, Exists
<1>2. TypeOK /\ JobsBacked /\ StatusHasEvidence /\ [Next]_vars => StatusHasEvidence'
  BY StepsKeepEvidence
<1> QED
  BY <1>1, <1>2, Typing, PTL DEF Spec

-----------------------------------------------------------------------------
(* The row of a day.                                                       *)

\* What a request looked for is still missing, unless it is stale.
Fresh ==
    \A h \in Requests : h \notin stale =>
        /\ job[h].at \in ClockingIn => ~ ClockedIn(KeyOf(job[h]))
        /\ job[h].at = "leave_work" => rows[KeyOf(job[h])].out = Never

\* The row that a clock-out found still tells the arrival, unless it was replaced.
FoundRowHolds ==
    \A h \in Requests : job[h].at = "leave_work" =>
        /\ job[h].row.in <= job[h].found
        /\ KeyOf(job[h]) \notin replaced =>
             /\ job[h].row.in = rows[KeyOf(job[h])].in
             /\ ~ rows[KeyOf(job[h])].onLeave =>
                  job[h].row.status = ArrivalStatus(job[h].row.in)

NothingAhead ==
    /\ \A key \in Staff \X Days : Exists(key) => rows[key].in <= clock
    /\ \A h \in Requests : job[h].at \in {"insert", "update"} => job[h].now <= clock

DayInv == /\ TypeOK /\ JobsBacked /\ StatusHasEvidence
          /\ Fresh /\ FoundRowHolds /\ NothingAhead /\ DayIsRight

\* A replaced clock-in stays on record, and a stale request does while it is under way.
LEMMA HistoryStays ==
    ASSUME TypeOK, [Next]_vars
    PROVE  /\ replaced \subseteq replaced'
           /\ \A h \in stale : job'[h] # Idle => h \in stale'
BY DEF Next, vars, Enter, BeginClockIn, FindIn, SelectRow, InsertRow, UpdateRow,
       BeginClockOut, FindOut, SaveOut, CreateLeave, MarkLeave, Tick, CutOff, TypeOK

LEMMA TimePasses ==
    ASSUME TypeOK, [Next]_vars PROVE clock \in Nat /\ clock' \in Nat /\ clock <= clock'
<1>1. clock' = clock \/ clock' = clock + 1
  BY DEF Next, vars, BeginClockIn, FindIn, SelectRow, InsertRow, UpdateRow,
         BeginClockOut, FindOut, SaveOut, CreateLeave, MarkLeave, Tick, CutOff
<1> QED
  BY <1>1, AttendanceAssumption DEF TypeOK, Times

\* No row and no handler has a time that is still to come.
LEMMA StepsNothingAhead ==
    TypeOK /\ JobsBacked /\ NothingAhead /\ [Next]_vars => NothingAhead'
<1> SUFFICES ASSUME TypeOK, JobsBacked, NothingAhead, [Next]_vars PROVE NothingAhead'
  OBVIOUS
<1>1. clock \in Nat /\ clock' \in Nat /\ clock <= clock'
  BY TimePasses
<1>2. ASSUME NEW key \in Staff \X Days, rows'[key] # NoRow PROVE rows'[key].in <= clock'
  <2>1. CASE rows'[key] = rows[key]
    <3>1. rows[key] \in Row /\ rows[key].in <= clock
      BY <1>2, <2>1 DEF NothingAhead, Exists, TypeOK
    <3>2. rows[key].in \in Nat
      BY <3>1, AttendanceAssumption DEF Row, Times, Never
    <3> QED
      BY <1>1, <2>1, <3>1, <3>2
  <2>2. ASSUME NEW h \in Requests, job[h].at \in {"insert", "update"}
        PROVE  job[h].now \in Nat /\ job[h].now <= clock'
    <3>1. job[h].now \in Nat
      BY <2>2, JobShapes, AttendanceAssumption DEF Times
    <3> QED
      BY <1>1, <2>2, <3>1 DEF NothingAhead
  <2>3. CASE rows'[key] # rows[key] /\ Exists(key)
    <3>1. rows[key] \in Row /\ rows[key].in <= clock
      BY <2>3 DEF NothingAhead, Exists, TypeOK
    <3>2. rows[key].in \in Nat
      BY <3>1, AttendanceAssumption DEF Row, Times, Never
    <3>3. rows[key].in <= clock'
      BY <1>1, <3>1, <3>2
    <3>4. \/ rows'[key].in = rows[key].in
          \/ \E h \in Requests : job[h].at = "update" /\ rows'[key].in = job[h].now
      BY <2>3, <3>1, RowChanges DEF Row
    <3> QED
      BY <2>2, <3>3, <3>4
  <2>4. CASE rows'[key] # rows[key] /\ ~ Exists(key)
    <3>2. ~ ClockedIn(key)
      BY <2>4 DEF ClockedIn
    <3>3. \E h \in Requests :
            \/ /\ job[h].at = "insert"
               /\ rows'[key] = [in |-> job[h].now, out |-> Never, worked |-> 0,
                                status |-> ArrivalStatus(job[h].now), onLeave |-> FALSE]
            \/ /\ job[h].at = "mark"
               /\ rows'[key] = [in |-> Never, out |-> Never, worked |-> 0,
                                status |-> job[h].as, onLeave |-> TRUE]
      BY <2>4, <3>2, RowChanges
    <3>1. \/ rows'[key].in = Never
          \/ \E h \in Requests : job[h].at = "insert" /\ rows'[key].in = job[h].now
      BY <3>3
    <3> QED
      BY <1>1, <2>2, <3>1 DEF Never
  <2> QED
    BY <2>1, <2>3, <2>4
<1>3. ASSUME NEW h \in Requests, job'[h].at \in {"insert", "update"}
      PROVE  job'[h].now <= clock'
  <2>1. CASE job'[h] = job[h]
    <3>1. job[h].now \in Nat /\ job[h].now <= clock
      BY <1>3, <2>1, JobShapes, AttendanceAssumption DEF Times, NothingAhead
    <3> QED
      BY <1>1, <2>1, <3>1
  <2>2. CASE job'[h] # job[h]
    <3>1. job[h].at = "select" /\ \E now \in job[h].found..clock : job'[h].now = now
      BY <1>3, <2>2, JobChanges DEF Idle
    <3>3. PICK now \in job[h].found..clock : job'[h].now = now
      BY <3>1
    <3>4. now \in Nat /\ now <= clock
      BY <3>1, JobShapes, InstantsBetween DEF TypeOK
    <3> QED
      BY <1>1, <3>3, <3>4
  <2> QED
    BY <2>1, <2>2
<1> QED
  BY <1>2, <1>3 DEF NothingAhead, Exists

\* What a request looked for stays missing until another one records it.
LEMMA StepsFresh == TypeOK /\ JobsBacked /\ Fresh /\ [Next]_vars => Fresh'
<1> SUFFICES ASSUME TypeOK, JobsBacked, Fresh, [Next]_vars,
                    NEW h \in Requests, job'[h] # Idle, h \notin stale'
             PROVE  /\ job'[h].at \in ClockingIn => ~ ClockedIn(KeyOf(job[h]))'
                    /\ job'[h].at = "leave_work" => rows'[KeyOf(job'[h])].out = Never
  BY DEF Fresh, Idle, ClockingIn, KeyOf
<1>1. h \notin stale
  BY HistoryStays
<1>2. CASE job'[h] = job[h] /\ job[h].at \in ClockingIn
  <2> PICK key : key = KeyOf(job[h])
    OBVIOUS
  <2>1. key \in Staff \X Days /\ ~ ClockedIn(key)
    BY <1>1, <1>2, JobShapes DEF Fresh, ClockingIn
  <2>2. ASSUME NEW g \in Requests, KeyOf(job[g]) = key, job'[g] = Idle,
               Rivals(g, ClockingIn) \subseteq stale'
        PROVE  FALSE
    BY <1>2, <2>2 DEF Rivals
  <2>3. Exists(key) => rows[key] \in Row
    BY <2>1 DEF TypeOK, Exists
  <2>4. \/ rows'[key] = rows[key]
        \/ \E g \in Requests :
             \/ /\ Exists(key)
                /\ rows'[key] = [rows[key] EXCEPT !.status = job[g].as, !.onLeave = TRUE]
             \/ rows'[key] = [in |-> Never, out |-> Never, worked |-> 0,
                              status |-> job[g].as, onLeave |-> TRUE]
    BY <2>1, <2>2, RowChanges
  <2>5. rows'[key] = NoRow \/ rows'[key].in = Never
    <3>1. CASE rows'[key] = rows[key]
      BY <2>1, <3>1 DEF ClockedIn, Exists
    <3>2. ASSUME NEW as, Exists(key),
                 rows'[key] = [rows[key] EXCEPT !.status = as, !.onLeave = TRUE]
          PROVE  rows'[key].in = Never
      BY <2>1, <2>3, <3>2 DEF ClockedIn, Row
    <3>3. ASSUME NEW as, rows'[key] = [in |-> Never, out |-> Never, worked |-> 0,
                                       status |-> as, onLeave |-> TRUE]
          PROVE  rows'[key].in = Never
      BY <3>3
    <3> QED
      BY <2>4, <3>1, <3>2, <3>3
  <2>6. ~ ClockedIn(key)'
    BY <2>5 DEF ClockedIn, Exists
  <2> QED
    BY <1>2, <2>6 DEF ClockedIn, Exists, KeyOf, ClockingIn
<1>3. CASE job'[h] = job[h] /\ job[h].at = "leave_work"
  <2> PICK key : key = KeyOf(job[h])
    OBVIOUS
  <2>1. key \in Staff \X Days /\ ClockedIn(key) /\ rows[key].out = Never
    BY <1>1, <1>3, JobShapes DEF Fresh, JobsBacked
  <2>2. ASSUME NEW g \in Requests, KeyOf(job[g]) = key, job'[g] = Idle,
               Rivals(g, {"leave_work"}) \subseteq stale'
        PROVE  FALSE
    BY <1>3, <2>2 DEF Rivals
  <2>3. Exists(key) /\ rows[key] \in Row
    BY <2>1 DEF TypeOK, ClockedIn, Exists
  <2>4. rows'[key].out = Never
    BY <2>1, <2>2, <2>3, RowChanges DEF Row
  <2> QED
    BY <1>3, <2>4 DEF KeyOf, ClockingIn
<1>4. CASE job'[h] # job[h]
  <2>1. CASE job'[h].at \in {"find_in", "find_out", "mark"}
    BY <2>1 DEF ClockingIn
  <2>2. CASE job[h].at = "find_in" /\ job'[h].at = "select" /\ rows' = rows
             /\ KeyOf(job'[h]) = KeyOf(job[h]) /\ ~ ClockedIn(KeyOf(job[h]))
    BY <2>2 DEF ClockedIn, Exists, KeyOf
  <2>3. CASE job[h].at = "select" /\ KeyOf(job'[h]) = KeyOf(job[h]) /\ rows' = rows
             /\ job'[h].at = IF Exists(KeyOf(job[h])) THEN "update" ELSE "insert"
    <3>1. ~ ClockedIn(KeyOf(job[h]))
      BY <1>1, <2>3 DEF Fresh, ClockingIn
    <3> QED
      BY <2>3, <3>1 DEF ClockedIn, Exists, KeyOf
  <2>4. CASE job[h].at = "find_out" /\ job'[h].at = "leave_work" /\ rows' = rows
             /\ KeyOf(job'[h]) = KeyOf(job[h]) /\ rows[KeyOf(job[h])].out = Never
    BY <2>4 DEF ClockingIn
  <2> QED
    BY <1>4, <2>1, <2>2, <2>3, <2>4, JobChanges
<1>5. CASE job'[h] = job[h] /\ job[h].at \notin ClockingIn \cup {"leave_work"}
  BY <1>5
<1> QED
  BY <1>2, <1>3, <1>4, <1>5

\* The arrival in a row stays as a clock-out found it until another clock-in replaces it.
LEMMA StepsFoundRowHolds ==
    TypeOK /\ JobsBacked /\ FoundRowHolds /\ NothingAhead /\ DayIsRight
      /\ [Next]_vars => FoundRowHolds'
<1> SUFFICES ASSUME TypeOK, JobsBacked, FoundRowHolds, NothingAhead, DayIsRight, [Next]_vars,
                    NEW h \in Requests, job'[h].at = "leave_work"
             PROVE  /\ job'[h].row.in <= job'[h].found
                    /\ KeyOf(job'[h]) \notin replaced' =>
                         /\ job'[h].row.in = rows'[KeyOf(job'[h])].in
                         /\ ~ rows'[KeyOf(job'[h])].onLeave =>
                              job'[h].row.status = ArrivalStatus(job'[h].row.in)
  BY DEF FoundRowHolds, KeyOf
<1>1. job'[h] # Idle
  BY DEF Idle
<1>2. CASE job'[h] = job[h]
  <2> PICK key : key = KeyOf(job[h])
    OBVIOUS
  <2>1. key \in Staff \X Days /\ ClockedIn(key) /\ Exists(key) /\ rows[key] \in Row
    BY <1>2, JobShapes DEF JobsBacked, ClockedIn, Exists, TypeOK
  <2>2. key \notin replaced' =>
          /\ rows'[key].in = rows[key].in
          /\ ~ rows'[key].onLeave => ~ rows[key].onLeave
    BY <2>1, RowChanges DEF Row
  <2>3. key \notin replaced' => key \notin replaced
    BY HistoryStays
  <2> QED
    BY <1>2, <2>2, <2>3 DEF FoundRowHolds, KeyOf
<1>3. CASE job'[h] # job[h]
  <2>1. /\ job[h].at = "find_out" /\ rows' = rows
        /\ KeyOf(job'[h]) = KeyOf(job[h]) /\ ClockedIn(KeyOf(job[h]))
        /\ rows[KeyOf(job[h])].out = Never
        /\ job'[h].row = rows[KeyOf(job[h])] /\ job'[h].found = clock
    BY <1>1, <1>3, JobChanges
  <2> PICK key : key = KeyOf(job[h])
    OBVIOUS
  <2>2. key \in Staff \X Days /\ Exists(key) /\ key \in Staff \X Days
    BY <2>1, JobShapes DEF ClockedIn
  <2>3. rows[key].in <= clock
    BY <2>2 DEF NothingAhead
  <2>4. key \notin replaced /\ ~ rows[key].onLeave =>
          rows[key].status = ArrivalStatus(rows[key].in)
    BY <2>1, <2>2 DEF DayIsRight, ArrivalStatus
  <2> QED
    BY <2>1, <2>3, <2>4, HistoryStays
<1> QED
  BY <1>2, <1>3

\* What a step does to the row of a day whose clock-in is not replaced.
LEMMA DayWrites ==
    ASSUME TypeOK, JobsBacked, StatusHasEvidence, FoundRowHolds, [Next]_vars,
           NEW key \in Staff \X Days, key \notin replaced', rows'[key] # rows[key]
    PROVE  \/ /\ ~ Exists(key)
              /\ rows'[key].out = Never
              /\ rows'[key].onLeave \/ rows'[key].status = ArrivalStatus(rows'[key].in)
           \/ /\ Exists(key)
              /\ rows'[key].out = Never
              /\ rows'[key].status = ArrivalStatus(rows'[key].in)
           \/ /\ Exists(key)
              /\ rows'[key].in = rows[key].in /\ rows'[key].onLeave = rows[key].onLeave
              /\ rows'[key].out \in Times /\ rows[key].in <= rows'[key].out
              /\ rows'[key].worked = rows'[key].out - rows[key].in
              /\ ~ rows[key].onLeave =>
                   rows'[key].status = FinalStatus(ArrivalStatus(rows[key].in))
           \/ /\ Exists(key) /\ rows'[key].onLeave
              /\ rows'[key].in = rows[key].in /\ rows'[key].out = rows[key].out
              /\ rows'[key].worked = rows[key].worked
<1>1. key \notin replaced
  BY HistoryStays
<1>2. Exists(key) => rows[key] \in Row /\ (rows[key].out # Never => rows[key].in # Never)
  BY DEF TypeOK, Exists, StatusHasEvidence
<1>3. ASSUME NEW h \in Requests, ~ Exists(key),
             rows'[key] = [in |-> job[h].now, out |-> Never, worked |-> 0,
                           status |-> ArrivalStatus(job[h].now), onLeave |-> FALSE]
      PROVE  /\ rows'[key].out = Never
             /\ rows'[key].status = ArrivalStatus(rows'[key].in)
  BY <1>3
<1>4. ASSUME NEW h \in Requests, Exists(key), ~ ClockedIn(key),
             rows'[key] = [rows[key] EXCEPT !.in = job[h].now,
                              !.status = ArrivalStatus(job[h].now)]
      PROVE  /\ rows'[key].out = Never
             /\ rows'[key].status = ArrivalStatus(rows'[key].in)
  <2>1. rows[key].out = Never
    BY <1>2, <1>4 DEF ClockedIn
  <2>2. PICK st : st = ArrivalStatus(job[h].now)
    OBVIOUS
  <2>3. rows'[key] = [rows[key] EXCEPT !.in = job[h].now, !.status = st]
    BY <1>4, <2>2
  <2>4. rows'[key].out = rows[key].out /\ rows'[key].in = job[h].now /\ rows'[key].status = st
    BY <1>2, <1>4, <2>3 DEF Row
  <2> QED
    BY <2>1, <2>2, <2>4
<1>5. ASSUME NEW h \in Requests, KeyOf(job[h]) = key, job[h].at = "leave_work",
             ClockedIn(key),
             \E now \in job[h].found..clock :
               rows'[key] = [rows[key] EXCEPT !.out = now,
                  !.worked = IF now >= job[h].row.in THEN now - job[h].row.in ELSE 0,
                  !.status = FinalStatus(job[h].row.status)]
      PROVE  /\ Exists(key)
             /\ rows'[key].in = rows[key].in /\ rows'[key].onLeave = rows[key].onLeave
             /\ rows'[key].out \in Times /\ rows[key].in <= rows'[key].out
             /\ rows'[key].worked = rows'[key].out - rows[key].in
             /\ ~ rows[key].onLeave =>
                  rows'[key].status = FinalStatus(ArrivalStatus(rows[key].in))
  <2>1. /\ job[h].row.in = rows[key].in /\ job[h].found \in Times /\ Exists(key)
        /\ rows[key].in <= job[h].found /\ rows[key] \in Row
        /\ ~ rows[key].onLeave => job[h].row.status = ArrivalStatus(rows[key].in)
    BY <1>1, <1>2, <1>5, JobShapes DEF FoundRowHolds, ClockedIn
  <2>2. PICK now \in job[h].found..clock :
          rows'[key] = [rows[key] EXCEPT !.out = now,
             !.worked = IF now >= rows[key].in THEN now - rows[key].in ELSE 0,
             !.status = FinalStatus(job[h].row.status)]
    BY <1>5, <2>1
  <2>3. now \in Times /\ now \in Nat /\ job[h].found <= now
    BY <2>1, InstantsBetween DEF TypeOK
  <2>4. rows[key].in \in Nat /\ job[h].found \in Nat
    BY <2>1, AttendanceAssumption DEF Row, Times, Never
  <2>5. now >= rows[key].in /\ rows[key].in <= now
    BY <2>1, <2>3, <2>4
  <2>6. PICK w : w = now - rows[key].in
    OBVIOUS
  <2>7. PICK st : st = FinalStatus(job[h].row.status)
    OBVIOUS
  <2>8. rows'[key] = [rows[key] EXCEPT !.out = now, !.worked = w, !.status = st]
    BY <2>2, <2>5, <2>6, <2>7
  <2>9. /\ rows'[key].in = rows[key].in /\ rows'[key].onLeave = rows[key].onLeave
        /\ rows'[key].out = now /\ rows'[key].worked = w /\ rows'[key].status = st
    BY <2>1, <2>8 DEF Row
  <2> QED
    BY <2>1, <2>3, <2>5, <2>6, <2>7, <2>9
<1>6. ASSUME NEW h \in Requests, Exists(key),
             rows'[key] = [rows[key] EXCEPT !.status = job[h].as, !.onLeave = TRUE]
      PROVE  /\ rows'[key].onLeave
             /\ rows'[key].in = rows[key].in /\ rows'[key].out = rows[key].out
             /\ rows'[key].worked = rows[key].worked
  BY <1>2, <1>6 DEF Row
<1>7. ASSUME NEW h \in Requests,
             rows'[key] = [in |-> Never, out |-> Never, worked |-> 0,
                           status |-> job[h].as, onLeave |-> TRUE]
      PROVE  rows'[key].out = Never /\ rows'[key].onLeave
  BY <1>7
<1> QED
  BY <1>3, <1>4, <1>5, <1>6, <1>7, RowChanges

\* The row of a day whose clock-in is not replaced stays right.
LEMMA StepsDayIsRight ==
    TypeOK /\ JobsBacked /\ StatusHasEvidence /\ FoundRowHolds /\ DayIsRight
      /\ [Next]_vars => DayIsRight'
<1> SUFFICES ASSUME TypeOK, JobsBacked, StatusHasEvidence, FoundRowHolds, DayIsRight,
                    [Next]_vars, NEW key \in Staff \X Days,
                    rows'[key] # NoRow, key \notin replaced'
             PROVE  /\ rows'[key].out # Never =>
                         /\ rows'[key].in <= rows'[key].out
                         /\ rows'[key].worked = rows'[key].out - rows'[key].in
                    /\ ~ rows'[key].onLeave =>
                         rows'[key].status = IF rows'[key].in \in LateTimes THEN "LATE"
                                             ELSE IF rows'[key].out = Never THEN "ON_TIME"
                                             ELSE "COMPLETED"
  BY DEF DayIsRight, Exists
<1>1. key \notin replaced
  BY HistoryStays
<1>2. Exists(key) =>
        /\ rows[key].out # Never => /\ rows[key].in <= rows[key].out
                                    /\ rows[key].worked = rows[key].out - rows[key].in
        /\ ~ rows[key].onLeave =>
             rows[key].status = IF rows[key].in \in LateTimes THEN "LATE"
                                ELSE IF rows[key].out = Never THEN "ON_TIME"
                                ELSE "COMPLETED"
  BY <1>1 DEF DayIsRight
<1>3. CASE rows'[key] = rows[key]
  BY <1>2, <1>3 DEF Exists
<1>4. CASE /\ rows'[key].out = Never
           /\ rows'[key].onLeave \/ rows'[key].status = ArrivalStatus(rows'[key].in)
  BY <1>4 DEF ArrivalStatus
<1>5. CASE /\ rows'[key].in = rows[key].in /\ rows'[key].onLeave = rows[key].onLeave
           /\ rows'[key].out \in Times /\ rows[key].in <= rows'[key].out
           /\ rows'[key].worked = rows'[key].out - rows[key].in
           /\ ~ rows[key].onLeave =>
                rows'[key].status = FinalStatus(ArrivalStatus(rows[key].in))
  <2>1. rows'[key].out # Never
    BY <1>5, AttendanceAssumption DEF Times, Never
  <2>2. FinalStatus(ArrivalStatus(rows[key].in)) =
          IF rows[key].in \in LateTimes THEN "LATE" ELSE "COMPLETED"
    BY DEF FinalStatus, ArrivalStatus
  <2> QED
    BY <1>5, <2>1, <2>2
<1>6. CASE /\ Exists(key) /\ rows'[key].onLeave
           /\ rows'[key].in = rows[key].in /\ rows'[key].out = rows[key].out
           /\ rows'[key].worked = rows[key].worked
  BY <1>2, <1>6
<1> QED
  BY <1>3, <1>4, <1>5, <1>6, DayWrites

LEMMA DayInvariant == Spec => []DayInv
<1>1. Init => DayInv
  <2>1. Init => TypeOK /\ JobsBacked
    BY AttendanceAssumption DEF Init, TypeOK, JobsBacked, Times, Idle
  <2> QED
    BY <2>1 DEF Init, DayInv, StatusHasEvidence, Fresh, FoundRowHolds, NothingAhead,
                DayIsRight, Exists, ClockingIn, Idle
<1>2. DayInv /\ [Next]_vars => DayInv'
  BY StepsTyped, StepsBacked, StepsKeepEvidence, StepsFresh, StepsFoundRowHolds,
     StepsNothingAhead, StepsDayIsRight DEF DayInv
<1> QED
  BY <1>1, <1>2, PTL DEF Spec

\* For any number of requests, any calendar and any failures: the row of a day is right
\* unless a second clock-in has replaced the first.
THEOREM DayTheorem == Spec => []DayIsRight
<1>1. DayInv => DayIsRight
  BY DEF DayInv
<1> QED
  BY <1>1, DayInvariant, PTL

\* Only a request that looked before a first clock-in or clock-out was recorded writes
\* over it: FirstTimesStand holds.
THEOREM FirstTimesTheorem == Spec => FirstTimesStand
<1>1. DayInv /\ [Next]_vars =>
        [\A key \in Staff \X Days : Exists(key) =>
           /\ rows[key].in # Never /\ rows'[key].in # rows[key].in => ByStale("update", key)
           /\ rows[key].out # Never /\ rows'[key].out # rows[key].out =>
                ByStale("leave_work", key)]_vars
  <2> SUFFICES ASSUME DayInv, [Next]_vars, NEW key \in Staff \X Days, Exists(key)
               PROVE  /\ rows[key].in # Never /\ rows'[key].in # rows[key].in =>
                           ByStale("update", key)
                      /\ rows[key].out # Never /\ rows'[key].out # rows[key].out =>
                           ByStale("leave_work", key)
    OBVIOUS
  <2>1. TypeOK /\ JobsBacked /\ rows[key] \in Row
    BY DEF DayInv, TypeOK, Exists
  <2>2. ASSUME NEW h \in Requests, KeyOf(job[h]) = key, job'[h] = Idle, h \notin stale
        PROVE  /\ job[h].at = "update" => ~ ClockedIn(key)
               /\ job[h].at = "leave_work" => rows[key].out = Never
    BY <2>2 DEF DayInv, Fresh, ClockingIn
  <2>3. ASSUME rows[key].in # Never, rows'[key].in # rows[key].in
        PROVE  ByStale("update", key)
    <3>1. PICK h \in Requests : KeyOf(job[h]) = key /\ job'[h] = Idle /\ job[h].at = "update"
      BY <2>1, <2>3, RowChanges DEF Row
    <3> QED
      BY <2>2, <2>3, <3>1 DEF ByStale, ClockedIn
  <2>4. ASSUME rows[key].out # Never, rows'[key].out # rows[key].out
        PROVE  ByStale("leave_work", key)
    <3>1. PICK h \in Requests : /\ KeyOf(job[h]) = key /\ job'[h] = Idle
                                /\ job[h].at = "leave_work"
      BY <2>1, <2>4, RowChanges DEF Row
    <3> QED
      BY <2>2, <2>4, <3>1 DEF ByStale
  <2> QED
    BY <2>3, <2>4
<1> QED
  BY <1>1, DayInvariant, PTL DEF Spec, FirstTimesStand
=============================================================================
