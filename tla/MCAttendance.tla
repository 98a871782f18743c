---------------------------- MODULE MCAttendance ----------------------------
(* The instance of Attendance that TLC checks: two instants of the first   *)
(* date, the second of them late, and one of the next date.                *)
EXTENDS Attendance

MCDayOf == [t \in 1..3 |-> IF t < 3 THEN 1 ELSE 2]
MCLateTimes == {2}
MCLeaveSpans == {{1}, {2}}
=============================================================================
