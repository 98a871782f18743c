CONSTANTS
    Staff = {sari}
    Requests = {q1, q2}
    MaxTime = 3
    DayOf <- MCDayOf
    LateTimes <- MCLateTimes
    LeaveSpans <- MCLeaveSpans
SPECIFICATION Spec
INVARIANTS
    TypeOK
    StatusHasEvidence
    DayIsRight
PROPERTY
    FirstTimesStand
