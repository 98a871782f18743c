CONSTANTS
    Tables = {t1}
    Guests = {g1}
    Orders = {o1}
    Codes = {c1, c2}
    Staff = {s1}
    Calls = {k1}
    Desks = {}
    NoGuest = NoGuest
    NoCode = NoCode
    StaffSets <- NoStatuses
    DeskSets <- NoStatuses
    MaxCrashes = 0
SPECIFICATION Spec
PROPERTY
    PaidIsNotCancelled
CHECK_DEADLOCK FALSE
