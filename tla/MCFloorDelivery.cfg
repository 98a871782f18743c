CONSTANTS
    Tables = {t1, t2}
    Guests = {g1}
    Orders = {o1}
    Codes = {c1, c2}
    Staff = {s1, s2}
    Calls = {k1}
    Desks = {}
    NoGuest = NoGuest
    NoCode = NoCode
    StaffSets <- AllStatuses
    DeskSets <- NoStatuses
    MaxCrashes = 1
SPECIFICATION FairSpec
INVARIANT
    CleanupHasCause
PROPERTY
    SettledPaymentArrives
