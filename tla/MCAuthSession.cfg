CONSTANTS
    Requests = {q1, q2}
    Users = {ani, budi}
    Keys = {k1, k2}
    NoKey = nokey
    MaxCrashes = 1
SPECIFICATION Spec
INVARIANTS
    TypeOK
    EndedSessionsStayEnded
    ClearAnswersAreLate
    RefusedKeysWereLost
SYMMETRY AuthSymmetry
CHECK_DEADLOCK FALSE
