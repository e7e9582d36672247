SPECIFICATION Spec
CONSTANTS
    c1 = c1
    c2 = c2
    e1 = e1
    e2 = e2
    e3 = e3
    e4 = e4
    t1 = t1
    t2 = t2
    s1 = s1
    none = none
    NoEntity = none
    Clients <- OneClient
    Events <- ThreeEvents
    Tasks <- NoEntities
    Schedules <- OneSchedule
    Fields <- StartAndEnd
    AiAttempts <- OneAttempt
    MaxLines = 1
    MaxTurns = 3
    MaxRequests = 1
    MaxCycles = 1
SYMMETRY SomeEvents
CHECK_DEADLOCK FALSE
INVARIANTS ReviewedTimes
