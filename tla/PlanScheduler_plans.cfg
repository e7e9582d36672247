SPECIFICATION Spec
CONSTANTS
    none = none
    NoDeadline = none
    Tasks <- TwoTasks
    Dates = 2
    PeriodsPerDate = 2
    WindowMinutes = 3
    LimitMinutes = 2
    Inputs <- FreshOrContinued
CHECK_DEADLOCK FALSE
INVARIANTS TypeOK DoneInTime CarryKept NothingBesideChecked AmountsWhole
PROPERTIES ImplementsPlacement
