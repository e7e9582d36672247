SPECIFICATION Spec
CONSTANTS
    none = none
    NoDeadline = none
    Tasks <- OneTask
    Dates = 2
    PeriodsPerDate = 2
    WindowMinutes = 3
    LimitMinutes = 2
    Inputs <- OneContended
CHECK_DEADLOCK FALSE
INVARIANTS UnplacedWhenFull
