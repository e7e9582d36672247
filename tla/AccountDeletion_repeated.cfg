SPECIFICATION RepeatingSpec
CONSTANTS
    d1 = d1
    d2 = d2
    w1 = w1
    Calls = {d1, d2}
    Writers = {w1}
    NoTransaction = none
    MaxFaults = 3
    MaxWrites = 2
    MaxOnboardings = 1
INVARIANTS TypeOK NeverInConflict GoneIsGone
PROPERTIES DeletionCompletes
