SPECIFICATION Answering
CONSTANTS
    MaxNeed = 9
    MaxDate = 6
    MaxMinute = 5
    MaxParts = 3
CHECK_DEADLOCK FALSE
INVARIANTS DivisionsExact UnionCountsOnce
