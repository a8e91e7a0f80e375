SPECIFICATION TimeSpec
CONSTANTS
    Sub = 3
    Durations = {0, 1, 2}
    Horizon = 14
    MaxSkew = 6
    Deadlines = {1, 5, 7}
    DwordMod = 64
INVARIANTS
    NeverEarly
    NeverLate
    SleepsUntilDeadline
PROPERTIES
    TimedWaitEnds
