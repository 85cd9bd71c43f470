SPECIFICATION ClockSpec
CONSTANTS
    Readers = {r}
    Size = 3
    Second = 2
    Rate = 5
    MaxFreq = 6
    Word = 32
    MaxStall = 2
    MaxRead = 2
    Horizon = 20
INVARIANT NearTruth
