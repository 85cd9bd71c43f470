SPECIFICATION ClockSpec
CONSTANTS
    Readers = {r}
    Size = 3
    Second = 2
    Rate = 5
    MaxFreq = 6
    Word = 100000
    MaxStall = 2
    MaxRead = 2
    Horizon = 20
INVARIANTS
    WholePoint
    NearTruth
PROPERTY FrequencyNears
