\* Two slots, two jobs, every limit up to two, with and without once.
SPECIFICATION FairSpec
CONSTANTS
    w1 = w1 w2 = w2 j1 = j1 j2 = j2 NoJob = NoJob
    Slots = {w1, w2}
    Jobs = {j1, j2}
    MaxLimit = 2
    MaxTries = 2
    MaxArrivals = 1
INVARIANTS LimitKept EndsForAReason FirstErrorIsTheCause StoredIsCounted
PROPERTIES ErrorEndsRun LimitedRunEnds
CHECK_DEADLOCK FALSE
