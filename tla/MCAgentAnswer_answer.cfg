\* Two runs, with one session directory or with two.
SPECIFICATION Spec
CONSTANTS
    r1 = r1 r2 = r2 d1 = d1 d2 = d2
    Runs = {r1, r2}
    Dirs = {d1, d2}
    MaxTime = 2
    NoPayload = NoPayload
SYMMETRY Symmetry
INVARIANTS ForeignAnswersHaveCauses PrintedWasSubmitted
CHECK_DEADLOCK FALSE
