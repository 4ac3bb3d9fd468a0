\* One repository with two old snapshots, two requests, a restart, under fairness.
SPECIFICATION FairSpec
CONSTANTS
    r1 = r1 r2 = r2 c1 = c1 c2 = c2 c3 = c3 b1 = b1 b2 = b2 b3 = b3
    Absent = Absent Partial = Partial None = None
    Stored <- Left Start = 3 Retain = 1
    Repos = {r1}
    Commits = {c1, c2, c3}
    Binds = {b1, b2}
    MaxRestarts = 1
INVARIANTS CompleteIsWhole LossNeedsACause
PROPERTIES RetentionWindow BindsAreAnswered
