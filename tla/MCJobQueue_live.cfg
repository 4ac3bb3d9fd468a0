\* Two slots that may crash, a content that hydration supersedes, sources whose
\* reports are out of order, results the database refuses, under fairness.
SPECIFICATION ReportsSpec
CONSTANTS
    i1 = i1 h1 = h1 h2 = h2 w1 = w1 w2 = w2
    Items = {i1}
    Hashes = {h1, h2}
    Slots = {w1, w2}
    MaxAttempts = 2
    MaxUpdate = 2
    Priority <- OnePriority
    RequeueStatuses = {"running", "dead"}
    PersistErrors = TRUE
    NoHash = NoHash NoSlot = NoSlot NoJob = NoJob
PROPERTIES ResultsAreCurrent QueuedJobsSettle OrphanedLeasesEnd StrandedByARace
