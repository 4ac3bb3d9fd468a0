\* The database may refuse a result: markJobFailed updates the job by id alone.
SPECIFICATION Spec
CONSTANTS
    i1 = i1 h1 = h1 h2 = h2 w1 = w1 w2 = w2
    Items = {i1}
    Hashes = {h1, h2}
    Slots = {w1, w2}
    MaxAttempts = 2
    MaxUpdate = 2
    Priority <- OnePriority
    RequeueStatuses = {"running", "dead"}
    PersistErrors = TRUE
    NoHash = NoHash NoSlot = NoSlot NoJob = NoJob
SYMMETRY SlotHashSymmetry
INVARIANT ClosedItemIsSilent
