\* One item, two contents, two slots; the database does not refuse a result.
SPECIFICATION Spec
CONSTANTS
    i1 = i1 h1 = h1 h2 = h2 w1 = w1 w2 = w2
    Items = {i1}
    Hashes = {h1, h2}
    Slots = {w1, w2}
    MaxAttempts = 2
    MaxUpdate = 1
    Priority <- OnePriority
    RequeueStatuses = {"running", "dead", "skipped"}
    PersistErrors = FALSE
    NoHash = NoHash NoSlot = NoSlot NoJob = NoJob
SYMMETRY SlotHashSymmetry
INVARIANTS RunningIsLeased ClaimedCopyIsFresh RetryBudget
    OneResultPerQueueing ClosedItemIsSilent NothingUnwantedIsPaged OpenContentIsQueued
PROPERTIES LeaseProtects WorkersLeaveSettledJobs KeepsToLife
