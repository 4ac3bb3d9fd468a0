\* Both sources, a pull request and an issue, one item within the limit.
SPECIFICATION FairSpec
CONSTANTS
    Order <- Both
    Numbers = {1, 2}
    Kind <- BothKinds
    Wants = {"pr", "issue"}
    Limit = 1
    PageSize = 2
    MaxChanges = 2
INVARIANTS WorkIsReadBack
PROPERTIES SuccessIsWhole ClosedWorkEnds ListedIsKnown
