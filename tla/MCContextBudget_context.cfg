\* Limits of four sizes, diffs of up to four files with two scores.
SPECIFICATION Spec
CONSTANTS
    Options <- AllLimits
    Lengths = {0, 2100}
    ChunkLengths = {60, 900, 5200}
    Scores = {1, 10}
    MaxChunks = 4
INVARIANTS OnlyLaterPagesUnsaid BestFilesShown ManyFilesShown OverrunIsBounded
