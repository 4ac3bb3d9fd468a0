\* One slot that may die, batches of one, under fairness.
SPECIFICATION FairSpec
CONSTANTS
    i1 = i1 i2 = i2 h1 = h1 h2 = h2 w1 = w1 w2 = w2 NoJob = NoJob
    Items = {i1}
    Hashes = {h1, h2}
    Slots = {w1}
    MaxNotes = 2
    BatchSize = 1
    ChannelSet = TRUE
PROPERTIES OpenNotesSettle
