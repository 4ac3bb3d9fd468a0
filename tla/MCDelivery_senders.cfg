\* Two slots, two notifications of one item: dying and slow slots, failing posts.
SPECIFICATION Spec
CONSTANTS
    i1 = i1 i2 = i2 h1 = h1 h2 = h2 w1 = w1 w2 = w2 NoJob = NoJob
    Items = {i1}
    Hashes = {h1, h2}
    Slots = {w1, w2}
    MaxNotes = 2
    BatchSize = 2
    ChannelSet = TRUE
SYMMETRY Symmetry
INVARIANTS TypeOK OneSender DuplicateNeedsCause WithdrawnIsNotPosted
PROPERTIES KeepsPromise
