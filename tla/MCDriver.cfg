CONSTANTS
    p1 = p1
    t1 = t1
    t2 = t2
    c1 = c1
    NumLayers = 3
    Threads = {p1, t1, c1}
    LayerOf <- OnePerLayer
    AtomicLayers = {1}
    NumBlocks = 3
    BlockSize = 2
    IndexSpan = 4
    MaxRound = 9
    Programs <- SmallPrograms
SPECIFICATION FairDriverSpec
INVARIANTS NothingLeft PanicsSpoilOneSlot
PROPERTY Terminates
