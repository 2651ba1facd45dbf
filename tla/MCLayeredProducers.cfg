CONSTANTS
    p1 = p1
    p2 = p2
    t1 = t1
    c1 = c1
    NumLayers = 2
    Threads = {p1, p2, c1}
    LayerOf <- TwoProducers
    AtomicLayers = {0}
    NumBlocks = 2
    BlockSize = 2
    IndexSpan = 4
    MaxRound = 1
SPECIFICATION Spec
INVARIANTS SlotExclusive
