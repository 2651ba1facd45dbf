CONSTANTS
    p1 = p1
    p2 = p2
    t1 = t1
    c1 = c1
    NumLayers = 3
    Threads = {p1, t1, c1}
    LayerOf <- OnePerLayer3
    AtomicLayers = {1}
    NumBlocks = 2
    BlockSize = 3
    IndexSpan = 4
    MaxRound = 1
SPECIFICATION FairSpec
INVARIANTS TypeOK SlotExclusive VariantMatches GiveWithinTake DropNeverPanics OrderInv EntryInv
PROPERTIES ImplementsPipeline NeverWedges NotAvailableIsHonest BusyIsHonest
