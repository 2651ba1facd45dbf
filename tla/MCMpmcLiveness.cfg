CONSTANTS
    Producers = {p1}
    Consumers = {c1, c2}
    Careless = {p1, c1}
    NumBlocks = 2
    BlockSize = 2
    IndexSpan = 4
    MaxRound = 0
SPECIFICATION FairSpec
INVARIANT SlotInv
PROPERTY NeverWedges
