CONSTANTS
    Producers = {p1, p2}
    Consumers = {c1}
    Careless = {}
    NumBlocks = 2
    BlockSize = 3
    IndexSpan = 4
    MaxRound = 0
SPECIFICATION Spec
INVARIANT SlotExclusive
