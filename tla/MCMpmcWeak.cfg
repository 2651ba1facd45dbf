CONSTANTS
    Producers = {p1}
    Consumers = {c1}
    NumBlocks = 2
    BlockSize = 2
    IndexSpan = 4
    MaxRound = 1
SPECIFICATION Spec
INVARIANTS RaceFree WeakInv
PROPERTY ImplementsFifo
