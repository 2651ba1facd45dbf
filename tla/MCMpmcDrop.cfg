CONSTANTS
    Producers = {p1}
    Consumers = {c1}
    Careless = {}
    NumBlocks = 2
    BlockSize = 1
    IndexSpan = 2
    MaxRound = 0
SPECIFICATION Spec
INVARIANT DropsEveryLiveValue
